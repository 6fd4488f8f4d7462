--------------------------- MODULE TrustRootKeys ---------------------------
(***************************************************************************)
(* The way of a TrustRoot's keys to the checks that use them: validation   *)
(* (pkg/apis/policy/v1alpha1/trustroot_validation.go), the conversion of   *)
(* inline keys (pkg/apis/config/sigstore_keys.go) or of the targets of a   *)
(* TUF repository (pkg/reconciler/trustroot, pkg/tuf), the log IDs, the    *)
(* entry of the ConfigMap, its parsing, and the certificate pools and log  *)
(* keys that the webhook takes from it; and what the tester loads.         *)
(*                                                                         *)
(*   chain  [blocks, tail]: PEM blocks, each a certificate or anything     *)
(*          else, then nothing (""), white space or other text;            *)
(*   ca     [subject, uri, chain] and log [url, hash, key]; subject is     *)
(*          FALSE when a part of it is missing, uri and url "" when empty; *)
(*   key    "" (missing), "text" (no PEM), "der" (no key) or its kind;     *)
(*   repository, remote  [root, mirror, target].                           *)
(* The races of the reconciler are in TrustRootSync.                       *)
(***************************************************************************)
EXTENDS Naturals, Sequences, FiniteSets, Functions

CONSTANTS Null,      \* no value: an error, or a field that is not set
          Leaves,    \* certificates that are no CA's
          Inters,    \* CA certificates signed by another one
          Roots,     \* CA certificates that sign themselves
          Specs,     \* TrustRootSpecs: [repository, remote, keys]
          Contents   \* TUF repositories: [client, name, reached, trusted, targets]

\* What users write,
Chains == [blocks : Seq(STRING), tail : STRING]
WrittenCAs == [subject : BOOLEAN, uri : STRING, chain : Chains]
WrittenLogs == [url : STRING, hash : STRING, key : STRING]
WrittenKeys == [cas : Seq(WrittenCAs), tsas : Seq(WrittenCAs),
                ctlogs : Seq(WrittenLogs), tlogs : Seq(WrittenLogs)]
Repositories == [root : STRING, mirror : STRING, target : STRING]

\* and what repositories and the ConfigMap hold.
HeldCAs == [uri : STRING, chain : Seq(STRING)]
HeldLogs ==
  [url : STRING, hash : {"SHA2_256", "SHA2_384", "SHA2_512", "UNSPECIFIED"}, key : STRING,
   details : {"ECDSA_P256_SHA_256", "ECDSA_P384_SHA_384", "ECDSA_P521_SHA_512", "RSA_PSS_2048_SHA256",
              "RSA_PSS_3072_SHA256", "RSA_PSS_4096_SHA256", "UNSPECIFIED"}, id : STRING]
HeldKeys == [cas : Seq(HeldCAs), tsas : Seq(HeldCAs), ctlogs : Seq(HeldLogs), tlogs : Seq(HeldLogs)]

ASSUME SpecsAssumption ==
  \A sp \in Specs : /\ sp.repository \in Repositories \cup {Null}
                    /\ sp.remote \in Repositories \cup {Null}
                    /\ sp.keys \in WrittenKeys \cup {Null}
ASSUME ContentsAssumption ==
  \A c \in Contents :
    /\ c.name # "" /\ c.trusted \in HeldKeys \cup {Null} /\ IsFiniteSet(c.targets)
    /\ \A t \in c.targets : /\ t.uri \in STRING
                            /\ t.usage = "Fulcio" => t.data \in Chains
                            /\ t.usage \in {"CTFE", "Rekor"} => t.data \in STRING

\* What the checks get.
Pools == [roots : SUBSET STRING, inters : SUBSET STRING, ctlogs : SUBSET (STRING \X STRING)]
LogKeys == [tlogs : SUBSET (STRING \X STRING), url : STRING \cup {""}]
TimestampPools == [cert : SUBSET STRING, inters : SUBSET STRING, roots : SUBSET STRING]

ASSUME NullAssumption ==
  /\ Null \notin Seq(STRING) /\ Null \notin WrittenKeys /\ Null \notin Repositories
  /\ Null \notin HeldKeys /\ Null \notin Pools /\ Null \notin LogKeys /\ Null \notin TimestampPools

VARIABLES spec,      \* the TrustRoot as the user wrote it
          content,   \* what its repository holds now
          stage,     \* how far its keys have come
          keys,      \* what the ConfigMap holds of it, then the webhook
          opts       \* what the checks get

keysVars == <<spec, content, stage, keys, opts>>

KeysInit ==
  /\ spec \in Specs
  /\ content \in IF spec.keys = Null THEN Contents ELSE {Null}   \* inline keys have no repository
  /\ stage = "written" /\ keys = Null /\ opts = Null

Map(s, Op(_)) == [i \in DOMAIN s |-> Op(s[i])]

-----------------------------------------------------------------------------
(* PEM.                                                                     *)

\* Every block, whatever it holds; anything after the last one is an error.
DeserializeCertChain(ch) == IF ch.tail # "" THEN Null ELSE ch.blocks

\* External, UnmarshalCertificatesFromPEM: white space at the end is trimmed,
\* and a block that is no certificate is an error.
Certificates(blocks) ==
  IF Range(blocks) \subseteq Leaves \cup Inters \cup Roots THEN blocks ELSE Null
Unmarshal(ch) == IF ch.tail = "text" THEN Null ELSE Certificates(ch.blocks)

\* SplitPEMCertificateChain and splitPEMCertificateChain: where the certificates of a
\* kind are, and which they are.
Of(certs, kind) == {n \in DOMAIN certs : certs[n] \in kind}
Pool(certs, kind) == {certs[n] : n \in Of(certs, kind)}

IsKey(key) == key \notin {"", "text", "der"}
IsECDSA(key) == key \in {"p224", "p256", "p384", "p521"}

\* DeserializePublicKey: the details by the curve, or by Size(), which counts the
\* bytes of an RSA modulus: a key of 2048 bits has 256, and the cases are those of
\* keys of 16384, 24576 and 32768 bits.
KeyDetails(key) ==
  CASE key = "p256" -> "ECDSA_P256_SHA_256"
    [] key = "p384" -> "ECDSA_P384_SHA_384"
    [] key = "p521" -> "ECDSA_P521_SHA_512"
    [] key = "rsa16384" -> "RSA_PSS_2048_SHA256"
    [] key = "rsa24576" -> "RSA_PSS_3072_SHA256"
    [] key = "rsa32768" -> "RSA_PSS_4096_SHA256"
    [] OTHER -> "UNSPECIFIED"

HashAlgorithm(hash) ==
  CASE hash \in {"sha-256", "sha256"} -> "SHA2_256"
    [] hash \in {"sha-384", "sha384"} -> "SHA2_384"
    [] hash \in {"sha-512", "sha512"} -> "SHA2_512"
    [] OTHER -> "UNSPECIFIED"

-----------------------------------------------------------------------------
(* TrustRoot.Validate.                                                      *)

InvalidCertificateAuthority(ca) ==
  ~ca.subject \/ ca.uri = "" \/ ca.chain = [blocks |-> <<>>, tail |-> ""]
\* Mutant of InvalidTimeStampAuthority: the leaves are not counted.
InvalidWithoutCount(ca) == InvalidCertificateAuthority(ca) \/ Unmarshal(ca.chain) = Null
InvalidTimeStampAuthority(ca) ==
  \/ InvalidCertificateAuthority(ca)
  \/ Unmarshal(ca.chain) = Null
  \/ Unmarshal(ca.chain) # Null /\ Cardinality(Of(Unmarshal(ca.chain), Leaves)) > 1
InvalidLog(log) == log.url = "" \/ log.hash = "" \/ log.key = ""

\* A loop that assigns to errors: the last element's verdict stays, and an empty
\* list leaves the errors there are.
Errors(verdicts, errors) == IF verdicts = <<>> THEN errors ELSE verdicts[Len(verdicts)]

InvalidKeys(k) ==
  LET missing == k.cas = <<>> /\ k.tsas = <<>>
      cas == Errors(Map(k.cas, InvalidCertificateAuthority), missing)
      tsas == Errors(Map(k.tsas, InvalidTimeStampAuthority), cas)
      ctlogs == Errors(Map(k.ctlogs, InvalidLog), tsas)
  IN Errors(Map(k.tlogs, InvalidLog), ctlogs)

\* ValidateRoot wants JSON with signatures; the targets have their default by now.
InvalidRoot(root) == root # "signed"
InvalidRemote(r) == r.mirror = "" \/ InvalidRoot(r.root)
\* The TUF clients: ClientFromSerializedMirror and ClientFromRemote make one, and
\* GetTopLevelTargets gets on with its own updater, or fails to.
Opens(c) == c.client # "closed"
Lists(c) == c.client = "ok"
\* A mirror in the spec has to open, and to list its targets.
InvalidRepository(r) ==
  r.mirror # "tar" \/ InvalidRoot(r.root) \/ ~Opens(content) \/ ~Lists(content)

Given(sp) == {f \in {"repository", "remote", "keys"} : sp[f] # Null}
Valid(sp) ==
  \/ Given(sp) = {"repository"} /\ ~InvalidRepository(sp.repository)
  \/ Given(sp) = {"remote"} /\ ~InvalidRemote(sp.remote)
  \/ Given(sp) = {"keys"} /\ ~InvalidKeys(sp.keys)

Admit ==
  /\ stage = "written"
  /\ stage' = IF Valid(spec) THEN "admitted" ELSE "rejected"
  /\ UNCHANGED <<spec, content, keys, opts>>

-----------------------------------------------------------------------------
(* ConvertSigstoreKeys.  Conversions give the set of possible results, and  *)
(* no result when they fail.                                                *)

ConvertCA(ca) == [uri |-> ca.uri, chain |-> DeserializeCertChain(ca.chain)]
ConvertLog(log) ==
  [url |-> log.url, hash |-> HashAlgorithm(log.hash), key |-> log.key,
   details |-> KeyDetails(log.key), id |-> log.key]

ConvertSigstoreKeys(k) ==
  {sk \in {[cas |-> Map(k.cas, ConvertCA), tsas |-> Map(k.tsas, ConvertCA),
            ctlogs |-> Map(k.ctlogs, ConvertLog), tlogs |-> Map(k.tlogs, ConvertLog)]} :
     /\ \A ca \in Range(sk.cas) \cup Range(sk.tsas) : ca.chain # Null
     /\ \A log \in Range(sk.ctlogs) \cup Range(sk.tlogs) : IsKey(log.key)}

-----------------------------------------------------------------------------
(* GetSigstoreKeysFromTuf.                                                  *)

\* The targets of the top level are read in any order: [usage, uri, data, found]; usage
\* is "none" without custom metadata, "malformed" when they do not parse.
For(c, usage) == {t \in c.targets : t.usage = usage}
Orders(S) == {f \in [1..Cardinality(S) -> S] : Range(f) = S}
LegacyCA(t) == ConvertCA([uri |-> t.uri, chain |-> t.data])
LegacyLog(t) == ConvertLog([url |-> t.uri, hash |-> "sha256", key |-> t.data])
LegacyKeys(c) ==
  {sk \in {[cas |-> Map(f, LegacyCA), tsas |-> <<>>, ctlogs |-> Map(ct, LegacyLog), tlogs |-> Map(r, LegacyLog)] :
             f \in Orders(For(c, "Fulcio")), ct \in Orders(For(c, "CTFE")), r \in Orders(For(c, "Rekor"))} :
     /\ Lists(c) /\ sk.cas # <<>>
     /\ \A t \in c.targets : t.usage \notin {"none", "malformed"} => t.found
     /\ \A ca \in Range(sk.cas) : ca.chain # Null
     /\ \A log \in Range(sk.ctlogs) \cup Range(sk.tlogs) : IsKey(log.key)}

\* Mutant of GetSigstoreKeysFromTuf: any error of the trusted root falls back.
FallsBackAlways(c, target) ==
  IF ~Opens(c) THEN {}
  ELSE IF c.reached /\ c.name = target THEN {c.trusted} \ {Null} ELSE LegacyKeys(c)

\* The trusted root, in whose place the legacy targets are read only when there is
\* no such target; trusted is Null for a target that does not parse.
GetSigstoreKeysFromTuf(c, target) ==
  CASE ~Opens(c) \/ ~c.reached -> {}
    [] Opens(c) /\ c.reached /\ c.name = target -> {c.trusted} \ {Null}
    [] OTHER -> LegacyKeys(c)

Target(r) == IF r.target = "" THEN "trusted_root.json" ELSE r.target

\* The switch of ReconcileKind.
SigstoreKeys(sp) ==
  CASE sp.repository # Null -> GetSigstoreKeysFromTuf(content, Target(sp.repository))
    [] sp.repository = Null /\ sp.remote # Null -> GetSigstoreKeysFromTuf(content, Target(sp.remote))
    [] OTHER -> ConvertSigstoreKeys(sp.keys)

\* GetKeysFromTrustRoot of the tester, which asks for a target without a name.
GetKeysFromTrustRoot(sp) ==
  IF sp.remote # Null \/ sp.repository # Null THEN GetSigstoreKeysFromTuf(content, "")
  ELSE ConvertSigstoreKeys(sp.keys)

\* Mutant of LogsPass: any key will do for Rekor.
AnyKey(sk) == \A log \in Range(sk.tlogs) \cup Range(sk.ctlogs) : IsKey(log.key)

\* The loops over the logs, with pemToKeyAndID.
LogsPass(sk) ==
  /\ \A log \in Range(sk.tlogs) : IsECDSA(log.key)
  /\ \A log \in Range(sk.ctlogs) : IsKey(log.key)
WithID(log) == [log EXCEPT !.id = log.key]
Published(sk) ==
  [cas |-> sk.cas, tsas |-> sk.tsas, ctlogs |-> Map(sk.ctlogs, WithID), tlogs |-> Map(sk.tlogs, WithID)]

\* ReconcileKind, without its writes to the ConfigMap failing.
ReconcileKind ==
  /\ stage = "admitted"
  /\ \/ \E sk \in SigstoreKeys(spec) :
          /\ LogsPass(sk)
          /\ keys' = Published(sk)
          /\ stage' = "published"
     \/ /\ \A sk \in SigstoreKeys(spec) : ~LogsPass(sk)
        /\ stage' = "failed" /\ UNCHANGED keys
  /\ UNCHANGED <<spec, content, opts>>

\* External: a remote repository changes, also between two looks at it.
Change ==
  /\ spec.remote # Null /\ stage \in {"written", "admitted"}
  /\ content' \in Contents \ {content}
  /\ UNCHANGED <<spec, stage, keys, opts>>

-----------------------------------------------------------------------------
(* The webhook.                                                             *)

\* fulcioCertsFromAuthority: the certificates of all authorities, by the signer.
FulcioCerts(sk) ==
  LET chains == {Certificates(ca.chain) : ca \in Range(sk.cas)}
      certs == UNION {Range(ch) : ch \in chains}
  IN IF Null \in chains \/ \E log \in Range(sk.ctlogs) : ~IsKey(log.key) THEN Null
     ELSE [roots |-> certs \cap Roots, inters |-> certs \ Roots,
           ctlogs |-> {<<log.id, log.key>> : log \in Range(sk.ctlogs)}]

\* rekorKeysFromTrustRef: the URL is the one of the last log.
RekorKeys(sk) ==
  IF \E log \in Range(sk.tlogs) : ~IsECDSA(log.key) THEN Null
  ELSE [tlogs |-> {<<log.id, log.key>> : log \in Range(sk.tlogs)},
        url |-> IF sk.tlogs = <<>> THEN "" ELSE sk.tlogs[Len(sk.tlogs)].url]

\* The loop of checkOptsFromAuthority over the timestamp authorities: an authority
\* without a certificate of its own leaves the one of an earlier authority.
CertificatesOf(ca) == Certificates(ca.chain)
Timestamps(sk) ==
  LET chains == Map(sk.tsas, CertificatesOf)
      named == {m \in DOMAIN chains : Of(chains[m], Leaves) # {}}
      last == CHOOSE m \in named : \A n \in named : n <= m
  IN IF \E m \in DOMAIN chains : chains[m] = Null \/ Cardinality(Of(chains[m], Leaves)) > 1 THEN Null
     ELSE [cert |-> IF named = {} THEN {} ELSE Pool(chains[last], Leaves),
           inters |-> IF chains = <<>> THEN {} ELSE Pool(chains[Len(chains)], Inters),
           roots |-> IF chains = <<>> THEN {} ELSE Pool(chains[Len(chains)], Roots)]

Use ==
  /\ stage = "published"
  /\ opts' = [fulcio |-> FulcioCerts(keys), rekor |-> RekorKeys(keys), tsa |-> Timestamps(keys)]
  /\ stage' = "used"
  /\ UNCHANGED <<spec, content, keys>>

KeysNext == Admit \/ ReconcileKind \/ Change \/ Use

KeysSpec == KeysInit /\ [][KeysNext]_keysVars

-----------------------------------------------------------------------------
(* Properties.                                                              *)

\* Where the keys in the ConfigMap came from: the certificates and log keys of the
\* inline keys, of the trusted root, or of the legacy targets.
FromTrusted == Given(spec) # {"keys"} /\ content.name = Target(IF spec.remote # Null THEN spec.remote ELSE spec.repository)
SourceChains ==
  IF spec.keys # Null THEN {ca.chain.blocks : ca \in Range(spec.keys.cas)}
  ELSE IF FromTrusted THEN {ca.chain : ca \in Range(content.trusted.cas)}
  ELSE {t.data.blocks : t \in For(content, "Fulcio")}
SourceLogs ==
  IF spec.keys # Null THEN {log.key : log \in Range(spec.keys.tlogs)}
  ELSE IF FromTrusted THEN {log.key : log \in Range(content.trusted.tlogs)}
  ELSE {t.data : t \in For(content, "Rekor")}
SourceCertificates == UNION {Range(ch) : ch \in SourceChains}

\* The Fulcio pools are exactly the certificates of the source, and they are missing
\* exactly when the source holds something else: neither the conversion nor
\* the ConfigMap nor fulcioCertsFromAuthority loses or adds a certificate, and a
\* CT log's key is never the reason.
PoolsAreTheSource ==
  stage = "used" =>
    /\ opts.fulcio = Null <=> ~(SourceCertificates \subseteq Leaves \cup Inters \cup Roots)
    /\ opts.fulcio # Null =>
         opts.fulcio.roots = SourceCertificates \cap Roots /\ opts.fulcio.inters = SourceCertificates \ Roots

\* rekorKeysFromTrustRef never refuses what ReconcileKind published, and has each
\* log key of the source under the ID of that key.
RekorKeysUsable ==
  stage = "used" => opts.rekor # Null /\ opts.rekor.tlogs = {<<k, k>> : k \in SourceLogs}

\* What SigstoreKeys.Validate shows about an admitted list of timestamp
\* authorities without logs: only its last element, so that with a
\* single authority checkOptsFromAuthority never fails on it.
SingleTimestampUsable ==
  stage = "used" /\ spec.keys # Null =>
    LET k == spec.keys IN (k.ctlogs = <<>> /\ k.tlogs = <<>> /\ Len(k.tsas) = 1) => opts.tsa # Null

\* "TrustedRootTarget is the name of the target containing the JSON trusted root. If
\* not specified, trusted_root.json is used": the tester, GetKeysFromTrustRoot, has the
\* keys that ReconcileKind publishes.  It asks for a target without a name, though, and
\* reads the legacy targets of a repository with a trusted root.
TesterAgrees ==
  stage = "published" => \E sk \in GetKeysFromTrustRoot(spec) : keys = Published(sk)
=============================================================================
