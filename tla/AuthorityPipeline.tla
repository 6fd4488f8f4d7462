------------------------- MODULE AuthorityPipeline -------------------------
(***************************************************************************)
(* The life of one authority of a ClusterImagePolicy: written by a user in *)
(* one of two API versions, defaulted, validated, converted to the stored  *)
(* version and back, its references inlined by the reconciler, compiled    *)
(* for the webhook, parsed there, and turned into the check of an image.   *)
(*                                                                         *)
(* Sources: pkg/apis/policy (defaults, validation, conversion),            *)
(* pkg/reconciler/clusterimagepolicy (inlining), pkg/webhook/              *)
(* clusterimagepolicy (compiled form), validator.go (check options).       *)
(*                                                                         *)
(* A field is reduced to the values some step tells apart.  The two API    *)
(* versions have the same fields; the stored one is v1alpha1.              *)
(***************************************************************************)
EXTENDS Naturals, Sequences

CONSTANTS None,       \* a nil pointer
          Inputs,     \* the authorities users write
          MaxWrites   \* bound: times the object is written again as it was read

\* A key is given by value, by a KMS or by a secret.
KeyRefs == [data : {"", "pem", "junk"}, kms : {"", "kms", "junk"},
            secret : {"", "ours", "foreign"}, hash : {"", "sha512", "md5"}]

KeylessRefs == [url : BOOLEAN, cacert : KeyRefs \cup {None}, identities : {"", "full", "partial"},
                root : {"", "r"}, ignoreSCT : BOOLEAN]

TLogs == [url : BOOLEAN, root : {"", "r"}]

\* The policy of an attestation is given by value, by a ConfigMap or by a URL.
Policies == [data : {"", "text"}, configMap : BOOLEAN, remote : BOOLEAN]
Attestations == [named : BOOLEAN, policy : Policies \cup {None}]

\* Sources, such as gcr.io/signatures, gcr.io, localhost:5000, library/signatures.
OCIs == {"repository", "registry", "registry:port", "path"}

Authorities ==
  [key : KeyRefs \cup {None}, keyless : KeylessRefs \cup {None},
   static : {"pass", "fail", "", "other", None}, gm : {"full", "partial", None},
   sources : Seq(OCIs), ctlog : TLogs \cup {None}, tsa : {"", "r", None},
   attestation : Attestations \cup {None}, format : {"", "bundle"}]

ASSUME InputsAssumption == Inputs \subseteq Authorities
ASSUME WritesAssumption == MaxWrites \in Nat
\* What references are inlined to, and what is left of them for the webhook.
InlinedKeys == [data : {"", "pem", "secret's", "kms's"}, kms : {"", "kms"}, secret : {"", "ours"},
                hash : {"", "sha512"}]
InlinedKeyless == [url : BOOLEAN, cacert : InlinedKeys \cup {None}, identities : {"full"},
                   root : {"", "r"}, ignoreSCT : BOOLEAN]
InlinedPolicies == [data : {"text", "configMap's", "remote's"}, configMap : {FALSE}, remote : {FALSE}]
InlinedAttestations == [named : BOOLEAN, policy : InlinedPolicies]
CompiledKeys == [data : {"", "pem", "secret's", "kms's"}, hash : {"sha256", "sha512"}]
CompiledKeyless == [url : BOOLEAN, cacert : CompiledKeys \cup {None}, identities : {"full"},
                    root : {"", "r"}, ignoreSCT : BOOLEAN]
CompiledAttestations == [policy : {"text", "configMap's", "remote's", None}]
Options == [bundle : BOOLEAN, certs : {"", "tuf", "r"}, rekor : BOOLEAN, rekorKeys : {"", "tuf", "r"},
            ignoreTlog : BOOLEAN, signedTimestamps : BOOLEAN, ignoreSCT : BOOLEAN]

\* A nil pointer is no value.
ASSUME NoneAssumption ==
  /\ None \notin Authorities /\ None \notin KeyRefs /\ None \notin KeylessRefs
  /\ None \notin TLogs /\ None \notin Attestations /\ None \notin Policies
  /\ None \notin {"pass", "fail", "", "other", "full", "partial", "r"}
  /\ None \notin InlinedKeys /\ None \notin InlinedKeyless /\ None \notin InlinedPolicies
  /\ None \notin InlinedAttestations /\ None \notin CompiledKeys
  /\ None \notin CompiledKeyless /\ None \notin CompiledAttestations /\ None \notin Options

VARIABLES sent,    \* the authority the user wrote
          stored,  \* the authority in the API server, in v1alpha1
          entry,   \* the compiled authority in the ConfigMap
          loaded,  \* the authority the webhook has parsed
          check,   \* how the webhook last checked an image against it
          failed,  \* the steps that were refused: "submit", "write", "load"
          writes   \* times it was written again

vars == <<sent, stored, entry, loaded, check, failed, writes>>

Versions == {"v1alpha1", "v1beta1"}

-----------------------------------------------------------------------------
(* Defaults and validation.                                                 *)

\* ClusterImagePolicySpec.SetDefaults, the same in both versions: keyless without
\* a URL is the public Fulcio.
NeedsURL(a) ==
  a.key = None /\ a.static = None /\ a.keyless # None /\ a.keyless.cacert = None /\ ~a.keyless.url
SetDefaults(a) == IF NeedsURL(a) THEN [a EXCEPT !.keyless = [@ EXCEPT !.url = TRUE]] ELSE a

\* common.ValidateKMS: a reference to a supported provider.
ValidateKMS(kms) == kms # "junk"

ValidateKeyRefAnyHash(k) ==
  /\ k.data # "" \/ k.kms # "" \/ k.secret # ""
  /\ k.data # "" => k.kms = "" /\ k.secret = "" /\ k.data = "pem"
  /\ k.kms = "" \/ k.secret = ""
  /\ ValidateKMS(k.kms)
  /\ k.secret # "foreign"

\* KeyRef.Validate.
ValidateKeyRef(k) ==
  /\ k.data # "" \/ k.kms # "" \/ k.secret # ""
  /\ k.hash # "md5"
  /\ k.data # "" => k.kms = "" /\ k.secret = "" /\ k.data = "pem"
  /\ k.kms = "" \/ k.secret = ""
  /\ ValidateKMS(k.kms)
  /\ k.secret # "foreign"

\* Identity.Validate: an issuer and a subject, as text or as a pattern, of each.
ValidateIdentities(ids) == ids = "full"

\* KeylessRef.Validate.
ValidateKeyless(k) ==
  /\ k.url # (k.cacert # None)
  /\ k.cacert # None => ValidateKeyRef(k.cacert)
  /\ ValidateIdentities(k.identities)

\* common.ValidateOCI: what has a host and a path must be a repository, anything
\* else a registry.
ValidateOCI(oci) == oci # "path"

\* Policy.Validate: exactly one of the three.
ValidatePolicy(p) ==
  /\ p.data # "" \/ p.configMap \/ p.remote
  /\ ~(p.data # "" /\ p.configMap) /\ ~(p.data # "" /\ p.remote) /\ ~(p.configMap /\ p.remote)

\* Attestation.Validate; an unusual predicate type is only warned about.
ValidateAttestation(att) == att.named /\ (att.policy # None => ValidatePolicy(att.policy))

\* StaticRef.Validate and GMSignatureRef.Validate.
ValidateStatic(static) == static \in {"pass", "fail"}
ValidateGM(gm) == gm = "full"

\* Authority.Validate.
ValidateAuthority(a) ==
  LET one(f) == \A g \in {"key", "keyless", "static", "gm"} \ {f} : a[g] = None IN
  /\ \/ a.key # None /\ one("key") /\ ValidateKeyRef(a.key)
     \/ a.keyless # None /\ one("keyless") /\ ValidateKeyless(a.keyless)
     \/ /\ a.gm # None /\ one("gm") /\ ValidateGM(a.gm)
        /\ a.attestation = None /\ a.ctlog = None /\ a.tsa = None
     \/ /\ a.static # None /\ one("static") /\ ValidateStatic(a.static)
        /\ a.attestation = None /\ a.ctlog = None /\ a.tsa = None /\ a.sources = <<>>
  /\ Len(a.sources) <= 1 /\ \A i \in DOMAIN a.sources : ValidateOCI(a.sources[i])
  /\ a.attestation # None => ValidateAttestation(a.attestation)

\* The Validate methods of v1beta1 make the same checks.
ValidateAttestationV1beta1(att) == ValidateAttestation(att)
ValidateV1beta1(a) ==
  ValidateAuthority(a) /\ (a.attestation # None => ValidateAttestationV1beta1(a.attestation))
Validate(v, a) == IF v = "v1beta1" THEN ValidateV1beta1(a) ELSE ValidateAuthority(a)

-----------------------------------------------------------------------------
(* Conversion between the versions.                                         *)

\* A transparency log without a URL, and a timestamp without a TrustRoot, are
\* not converted.
ConvertTLog(t) == IF t # None /\ t.url THEN t ELSE None
ConvertTSA(tsa) == IF tsa = "" THEN None ELSE tsa

\* Mutants of ConvertTo and ConvertFrom: the format is left behind; the identities are.
ConvertToLegacy(a) ==
  [a EXCEPT !.ctlog = ConvertTLog(@), !.tsa = ConvertTSA(@), !.format = ""]
ConvertFromAnyone(a) ==
  [a EXCEPT !.ctlog = ConvertTLog(@), !.tsa = ConvertTSA(@),
            !.keyless = IF @ = None THEN None ELSE [@ EXCEPT !.identities = ""]]

\* Authority.ConvertTo, from v1alpha1 to v1beta1, and ConvertFrom, back.
ConvertTo(a) == [a EXCEPT !.ctlog = ConvertTLog(@), !.tsa = ConvertTSA(@)]
ConvertFrom(a) == [a EXCEPT !.ctlog = ConvertTLog(@), !.tsa = ConvertTSA(@)]

\* What a client of a version reads, and what is stored when it writes; the
\* conversion webhook sets the defaults of its result.
Read(v, a) == IF v = "v1beta1" THEN SetDefaults(ConvertTo(a)) ELSE a
Stored(v, a) == IF v = "v1beta1" THEN SetDefaults(ConvertFrom(a)) ELSE a

-----------------------------------------------------------------------------
(* The reconciler: references become data.                                  *)

\* Mutant of inlinePublicKeys: a KMS reference is left alone.
inlinePublicKeysSecrets(a) ==
  LET secret(k) == IF k # None /\ k.secret # "" THEN [k EXCEPT !.data = "secret's", !.secret = ""] ELSE k
  IN [a EXCEPT !.key = secret(@),
               !.keyless = IF @ = None THEN None ELSE [@ EXCEPT !.cacert = secret(a.keyless.cacert)]]

\* inlinePublicKeys; the KMS reference of a CA certificate stays.
inlinePublicKeys(a) ==
  LET secret(k) == IF k # None /\ k.secret # "" THEN [k EXCEPT !.data = "secret's", !.secret = ""] ELSE k
      kms(k) == IF k # None /\ k.kms # "" THEN [k EXCEPT !.data = "kms's", !.kms = ""] ELSE k
  IN [a EXCEPT !.key = kms(secret(@)),
               !.keyless = IF @ = None THEN None ELSE [@ EXCEPT !.cacert = secret(a.keyless.cacert)]]

\* inlinePolicies.
inlinePolicies(a) ==
  LET configMap(p) == IF p.configMap THEN [p EXCEPT !.data = "configMap's", !.configMap = FALSE] ELSE p
      remote(p) == IF p.remote THEN [p EXCEPT !.data = "remote's", !.remote = FALSE] ELSE p
  IN IF a.attestation = None \/ a.attestation.policy = None THEN a
     ELSE [a EXCEPT !.attestation.policy = remote(configMap(@))]

\* References whose target may be missing or unusable.
HasReferences(a) ==
  \/ a.key # None /\ a.key.data = ""
  \/ a.keyless # None /\ a.keyless.cacert # None /\ a.keyless.cacert.secret # ""
  \/ a.attestation # None /\ a.attestation.policy # None /\ a.attestation.policy.data = ""

-----------------------------------------------------------------------------
(* The compiled form and its parser.                                        *)

\* convertAuthorityV1Alpha1ToWebhook: only data is left of a reference.
ConvertToWebhook(a) ==
  LET key(k) == IF k = None THEN None
                ELSE [data |-> k.data, hash |-> IF k.hash = "" THEN "sha256" ELSE k.hash]
  IN [a EXCEPT !.key = key(@),
               !.keyless = IF @ = None THEN None ELSE [@ EXCEPT !.cacert = key(a.keyless.cacert)],
               !.attestation = IF @ = None THEN None
                               ELSE IF @.policy = None THEN [policy |-> None]
                               ELSE [policy |-> @.policy.data]]

Compiled(a) == ConvertToWebhook(inlinePolicies(inlinePublicKeys(a)))

\* name.NewRepository, which takes a registry for a repository of Docker Hub and
\* a port for a part of its name.
NewRepository(oci) ==
  CASE oci = "repository" -> "repository"
    [] oci \in {"registry", "path"} -> "Docker Hub"
    [] OTHER -> "invalid"

\* KeyRef.UnmarshalJSON and Authority.UnmarshalJSON: what they accept, and the
\* public keys and repositories they add.
Parses(e) ==
  LET key(k) == k # None => k.data # "junk" /\ k.hash # "md5"
  IN /\ key(e.key)
     /\ e.keyless # None => key(e.keyless.cacert)
     /\ \A i \in DOMAIN e.sources : NewRepository(e.sources[i]) # "invalid"

PublicKeys(k) == IF k = None \/ k.data = "" THEN {} ELSE {k.data}

-----------------------------------------------------------------------------
(* Checking an image: the options, from the material (TUF root, TrustRoots)  *)
(* that is available, and the verifier they are given to.                   *)

Material(root) == IF root = "" THEN "tuf" ELSE root

\* checkOptsFromAuthority for the new bundle format.
BundleOpts(a, available) ==
  IF \/ a.keyless = None
     \/ Material(a.keyless.root) \notin available
     \/ a.tsa # None /\ a.tsa # a.keyless.root
     \/ a.ctlog # None /\ a.ctlog.root # a.keyless.root
    THEN None
    ELSE [bundle |-> TRUE, certs |-> Material(a.keyless.root), rekor |-> FALSE, rekorKeys |-> "",
          ignoreTlog |-> a.tsa # None, signedTimestamps |-> a.tsa # None,
          ignoreSCT |-> a.keyless.ignoreSCT]

\* rekorClientAndKeysFromAuthority: whether there is a client, and whose keys.
RekorClientAndKeys(a) ==
  CASE a.ctlog = None -> <<FALSE, IF a.keyless # None /\ a.keyless.root = "" THEN "tuf" ELSE "">>
    [] a.ctlog # None /\ a.ctlog.root # "" -> <<TRUE, a.ctlog.root>>
    [] a.ctlog # None /\ a.ctlog.root = "" /\ a.ctlog.url -> <<TRUE, "tuf">>
    [] OTHER -> <<FALSE, "">>

\* checkOptsFromAuthority otherwise, with fulcioCertsFromAuthority.
LegacyOpts(a, available) ==
  LET rekor == RekorClientAndKeys(a)
      timestamps == a.tsa # None /\ a.tsa # ""
      certs == IF a.keyless = None THEN "" ELSE Material(a.keyless.root)
      needed == ({certs, rekor[2]} \cup (IF timestamps THEN {a.tsa} ELSE {})) \ {""}
  IN IF ~(needed \subseteq available) THEN None
     ELSE [bundle |-> FALSE, certs |-> certs, rekor |-> rekor[1], rekorKeys |-> rekor[2],
           ignoreTlog |-> timestamps \/ rekor[2] = "", signedTimestamps |-> timestamps,
           ignoreSCT |-> a.keyless # None /\ a.keyless.ignoreSCT]

\* None is an error.
CheckOpts(a, available) ==
  IF a.format = "bundle" THEN BundleOpts(a, available) ELSE LegacyOpts(a, available)

\* The verifier ValidatePolicySignaturesForAuthority gets to; "none" is the
\* return that "should never happen".
SignatureVerifier(a) ==
  CASE a.key # None -> IF PublicKeys(a.key) = {} THEN "no keys" ELSE "key"
    [] a.key = None /\ a.keyless # None -> IF a.keyless.url THEN "fulcio" ELSE "no url"
    [] a.key = None /\ a.keyless = None /\ a.tsa # None -> "timestamp"
    [] a.key = None /\ a.keyless = None /\ a.tsa = None /\ a.gm # None -> "gm"
    [] OTHER -> "none"

\* The verifier ValidatePolicyAttestationsForAuthority gets to; without one there
\* are no attestations.
AttestationVerifier(a) ==
  CASE a.key # None /\ PublicKeys(a.key) # {} -> "key"
    [] ~(a.key # None /\ PublicKeys(a.key) # {}) /\ a.keyless # None -> IF a.keyless.url THEN "fulcio" ELSE "no url"
    [] ~(a.key # None /\ PublicKeys(a.key) # {}) /\ a.keyless = None /\ a.tsa # None -> "timestamp"
    [] OTHER -> "none"

\* The goroutine of an authority in ValidatePolicy.
Verifier(a, available) ==
  CASE a.static # None -> IF a.static = "fail" THEN "fail" ELSE "pass"
    [] a.static = None /\ CheckOpts(a, available) = None -> "error"
    [] OTHER -> IF a.attestation # None THEN AttestationVerifier(a) ELSE SignatureVerifier(a)

\* The check of an image, with everything it depends on.
CheckOf(a, available) ==
  [available |-> available, opts |-> CheckOpts(a, available), verifier |-> Verifier(a, available),
   keys |-> PublicKeys(a.key), hash |-> IF a.key = None THEN "" ELSE a.key.hash,
   identities |-> IF a.keyless = None THEN "" ELSE a.keyless.identities,
   policy |-> IF a.attestation = None THEN None ELSE a.attestation.policy,
   repositories |-> [i \in DOMAIN a.sources |-> NewRepository(a.sources[i])]]

-----------------------------------------------------------------------------

Init ==
  /\ sent \in Inputs
  /\ stored = None /\ entry = None /\ loaded = None /\ check = None
  /\ failed = {} /\ writes = 0

\* A write in version v: defaults, validation, storage.
Write(v, a, step) ==
  LET defaulted == SetDefaults(a) IN
  IF Validate(v, defaulted)
    THEN stored' = Stored(v, defaulted) /\ UNCHANGED failed
    ELSE failed' = failed \cup {step} /\ UNCHANGED stored

\* The user creates the policy.
Submit(v) ==
  /\ stored = None /\ failed = {}
  /\ Write(v, sent, "submit")
  /\ UNCHANGED <<sent, entry, loaded, check, writes>>

\* A client, the controller with its finalizer among them, reads the policy and
\* writes it again with nothing changed in this authority.
WriteBack(v) ==
  /\ stored # None /\ writes < MaxWrites
  /\ writes' = writes + 1
  /\ Write(v, Read(v, stored), "write")
  /\ UNCHANGED <<sent, entry, loaded, check>>

\* ReconcileKind: the authority is compiled, or, when a reference cannot be
\* inlined, its entry is removed.
Compile ==
  /\ stored # None
  /\ \/ entry' = Compiled(stored)
     \/ HasReferences(stored) /\ entry' = None
  /\ UNCHANGED <<sent, stored, loaded, check, failed, writes>>

\* NewImagePoliciesConfigFromMap: a ConfigMap with an entry that does not parse is
\* refused as a whole, and the store keeps what it had.
Load ==
  /\ IF entry = None \/ Parses(entry)
       THEN loaded' = entry /\ UNCHANGED failed
       ELSE failed' = failed \cup {"load"} /\ UNCHANGED loaded
  /\ UNCHANGED <<sent, stored, entry, check, writes>>

\* ValidatePolicy for this authority, with any of the material available.
Check ==
  /\ loaded # None
  /\ \E available \in SUBSET {"tuf", "r"} : check' = CheckOf(loaded, available)
  /\ UNCHANGED <<sent, stored, entry, loaded, failed, writes>>

Next ==
  \/ \E v \in Versions : Submit(v) \/ WriteBack(v)
  \/ Compile
  \/ Load
  \/ Check

Spec == Init /\ [][Next]_vars

-----------------------------------------------------------------------------
(* Properties.                                                              *)

\* The compiled form of an admitted authority parses in the webhook.  The one that
\* does not names a registry with a port as its source, which ValidateOCI takes
\* for a registry and UnmarshalJSON for a repository; it keeps every policy of the
\* ConfigMap from being updated.
AdmittedLoads == "load" \in failed => sent.sources = <<"registry:port">>

\* An authority that was admitted is admitted again, in either version, after any
\* conversions: no client that changes another part of the policy, and not the
\* controller that adds its finalizer, is refused because of it.
StaysAdmissible == "write" \notin failed

\* The key the user named, and the text of the policy.
NamedKey(k) == IF k.data # "" THEN k.data ELSE IF k.kms # "" THEN "kms's" ELSE "secret's"
NamedPolicy(p) == IF p.data # "" THEN p.data ELSE IF p.configMap THEN "configMap's" ELSE "remote's"

\* An image is checked by the verifier the user chose, with the key, the hash, the
\* identities and the policy the user named, however the authority came to the
\* webhook: the switch never falls through.  A check ends before its verifier only
\* when material is missing or the bundle format does not go with the authority.
\* Which verifier a CA certificate in place of the URL leads to is left to
\* CertificateServes.
RightVerifier ==
  check # None =>
    /\ \/ check.verifier = "error" /\ (sent.format = "bundle" \/ check.available # {"tuf", "r"})
       \/ sent.key # None /\ check.verifier = "key"
       \/ sent.keyless # None /\ (sent.keyless.cacert = None => check.verifier = "fulcio")
       \/ sent.gm # None /\ check.verifier = "gm"
       \/ sent.static # None /\ check.verifier = sent.static
    /\ sent.key # None => /\ check.keys = {NamedKey(sent.key)}
                          /\ check.hash = IF sent.key.hash = "" THEN "sha256" ELSE sent.key.hash
    /\ sent.keyless # None => check.identities = sent.keyless.identities
    /\ check.policy = IF sent.attestation = None \/ sent.attestation.policy = None THEN None
                      ELSE NamedPolicy(sent.attestation.policy)


\* The check the authority would lead to were it never converted.
AsWritten(available) == CheckOf(Compiled(SetDefaults(sent)), available)

\* Writing and rewriting an authority in either version changes nothing of how
\* images are checked, unless its log has no URL or its timestamp no TrustRoot:
\* these two are all the conversion loses.
ConversionLosesNoMore ==
  check # None /\ (sent.ctlog # None => sent.ctlog.url) /\ sent.tsa # ""
    => check = AsWritten(check.available)
=============================================================================
