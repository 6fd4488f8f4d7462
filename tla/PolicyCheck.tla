---------------------------- MODULE PolicyCheck ----------------------------
(***************************************************************************)
(* The check of one image against one policy, ValidatePolicy, from within  *)
(* (pkg/webhook/validator.go, validation.go): the keys of an authority one *)
(* after the other, its wanted attestations against the verified ones, the *)
(* config files of a multi-platform image in one goroutine each, and the   *)
(* policy of the CIP itself.  A policy has one authority here; ImageCheck  *)
(* has several, and abstracts what happens in each.                        *)
(*                                                                         *)
(*   policy    [mode, static, keys, wanted, cip, root]; keys is empty for  *)
(*             an authority without keys, cip None or [configs], root TRUE *)
(*             if it names a TrustRoot; a wanted attestation is [name,     *)
(*             type, data], data FALSE without a policy of its own         *)
(*   evidence  [opts, found, referrers, index], what registry and services *)
(*             answer: found[k] are the signatures or attestations cosign  *)
(*             verifies with key k, none of them is its error; what order  *)
(*             they come in is left open                                   *)
(*   attestation  [digest, id, type, passes]; digest and id are FALSE when *)
(*             they cannot be had, type "bad" when there is no payload; a  *)
(*             referrer also has intoto, its artifact type, and by, the    *)
(*             keys that would verify it                                   *)
(***************************************************************************)
EXTENDS Naturals, Sequences, FiniteSets

CONSTANTS None, Policies, Evidence

\* What validation leaves of a policy; "bad" is not the name of a predicate type.
WellFormed(p) ==
  /\ p.static \in {"", "pass", "fail"} /\ p.keys \in Seq(STRING)
  /\ p.wanted \in Seq([name : STRING, type : STRING, data : BOOLEAN])
  /\ \A n \in DOMAIN p.wanted : p.wanted[n].type # "bad"

Results == [ok : BOOLEAN, errs : SUBSET {"warning", "error", "plain"}]

ASSUME PoliciesAssumption == \A p \in Policies : WellFormed(p)
ASSUME EvidenceAssumption == \A ev \in Evidence : IsFiniteSet(ev.index)
ASSUME NoResultAssumption == None \notin Results

VARIABLES policy, evidence,
          oci11,      \* EnableOCI11 of the configuration the request carries
          ctxDone,    \* the context is cancelled
          stage,      \* "idle", "keys", "wanted", "cip", "configs", "eval", "done"
          i,          \* the key that is tried, or the wanted attestation
          looked,     \* the verified attestations that were looked at for it
          verified,   \* verifiedAttestations, or the signatures
          checked,    \* checkedAttestations of the wanted one
          reterror,   \* its first error, as a flag
          ret,        \* the PolicyAttestations by name, or the signatures
          pending,    \* getConfigs: manifests whose goroutine runs,
          unread,     \* and whose result is in the channel
          left,       \* results it still waits for
          configs,    \* the config files by platform
          cfgErr,     \* one of them failed
          result      \* None, or [ok, errs] of ValidatePolicy

loopVars == <<i, looked, verified, checked, reterror, ret>>
configVars == <<pending, unread, left, configs, cfgErr>>
inputVars == <<policy, evidence, oci11>>
checkVars == <<inputVars, ctxDone, stage, loopVars, configVars, result>>

NoConfigs == [p \in {} |-> None]

CheckInit ==
  /\ policy = None /\ evidence = None /\ oci11 = FALSE /\ ctxDone = FALSE
  /\ stage = "idle" /\ result = None
  /\ i = 1 /\ looked = {} /\ verified = {} /\ checked = {} /\ reterror = FALSE
  /\ ret = [n \in {} |-> None]
  /\ pending = {} /\ unread = {} /\ left = 0 /\ configs = NoConfigs /\ cfgErr = FALSE

\* asFieldError.
Level(p) == IF p.mode = "warn" THEN "warning" ELSE "error"

Succeed == stage' = "done" /\ result' = [ok |-> TRUE, errs |-> {}]
Fail(kind) == stage' = "done" /\ result' = [ok |-> FALSE, errs |-> {kind}]

\* The switch over the result of the authority: no signature with an ID is an error
\* of its own, and no FieldError.
Gather(matched) ==
  IF matched THEN stage' = "cip" /\ UNCHANGED result ELSE Fail("plain")

\* The goroutine of the authority: pull secrets, which a static one does not have, then
\* the static action, or the check options for attestations or signatures.
BeginCheck(p, ev, oci) ==
  /\ stage = "idle"
  /\ policy' = p /\ evidence' = ev /\ oci11' = oci
  /\ CASE p.static = "fail" -> Fail(Level(p))
       [] p.static = "pass" -> Gather(TRUE)
       [] p.static = "" /\ ~ev.opts -> Fail(Level(p))
       [] OTHER -> stage' = "keys" /\ UNCHANGED result
  /\ UNCHANGED <<ctxDone, loopVars, configVars>>

-----------------------------------------------------------------------------
(* Keys.                                                                    *)

\* One round without a key for a keyless authority or one with timestamps.
KeyList(p) == IF p.keys = <<>> THEN <<"keyless">> ELSE p.keys

\* discoverAttestationsOCI11: what is attached to the image, whichever the key.
Referrers(ev) == {a \in ev.referrers : a.intoto}

\* validAttestations; cosign's error when nothing is verified.
ValidAttestations(ev, oci, k) ==
  IF oci /\ Referrers(ev) # {} THEN Referrers(ev) ELSE ev.found[k]
Found(k) == ValidAttestations(evidence, oci11, k)

\* Mutant of TryAttestationKey: a key without attestations is skipped.
TryAnyAttestationKey ==
  LET ks == KeyList(policy) IN
  /\ stage = "keys" /\ policy.wanted # <<>>
  /\ verified' = verified \cup Found(ks[i])
  /\ IF i < Len(ks) THEN i' = i + 1 /\ UNCHANGED <<stage, result>>
     ELSE IF verified' = {} THEN Fail(Level(policy)) /\ UNCHANGED i
     ELSE stage' = "wanted" /\ i' = 1 /\ UNCHANGED result
  /\ UNCHANGED <<inputVars, ctxDone, looked, checked, reterror, ret, configVars>>

\* ValidatePolicyAttestationsForAuthority: every key has to verify some.
TryAttestationKey ==
  LET ks == KeyList(policy) IN
  /\ stage = "keys" /\ policy.wanted # <<>>
  /\ verified' = verified \cup Found(ks[i])
  /\ CASE Found(ks[i]) = {} -> Fail(Level(policy)) /\ UNCHANGED i
       [] Found(ks[i]) # {} /\ i < Len(ks) -> i' = i + 1 /\ UNCHANGED <<stage, result>>
       [] OTHER -> stage' = "wanted" /\ i' = 1 /\ UNCHANGED result
  /\ UNCHANGED <<inputVars, ctxDone, looked, checked, reterror, ret, configVars>>

\* ociSignatureToPolicySignature: those without an ID are left out.
PolicySignatures(sigs) == {s \in sigs : s.id}

\* valid: the first key that verifies a signature.
TrySignatureKey ==
  LET ks == KeyList(policy)
      sigs == evidence.found[ks[i]] IN
  /\ stage = "keys" /\ policy.wanted = <<>>
  /\ CASE sigs # {} -> Gather(PolicySignatures(sigs) # {}) /\ verified' = sigs /\ UNCHANGED i
       [] sigs = {} /\ i < Len(ks) -> i' = i + 1 /\ UNCHANGED <<stage, result, verified>>
       [] OTHER -> Fail(Level(policy)) /\ UNCHANGED <<i, verified>>
  /\ UNCHANGED <<inputVars, ctxDone, looked, checked, reterror, ret, configVars>>

-----------------------------------------------------------------------------
(* Wanted attestations: i is the wanted one.                                *)

\* AttestationToPayloadJSON and EvaluatePolicyAgainstJSON (cosign).
LookAt(att) ==
  LET want == policy.wanted[i] IN
  /\ stage = "wanted" /\ att \in verified \ looked
  /\ looked' = looked \cup {att}
  /\ CASE ~att.digest -> UNCHANGED <<checked, reterror>>
       [] att.digest /\ att.type = "bad" -> reterror' = TRUE /\ UNCHANGED checked
       [] att.digest /\ att.type \notin {"bad", want.type} -> UNCHANGED <<checked, reterror>>
       [] att.digest /\ att.type = want.type /\ want.data /\ ~att.passes -> reterror' = TRUE /\ UNCHANGED checked
       [] OTHER -> checked' = checked \cup {att} /\ UNCHANGED reterror
  /\ UNCHANGED <<inputVars, ctxDone, stage, i, verified, ret, configVars, result>>

\* attestationToPolicyAttestations leaves out what has no ID; the name stays.
PolicyAttestations(atts) == {a \in atts : a.id}

NextWanted ==
  LET want == policy.wanted[i] IN
  /\ stage = "wanted" /\ looked = verified
  /\ IF checked = {} THEN Fail(Level(policy)) /\ UNCHANGED <<i, looked, checked, reterror, ret>>
     ELSE /\ ret' = [n \in DOMAIN ret \cup {want.name} |-> IF n = want.name THEN PolicyAttestations(checked) ELSE ret[n]]
          /\ looked' = {} /\ checked' = {} /\ reterror' = FALSE
          /\ IF i < Len(policy.wanted) THEN i' = i + 1 /\ UNCHANGED <<stage, result>>
                                       ELSE Gather(TRUE) /\ UNCHANGED i
  /\ UNCHANGED <<inputVars, ctxDone, verified, configVars>>

-----------------------------------------------------------------------------
(* The policy of the CIP, and getConfigs.                                   *)

\* The manifests of an index: [id, platform, ok]; an image is an index of one, and
\* an index in an index is a manifest that yields its own files.
CIPLevel ==
  /\ stage = "cip"
  /\ CASE policy.cip = None -> Succeed /\ UNCHANGED <<pending, left>>
       [] policy.cip # None /\ policy.cip.configs ->
            /\ stage' = "configs" /\ UNCHANGED result
            /\ pending' = evidence.index /\ left' = Cardinality(evidence.index)
       [] OTHER -> stage' = "eval" /\ UNCHANGED <<pending, left, result>>
  /\ UNCHANGED <<inputVars, ctxDone, loopVars, unread, configs, cfgErr>>

\* Mutant of FetchConfig: the channel has no room.
FetchConfigUnbuffered(m) ==
  /\ stage = "configs" /\ m \in pending /\ left > 0
  /\ pending' = pending \ {m} /\ unread' = unread \cup {m}
  /\ UNCHANGED <<inputVars, ctxDone, stage, loopVars, left, configs, cfgErr, result>>

\* The goroutine of a manifest ends; the channel has room for every result.
FetchConfig(m) ==
  /\ stage = "configs" /\ m \in pending
  /\ pending' = pending \ {m} /\ unread' = unread \cup {m}
  /\ UNCHANGED <<inputVars, ctxDone, stage, loopVars, left, configs, cfgErr, result>>

\* Mutant of ReadConfig: a manifest that fails is left out.
ReadConfigLenient(m) ==
  /\ stage = "configs" /\ left > 0 /\ m \in unread
  /\ left' = left - 1 /\ unread' = unread \ {m}
  /\ configs' = IF m.ok THEN [p \in DOMAIN configs \cup {m.platform} |-> IF p = m.platform THEN m.id ELSE configs[p]]
                ELSE configs
  /\ UNCHANGED <<inputVars, ctxDone, stage, loopVars, pending, cfgErr, result>>

\* The loop of getConfigs: a result, which replaces one of the same platform, or
\* the cancelled context.
ReadConfig(m) ==
  /\ stage = "configs" /\ left > 0 /\ m \in unread
  /\ left' = left - 1 /\ unread' = unread \ {m}
  /\ IF m.ok
       THEN /\ configs' = [p \in DOMAIN configs \cup {m.platform} |-> IF p = m.platform THEN m.id ELSE configs[p]]
            /\ UNCHANGED cfgErr
       ELSE cfgErr' = TRUE /\ UNCHANGED configs
  /\ UNCHANGED <<inputVars, ctxDone, stage, loopVars, pending, result>>

ConfigCancelled ==
  /\ stage = "configs" /\ left > 0 /\ ctxDone
  /\ left' = left - 1 /\ cfgErr' = TRUE
  /\ UNCHANGED <<inputVars, ctxDone, stage, loopVars, pending, unread, configs, result>>

\* wg.Wait and return.
ConfigsDone ==
  /\ stage = "configs" /\ left = 0 /\ pending = {}
  /\ IF cfgErr THEN Fail(Level(policy)) ELSE stage' = "eval" /\ UNCHANGED result
  /\ UNCHANGED <<inputVars, ctxDone, loopVars, configVars>>

\* EvaluatePolicyAgainstJSON on the result of the policy: it passes, or there is an
\* error or a warning; or the result cannot be marshalled.
Evaluate ==
  /\ stage = "eval"
  /\ Succeed \/ Fail(Level(policy)) \/ Fail("plain")
  /\ UNCHANGED <<inputVars, ctxDone, loopVars, configVars>>

\* What a cancelled context does to the results of authorities is in ImageCheck.
Cancel ==
  /\ stage = "configs" /\ ~ctxDone /\ ctxDone' = TRUE
  /\ UNCHANGED <<inputVars, stage, loopVars, configVars, result>>

CheckStep ==
  \/ TryAttestationKey \/ TrySignatureKey \/ NextWanted \/ CIPLevel
  \/ ConfigCancelled \/ ConfigsDone \/ Evaluate
  \/ \E att \in verified : LookAt(att)
  \/ \E m \in unread : ReadConfig(m)

\* The locals of ValidatePolicy are gone when it has returned.
EndCheck ==
  /\ stage' = "idle" /\ policy' = None /\ evidence' = None /\ oci11' = FALSE /\ ctxDone' = FALSE
  /\ i' = 1 /\ looked' = {} /\ verified' = {} /\ checked' = {} /\ reterror' = FALSE
  /\ ret' = [n \in {} |-> None] /\ result' = None
  /\ pending' = {} /\ unread' = {} /\ left' = 0 /\ configs' = NoConfigs /\ cfgErr' = FALSE

-----------------------------------------------------------------------------
(* Properties.                                                              *)

\* What an authority promises of an image, from what cosign verifies with its keys and
\* without the loops: each of its keys verifies an attestation, and each attestation it
\* wants is satisfied by one that some key of it verifies; or, for signatures, the first
\* key that verifies any verifies one with an ID.
Satisfies(att, want) == att.digest /\ att.type = want.type /\ (want.data => att.passes)
Promised(p, ev) ==
  LET ks == KeyList(p) IN
  CASE p.static # "" -> p.static = "pass"
    [] p.static = "" /\ p.wanted # <<>> ->
         /\ ev.opts /\ \A n \in DOMAIN ks : ev.found[ks[n]] # {}
         /\ \A w \in DOMAIN p.wanted :
              \E n \in DOMAIN ks : \E att \in ev.found[ks[n]] : Satisfies(att, p.wanted[w])
    [] OTHER ->
         ev.opts /\ \E n \in DOMAIN ks : \E s \in ev.found[ks[n]] :
                       s.id /\ \A m \in 1..n - 1 : ev.found[ks[m]] = {}

\* The attestations are those cosign has verified, not referrers in their place.
FromCosign == oci11 /\ policy.wanted # <<>> => Referrers(evidence) = {}

\* The nested loops decide what they are meant to: an authority matches exactly if it
\* keeps its promise.  A key that verifies nothing is not made up for by another, and an
\* attestation that fails, or that has no payload, does not spoil another.  What is
\* handed on under a wanted attestation's name satisfies that one, or one of the same
\* name: nothing is carried over from the one before.  Referrers that stand in for
\* verified attestations are left to WantedAreVerified.
AuthorityMatches ==
  /\ \A n \in DOMAIN ret : \A att \in ret[n] :
       \E w \in DOMAIN policy.wanted : policy.wanted[w].name = n /\ Satisfies(att, policy.wanted[w])
  /\ stage \in {"cip", "configs", "eval"} /\ FromCosign => Promised(policy, evidence)
  /\ stage = "done" /\ policy.cip = None /\ FromCosign => result.ok = Promised(policy, evidence)

\* What a key of the authority verifies, attached in either way.
VerifiedBy(ev, k) == ev.found[k] \cup {a \in Referrers(ev) : k \in a.by}

\* "ValidatePolicyAttestationsForAuthority takes the Authority and tries to verify
\* attestations against it": when an authority matches, each attestation it wants is
\* satisfied by one that a key of it verifies.  discoverAttestationsOCI11 takes every
\* in-toto referrer, whichever key made it.
WantedAreVerified ==
  stage \in {"cip", "configs", "eval"} /\ policy.static = "" =>
    \A w \in DOMAIN policy.wanted : \E n \in DOMAIN KeyList(policy) :
      \E att \in VerifiedBy(evidence, KeyList(policy)[n]) : Satisfies(att, policy.wanted[w])

\* The policy of the CIP sees a config file of every platform of the index, each from
\* a manifest of that platform, and is not evaluated when one is missing.
ConfigsComplete ==
  stage = "eval" /\ policy.cip.configs =>
    /\ DOMAIN configs = {m.platform : m \in evidence.index}
    /\ \A m \in evidence.index : m.ok
    /\ \A p \in DOMAIN configs : \E m \in evidence.index : m.platform = p /\ m.id = configs[p]
=============================================================================
