---------------------- MODULE AuthorityPipelineProofs ----------------------
(***************************************************************************)
(* What is stored stays admissible, what is compiled of it parses, and an  *)
(* image is checked the way the user wrote, for every set of inputs, any   *)
(* number of writes in any versions, and any order of the steps between    *)
(* the user and the check.  At the end, the trusted root that a check is   *)
(* made with when the authority names none.                                *)
(***************************************************************************)
EXTENDS AuthorityPipeline, TrustedRoot, TLAPS

\* An authority with its defaults set that passes validation.
Admissible(a) == a \in Authorities /\ ValidateAuthority(a) /\ ~NeedsURL(a)

\* What is stored has its defaults and passes validation, so that no write is
\* refused.
StoredAdmissible ==
  /\ sent \in Authorities
  /\ stored # None => Admissible(stored)
  /\ StaysAdmissible

\* SetDefaults: an authority has its defaults afterwards.
LEMMA DefaultsSet ==
  ASSUME NEW a \in Authorities
  PROVE  SetDefaults(a) \in Authorities /\ ~NeedsURL(SetDefaults(a))
<1>1. CASE ~NeedsURL(a)
  BY <1>1 DEF SetDefaults
<1>2. CASE NeedsURL(a)
  <2> DEFINE k == [a.keyless EXCEPT !.url = TRUE]
  <2>1. a.keyless \in KeylessRefs
    BY <1>2 DEF NeedsURL, Authorities
  <2>2. k \in KeylessRefs /\ k.url
    BY <2>1 DEF KeylessRefs
  <2>3. SetDefaults(a) = [a EXCEPT !.keyless = k]
    BY <1>2 DEF SetDefaults
  <2> HIDE DEF k
  <2>4. [a EXCEPT !.keyless = k] \in Authorities /\ [a EXCEPT !.keyless = k].keyless = k
    BY <2>2 DEF Authorities
  <2> QED
    BY <2>2, <2>3, <2>4 DEF NeedsURL
<1> QED
  BY <1>1, <1>2

\* Defaults are set once.
LEMMA DefaultsKeep ==
  ASSUME NEW a, Admissible(a)
  PROVE  SetDefaults(a) = a
BY DEF SetDefaults, Admissible

\* What conversions can make of an authority: its log and its timestamp are as
\* they were, or as ConvertTLog and ConvertTSA leave them.
Variants(a) ==
  {[a EXCEPT !.ctlog = c, !.tsa = t] :
     c \in {a.ctlog, ConvertTLog(a.ctlog)}, t \in {a.tsa, ConvertTSA(a.tsa)}}

\* Conversions leave alone everything else.
LEMMA VariantFields ==
  ASSUME NEW a \in Authorities, NEW b \in Variants(a)
  PROVE  /\ b \in Authorities
         /\ b.key = a.key /\ b.keyless = a.keyless /\ b.static = a.static /\ b.gm = a.gm
         /\ b.sources = a.sources /\ b.attestation = a.attestation /\ b.format = a.format
         /\ b.ctlog \in {a.ctlog, ConvertTLog(a.ctlog)}
         /\ b.tsa \in {a.tsa, ConvertTSA(a.tsa)}
<1>1. PICK c \in {a.ctlog, ConvertTLog(a.ctlog)}, t \in {a.tsa, ConvertTSA(a.tsa)} :
        b = [a EXCEPT !.ctlog = c, !.tsa = t]
  BY DEF Variants
<1>2. c \in TLogs \cup {None} /\ t \in {"", "r", None}
  BY DEF ConvertTLog, ConvertTSA, Authorities
<1> QED
  BY <1>1, <1>2 DEF Authorities

\* Conversions change nothing that validation and defaults read, and what they drop
\* no check asks for.
LEMMA VariantAdmissible ==
  ASSUME NEW a, Admissible(a), NEW b \in Variants(a)
  PROVE  Admissible(b)
<1>1. a \in Authorities
  BY DEF Admissible
<1>2. /\ b \in Authorities
      /\ b.key = a.key /\ b.keyless = a.keyless /\ b.static = a.static /\ b.gm = a.gm
      /\ b.sources = a.sources /\ b.attestation = a.attestation
      /\ b.ctlog \in {a.ctlog, ConvertTLog(a.ctlog)}
      /\ b.tsa \in {a.tsa, ConvertTSA(a.tsa)}
  BY <1>1, VariantFields
<1>3. a.ctlog = None => b.ctlog = None
  BY <1>2 DEF ConvertTLog
<1>4. a.tsa = None => b.tsa = None
  BY <1>2, NoneAssumption DEF ConvertTSA
<1>5. ValidateAuthority(b)
  BY <1>2, <1>3, <1>4 DEF ValidateAuthority, Admissible
<1>6. ~NeedsURL(b)
  BY <1>2 DEF NeedsURL, Admissible
<1> QED
  BY <1>2, <1>5, <1>6 DEF Admissible

\* Converting twice is converting once: no chain of conversions leads further than
\* the first.
LEMMA VariantsConverted ==
  ASSUME NEW a \in Authorities, NEW b \in Variants(a)
  PROVE  ConvertTo(b) \in Variants(a) /\ ConvertFrom(b) \in Variants(a)
<1>1. PICK c \in {a.ctlog, ConvertTLog(a.ctlog)}, t \in {a.tsa, ConvertTSA(a.tsa)} :
        b = [a EXCEPT !.ctlog = c, !.tsa = t]
  BY DEF Variants
<1>2. b.ctlog = c /\ b.tsa = t
  BY <1>1 DEF Authorities
<1>3. ConvertTLog(c) = ConvertTLog(a.ctlog) /\ ConvertTSA(t) = ConvertTSA(a.tsa)
  BY NoneAssumption DEF ConvertTLog, ConvertTSA
<1> DEFINE d == ConvertTLog(a.ctlog)
           u == ConvertTSA(a.tsa)
<1>4. ConvertTo(b) = [b EXCEPT !.ctlog = d, !.tsa = u] /\ ConvertFrom(b) = ConvertTo(b)
  BY <1>2, <1>3 DEF ConvertTo, ConvertFrom
<1>5. [a EXCEPT !.ctlog = d, !.tsa = u] \in Variants(a)
  BY DEF Variants
<1> HIDE DEF d, u
<1>6. [b EXCEPT !.ctlog = d, !.tsa = u] = [a EXCEPT !.ctlog = d, !.tsa = u]
  BY <1>1 DEF Authorities
<1> QED
  BY <1>4, <1>5, <1>6

\* An authority is a variant of itself.
LEMMA VariantItself ==
  ASSUME NEW a \in Authorities
  PROVE  a \in Variants(a)
<1>1. a = [a EXCEPT !.ctlog = a.ctlog, !.tsa = a.tsa]
  BY DEF Authorities
<1> QED
  BY <1>1 DEF Variants

\* An authority that conversions leave alone has no other variant.
LEMMA VariantUnchanged ==
  ASSUME NEW a \in Authorities, NEW b \in Variants(a),
         ConvertTLog(a.ctlog) = a.ctlog, ConvertTSA(a.tsa) = a.tsa
  PROVE  b = a
<1>1. PICK c \in {a.ctlog, ConvertTLog(a.ctlog)}, t \in {a.tsa, ConvertTSA(a.tsa)} :
        b = [a EXCEPT !.ctlog = c, !.tsa = t]
  BY DEF Variants
<1>2. b = [a EXCEPT !.ctlog = a.ctlog, !.tsa = a.tsa]
  BY <1>1
<1> QED
  BY <1>2 DEF Authorities

\* Both conversions of an admissible authority are admissible.
LEMMA ConversionAdmissible ==
  ASSUME NEW a, Admissible(a)
  PROVE  Admissible(ConvertTo(a)) /\ Admissible(ConvertFrom(a))
BY VariantItself, VariantsConverted, VariantAdmissible DEF Admissible

\* Reading and storing an authority in a version gives a variant of it.
LEMMA VariantsVersions ==
  ASSUME NEW a, Admissible(a), NEW b \in Variants(a), NEW v \in Versions
  PROVE  Read(v, b) \in Variants(a) /\ Stored(v, b) \in Variants(a)
<1>1. a \in Authorities /\ Admissible(b)
  BY VariantAdmissible DEF Admissible
<1>2. ConvertTo(b) \in Variants(a) /\ ConvertFrom(b) \in Variants(a)
  BY <1>1, VariantsConverted
<1>3. SetDefaults(ConvertTo(b)) = ConvertTo(b) /\ SetDefaults(ConvertFrom(b)) = ConvertFrom(b)
  BY <1>1, ConversionAdmissible, DefaultsKeep
<1> QED
  BY <1>2, <1>3 DEF Read, Stored

\* Reading an admissible authority in a version gives one; storing one in a
\* version stores one.
LEMMA VersionsAdmissible ==
  ASSUME NEW a, Admissible(a), NEW v \in Versions
  PROVE  Admissible(Read(v, a)) /\ Admissible(Stored(v, a))
BY ConversionAdmissible, DefaultsKeep DEF Read, Stored

\* A write of an authority that is admissible is not refused; any write leaves an
\* admissible authority stored.
LEMMA WriteAdmissible ==
  ASSUME NEW v \in Versions, NEW a \in Authorities, NEW step \in {"submit", "write"},
         StoredAdmissible, Write(v, a, step), step = "write" => Admissible(a)
  PROVE  (stored' # None => Admissible(stored')) /\ "write" \notin failed'
<1>1. SetDefaults(a) \in Authorities /\ ~NeedsURL(SetDefaults(a))
  BY DefaultsSet
<1>2. Validate(v, SetDefaults(a)) = ValidateAuthority(SetDefaults(a))
  BY DEF Validate, ValidateV1beta1, ValidateAttestationV1beta1, ValidateAuthority
<1>3. CASE ValidateAuthority(SetDefaults(a))
  <2>1. Admissible(SetDefaults(a))
    BY <1>1, <1>3 DEF Admissible
  <2>2. stored' = Stored(v, SetDefaults(a)) /\ failed' = failed
    BY <1>2, <1>3 DEF Write
  <2> QED
    BY <2>1, <2>2, VersionsAdmissible DEF StoredAdmissible, StaysAdmissible
<1>4. CASE ~ValidateAuthority(SetDefaults(a))
  <2>1. step = "submit"
    BY <1>4, DefaultsKeep DEF Admissible
  <2>2. stored' = stored /\ failed' = failed \cup {step}
    BY <1>2, <1>4 DEF Write
  <2> QED
    BY <2>1, <2>2 DEF StoredAdmissible, StaysAdmissible
<1> QED
  BY <1>3, <1>4

\* What is stored is always admissible.
LEMMA AlwaysAdmissible == Spec => []StoredAdmissible
<1>1. Init => StoredAdmissible
  BY InputsAssumption DEF Init, StoredAdmissible, StaysAdmissible
<1>2. StoredAdmissible /\ [Next]_vars => StoredAdmissible'
  <2> SUFFICES ASSUME StoredAdmissible, [Next]_vars
               PROVE  StoredAdmissible'
    OBVIOUS
  <2>1. ASSUME NEW v \in Versions, Submit(v)
        PROVE  StoredAdmissible'
    <3>1. sent \in Authorities /\ sent' = sent /\ Write(v, sent, "submit")
      BY <2>1 DEF Submit, StoredAdmissible
    <3> QED
      BY <3>1, WriteAdmissible DEF StoredAdmissible, StaysAdmissible
  <2>2. ASSUME NEW v \in Versions, WriteBack(v)
        PROVE  StoredAdmissible'
    <3>1. stored # None /\ sent' = sent /\ Write(v, Read(v, stored), "write")
      BY <2>2 DEF WriteBack
    <3>2. Admissible(Read(v, stored))
      BY <3>1, VersionsAdmissible DEF StoredAdmissible
    <3>3. Read(v, stored) \in Authorities
      BY <3>2 DEF Admissible
    <3> QED
      BY <3>1, <3>2, <3>3, WriteAdmissible DEF StoredAdmissible, StaysAdmissible
  <2>3. CASE Compile
    BY <2>3 DEF Compile, StoredAdmissible, StaysAdmissible
  <2>4. CASE Load
    <3>1. sent' = sent /\ stored' = stored /\ (failed' = failed \/ failed' = failed \cup {"load"})
      BY <2>4 DEF Load
    <3> QED
      BY <3>1 DEF StoredAdmissible, StaysAdmissible
  <2>5. CASE Check
    BY <2>5 DEF Check, StoredAdmissible, StaysAdmissible
  <2>6. CASE UNCHANGED vars
    BY <2>6 DEF vars, StoredAdmissible, StaysAdmissible
  <2> QED
    BY <2>1, <2>2, <2>3, <2>4, <2>5, <2>6 DEF Next
<1> QED
  BY <1>1, <1>2, PTL DEF Spec

\* No write of an authority that was admitted is ever refused, whatever users
\* write, in whichever versions and however often it is written back.
THEOREM AdmittedStaysAdmissible == Spec => []StaysAdmissible
<1>1. StoredAdmissible => StaysAdmissible
  BY DEF StoredAdmissible
<1> QED
  BY <1>1, AlwaysAdmissible, PTL
-----------------------------------------------------------------------------
(* The compiled form of an admissible authority.                            *)

\* Authority.Validate: one verifier, and what goes with it.
LEMMA OneVerifier ==
  ASSUME NEW a \in Authorities, ValidateAuthority(a)
  PROVE  /\ \/ /\ a.key # None /\ a.keyless = None /\ a.static = None /\ a.gm = None
               /\ ValidateKeyRef(a.key)
            \/ /\ a.key = None /\ a.keyless # None /\ a.static = None /\ a.gm = None
               /\ ValidateKeyless(a.keyless)
            \/ /\ a.key = None /\ a.keyless = None /\ a.static = None /\ a.gm = "full"
               /\ a.attestation = None /\ a.tsa = None
            \/ /\ a.key = None /\ a.keyless = None /\ a.static \in {"pass", "fail"} /\ a.gm = None
               /\ a.attestation = None
         /\ Len(a.sources) <= 1 /\ \A i \in DOMAIN a.sources : ValidateOCI(a.sources[i])
         /\ a.attestation # None => ValidateAttestation(a.attestation)
<1> DEFINE None3(f) == \A g \in {"key", "keyless", "static", "gm"} \ {f} : a[g] = None
<1>1. /\ None3("key") => a.keyless = None /\ a.static = None /\ a.gm = None
      /\ None3("keyless") => a.key = None /\ a.static = None /\ a.gm = None
      /\ None3("static") => a.key = None /\ a.keyless = None /\ a.gm = None
      /\ None3("gm") => a.key = None /\ a.keyless = None /\ a.static = None
  OBVIOUS
<1>2. \/ a.key # None /\ None3("key") /\ ValidateKeyRef(a.key)
      \/ a.keyless # None /\ None3("keyless") /\ ValidateKeyless(a.keyless)
      \/ /\ a.gm # None /\ None3("gm") /\ ValidateGM(a.gm)
         /\ a.attestation = None /\ a.ctlog = None /\ a.tsa = None
      \/ /\ a.static # None /\ None3("static") /\ ValidateStatic(a.static)
         /\ a.attestation = None /\ a.ctlog = None /\ a.tsa = None /\ a.sources = <<>>
  BY DEF ValidateAuthority
<1> HIDE DEF None3
<1>3. /\ Len(a.sources) <= 1 /\ \A i \in DOMAIN a.sources : ValidateOCI(a.sources[i])
      /\ a.attestation # None => ValidateAttestation(a.attestation)
  BY DEF ValidateAuthority
<1> QED
  BY <1>1, <1>2, <1>3 DEF ValidateGM, ValidateStatic

\* inlinePublicKeys: data is what is left of the key.
LEMMA InlinedKeyFields ==
  ASSUME NEW a, Admissible(a)
  PROVE  /\ a.key = None => inlinePublicKeys(a).key = None
         /\ a.key # None => /\ inlinePublicKeys(a).key \in InlinedKeys
                            /\ inlinePublicKeys(a).key.data = NamedKey(a.key)
                            /\ inlinePublicKeys(a).key.hash = a.key.hash
<1>1. a \in Authorities /\ ValidateAuthority(a)
  BY DEF Admissible
<1>2. CASE a.key = None
  BY <1>1, <1>2 DEF inlinePublicKeys, Authorities
<1>3. CASE a.key # None
  <2>1. a.key \in KeyRefs /\ ValidateKeyRef(a.key)
    BY <1>1, <1>3, OneVerifier DEF Authorities
  <2>2. CASE a.key.data # ""
    <3>1. inlinePublicKeys(a).key = a.key
      BY <1>1, <1>3, <2>1, <2>2 DEF inlinePublicKeys, Authorities, ValidateKeyRef
    <3> QED
      BY <1>3, <2>1, <2>2, <3>1 DEF KeyRefs, InlinedKeys, ValidateKeyRef, ValidateKMS, NamedKey
  <2>3. CASE a.key.secret # ""
    <3> DEFINE k == [a.key EXCEPT !.data = "secret's", !.secret = ""]
    <3>1. k \in InlinedKeys /\ k.data = "secret's" /\ k.hash = a.key.hash /\ k.kms = ""
      BY <2>1, <2>3 DEF KeyRefs, InlinedKeys, ValidateKeyRef
    <3>2. inlinePublicKeys(a).key = IF k # None /\ k.kms # "" THEN [k EXCEPT !.data = "kms's", !.kms = ""] ELSE k
      BY <1>1, <1>3, <2>3 DEF inlinePublicKeys, Authorities
    <3> HIDE DEF k
    <3> QED
      BY <1>3, <2>1, <2>3, <3>1, <3>2 DEF ValidateKeyRef, NamedKey
  <2>4. CASE a.key.data = "" /\ a.key.secret = ""
    <3>1. inlinePublicKeys(a).key = [a.key EXCEPT !.data = "kms's", !.kms = ""]
      BY <1>1, <1>3, <2>1, <2>4 DEF inlinePublicKeys, Authorities, ValidateKeyRef
    <3> QED
      BY <1>3, <2>1, <2>4, <3>1 DEF KeyRefs, InlinedKeys, ValidateKeyRef, NamedKey
  <2> QED
    BY <2>2, <2>3, <2>4
<1> QED
  BY <1>2, <1>3

\* inlinePublicKeys: of a CA certificate only a secret is inlined.
LEMMA InlinedKeylessFields ==
  ASSUME NEW a, Admissible(a)
  PROVE  /\ a.keyless = None => inlinePublicKeys(a).keyless = None
         /\ a.keyless # None =>
              /\ inlinePublicKeys(a).keyless \in InlinedKeyless
              /\ inlinePublicKeys(a).keyless.url = a.keyless.url
              /\ inlinePublicKeys(a).keyless.identities = a.keyless.identities
              /\ inlinePublicKeys(a).keyless.root = a.keyless.root
              /\ inlinePublicKeys(a).keyless.ignoreSCT = a.keyless.ignoreSCT
<1>1. a \in Authorities /\ ValidateAuthority(a)
  BY DEF Admissible
<1>2. CASE a.keyless = None
  BY <1>1, <1>2 DEF inlinePublicKeys, Authorities
<1>3. CASE a.keyless # None
  <2> DEFINE l == a.keyless
             c == l.cacert
             d == IF c # None /\ c.secret # "" THEN [c EXCEPT !.data = "secret's", !.secret = ""] ELSE c
  <2>1. l \in KeylessRefs /\ ValidateKeyless(l)
    BY <1>1, <1>3, OneVerifier DEF Authorities
  <2>2. c \in KeyRefs \cup {None}
    BY <2>1 DEF KeylessRefs
  <2>3. c # None => ValidateKeyRef(c)
    BY <2>1 DEF ValidateKeyless
  <2>4. inlinePublicKeys(a).keyless = [l EXCEPT !.cacert = d]
    BY <1>1, <1>3 DEF inlinePublicKeys, Authorities
  <2>5. d \in InlinedKeys \cup {None}
    <3>1. CASE c = None
      BY <3>1
    <3>2. CASE c # None /\ c.secret # ""
      BY <2>2, <2>3, <3>2 DEF KeyRefs, InlinedKeys, ValidateKeyRef, ValidateKMS
    <3>3. CASE c # None /\ c.secret = ""
      BY <2>2, <2>3, <3>3 DEF KeyRefs, InlinedKeys, ValidateKeyRef, ValidateKMS
    <3> QED
      BY <3>1, <3>2, <3>3
  <2> HIDE DEF d
  <2>6. l.identities = "full"
    BY <2>1 DEF ValidateKeyless, ValidateIdentities
  <2> QED
    BY <1>3, <2>1, <2>4, <2>5, <2>6 DEF KeylessRefs, InlinedKeyless
<1> QED
  BY <1>2, <1>3

Fields == {"key", "keyless", "static", "gm", "sources", "ctlog", "tsa", "attestation", "format"}

\* inlinePolicies: the text of the policy the user named.
LEMMA InlinedPolicyFields ==
  ASSUME NEW a, Admissible(a), NEW b, DOMAIN b = Fields, b.attestation = a.attestation
  PROVE  /\ DOMAIN inlinePolicies(b) = Fields
         /\ \A f \in Fields \ {"attestation"} : inlinePolicies(b)[f] = b[f]
         /\ a.attestation = None => inlinePolicies(b).attestation = None
         /\ a.attestation # None => inlinePolicies(b).attestation # None
         /\ a.attestation # None /\ a.attestation.policy = None =>
              inlinePolicies(b).attestation.policy = None
         /\ a.attestation # None /\ a.attestation.policy # None =>
              /\ inlinePolicies(b).attestation.policy # None
              /\ inlinePolicies(b).attestation.policy.data = NamedPolicy(a.attestation.policy)
<1>1. a \in Authorities /\ ValidateAuthority(a)
  BY DEF Admissible
<1>2. a.attestation \in Attestations \cup {None}
  BY <1>1 DEF Authorities
<1>3. CASE a.attestation = None \/ a.attestation.policy = None
  BY <1>2, <1>3 DEF inlinePolicies
<1>4. CASE a.attestation # None /\ a.attestation.policy # None
  <2> DEFINE p == a.attestation.policy
             q == IF p.configMap THEN [p EXCEPT !.data = "configMap's", !.configMap = FALSE] ELSE p
             r == IF q.remote THEN [q EXCEPT !.data = "remote's", !.remote = FALSE] ELSE q
             t == [a.attestation EXCEPT !.policy = r]
  <2>1. p \in Policies /\ ValidatePolicy(p)
    BY <1>1, <1>2, <1>4, OneVerifier DEF Attestations, ValidateAttestation
  <2>2. q \in [data : {"", "text", "configMap's"}, configMap : {FALSE}, remote : BOOLEAN]
        /\ (q.remote <=> p.remote) /\ (~p.remote => q.data = NamedPolicy(p))
    BY <2>1 DEF Policies, ValidatePolicy, NamedPolicy
  <2> HIDE DEF q
  <2>3. r \in InlinedPolicies /\ r.data = NamedPolicy(p)
    <3>1. CASE q.remote
      <4>1. r = [q EXCEPT !.data = "remote's", !.remote = FALSE]
        BY <3>1
      <4>2. p.remote /\ NamedPolicy(p) = "remote's"
        BY <2>1, <2>2, <3>1 DEF Policies, ValidatePolicy, NamedPolicy
      <4> QED
        BY <2>2, <4>1, <4>2 DEF InlinedPolicies
    <3>2. CASE ~q.remote
      BY <2>1, <2>2, <3>2 DEF InlinedPolicies, NamedPolicy, Policies, ValidatePolicy
    <3> QED
      BY <3>1, <3>2
  <2>4. r # None
    BY <2>3, NoneAssumption
  <2>5. inlinePolicies(b) = [b EXCEPT !.attestation = t]
    BY <1>4 DEF inlinePolicies, q
  <2> HIDE DEF r
  <2>6. t \in InlinedAttestations /\ t.policy = r
    BY <1>2, <1>4, <2>3 DEF Attestations, InlinedAttestations
  <2>7. t.policy = r /\ t # None
    BY <2>6, NoneAssumption
  <2> HIDE DEF t
  <2>8. [b EXCEPT !.attestation = t].attestation = t
    BY DEF Fields
  <2>9. \A f \in Fields \ {"attestation"} : [b EXCEPT !.attestation = t][f] = b[f]
    BY DEF Fields
  <2>10. DOMAIN [b EXCEPT !.attestation = t] = Fields
    OBVIOUS
  <2> QED
    BY <1>4, <2>3, <2>4, <2>5, <2>7, <2>8, <2>9, <2>10
<1> QED
  BY <1>2, <1>3, <1>4

\* The compiled form of an authority, field by field: a key is the one the user
\* named, an attestation has the text of its policy.
CompiledForm(a, e) ==
  /\ e.static = a.static /\ e.gm = a.gm /\ e.sources = a.sources
  /\ e.ctlog = a.ctlog /\ e.tsa = a.tsa /\ e.format = a.format
  /\ a.key = None => e.key = None
  /\ a.key # None => /\ e.key \in CompiledKeys
                     /\ e.key.data = NamedKey(a.key)
                     /\ e.key.hash = IF a.key.hash = "" THEN "sha256" ELSE a.key.hash
  /\ a.keyless = None => e.keyless = None
  /\ a.keyless # None => /\ e.keyless \in CompiledKeyless
                         /\ e.keyless.url = a.keyless.url
                         /\ e.keyless.identities = a.keyless.identities
                         /\ e.keyless.root = a.keyless.root
  /\ a.attestation = None => e.attestation = None
  /\ a.attestation # None =>
       /\ e.attestation \in CompiledAttestations
       /\ e.attestation.policy = IF a.attestation.policy = None THEN None
                                 ELSE NamedPolicy(a.attestation.policy)

\* That is what inlinePublicKeys, inlinePolicies and ConvertToWebhook make of it.
LEMMA CompiledFields ==
  ASSUME NEW a, Admissible(a)
  PROVE  CompiledForm(a, Compiled(a))
<1>1. a \in Authorities /\ ValidateAuthority(a)
  BY DEF Admissible
<1> DEFINE e == Compiled(a)
           b == inlinePublicKeys(a)
           c == inlinePolicies(b)
           key(k) == IF k = None THEN None
                     ELSE [data |-> k.data, hash |-> IF k.hash = "" THEN "sha256" ELSE k.hash]
           l == IF c.keyless = None THEN None ELSE [c.keyless EXCEPT !.cacert = key(c.keyless.cacert)]
           t == IF c.attestation = None THEN None
                ELSE IF c.attestation.policy = None THEN [policy |-> None]
                ELSE [policy |-> c.attestation.policy.data]
<1>2. /\ DOMAIN b = Fields /\ b.attestation = a.attestation
      /\ b.static = a.static /\ b.gm = a.gm /\ b.sources = a.sources
      /\ b.ctlog = a.ctlog /\ b.tsa = a.tsa /\ b.format = a.format
  BY <1>1 DEF inlinePublicKeys, Authorities, Fields
<1>3. e = [c EXCEPT !.key = key(c.key), !.keyless = l, !.attestation = t]
  BY DEF Compiled, ConvertToWebhook
<1> HIDE DEF e
<1>4. /\ a.key = None => b.key = None
      /\ a.key # None => b.key \in InlinedKeys /\ b.key.data = NamedKey(a.key) /\ b.key.hash = a.key.hash
  BY InlinedKeyFields
<1>5. /\ a.keyless = None => b.keyless = None
      /\ a.keyless # None =>
           /\ b.keyless \in InlinedKeyless
           /\ b.keyless.url = a.keyless.url /\ b.keyless.identities = a.keyless.identities
           /\ b.keyless.root = a.keyless.root
  BY InlinedKeylessFields
<1> HIDE DEF b
<1>6. /\ DOMAIN c = Fields
      /\ \A f \in Fields \ {"attestation"} : c[f] = b[f]
      /\ a.attestation = None => c.attestation = None
      /\ a.attestation # None => c.attestation # None
      /\ a.attestation # None /\ a.attestation.policy = None => c.attestation.policy = None
      /\ a.attestation # None /\ a.attestation.policy # None =>
           /\ c.attestation.policy # None
           /\ c.attestation.policy.data = NamedPolicy(a.attestation.policy)
  BY <1>2, InlinedPolicyFields
<1> HIDE DEF c
<1>7. /\ c.key = b.key /\ c.keyless = b.keyless /\ c.static = a.static /\ c.gm = a.gm
      /\ c.sources = a.sources /\ c.ctlog = a.ctlog /\ c.tsa = a.tsa /\ c.format = a.format
  BY <1>2, <1>6 DEF Fields
<1>8. \A k \in InlinedKeys :
        /\ key(k) \in CompiledKeys /\ key(k).data = k.data
        /\ key(k).hash = IF k.hash = "" THEN "sha256" ELSE k.hash
  BY NoneAssumption DEF InlinedKeys, CompiledKeys
<1>9. key(None) = None
  OBVIOUS
<1> HIDE DEF key
<1>10. /\ a.keyless = None => l = None
       /\ a.keyless # None => /\ l \in CompiledKeyless
                              /\ l.url = a.keyless.url /\ l.identities = a.keyless.identities
                              /\ l.root = a.keyless.root
  <2>1. CASE a.keyless = None
    BY <1>5, <1>7, <2>1
  <2>2. CASE a.keyless # None
    <3> DEFINE m == c.keyless
    <3>1. m \in InlinedKeyless
      BY <1>5, <1>7, <2>2
    <3>2. m # None
      BY <3>1, NoneAssumption
    <3>3. l = [m EXCEPT !.cacert = key(m.cacert)]
      BY <3>2
    <3>4. key(m.cacert) \in CompiledKeys \cup {None}
      BY <3>1, <1>8, <1>9 DEF InlinedKeyless
    <3>5. m.url = a.keyless.url /\ m.identities = a.keyless.identities /\ m.root = a.keyless.root
      BY <1>5, <1>7, <2>2
    <3> HIDE DEF m, l
    <3> QED
      BY <2>2, <3>1, <3>3, <3>4, <3>5 DEF CompiledKeyless, InlinedKeyless
  <2> QED
    BY <2>1, <2>2
<1> HIDE DEF l
<1>11. /\ a.attestation = None => t = None
       /\ a.attestation # None =>
            /\ t \in CompiledAttestations
            /\ t.policy = IF a.attestation.policy = None THEN None ELSE NamedPolicy(a.attestation.policy)
  <2>1. CASE a.attestation = None
    BY <1>6, <2>1
  <2>2. CASE a.attestation # None /\ a.attestation.policy = None
    BY <1>6, <2>2 DEF CompiledAttestations
  <2>3. CASE a.attestation # None /\ a.attestation.policy # None
    <3>1. a.attestation.policy \in Policies /\ ValidatePolicy(a.attestation.policy)
      BY <1>1, <2>3, OneVerifier DEF Authorities, Attestations, ValidateAttestation
    <3>2. NamedPolicy(a.attestation.policy) \in {"text", "configMap's", "remote's"}
      BY <3>1 DEF Policies, NamedPolicy
    <3>3. t = [policy |-> NamedPolicy(a.attestation.policy)]
      BY <1>6, <2>3
    <3> QED
      BY <2>3, <3>2, <3>3 DEF CompiledAttestations
  <2> QED
    BY <2>1, <2>2, <2>3
<1> HIDE DEF t
<1>12. /\ e.key = key(c.key) /\ e.keyless = l /\ e.attestation = t
       /\ e.static = c.static /\ e.gm = c.gm /\ e.sources = c.sources
       /\ e.ctlog = c.ctlog /\ e.tsa = c.tsa /\ e.format = c.format
  BY <1>3, <1>6 DEF Fields
<1>13. /\ a.key = None => key(c.key) = None
       /\ a.key # None => /\ key(c.key) \in CompiledKeys
                          /\ key(c.key).data = NamedKey(a.key)
                          /\ key(c.key).hash = IF a.key.hash = "" THEN "sha256" ELSE a.key.hash
  BY <1>4, <1>7, <1>8, <1>9
<1> QED
  BY <1>7, <1>10, <1>11, <1>12, <1>13 DEF CompiledForm, e
-----------------------------------------------------------------------------
(* What follows for the webhook.                                            *)

\* UnmarshalJSON takes the compiled form of an admissible authority, unless the
\* authority's source is a registry with a port.
LEMMA ParsesUnlessPort ==
  ASSUME NEW a, Admissible(a), a.sources # <<"registry:port">>
  PROVE  Parses(Compiled(a))
<1> DEFINE e == Compiled(a)
<1>1. a \in Authorities /\ ValidateAuthority(a)
  BY DEF Admissible
<1>2. /\ e.sources = a.sources
      /\ e.key # None => e.key \in CompiledKeys
      /\ e.keyless # None => e.keyless \in CompiledKeyless
  BY CompiledFields DEF CompiledForm
<1> HIDE DEF e
<1>3. e.key # None => e.key.data # "junk" /\ e.key.hash # "md5"
  BY <1>2 DEF CompiledKeys
<1>4. e.keyless # None /\ e.keyless.cacert # None =>
        e.keyless.cacert.data # "junk" /\ e.keyless.cacert.hash # "md5"
  BY <1>2 DEF CompiledKeyless, CompiledKeys
<1>5. ASSUME NEW i \in DOMAIN e.sources
      PROVE  NewRepository(e.sources[i]) # "invalid"
  <2>1. a.sources \in Seq(OCIs) /\ Len(a.sources) <= 1
    BY <1>1, OneVerifier DEF Authorities
  <2>2. i = 1 /\ Len(a.sources) = 1 /\ a.sources[1] \in OCIs
    <3> DEFINE n == Len(a.sources)
    <3>1. n \in Nat /\ n <= 1 /\ i \in 1..n
      BY <1>2, <1>5, <2>1
    <3> HIDE DEF n
    <3>2. i = 1 /\ n = 1
      BY <3>1
    <3> QED
      BY <2>1, <3>2 DEF n
  <2>3. a.sources = <<a.sources[1]>>
    BY <2>1, <2>2
  <2>4. a.sources[1] # "registry:port"
    BY <2>3
  <2> QED
    BY <1>2, <2>2, <2>4 DEF OCIs, NewRepository
<1> QED
  BY <1>3, <1>4, <1>5 DEF Parses, e

\* An authority that asks for material that is there gets its options.
LEMMA LegacyOptsThere ==
  ASSUME NEW a, Admissible(a)
  PROVE  LegacyOpts(Compiled(a), {"tuf", "r"}) # None
<1> DEFINE e == Compiled(a)
           rekor == RekorClientAndKeys(e)
           timestamps == e.tsa # None /\ e.tsa # ""
           certs == IF e.keyless = None THEN "" ELSE Material(e.keyless.root)
           needed == ({certs, rekor[2]} \cup (IF timestamps THEN {e.tsa} ELSE {})) \ {""}
           opts == [bundle |-> FALSE, certs |-> certs, rekor |-> rekor[1], rekorKeys |-> rekor[2],
                    ignoreTlog |-> timestamps \/ rekor[2] = "", signedTimestamps |-> timestamps,
                    ignoreSCT |-> e.keyless # None /\ e.keyless.ignoreSCT]
<1>1. /\ e.ctlog \in TLogs \cup {None} /\ e.tsa \in {"", "r", None}
      /\ e.keyless # None => e.keyless \in CompiledKeyless
  <2>1. a.ctlog \in TLogs \cup {None} /\ a.tsa \in {"", "r", None}
    BY DEF Admissible, Authorities
  <2> QED
    BY <2>1, CompiledFields DEF CompiledForm
<1>2. LegacyOpts(e, {"tuf", "r"}) = IF ~(needed \subseteq {"tuf", "r"}) THEN None ELSE opts
  BY DEF LegacyOpts
<1> HIDE DEF e
<1>3. certs \in {"", "tuf", "r"}
  BY <1>1 DEF Material, CompiledKeyless
<1>4. rekor[1] \in BOOLEAN /\ rekor[2] \in {"", "tuf", "r"}
  <2>1. CASE e.ctlog = None
    BY <2>1 DEF RekorClientAndKeys
  <2>2. CASE e.ctlog # None
    <3>1. e.ctlog \in TLogs
      BY <1>1, <2>2
    <3>2. CASE e.ctlog.root # ""
      BY <2>2, <3>1, <3>2 DEF RekorClientAndKeys, TLogs
    <3>3. CASE e.ctlog.root = "" /\ e.ctlog.url
      BY <2>2, <3>1, <3>3 DEF RekorClientAndKeys, TLogs
    <3>4. CASE e.ctlog.root = "" /\ ~e.ctlog.url
      BY <2>2, <3>1, <3>4 DEF RekorClientAndKeys, TLogs
    <3> QED
      BY <3>2, <3>3, <3>4
  <2> QED
    BY <2>1, <2>2
<1> HIDE DEF certs, rekor
<1>5. needed \subseteq {"tuf", "r"}
  BY <1>1, <1>3, <1>4
<1>6. timestamps \in BOOLEAN /\ (e.keyless # None /\ e.keyless.ignoreSCT) \in BOOLEAN
  OBVIOUS
<1>7. opts \in Options
  BY <1>3, <1>4, <1>6 DEF Options
<1> QED
  BY <1>2, <1>5, <1>7, NoneAssumption DEF e

\* The check c is the one the authority a asks for.
RightCheck(a, c) ==
  /\ \/ c.verifier = "error" /\ (a.format = "bundle" \/ c.available # {"tuf", "r"})
     \/ a.key # None /\ c.verifier = "key"
     \/ a.keyless # None /\ c.verifier = IF a.keyless.cacert = None THEN "fulcio" ELSE "no url"
     \/ a.gm # None /\ c.verifier = "gm"
     \/ a.static # None /\ c.verifier = a.static
  /\ a.key # None => /\ c.keys = {NamedKey(a.key)}
                     /\ c.hash = IF a.key.hash = "" THEN "sha256" ELSE a.key.hash
  /\ a.keyless # None => c.identities = a.keyless.identities
  /\ c.policy = IF a.attestation = None \/ a.attestation.policy = None THEN None
                ELSE NamedPolicy(a.attestation.policy)

\* Such is the check against the compiled form of an admissible authority.
LEMMA CompiledChecks ==
  ASSUME NEW a, Admissible(a), NEW available \in SUBSET {"tuf", "r"}
  PROVE  RightCheck(a, CheckOf(Compiled(a), available))
<1> DEFINE e == Compiled(a)
           c == CheckOf(e, available)
<1>1. a \in Authorities /\ ValidateAuthority(a)
  BY DEF Admissible
<1>2. e = Compiled(a)
  OBVIOUS
<1> HIDE DEF e
<1>3. /\ e.static = a.static /\ e.gm = a.gm /\ e.tsa = a.tsa /\ e.format = a.format
      /\ a.key = None => e.key = None
      /\ a.key # None => /\ e.key \in CompiledKeys
                         /\ e.key.data = NamedKey(a.key)
                         /\ e.key.hash = IF a.key.hash = "" THEN "sha256" ELSE a.key.hash
      /\ a.keyless = None => e.keyless = None
      /\ a.keyless # None => /\ e.keyless \in CompiledKeyless
                             /\ e.keyless.url = a.keyless.url
                             /\ e.keyless.identities = a.keyless.identities
      /\ a.attestation = None => e.attestation = None
      /\ a.attestation # None =>
           /\ e.attestation \in CompiledAttestations
           /\ e.attestation.policy = IF a.attestation.policy = None THEN None
                                     ELSE NamedPolicy(a.attestation.policy)
  BY <1>2, CompiledFields DEF CompiledForm
<1>4. a.format # "bundle" /\ available = {"tuf", "r"} => CheckOpts(e, available) # None
  BY <1>2, <1>3, LegacyOptsThere DEF CheckOpts
<1>5. /\ c.available = available /\ c.verifier = Verifier(e, available)
      /\ c.keys = PublicKeys(e.key)
      /\ c.hash = IF e.key = None THEN "" ELSE e.key.hash
      /\ c.identities = IF e.keyless = None THEN "" ELSE e.keyless.identities
      /\ c.policy = IF e.attestation = None THEN None ELSE e.attestation.policy
  BY DEF CheckOf
<1> HIDE DEF c
<1>6. a.key # None => e.key # None /\ PublicKeys(e.key) = {NamedKey(a.key)}
  <2> HAVE a.key # None
  <2>1. a.key \in KeyRefs /\ ValidateKeyRef(a.key)
    BY <1>1, OneVerifier DEF Authorities
  <2>2. NamedKey(a.key) # ""
    BY <2>1 DEF NamedKey, ValidateKeyRef
  <2> QED
    BY <1>3, <2>2, NoneAssumption DEF PublicKeys
<1>7. a.keyless # None => /\ e.keyless # None
                          /\ e.keyless.url = (a.keyless.cacert = None)
  <2> HAVE a.keyless # None
  <2>1. a.keyless \in KeylessRefs /\ ValidateKeyless(a.keyless)
    BY <1>1, OneVerifier DEF Authorities
  <2>2. a.keyless.url = (a.keyless.cacert = None)
    BY <2>1 DEF ValidateKeyless, KeylessRefs
  <2> QED
    BY <1>3, <2>2, NoneAssumption
<1>8. a.attestation # None => e.attestation # None
  BY <1>3, NoneAssumption
<1>9. \/ c.verifier = "error" /\ (a.format = "bundle" \/ available # {"tuf", "r"})
      \/ a.key # None /\ c.verifier = "key"
      \/ a.keyless # None /\ c.verifier = IF a.keyless.cacert = None THEN "fulcio" ELSE "no url"
      \/ a.gm # None /\ c.verifier = "gm"
      \/ a.static # None /\ c.verifier = a.static
  <2>1. CASE a.static # None
    <3>1. a.static \in {"pass", "fail"}
      BY <1>1, <2>1, OneVerifier
    <3> QED
      BY <1>3, <1>5, <2>1, <3>1 DEF Verifier
  <2>2. CASE a.static = None /\ CheckOpts(e, available) = None
    BY <1>3, <1>4, <1>5, <2>2 DEF Verifier
  <2>3. CASE a.static = None /\ CheckOpts(e, available) # None
    <3>1. c.verifier = IF e.attestation # None THEN AttestationVerifier(e) ELSE SignatureVerifier(e)
      BY <1>3, <1>5, <2>3 DEF Verifier
    <3>2. CASE a.key # None
      <4>1. SignatureVerifier(e) = "key" /\ AttestationVerifier(e) = "key"
        BY <1>6, <3>2 DEF SignatureVerifier, AttestationVerifier
      <4> QED
        BY <3>1, <3>2, <4>1
    <3>3. CASE a.keyless # None
      <4>1. e.key = None /\ e.keyless # None
        BY <1>1, <1>3, <1>7, <3>3, OneVerifier
      <4>2. /\ SignatureVerifier(e) = IF e.keyless.url THEN "fulcio" ELSE "no url"
            /\ AttestationVerifier(e) = IF e.keyless.url THEN "fulcio" ELSE "no url"
        BY <4>1 DEF SignatureVerifier, AttestationVerifier
      <4> QED
        BY <1>7, <3>1, <3>3, <4>2
    <3>4. CASE a.key = None /\ a.keyless = None
      <4>1. a.gm # None /\ a.attestation = None /\ a.tsa = None
        BY <1>1, <2>3, <3>4, OneVerifier, NoneAssumption
      <4>2. SignatureVerifier(e) = "gm"
        BY <1>3, <3>4, <4>1 DEF SignatureVerifier
      <4> QED
        BY <1>3, <3>1, <4>1, <4>2
    <3> QED
      BY <3>2, <3>3, <3>4
  <2> QED
    BY <2>1, <2>2, <2>3
<1>10. a.key # None => /\ c.keys = {NamedKey(a.key)}
                       /\ c.hash = IF a.key.hash = "" THEN "sha256" ELSE a.key.hash
  BY <1>3, <1>5, <1>6
<1>11. a.keyless # None => c.identities = a.keyless.identities
  BY <1>3, <1>5, <1>7
<1>12. c.policy = IF a.attestation = None \/ a.attestation.policy = None THEN None
                  ELSE NamedPolicy(a.attestation.policy)
  BY <1>3, <1>5, <1>8
<1> QED
  BY <1>5, <1>9, <1>10, <1>11, <1>12 DEF RightCheck, c, e
-----------------------------------------------------------------------------
(* The way from the user to the check of an image.                          *)

Defaulted == SetDefaults(sent)

\* Every form of the authority, wherever it is and however old it is by then, comes
\* from a variant of what the user wrote.
Descent ==
  /\ stored # None => Admissible(Defaulted) /\ stored \in Variants(Defaulted)
  /\ entry # None => stored # None /\ \E a \in Variants(Defaulted) : entry = Compiled(a)
  /\ loaded # None => stored # None /\ \E a \in Variants(Defaulted) : loaded = Compiled(a)
  /\ check # None => /\ stored # None
                     /\ \E a \in Variants(Defaulted), available \in SUBSET {"tuf", "r"} :
                          check = CheckOf(Compiled(a), available)
  /\ AdmittedLoads

\* SetDefaults sets the URL of a keyless authority and nothing else.
LEMMA DefaultedFields ==
  ASSUME NEW a \in Authorities, NEW d, d = SetDefaults(a)
  PROVE  /\ d \in Authorities
         /\ d.key = a.key /\ d.static = a.static /\ d.gm = a.gm /\ d.sources = a.sources
         /\ d.ctlog = a.ctlog /\ d.tsa = a.tsa /\ d.attestation = a.attestation /\ d.format = a.format
         /\ a.keyless = None <=> d.keyless = None
         /\ a.keyless # None => /\ d.keyless.cacert = a.keyless.cacert
                                /\ d.keyless.identities = a.keyless.identities
<1>1. d \in Authorities
  BY DefaultsSet
<1>2. CASE ~NeedsURL(a)
  BY <1>1, <1>2 DEF SetDefaults
<1>3. CASE NeedsURL(a)
  <2> DEFINE k == [a.keyless EXCEPT !.url = TRUE]
  <2>1. a.keyless \in KeylessRefs /\ a.keyless # None
    BY <1>3, NoneAssumption DEF NeedsURL, Authorities
  <2>2. /\ k \in KeylessRefs /\ k.cacert = a.keyless.cacert
        /\ k.identities = a.keyless.identities
    BY <2>1 DEF KeylessRefs
  <2>3. d = [a EXCEPT !.keyless = k]
    BY <1>3 DEF SetDefaults
  <2> HIDE DEF k
  <2>4. /\ d.keyless = k /\ d.key = a.key /\ d.static = a.static /\ d.gm = a.gm
        /\ d.sources = a.sources /\ d.ctlog = a.ctlog /\ d.tsa = a.tsa
        /\ d.attestation = a.attestation /\ d.format = a.format
    BY <2>3 DEF Authorities
  <2> QED
    BY <1>1, <2>1, <2>2, <2>4, NoneAssumption
<1> QED
  BY <1>2, <1>3

\* What the user submits is stored as a variant of it, if it is admissible.
LEMMA SubmitDescends ==
  ASSUME NEW v \in Versions, sent \in Authorities, Write(v, sent, "submit"), stored' # stored
  PROVE  Admissible(Defaulted) /\ stored' \in Variants(Defaulted)
<1>1. Validate(v, Defaulted) = ValidateAuthority(Defaulted)
  BY DEF Validate, ValidateV1beta1, ValidateAttestationV1beta1, ValidateAuthority
<1>2. ValidateAuthority(Defaulted) /\ stored' = Stored(v, Defaulted)
  BY <1>1 DEF Write, Defaulted
<1>3. Admissible(Defaulted) /\ Defaulted \in Authorities
  BY <1>2, DefaultsSet DEF Admissible, Defaulted
<1>4. Defaulted \in Variants(Defaulted)
  BY <1>3, VariantItself
<1>5. Stored(v, Defaulted) \in Variants(Defaulted)
  BY <1>3, <1>4, VariantsVersions
<1> QED
  BY <1>2, <1>3, <1>5

\* A write of a variant stores a variant.
LEMMA WriteDescends ==
  ASSUME NEW v \in Versions, NEW d, Admissible(d), NEW a \in Variants(d), Write(v, a, "write"),
         stored' # stored
  PROVE  stored' \in Variants(d)
<1>1. SetDefaults(a) = a
  BY VariantAdmissible, DefaultsKeep
<1>2. stored' = Stored(v, SetDefaults(a))
  BY DEF Write
<1> QED
  BY <1>1, <1>2, VariantsVersions

\* Descent is an invariant.
LEMMA AlwaysDescends == Spec => []Descent
<1>1. Init => Descent
  BY DEF Init, Descent, AdmittedLoads
<1>2. StoredAdmissible /\ Descent /\ [Next]_vars => Descent'
  <2> SUFFICES ASSUME StoredAdmissible, Descent, [Next]_vars
               PROVE  Descent'
    OBVIOUS
  <2> DEFINE V == Variants(Defaulted)
  <2>1. sent' = sent /\ Defaulted' = Defaulted /\ V' = V
    BY DEF Next, Submit, WriteBack, Compile, Load, Check, vars, Defaulted
  <2>2. ASSUME NEW v \in Versions, Submit(v)
        PROVE  Descent'
    <3>1. /\ stored = None /\ Write(v, sent, "submit") /\ sent \in Authorities
          /\ UNCHANGED <<entry, loaded, check>>
      BY <2>2 DEF Submit, StoredAdmissible
    <3>2. stored' # None => Admissible(Defaulted) /\ stored' \in V
      BY <3>1, SubmitDescends
    <3>3. failed' = failed \/ failed' = failed \cup {"submit"}
      BY <3>1 DEF Write
    <3> HIDE DEF V
    <3>4. AdmittedLoads'
      BY <2>1, <3>3 DEF AdmittedLoads, Descent
    <3> QED
      BY <2>1, <3>1, <3>2, <3>4 DEF Descent, V
  <2>3. ASSUME NEW v \in Versions, WriteBack(v)
        PROVE  Descent'
    <3>1. /\ stored # None /\ Write(v, Read(v, stored), "write")
          /\ UNCHANGED <<entry, loaded, check>>
      BY <2>3 DEF WriteBack
    <3>2. Admissible(Defaulted) /\ stored \in V
      BY <3>1 DEF Descent
    <3>3. Read(v, stored) \in V /\ Read(v, stored) \in Authorities
      BY <3>2, VariantsVersions, VariantAdmissible DEF Admissible
    <3>4. stored' \in V
      BY <3>1, <3>2, <3>3, WriteDescends
    <3>5. stored' # None
      <4>1. Admissible(stored')
        BY <3>2, <3>4, VariantAdmissible
      <4> QED
        BY <4>1, NoneAssumption DEF Admissible
    <3>6. failed' = failed \/ failed' = failed \cup {"write"}
      BY <3>1 DEF Write
    <3> HIDE DEF V
    <3>7. AdmittedLoads'
      BY <2>1, <3>6 DEF AdmittedLoads, Descent
    <3> QED
      BY <2>1, <3>1, <3>2, <3>4, <3>5, <3>7 DEF Descent, V
  <2>4. CASE Compile
    <3>1. /\ stored # None /\ (entry' = Compiled(stored) \/ entry' = None)
          /\ UNCHANGED <<stored, loaded, check, failed>>
      BY <2>4 DEF Compile
    <3> QED
      BY <2>1, <3>1 DEF Descent, AdmittedLoads
  <2>5. CASE Load
    <3>1. UNCHANGED <<stored, entry, check>>
      BY <2>5 DEF Load
    <3>2. CASE entry = None \/ Parses(entry)
      <4>1. loaded' = entry /\ failed' = failed
        BY <2>5, <3>2 DEF Load
      <4> QED
        BY <2>1, <3>1, <4>1 DEF Descent, AdmittedLoads
    <3>3. CASE entry # None /\ ~Parses(entry)
      <4>1. loaded' = loaded /\ failed' = failed \cup {"load"}
        BY <2>5, <3>3 DEF Load
      <4>2. Admissible(Defaulted) /\ \E a \in V : entry = Compiled(a)
        BY <3>3 DEF Descent
      <4>3. PICK a \in V : entry = Compiled(a)
        BY <4>2
      <4>4. Admissible(a) /\ a.sources = Defaulted.sources
        BY <4>2, VariantAdmissible, VariantFields DEF Admissible
      <4>5. a.sources = <<"registry:port">>
        BY <3>3, <4>3, <4>4, ParsesUnlessPort
      <4>6. Defaulted.sources = sent.sources
        BY DefaultedFields DEF Defaulted, StoredAdmissible
      <4>7. AdmittedLoads'
        BY <2>1, <4>4, <4>5, <4>6, ZenonT(60) DEF AdmittedLoads
      <4> QED
        BY <2>1, <3>1, <4>1, <4>7 DEF Descent
    <3> QED
      BY <3>2, <3>3
  <2>6. CASE Check
    <3>1. /\ loaded # None /\ \E available \in SUBSET {"tuf", "r"} : check' = CheckOf(loaded, available)
          /\ UNCHANGED <<stored, entry, loaded, failed>>
      BY <2>6 DEF Check
    <3> QED
      BY <2>1, <3>1 DEF Descent, AdmittedLoads
  <2>7. CASE UNCHANGED vars
    BY <2>1, <2>7 DEF vars, Descent, AdmittedLoads
  <2> QED
    BY <2>2, <2>3, <2>4, <2>5, <2>6, <2>7 DEF Next
<1> QED
  BY <1>1, <1>2, AlwaysAdmissible, PTL DEF Spec

\* The compiled form of an admitted authority parses in the webhook unless its
\* source is a registry with a port, whatever users write and however often the
\* object is written, compiled and loaded.
THEOREM AdmittedAuthoritiesLoad == Spec => []AdmittedLoads
<1>1. Descent => AdmittedLoads
  BY DEF Descent
<1> QED
  BY <1>1, AlwaysDescends, PTL

\* Every check of an image uses the verifier the user chose with the key, hash,
\* identities and policy the user named, through any conversions, reconciliations
\* and loads in between.
THEOREM ChecksUseTheChosenVerifier == Spec => []RightVerifier
<1>1. StoredAdmissible /\ Descent => RightVerifier
  <2> SUFFICES ASSUME StoredAdmissible, Descent, check # None
               PROVE  RightVerifier
    BY DEF RightVerifier
  <2>1. Admissible(Defaulted) /\ sent \in Authorities
    BY DEF Descent, StoredAdmissible
  <2>2. PICK a \in Variants(Defaulted), available \in SUBSET {"tuf", "r"} :
          check = CheckOf(Compiled(a), available)
    BY DEF Descent
  <2>3. /\ Admissible(a)
        /\ a.key = Defaulted.key /\ a.keyless = Defaulted.keyless /\ a.static = Defaulted.static
        /\ a.gm = Defaulted.gm /\ a.attestation = Defaulted.attestation /\ a.format = Defaulted.format
    BY <2>1, VariantAdmissible, VariantFields DEF Admissible
  <2>4. /\ sent.key = Defaulted.key /\ sent.static = Defaulted.static /\ sent.gm = Defaulted.gm
        /\ sent.attestation = Defaulted.attestation /\ sent.format = Defaulted.format
        /\ sent.keyless = None <=> Defaulted.keyless = None
        /\ sent.keyless # None => /\ Defaulted.keyless.cacert = sent.keyless.cacert
                                  /\ Defaulted.keyless.identities = sent.keyless.identities
    BY <2>1, DefaultedFields DEF Defaulted
  <2>5. RightCheck(a, check)
    BY <2>2, <2>3, CompiledChecks
  <2>6. /\ sent.key = a.key /\ sent.static = a.static /\ sent.gm = a.gm
        /\ sent.attestation = a.attestation /\ sent.format = a.format
        /\ sent.keyless = None <=> a.keyless = None
        /\ sent.keyless # None => /\ a.keyless.cacert = sent.keyless.cacert
                                  /\ a.keyless.identities = sent.keyless.identities
    BY <2>3, <2>4
  <2>7. \/ check.verifier = "error" /\ (sent.format = "bundle" \/ check.available # {"tuf", "r"})
        \/ sent.key # None /\ check.verifier = "key"
        \/ /\ sent.keyless # None
           /\ check.verifier = IF sent.keyless.cacert = None THEN "fulcio" ELSE "no url"
        \/ sent.gm # None /\ check.verifier = "gm"
        \/ sent.static # None /\ check.verifier = sent.static
    BY <2>5, <2>6 DEF RightCheck
  <2>8. sent.key # None => /\ check.keys = {NamedKey(sent.key)}
                           /\ check.hash = IF sent.key.hash = "" THEN "sha256" ELSE sent.key.hash
    BY <2>5, <2>6 DEF RightCheck
  <2>9. sent.keyless # None => check.identities = sent.keyless.identities
    BY <2>5, <2>6 DEF RightCheck
  <2>10. check.policy = IF sent.attestation = None \/ sent.attestation.policy = None THEN None
                        ELSE NamedPolicy(sent.attestation.policy)
    BY <2>5, <2>6 DEF RightCheck
  <2> QED
    BY <2>7, <2>8, <2>9, <2>10 DEF RightVerifier
<1> QED
  BY <1>1, AlwaysAdmissible, AlwaysDescends, PTL

\* Nothing of how images are checked is lost in conversions but a log without a
\* URL and a timestamp without a TrustRoot, whatever users write, in whichever
\* versions and however often it is written back.
THEOREM ConversionKeepsTheCheck == Spec => []ConversionLosesNoMore
<1>1. StoredAdmissible /\ Descent => ConversionLosesNoMore
  <2> SUFFICES ASSUME StoredAdmissible, Descent, check # None,
                      sent.ctlog # None => sent.ctlog.url, sent.tsa # ""
               PROVE  check = AsWritten(check.available)
    BY DEF ConversionLosesNoMore
  <2>1. Admissible(Defaulted) /\ sent \in Authorities /\ Defaulted \in Authorities
    BY DEF Descent, StoredAdmissible, Admissible
  <2>2. PICK a \in Variants(Defaulted), available \in SUBSET {"tuf", "r"} :
          check = CheckOf(Compiled(a), available)
    BY DEF Descent
  <2>3. Defaulted.ctlog = sent.ctlog /\ Defaulted.tsa = sent.tsa
    BY <2>1, DefaultedFields DEF Defaulted
  <2>4. ConvertTLog(Defaulted.ctlog) = Defaulted.ctlog /\ ConvertTSA(Defaulted.tsa) = Defaulted.tsa
    BY <2>3 DEF ConvertTLog, ConvertTSA
  <2>5. a = Defaulted
    BY <2>1, <2>2, <2>4, VariantUnchanged
  <2>6. check.available = available
    BY <2>2 DEF CheckOf
  <2> QED
    BY <2>2, <2>5, <2>6 DEF AsWritten, Defaulted
<1> QED
  BY <1>1, AlwaysAdmissible, AlwaysDescends, PTL

-----------------------------------------------------------------------------
(***************************************************************************)
(* The trusted root that checks without a TrustRoot of their own are made  *)
(* with: GetTrustedRoot for any number of calls, any resync period and any *)
(* sequence of versions.  The root never goes back to an older version,    *)
(* and who reads without fetching began within a period of the last        *)
(* download that parsed.                                                   *)
(*                                                                         *)
(* Neither is inductive.  Both need that only the caller that holds the    *)
(* write lock is between the lock and its return, so that what it has      *)
(* downloaded cannot be overtaken by another download (Downloaded), and    *)
(* that the timestamp, which moves back when queued callers stamp the time *)
(* they began, still never passes the download it stands for (Fresh).      *)
(***************************************************************************)

Section == {"fetch", "parse", "stamp"}

\* Only the writer is in the section.
Exclusive == \A c \in Callers : call[c].pc \in Section => writer = c

\* A download is as new as anything held, and the newest root was published.
Downloaded ==
  /\ newest <= published
  /\ \A c \in Callers : At(c, "parse") /\ call[c].got # Nil => call[c].got \in newest..published

\* Who began when, and who may read.
Fresh ==
  /\ timestamp <= fetched /\ fetched <= clock
  /\ \A c \in Callers :
       /\ call[c].now <= clock
       /\ At(c, "parse") => call[c].now <= call[c].at /\ fetched <= call[c].at /\ call[c].at <= clock
       /\ At(c, "stamp") => call[c].now <= fetched
       /\ At(c, "rlock") => call[c].now <= fetched + Period

\* The inductive invariant.
IInv == TypeOK /\ Exclusive /\ Downloaded /\ NeverOlder /\ Fresh

USE TrustedRootAssumption DEF Zero, Nil

-----------------------------------------------------------------------------
LEMMA Initially == RootInit => IInv
BY DEF RootInit, IInv, TypeOK, Exclusive, Downloaded, NeverOlder, Fresh, Locals, Section, At

\* What a step of a caller does to the locals of all callers.
LEMMA GotoStep ==
  ASSUME TypeOK, NEW c \in Callers,
         NEW pc \in {"idle", "check", "lock", "fetch", "parse", "stamp", "rlock", "done"}, Goto(c, pc)
  PROVE  /\ call' \in [Callers -> Locals]
         /\ \A d \in Callers \ {c} : call'[d] = call[d]
         /\ call'[c].pc = pc /\ call'[c].now = call[c].now /\ call'[c].at = call[c].at
         /\ call'[c].got = call[c].got
BY DEF TypeOK, Goto, Locals

\* Every step keeps the invariant.
LEMMA Inductive == IInv /\ [RootNext]_rootVars => IInv'
<1> SUFFICES ASSUME IInv, [RootNext]_rootVars PROVE IInv'
  OBVIOUS
<1> USE DEF IInv, repo, history
<1>1. ASSUME NEW c \in Callers, Begin(c) PROVE IInv'
  <2>1. /\ call' \in [Callers -> Locals]
        /\ \A d \in Callers \ {c} : call'[d] = call[d]
        /\ call'[c].pc = "check" /\ call'[c].now = clock
    BY <1>1 DEF TypeOK, Begin, Locals
  <2> QED
    BY <1>1, <2>1 DEF Begin, TypeOK, Exclusive, Downloaded, NeverOlder, Fresh, Section, At
<1>2. ASSUME NEW c \in Callers, CheckTimestamp(c) PROVE IInv'
  <2> DEFINE pc == IF Stale(c) THEN "lock" ELSE "rlock"
  <2>1. Goto(c, pc) /\ pc \in {"lock", "rlock"}
    BY <1>2 DEF CheckTimestamp
  <2>2. /\ call' \in [Callers -> Locals]
        /\ \A d \in Callers \ {c} : call'[d] = call[d]
        /\ call'[c].pc = pc /\ call'[c].now = call[c].now
    BY <2>1, GotoStep
  <2>3. pc = "rlock" => call[c].now <= timestamp + Period
    BY DEF Stale, TypeOK, Locals
  <2> HIDE DEF pc
  <2>4. (call'[c].pc = "rlock") => call'[c].now <= fetched + Period
    BY <2>2, <2>3 DEF TypeOK, Fresh, Locals
  <2> QED
    BY <1>2, <2>1, <2>2, <2>4 DEF CheckTimestamp, TypeOK, Exclusive, Downloaded, NeverOlder, Fresh, Section, At
<1>3. ASSUME NEW c \in Callers, Lock(c) PROVE IInv'
  <2>1. /\ call' \in [Callers -> Locals]
        /\ \A d \in Callers \ {c} : call'[d] = call[d]
        /\ call'[c].pc = "fetch" /\ call'[c].now = call[c].now
    BY <1>3, GotoStep DEF Lock
  <2> QED
    BY <1>3, <2>1 DEF Lock, TypeOK, Exclusive, Downloaded, NeverOlder, Fresh, Section, At
<1>4. ASSUME NEW c \in Callers, FetchFails(c) PROVE IInv'
  <2>1. /\ call' \in [Callers -> Locals]
        /\ \A d \in Callers \ {c} : call'[d] = call[d]
        /\ call'[c].pc = "done" /\ call'[c].now = 0
    BY <1>4 DEF FetchFails, Return, TypeOK, Locals
  <2>a. TypeOK' /\ Exclusive'
    BY <1>4, <2>1 DEF FetchFails, TypeOK, Exclusive, Section, At, Locals
  <2>b. Downloaded' /\ NeverOlder'
    BY <1>4, <2>1 DEF FetchFails, TypeOK, Downloaded, NeverOlder, At, Locals
  <2>c. Fresh'
    BY <1>4, <2>1 DEF FetchFails, TypeOK, Fresh, At, Locals
  <2> QED
    BY <2>a, <2>b, <2>c
<1>5. ASSUME NEW c \in Callers, Fetch(c) PROVE IInv'
  <2> DEFINE g == IF parses THEN published ELSE Nil
  <2>0. /\ g \in 0..MaxVersion /\ g \in {Nil, published}
        /\ call' = [call EXCEPT ![c].pc = "parse", ![c].at = clock, ![c].got = g]
    BY <1>5 DEF TypeOK, Fetch
  <2> HIDE DEF g
  <2>1. /\ call' \in [Callers -> Locals]
        /\ \A d \in Callers \ {c} : call'[d] = call[d]
        /\ call'[c].pc = "parse" /\ call'[c].now = call[c].now /\ call'[c].at = clock
        /\ call'[c].got = g
    <3>1. call[c] \in Locals /\ clock \in 0..MaxTime
      BY DEF TypeOK
    <3> DEFINE l == [call[c] EXCEPT !.pc = "parse", !.at = clock, !.got = g]
    <3>2. l \in Locals /\ l.pc = "parse" /\ l.now = call[c].now /\ l.at = clock /\ l.got = g
      BY <2>0, <3>1 DEF Locals
    <3>3. call' = [call EXCEPT ![c] = l]
      BY <2>0, <3>1, ZenonT(60) DEF TypeOK, Locals
    <3> HIDE DEF l
    <3> QED
      BY <3>2, <3>3 DEF TypeOK
  <2>a. TypeOK' /\ Exclusive'
    BY <1>5, <2>0, <2>1 DEF Fetch, TypeOK, Exclusive, Section, At, Locals
  <2>b. Downloaded' /\ NeverOlder'
    BY <1>5, <2>0, <2>1 DEF Fetch, TypeOK, Downloaded, NeverOlder, At, Locals
  <2>c. Fresh'
    BY <1>5, <2>0, <2>1 DEF Fetch, TypeOK, Fresh, At, Locals
  <2> QED
    BY <2>a, <2>b, <2>c
<1>6. ASSUME NEW c \in Callers, Parse(c) PROVE IInv'
  <2>1. /\ call' \in [Callers -> Locals]
        /\ \A d \in Callers \ {c} : call'[d] = call[d]
        /\ call'[c].pc = "stamp" /\ call'[c].now = call[c].now
    BY <1>6, GotoStep DEF Parse
  <2>2. writer = c /\ \A d \in Callers \ {c} : call[d].pc \notin Section
    BY <1>6 DEF Parse, Exclusive, Section, At
  <2>3. newest' = call[c].got /\ trustedRoot' = call[c].got /\ call[c].got \in 1..MaxVersion
    BY <1>6 DEF Parse, Downloaded, TypeOK, Locals
  <2>4. fetched' = call[c].at /\ fetched' \in 0..MaxTime /\ fetched <= fetched'
    BY <1>6 DEF Parse, Fresh, TypeOK, Locals
  <2>a. TypeOK'
    <3>1. writer' = writer /\ call'[writer'].pc = "stamp"
      BY <1>6, <2>1, <2>2 DEF Parse
    <3> QED
      BY <1>6, <2>1, <2>3, <2>4, <3>1 DEF Parse, TypeOK
  <2>d. Exclusive'
    BY <1>6, <2>1, <2>2 DEF Parse, Exclusive, Section
  <2>b. Downloaded' /\ NeverOlder'
    <3>1. call[c].got <= published
      BY <1>6 DEF Parse, Downloaded
    <3> QED
      BY <1>6, <2>1, <2>2, <2>3, <3>1 DEF Parse, Downloaded, NeverOlder, At, Section
  <2>c. Fresh'
    <3>1. timestamp' = timestamp /\ clock' = clock /\ timestamp' <= fetched' /\ fetched' <= clock'
      BY <1>6, <2>4 DEF Parse, TypeOK, Fresh, Locals
    <3>2. call[c].now <= fetched' /\ fetched' \in Int /\ fetched \in Int
      BY <1>6, <2>4 DEF Parse, TypeOK, Fresh
    <3>3. \A d \in Callers : call[d].now \in Int
      BY DEF TypeOK, Locals
    <3>4. ASSUME NEW d \in Callers \ {c}
          PROVE  /\ call'[d].now <= clock' /\ ~At(d, "parse")' /\ ~At(d, "stamp")'
                 /\ At(d, "rlock")' => call'[d].now <= fetched' + Period
      BY <2>1, <2>2, <2>4, <3>1, <3>2, <3>3 DEF Fresh, At, Section
    <3> QED
      BY <2>1, <3>1, <3>2, <3>4 DEF Fresh, At
  <2> QED
    BY <2>a, <2>b, <2>c, <2>d
<1>7. ASSUME NEW c \in Callers, ParseFails(c) PROVE IInv'
  <2>1. /\ call' \in [Callers -> Locals]
        /\ \A d \in Callers \ {c} : call'[d] = call[d]
        /\ call'[c].pc = "done" /\ call'[c].now = 0
    BY <1>7 DEF ParseFails, Return, TypeOK, Locals
  <2>a. TypeOK' /\ Exclusive'
    BY <1>7, <2>1 DEF ParseFails, TypeOK, Exclusive, Section, At, Locals
  <2>b. Downloaded' /\ NeverOlder'
    BY <1>7, <2>1 DEF ParseFails, TypeOK, Downloaded, NeverOlder, At, Locals
  <2>c. Fresh'
    BY <1>7, <2>1 DEF ParseFails, TypeOK, Fresh, At, Locals
  <2> QED
    BY <2>a, <2>b, <2>c
<1>8. ASSUME NEW c \in Callers, Stamp(c) PROVE IInv'
  <2>1. /\ call' \in [Callers -> Locals]
        /\ \A d \in Callers \ {c} : call'[d] = call[d]
        /\ call'[c].pc = "done" /\ call'[c].now = 0
    BY <1>8 DEF Stamp, Return, TypeOK, Locals
  <2>2. timestamp' = call[c].now /\ timestamp' \in 0..MaxTime /\ timestamp' <= fetched
    BY <1>8 DEF Stamp, Fresh, TypeOK, Locals
  <2>a. TypeOK' /\ Exclusive'
    BY <1>8, <2>1, <2>2 DEF Stamp, TypeOK, Exclusive, Section, At, Locals
  <2>b. Downloaded' /\ NeverOlder'
    BY <1>8, <2>1, <2>2 DEF Stamp, TypeOK, Downloaded, NeverOlder, At, Locals
  <2>c. Fresh'
    BY <1>8, <2>1, <2>2 DEF Stamp, TypeOK, Fresh, At, Locals
  <2> QED
    BY <2>a, <2>b, <2>c
<1>9. ASSUME NEW c \in Callers, ReadRoot(c) PROVE IInv'
  <2>1. /\ call' \in [Callers -> Locals]
        /\ \A d \in Callers \ {c} : call'[d] = call[d]
        /\ call'[c].pc = "done" /\ call'[c].now = 0
    BY <1>9 DEF ReadRoot, Return, TypeOK, Locals
  <2>a. TypeOK' /\ Exclusive'
    BY <1>9, <2>1 DEF ReadRoot, TypeOK, Exclusive, Section, At, Locals
  <2>b. Downloaded' /\ NeverOlder'
    BY <1>9, <2>1 DEF ReadRoot, TypeOK, Downloaded, NeverOlder, At, Locals
  <2>c. Fresh'
    BY <1>9, <2>1 DEF ReadRoot, TypeOK, Fresh, At, Locals
  <2> QED
    BY <2>a, <2>b, <2>c
<1>10. CASE Tick
  BY <1>10 DEF Tick, TypeOK, Exclusive, Downloaded, NeverOlder, Fresh, At, Locals
<1>11. CASE Publish
  BY <1>11 DEF Publish, TypeOK, Exclusive, Downloaded, NeverOlder, Fresh, At, Locals
<1>12. CASE UNCHANGED rootVars
  BY <1>12 DEF rootVars, TypeOK, Exclusive, Downloaded, NeverOlder, Fresh, At
<1> QED
  BY <1>1, <1>2, <1>3, <1>4, <1>5, <1>6, <1>7, <1>8, <1>9, <1>10, <1>11, <1>12
     DEF RootNext, GetTrustedRoot

LEMMA Invariant == RootSpec => []IInv
BY Initially, Inductive, PTL DEF RootSpec

-----------------------------------------------------------------------------
\* The variables of GetTrustedRoot keep their types, and the write lock is held
\* by a caller inside its section or by nobody.
THEOREM RootTypeCorrect == RootSpec => []TypeOK
BY Invariant, PTL DEF IInv

\* The root held is the newest one ever held, or none: no order of the callers
\* that found it stale brings an older version back.
THEOREM RootIsNeverOlder == RootSpec => []NeverOlder
BY Invariant, PTL DEF IInv

\* A caller that reads the root instead of fetching it began no later than one
\* period after the last download that parsed.
THEOREM ReadsAreFresh == RootSpec => ReadIsFresh
<1>1. IInv /\ [RootNext]_rootVars =>
        [\A c \in Callers : (At(c, "rlock") /\ call'[c].pc = "done") =>
           call[c].now <= fetched + Period]_rootVars
  BY DEF IInv, Fresh
<1> QED
  BY <1>1, Invariant, PTL DEF RootSpec, ReadIsFresh
=============================================================================
