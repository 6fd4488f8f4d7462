------------------------- MODULE PolicyCheckProofs --------------------------
(***************************************************************************)
(* ValidatePolicy keeps an invariant, whoever calls it: where its loops    *)
(* stand, what they have tried and gathered, and that an authority matches *)
(* just when its loops should decide so.                                   *)
(***************************************************************************)
EXTENDS PolicyCheck, TLAPS

-----------------------------------------------------------------------------
(* The inductive invariant.                                                 *)

\* What the loops decide, whatever the attestations were found by: validAttestations may
\* have put referrers in the place of what cosign verifies.
Usable(p, ev, oci) == UNION {ValidAttestations(ev, oci, KeyList(p)[n]) : n \in DOMAIN KeyList(p)}
Matching(p, ev, oci) ==
  LET ks == KeyList(p) IN
  CASE p.static # "" -> p.static = "pass"
    [] p.static = "" /\ p.wanted # <<>> ->
         /\ ev.opts /\ \A n \in DOMAIN ks : ValidAttestations(ev, oci, ks[n]) # {}
         /\ \A n \in DOMAIN p.wanted : \E att \in Usable(p, ev, oci) : Satisfies(att, p.wanted[n])
    [] OTHER ->
         ev.opts /\ \E n \in DOMAIN ks : \E s \in ev.found[ks[n]] :
                       s.id /\ \A m \in 1..n - 1 : ev.found[ks[m]] = {}
Matches == Matching(policy, evidence, oci11)

LoopsDecide ==
  /\ \A n \in DOMAIN ret : \A att \in ret[n] :
       \E w \in DOMAIN policy.wanted : policy.wanted[w].name = n /\ Satisfies(att, policy.wanted[w])
  /\ stage \in {"cip", "configs", "eval"} => Matches
  /\ stage = "done" /\ policy.cip = None => result.ok = Matches

\* ValidatePolicy by its stages.
Keys == KeyList(policy)
Tried(n) == UNION {Found(Keys[m]) : m \in 1..n}

Staged ==
  /\ stage \in {"idle", "keys", "wanted", "cip", "configs", "eval", "done"}
  /\ stage # "idle" => WellFormed(policy) /\ evidence \in Evidence
  /\ stage \in {"configs", "eval"} => policy.cip # None
  /\ stage = "done" => result \in Results /\ (result.errs = {"warning"} => policy.mode = "warn")

AtStart ==
  stage = "idle" =>
    /\ i = 1 /\ looked = {} /\ verified = {} /\ checked = {}
    /\ DOMAIN ret = {}

KeysTried ==
  stage = "keys" =>
    /\ policy.static = "" /\ evidence.opts /\ i \in DOMAIN Keys
    /\ looked = {} /\ checked = {}
    /\ policy.wanted # <<>> => /\ verified = Tried(i - 1)
                               /\ \A n \in 1..i - 1 : Found(Keys[n]) # {}
    /\ policy.wanted = <<>> => \A n \in 1..i - 1 : evidence.found[Keys[n]] = {}

WantedTried ==
  stage = "wanted" =>
    /\ policy.static = "" /\ evidence.opts /\ policy.wanted # <<>> /\ i \in DOMAIN policy.wanted
    /\ verified = Usable(policy, evidence, oci11)
    /\ \A n \in DOMAIN Keys : Found(Keys[n]) # {}
    /\ looked \subseteq verified
    /\ checked = {att \in looked : Satisfies(att, policy.wanted[i])}
    /\ \A n \in 1..i - 1 : \E att \in verified : Satisfies(att, policy.wanted[n])

\* getConfigs: what was read is what is neither fetched nor in the channel.
FilesOf(ms) ==
  /\ DOMAIN configs = {m.platform : m \in ms}
  /\ \A m \in ms : m.ok
  /\ \A p \in DOMAIN configs : \E m \in ms : m.platform = p /\ m.id = configs[p]

ConfigsRead ==
  /\ stage \in {"idle", "keys", "wanted", "cip"} =>
       pending = {} /\ unread = {} /\ DOMAIN configs = {} /\ ~cfgErr
  /\ stage = "configs" =>
       /\ policy.cip.configs
       /\ pending \subseteq evidence.index /\ unread \subseteq evidence.index
       /\ pending \cap unread = {}
       /\ ~cfgErr => /\ left = Cardinality(pending \cup unread)
                     /\ FilesOf(evidence.index \ (pending \cup unread))
  /\ stage = "eval" => (policy.cip.configs => FilesOf(evidence.index))

CheckInv == Staged /\ AtStart /\ KeysTried /\ WantedTried /\ ConfigsRead /\ LoopsDecide

-----------------------------------------------------------------------------
(* Keys and attestations.                                                   *)

\* There is always a key to try, the empty one if need be.
LEMMA KeyLists ==
  ASSUME NEW p, WellFormed(p)
  PROVE  /\ Len(KeyList(p)) \in Nat /\ Len(KeyList(p)) >= 1
         /\ \A n : n \in DOMAIN KeyList(p) <=> n \in Nat /\ 1 <= n /\ n <= Len(KeyList(p))
  <1>1. CASE p.keys = <<>>
    <2>1. KeyList(p) = <<"keyless">>
      BY <1>1 DEF KeyList
    <2> QED BY <2>1
  <1>2. CASE p.keys # <<>>
    <2>1. KeyList(p) = p.keys /\ p.keys \in Seq(STRING)
      BY <1>2 DEF KeyList, WellFormed
    <2> QED BY <1>2, <2>1
  <1> QED BY <1>1, <1>2

\* The wanted attestations are a sequence.
LEMMA WantedLists ==
  ASSUME NEW p, WellFormed(p)
  PROVE  /\ Len(p.wanted) \in Nat
         /\ \A n : n \in DOMAIN p.wanted <=> n \in Nat /\ 1 <= n /\ n <= Len(p.wanted)
         /\ p.wanted # <<>> => Len(p.wanted) >= 1
  <1>1. p.wanted \in Seq([name : STRING, type : STRING, data : BOOLEAN])
    BY DEF WellFormed
  <1> QED BY <1>1

\* One more key adds what it leads to.
LEMMA TriedMore ==
  ASSUME NEW n \in Nat
  PROVE  Tried(n + 1) = Tried(n) \cup Found(Keys[n + 1])
  <1>1. \A m : m \in 1..n + 1 <=> m \in 1..n \/ m = n + 1
    OBVIOUS
  <1>2. \A k \in Nat : \A x : x \in Tried(k) <=> \E m \in 1..k : x \in Found(Keys[m])
    BY DEF Tried
  <1>3. \A x : x \in Tried(n + 1) <=> x \in Tried(n) \/ x \in Found(Keys[n + 1])
    BY <1>1, <1>2
  <1> QED BY <1>3

\* All keys tried is what is usable.
LEMMA TriedAll ==
  ASSUME WellFormed(policy)
  PROVE  Tried(Len(Keys)) = Usable(policy, evidence, oci11)
  BY KeyLists DEF Tried, Usable, Found, Keys

\* What depends on the arguments of ValidatePolicy alone stays with them.
LEMMA InputsKept ==
  ASSUME UNCHANGED inputVars
  PROVE  /\ policy' = policy /\ evidence' = evidence /\ oci11' = oci11
         /\ Keys' = Keys /\ Matches' = Matches
         /\ \A k : Found(k)' = Found(k)
         /\ \A n : Tried(n)' = Tried(n)
  BY DEF inputVars, Keys, Matches, Found, Tried

\* What Matching says of each kind of authority.
LEMMA MatchingKinds ==
  ASSUME NEW p, NEW ev, NEW oci
  PROVE  /\ p.static # "" => (Matching(p, ev, oci) <=> p.static = "pass")
         /\ p.static = "" /\ p.wanted # <<>> =>
              (Matching(p, ev, oci) <=>
                 /\ ev.opts
                 /\ \A n \in DOMAIN KeyList(p) : ValidAttestations(ev, oci, KeyList(p)[n]) # {}
                 /\ \A n \in DOMAIN p.wanted : \E att \in Usable(p, ev, oci) : Satisfies(att, p.wanted[n]))
         /\ p.static = "" /\ p.wanted = <<>> =>
              (Matching(p, ev, oci) <=>
                 /\ ev.opts
                 /\ \E n \in DOMAIN KeyList(p) : \E s \in ev.found[KeyList(p)[n]] :
                      s.id /\ \A m \in 1..n - 1 : ev.found[KeyList(p)[m]] = {})
  <1>1. CASE p.static # ""
    BY <1>1 DEF Matching
  <1>2. CASE p.static = "" /\ p.wanted # <<>>
    BY <1>2 DEF Matching
  <1>3. CASE p.static = "" /\ p.wanted = <<>>
    BY <1>3 DEF Matching
  <1> QED BY <1>1, <1>2, <1>3

\* A result that asFieldError or the marshalling makes is a failure of the right level.
LEMMA Failures ==
  ASSUME NEW p, NEW kind \in {Level(p), "plain"}, Fail(kind)
  PROVE  /\ stage' = "done" /\ result' \in Results /\ ~result'.ok
         /\ result'.errs = {"warning"} => p.mode = "warn"
  <1>1. result' = [ok |-> FALSE, errs |-> {kind}] /\ stage' = "done"
    BY DEF Fail
  <1>2. kind \in {"warning", "error", "plain"} /\ (kind = "warning" => p.mode = "warn")
    BY DEF Level
  <1>3. result' \in Results
    BY <1>1, <1>2 DEF Results
  <1> QED BY <1>1, <1>2, <1>3

\* A success has no errors.
LEMMA Successes ==
  ASSUME Succeed
  PROVE  stage' = "done" /\ result' \in Results /\ result'.ok /\ result'.errs # {"warning"}
  BY DEF Succeed, Results

\* ValidatePolicy begins: what is static is decided at once.
LEMMA BeginKeeps ==
  ASSUME CheckInv, NEW p, WellFormed(p), NEW ev \in Evidence, NEW oci, BeginCheck(p, ev, oci)
  PROVE  CheckInv' /\ stage' # "idle" /\ policy' = p
  <1>1. /\ stage = "idle" /\ policy' = p /\ evidence' = ev /\ oci11' = oci
        /\ UNCHANGED loopVars /\ UNCHANGED configVars
    BY DEF BeginCheck
  <1>2. /\ i' = 1 /\ looked' = {} /\ verified' = {} /\ checked' = {} /\ DOMAIN ret' = {}
        /\ pending' = {} /\ unread' = {} /\ DOMAIN configs' = {} /\ ~cfgErr'
    BY <1>1 DEF CheckInv, AtStart, ConfigsRead, loopVars, configVars
  <1>3. Matches' = Matching(p, ev, oci)
    BY <1>1 DEF Matches
  <1>4. CASE p.static = "fail" \/ (p.static = "" /\ ~ev.opts)
    <2>1. Fail(Level(p))
      BY <1>4 DEF BeginCheck
    <2>2. /\ stage' = "done" /\ result' \in Results /\ ~result'.ok
          /\ result'.errs = {"warning"} => p.mode = "warn"
      BY <2>1, Failures
    <2>3. ~Matches'
      BY <1>3, <1>4, MatchingKinds
    <2>4. result'.ok = Matches'
      <3>1. result'.ok \in BOOLEAN /\ Matches' \in BOOLEAN
        BY <1>3, <2>2 DEF Results, Matching
      <3> QED BY <2>2, <2>3, <3>1
    <2>5. LoopsDecide'
      BY <1>2, <2>2, <2>4 DEF LoopsDecide
    <2> QED BY <1>1, <1>2, <2>2, <2>5 DEF CheckInv, Staged, AtStart, KeysTried, WantedTried, ConfigsRead
  <1>5. CASE p.static = "pass"
    <2>1. stage' = "cip"
      BY <1>5 DEF BeginCheck, Gather
    <2>2. Matches'
      BY <1>3, <1>5, MatchingKinds
    <2>3. LoopsDecide'
      BY <1>2, <2>1, <2>2 DEF LoopsDecide
    <2> QED BY <1>1, <1>2, <2>1, <2>3 DEF CheckInv, Staged, AtStart, KeysTried, WantedTried, ConfigsRead
  <1>6. CASE p.static = "" /\ ev.opts
    <2>1. stage' = "keys"
      BY <1>6 DEF BeginCheck
    <2>2. LoopsDecide'
      BY <1>2, <2>1 DEF LoopsDecide
    <2>3. 1 \in DOMAIN KeyList(p) /\ 1..i' - 1 = {}
      BY <1>2, KeyLists
    <2>4. Tried(i - 1)' = {}
      BY <2>3 DEF Tried
    <2>5. KeysTried'
      BY <1>1, <1>2, <1>6, <2>3, <2>4 DEF KeysTried, Keys
    <2> QED BY <1>1, <1>2, <2>1, <2>2, <2>5 DEF CheckInv, Staged, AtStart, WantedTried, ConfigsRead
  <1>7. p.static \in {"", "pass", "fail"}
    BY DEF WellFormed
  <1> QED BY <1>1, <1>4, <1>5, <1>6, <1>7

\* A step that leaves the arguments and what is handed on alone, and comes to no stage
\* that LoopsDecide speaks of, keeps it.
LEMMA NothingDecided ==
  ASSUME CheckInv, UNCHANGED inputVars, UNCHANGED ret, stage' \in {"idle", "keys", "wanted"}
  PROVE  LoopsDecide'
  <1>1. policy' = policy
    BY InputsKept
  <1> QED BY <1>1 DEF CheckInv, LoopsDecide

\* A failure that comes when the authority does not match is the right one.
LEMMA RightlyFailed ==
  ASSUME CheckInv, stage # "idle", UNCHANGED inputVars, UNCHANGED ret,
         NEW kind \in {Level(policy), "plain"}, Fail(kind), policy.cip = None => ~Matches
  PROVE  CheckInv'
  <1>1. /\ stage' = "done" /\ result' \in Results /\ ~result'.ok
        /\ result'.errs = {"warning"} => policy.mode = "warn"
    BY Failures
  <1>2. policy' = policy /\ evidence' = evidence /\ Matches' = Matches
    BY InputsKept
  <1>3. Matches \in BOOLEAN /\ result'.ok \in BOOLEAN
    BY <1>1 DEF Matches, Matching, Results
  <1>4. policy.cip = None => result'.ok = Matches
    BY <1>1, <1>3
  <1>5. LoopsDecide'
    BY <1>1, <1>2, <1>4 DEF CheckInv, LoopsDecide
  <1> QED BY <1>1, <1>2, <1>5 DEF CheckInv, Staged, AtStart, KeysTried, WantedTried, ConfigsRead

\* Attestations with one more key.
LEMMA AttestationKeyKeeps ==
  ASSUME CheckInv, TryAttestationKey
  PROVE  CheckInv'
  <1>1. /\ stage = "keys" /\ policy.wanted # <<>> /\ UNCHANGED inputVars /\ UNCHANGED ret
        /\ UNCHANGED configVars /\ looked' = looked /\ checked' = checked
        /\ verified' = verified \cup Found(Keys[i])
    BY DEF TryAttestationKey, Keys
  <1>2. /\ WellFormed(policy) /\ evidence \in Evidence
        /\ policy.static = "" /\ evidence.opts /\ i \in DOMAIN Keys
        /\ looked = {} /\ checked = {} /\ verified = Tried(i - 1)
        /\ \A n \in 1..i - 1 : Found(Keys[n]) # {}
    BY <1>1 DEF CheckInv, Staged, KeysTried
  <1>3. /\ Len(Keys) \in Nat /\ i \in Nat /\ i >= 1 /\ i <= Len(Keys)
        /\ \A n : n \in DOMAIN Keys <=> n \in Nat /\ 1 <= n /\ n <= Len(Keys)
    BY <1>2, KeyLists DEF Keys
  <1>4. /\ policy' = policy /\ evidence' = evidence /\ oci11' = oci11 /\ Keys' = Keys
        /\ \A k : Found(k)' = Found(k)
        /\ \A n : Tried(n)' = Tried(n)
    BY <1>1, InputsKept
  <1>5. verified' = Tried(i)
    <2>1. i - 1 \in Nat /\ (i - 1) + 1 = i
      BY <1>3
    <2>2. Tried((i - 1) + 1) = Tried(i - 1) \cup Found(Keys[(i - 1) + 1])
      BY <2>1, TriedMore
    <2> QED BY <1>1, <1>2, <2>1, <2>2
  <1>6. CASE Found(Keys[i]) = {}
    <2>1. Fail(Level(policy))
      BY <1>6 DEF TryAttestationKey, Keys
    <2>2. ~Matches
      BY <1>1, <1>2, <1>6, MatchingKinds DEF Matches, Found, Keys
    <2> QED BY <1>1, <2>1, <2>2, RightlyFailed
  <1>7. CASE Found(Keys[i]) # {} /\ i < Len(Keys)
    <2>1. i' = i + 1 /\ stage' = "keys"
      BY <1>1, <1>7 DEF TryAttestationKey, Keys
    <2>2. \A n \in 1..i' - 1 : Found(Keys[n]) # {}
      <3>1. \A n \in 1..i' - 1 : n \in 1..i - 1 \/ n = i
        BY <1>3, <2>1
      <3> QED BY <1>2, <1>7, <3>1
    <2>3. i' \in DOMAIN Keys /\ i' - 1 = i
      BY <1>3, <1>7, <2>1
    <2>4. Tried(i - 1)' = Tried(i)
      BY <1>4, <2>3 DEF Tried
    <2>5. KeysTried'
      BY <1>1, <1>2, <1>4, <1>5, <2>2, <2>3, <2>4 DEF KeysTried
    <2>6. LoopsDecide'
      BY <1>1, <2>1, NothingDecided
    <2> QED BY <1>1, <1>2, <1>4, <2>1, <2>5, <2>6
            DEF CheckInv, Staged, AtStart, WantedTried, ConfigsRead, configVars
  <1>8. CASE Found(Keys[i]) # {} /\ ~(i < Len(Keys))
    <2>1. i' = 1 /\ stage' = "wanted"
      BY <1>1, <1>8 DEF TryAttestationKey, Keys
    <2>2. i = Len(Keys)
      BY <1>3, <1>8
    <2>3. \A n \in DOMAIN Keys : Found(Keys[n]) # {}
      <3>1. \A n \in DOMAIN Keys : n \in 1..i - 1 \/ n = i
        BY <1>3, <2>2
      <3> QED BY <1>2, <1>8, <3>1
    <2>4. verified' = Usable(policy, evidence, oci11)
      BY <1>2, <1>5, <2>2, TriedAll
    <2>5. i' \in DOMAIN policy.wanted /\ \A n : n \notin 1..i' - 1
      <3>1. WellFormed(policy) /\ policy.wanted # <<>>
        BY <1>1, <1>2
      <3>2. 1 \in DOMAIN policy.wanted
        BY <3>1, WantedLists
      <3> QED BY <2>1, <3>2
    <2>6. WantedTried'
      BY <1>1, <1>2, <1>4, <2>3, <2>4, <2>5 DEF WantedTried
    <2>7. LoopsDecide'
      BY <1>1, <2>1, NothingDecided
    <2> QED BY <1>1, <1>2, <1>4, <2>1, <2>6, <2>7
            DEF CheckInv, Staged, AtStart, KeysTried, ConfigsRead, configVars
  <1> QED BY <1>6, <1>7, <1>8

\* Signatures with one more key.
LEMMA SignatureKeyKeeps ==
  ASSUME CheckInv, TrySignatureKey
  PROVE  CheckInv'
  <1> DEFINE sigs == evidence.found[Keys[i]]
  <1>1. /\ stage = "keys" /\ policy.wanted = <<>> /\ UNCHANGED inputVars /\ UNCHANGED ret
        /\ UNCHANGED configVars /\ looked' = looked /\ checked' = checked
    BY DEF TrySignatureKey
  <1>2. /\ WellFormed(policy) /\ evidence \in Evidence
        /\ policy.static = "" /\ evidence.opts /\ i \in DOMAIN Keys
        /\ looked = {} /\ checked = {}
        /\ \A n \in 1..i - 1 : evidence.found[Keys[n]] = {}
    BY <1>1 DEF CheckInv, Staged, KeysTried
  <1>3. /\ Len(Keys) \in Nat /\ i \in Nat /\ i >= 1 /\ i <= Len(Keys)
        /\ \A n : n \in DOMAIN Keys <=> n \in Nat /\ 1 <= n /\ n <= Len(Keys)
    BY <1>2, KeyLists DEF Keys
  <1>4. policy' = policy /\ evidence' = evidence /\ oci11' = oci11 /\ Keys' = Keys /\ Matches' = Matches
    BY <1>1, InputsKept
  <1>5. Matches <=> \E n \in DOMAIN Keys : \E s \in evidence.found[Keys[n]] :
                      s.id /\ \A m \in 1..n - 1 : evidence.found[Keys[m]] = {}
    BY <1>1, <1>2, MatchingKinds DEF Matches, Keys
  <1>6. CASE sigs # {} /\ PolicySignatures(sigs) # {}
    <2>1. stage' = "cip"
      BY <1>6 DEF TrySignatureKey, Gather, Keys
    <2>2. \E s \in sigs : s.id
      BY <1>6 DEF PolicySignatures
    <2>3. Matches
      BY <1>2, <1>5, <2>2
    <2>4. LoopsDecide'
      BY <1>1, <1>4, <2>1, <2>3 DEF CheckInv, LoopsDecide
    <2> QED BY <1>1, <1>2, <1>4, <2>1, <2>4
            DEF CheckInv, Staged, AtStart, KeysTried, WantedTried, ConfigsRead, configVars
  <1>7. CASE sigs # {} /\ PolicySignatures(sigs) = {}
    <2>1. Fail("plain")
      BY <1>7 DEF TrySignatureKey, Gather, Keys
    <2>2. \A s \in sigs : ~s.id
      BY <1>7 DEF PolicySignatures
    <2>3. ASSUME NEW n \in DOMAIN Keys, NEW s \in evidence.found[Keys[n]], s.id,
                 \A m \in 1..n - 1 : evidence.found[Keys[m]] = {}
          PROVE  FALSE
      <3>1. CASE n < i
        <4>1. n \in 1..i - 1
          BY <1>3, <3>1
        <4> QED BY <1>2, <2>3, <4>1
      <3>2. CASE n > i
        <4>1. i \in 1..n - 1
          BY <1>3, <3>2
        <4> QED BY <1>7, <2>3, <4>1
      <3>3. CASE n = i
        BY <2>2, <2>3, <3>3
      <3> QED BY <1>3, <3>1, <3>2, <3>3
    <2>4. ~Matches
      BY <1>5, <2>3
    <2> QED BY <1>1, <2>1, <2>4, RightlyFailed
  <1>8. CASE sigs = {} /\ i < Len(Keys)
    <2>1. i' = i + 1 /\ stage' = "keys"
      BY <1>1, <1>8 DEF TrySignatureKey, Keys
    <2>2. i' \in DOMAIN Keys /\ \A n \in 1..i' - 1 : evidence.found[Keys[n]] = {}
      <3>1. i' \in DOMAIN Keys /\ \A n \in 1..i' - 1 : n \in 1..i - 1 \/ n = i
        BY <1>3, <1>8, <2>1
      <3> QED BY <1>2, <1>8, <3>1
    <2>3. KeysTried'
      BY <1>1, <1>2, <1>4, <2>2 DEF KeysTried
    <2>4. LoopsDecide'
      BY <1>1, <2>1, NothingDecided
    <2> QED BY <1>1, <1>2, <1>4, <2>1, <2>3, <2>4
            DEF CheckInv, Staged, AtStart, WantedTried, ConfigsRead, configVars
  <1>9. CASE sigs = {} /\ ~(i < Len(Keys))
    <2>1. Fail(Level(policy))
      BY <1>9 DEF TrySignatureKey, Keys
    <2>2. \A n \in DOMAIN Keys : evidence.found[Keys[n]] = {}
      <3>1. \A n \in DOMAIN Keys : n \in 1..i - 1 \/ n = i
        BY <1>3, <1>9
      <3> QED BY <1>2, <1>9, <3>1
    <2>3. ~Matches
      BY <1>5, <2>2
    <2> QED BY <1>1, <2>1, <2>3, RightlyFailed
  <1> QED BY <1>6, <1>7, <1>8, <1>9

\* One more attestation is looked at: it counts if it satisfies the wanted one.
LEMMA LookAtKeeps ==
  ASSUME CheckInv, NEW att \in verified, LookAt(att)
  PROVE  CheckInv'
  <1> DEFINE want == policy.wanted[i]
  <1>1. /\ stage = "wanted" /\ att \in verified \ looked /\ looked' = looked \cup {att}
        /\ UNCHANGED inputVars /\ UNCHANGED ret /\ UNCHANGED configVars
        /\ stage' = stage /\ i' = i /\ verified' = verified
    BY DEF LookAt
  <1>2. /\ WellFormed(policy) /\ evidence \in Evidence
        /\ policy.static = "" /\ evidence.opts /\ policy.wanted # <<>> /\ i \in DOMAIN policy.wanted
        /\ verified = Usable(policy, evidence, oci11)
        /\ \A n \in DOMAIN Keys : Found(Keys[n]) # {}
        /\ looked \subseteq verified
        /\ checked = {a \in looked : Satisfies(a, want)}
        /\ \A n \in 1..i - 1 : \E a \in verified : Satisfies(a, policy.wanted[n])
    BY <1>1 DEF CheckInv, Staged, WantedTried
  <1>3. /\ policy' = policy /\ evidence' = evidence /\ oci11' = oci11 /\ Keys' = Keys
        /\ \A k : Found(k)' = Found(k)
    BY <1>1, InputsKept
  <1>4. want.type # "bad"
    BY <1>2 DEF WellFormed
  <1>5. checked' = IF Satisfies(att, want) THEN checked \cup {att} ELSE checked
    BY <1>4 DEF LookAt, Satisfies
  <1>6. checked' = {a \in looked' : Satisfies(a, want)}
    <2> HIDE DEF want
    <2> QED BY <1>1, <1>2, <1>5
  <1>7. WantedTried'
    BY <1>1, <1>2, <1>3, <1>6 DEF WantedTried
  <1>8. LoopsDecide'
    BY <1>1, NothingDecided
  <1> QED BY <1>1, <1>2, <1>3, <1>7, <1>8
          DEF CheckInv, Staged, AtStart, KeysTried, ConfigsRead, configVars

\* The wanted attestation is satisfied or not.
LEMMA NextWantedKeeps ==
  ASSUME CheckInv, NextWanted
  PROVE  CheckInv'
  <1> DEFINE want == policy.wanted[i]
  <1>1. /\ stage = "wanted" /\ looked = verified
        /\ UNCHANGED inputVars /\ UNCHANGED configVars /\ verified' = verified
    BY DEF NextWanted
  <1>2. /\ WellFormed(policy) /\ evidence \in Evidence
        /\ policy.static = "" /\ evidence.opts /\ policy.wanted # <<>> /\ i \in DOMAIN policy.wanted
        /\ verified = Usable(policy, evidence, oci11)
        /\ \A n \in DOMAIN Keys : Found(Keys[n]) # {}
        /\ checked = {a \in verified : Satisfies(a, want)}
        /\ \A n \in 1..i - 1 : \E a \in verified : Satisfies(a, policy.wanted[n])
    BY <1>1 DEF CheckInv, Staged, WantedTried
  <1>3. /\ policy' = policy /\ evidence' = evidence /\ oci11' = oci11 /\ Keys' = Keys
        /\ Matches' = Matches /\ \A k : Found(k)' = Found(k)
    BY <1>1, InputsKept
  <1>4. /\ Len(policy.wanted) \in Nat /\ i \in Nat /\ i >= 1 /\ i <= Len(policy.wanted)
        /\ \A n : n \in DOMAIN policy.wanted <=> n \in Nat /\ 1 <= n /\ n <= Len(policy.wanted)
    BY <1>2, WantedLists
  <1>5. Matches <=> \A n \in DOMAIN policy.wanted : \E a \in verified : Satisfies(a, policy.wanted[n])
    BY <1>2, MatchingKinds DEF Matches, Found, Keys
  <1>6. CASE checked = {}
    <2>1. Fail(Level(policy)) /\ UNCHANGED ret
      BY <1>6 DEF NextWanted
    <2>2. \A a \in verified : ~Satisfies(a, want)
      BY <1>2, <1>6
    <2>3. ~Matches
      BY <1>2, <1>5, <2>2
    <2> QED BY <1>1, <2>1, <2>3, RightlyFailed
  <1>7. CASE checked # {}
    <2>1. /\ looked' = {} /\ checked' = {}
          /\ ret' = [n \in DOMAIN ret \cup {want.name} |->
                       IF n = want.name THEN PolicyAttestations(checked) ELSE ret[n]]
      BY <1>7, ZenonT(60) DEF NextWanted
    <2>2. \E a \in verified : Satisfies(a, want)
      BY <1>2, <1>7
    <2>3. \A n \in DOMAIN ret' : \A a \in ret'[n] :
            \E w \in DOMAIN policy.wanted : policy.wanted[w].name = n /\ Satisfies(a, policy.wanted[w])
      <3>1. \A a \in PolicyAttestations(checked) : Satisfies(a, want)
        BY <1>2 DEF PolicyAttestations
      <3>2. \A n \in DOMAIN ret : \A a \in ret[n] :
              \E w \in DOMAIN policy.wanted : policy.wanted[w].name = n /\ Satisfies(a, policy.wanted[w])
        BY DEF CheckInv, LoopsDecide
      <3> QED BY <1>2, <2>1, <3>1, <3>2
    <2>4. CASE i < Len(policy.wanted)
      <3>1. i' = i + 1 /\ stage' = "wanted"
        BY <1>1, <1>7, <2>4 DEF NextWanted
      <3>2. i' \in DOMAIN policy.wanted /\ \A n \in 1..i' - 1 : n \in 1..i - 1 \/ n = i
        BY <1>4, <2>4, <3>1
      <3>3. \A n \in 1..i' - 1 : \E a \in verified : Satisfies(a, policy.wanted[n])
        BY <1>2, <2>2, <3>2
      <3>4. WantedTried'
        BY <1>1, <1>2, <1>3, <2>1, <3>2, <3>3 DEF WantedTried
      <3>5. LoopsDecide'
        BY <1>3, <2>3, <3>1 DEF LoopsDecide
      <3> QED BY <1>1, <1>2, <1>3, <3>1, <3>4, <3>5
              DEF CheckInv, Staged, AtStart, KeysTried, ConfigsRead, configVars
    <2>5. CASE ~(i < Len(policy.wanted))
      <3>1. stage' = "cip"
        BY <1>7, <2>5 DEF NextWanted, Gather
      <3>2. \A n \in DOMAIN policy.wanted : n \in 1..i - 1 \/ n = i
        BY <1>4, <2>5
      <3>3. Matches
        BY <1>2, <1>5, <2>2, <3>2
      <3>4. LoopsDecide'
        BY <1>3, <2>3, <3>1, <3>3 DEF LoopsDecide
      <3> QED BY <1>1, <1>2, <1>3, <3>1, <3>4
              DEF CheckInv, Staged, AtStart, KeysTried, WantedTried, ConfigsRead, configVars
    <2> QED BY <2>4, <2>5
  <1> QED BY <1>6, <1>7

-----------------------------------------------------------------------------
(* The policy of the CIP, and getConfigs.                                   *)

\* A step of getConfigs, or one after it, that stays before the end keeps the match.
LEMMA MatchKept ==
  ASSUME CheckInv, UNCHANGED inputVars, UNCHANGED loopVars,
         stage \in {"cip", "configs", "eval"}, stage' \in {"configs", "eval"}, policy.cip # None,
         ConfigsRead'
  PROVE  CheckInv'
  <1>1. policy' = policy /\ evidence' = evidence /\ Matches' = Matches /\ ret' = ret
    BY InputsKept DEF loopVars
  <1>2. LoopsDecide'
    BY <1>1 DEF CheckInv, LoopsDecide
  <1> QED BY <1>1, <1>2 DEF CheckInv, Staged, AtStart, KeysTried, WantedTried

\* A success that comes when the authority matches is the right one.
LEMMA RightlySucceeded ==
  ASSUME CheckInv, UNCHANGED inputVars, UNCHANGED loopVars, stage \in {"cip", "eval"}, Succeed
  PROVE  CheckInv'
  <1>1. policy' = policy /\ evidence' = evidence /\ Matches' = Matches /\ ret' = ret
    BY InputsKept DEF loopVars
  <1>2. stage' = "done" /\ result' \in Results /\ result'.ok /\ result'.errs # {"warning"}
    BY Successes
  <1>3. Matches /\ Matches \in BOOLEAN /\ result'.ok \in BOOLEAN
    BY <1>2 DEF CheckInv, LoopsDecide, Matches, Matching, Results
  <1>4. result'.ok = Matches
    BY <1>2, <1>3
  <1>5. LoopsDecide'
    BY <1>1, <1>2, <1>4 DEF CheckInv, LoopsDecide
  <1> QED BY <1>1, <1>2, <1>5 DEF CheckInv, Staged, AtStart, KeysTried, WantedTried, ConfigsRead

\* The policy of the CIP is looked for, and the config files it asks for.
LEMMA CIPLevelKeeps ==
  ASSUME CheckInv, CIPLevel
  PROVE  CheckInv'
  <1>1. /\ stage = "cip" /\ UNCHANGED inputVars /\ UNCHANGED loopVars
        /\ unread' = unread /\ configs' = configs /\ cfgErr' = cfgErr
    BY DEF CIPLevel
  <1>2. pending = {} /\ unread = {} /\ DOMAIN configs = {} /\ ~cfgErr
    BY <1>1 DEF CheckInv, ConfigsRead
  <1>3. policy' = policy /\ evidence' = evidence
    BY <1>1, InputsKept
  <1>4. CASE policy.cip = None
    <2>1. Succeed
      BY <1>4 DEF CIPLevel
    <2> QED BY <1>1, <2>1, RightlySucceeded
  <1>5. CASE policy.cip # None /\ policy.cip.configs
    <2>1. stage' = "configs" /\ pending' = evidence.index /\ left' = Cardinality(evidence.index)
      BY <1>5 DEF CIPLevel
    <2>2. pending' \cup unread' = evidence.index /\ pending' \cap unread' = {}
      BY <1>1, <1>2, <2>1
    <2>3. \A m : m \notin evidence.index \ (pending' \cup unread')
      BY <2>2
    <2>4. FilesOf(evidence.index \ (pending \cup unread))'
      BY <1>1, <1>2, <1>3, <2>3 DEF FilesOf
    <2>5. ConfigsRead'
      BY <1>1, <1>2, <1>3, <1>5, <2>1, <2>2, <2>4 DEF ConfigsRead
    <2> QED BY <1>1, <1>5, <2>1, <2>5, MatchKept
  <1>6. CASE policy.cip # None /\ ~policy.cip.configs
    <2>1. stage' = "eval"
      BY <1>6 DEF CIPLevel
    <2>2. ConfigsRead'
      BY <1>3, <1>6, <2>1 DEF ConfigsRead
    <2> QED BY <1>1, <1>6, <2>1, <2>2, MatchKept
  <1> QED BY <1>4, <1>5, <1>6

\* A goroutine of getConfigs puts its result into the channel.
LEMMA FetchKeeps ==
  ASSUME CheckInv, NEW m \in pending, FetchConfig(m)
  PROVE  CheckInv'
  <1>1. /\ stage = "configs" /\ stage' = "configs" /\ UNCHANGED inputVars /\ UNCHANGED loopVars
        /\ left' = left /\ configs' = configs /\ cfgErr' = cfgErr
        /\ pending' = pending \ {m} /\ unread' = unread \cup {m}
    BY DEF FetchConfig
  <1>2. policy' = policy /\ evidence' = evidence /\ policy.cip # None
    BY <1>1, InputsKept DEF CheckInv, Staged
  <1>3. pending' \cup unread' = pending \cup unread
    BY <1>1
  <1>4. FilesOf(evidence.index \ (pending \cup unread))' <=> FilesOf(evidence.index \ (pending \cup unread))
    BY <1>1, <1>2, <1>3, ZenonT(60) DEF FilesOf
  <1>5. ConfigsRead'
    BY <1>1, <1>2, <1>3, <1>4 DEF CheckInv, ConfigsRead
  <1> QED BY <1>1, <1>2, <1>5, MatchKept

\* The cancelled context ends the wait for a result.
LEMMA CancelledKeeps ==
  ASSUME CheckInv, ConfigCancelled
  PROVE  CheckInv'
  <1>1. /\ stage = "configs" /\ stage' = "configs" /\ UNCHANGED inputVars /\ UNCHANGED loopVars
        /\ pending' = pending /\ unread' = unread /\ cfgErr'
    BY DEF ConfigCancelled
  <1>2. policy' = policy /\ evidence' = evidence /\ policy.cip # None
    BY <1>1, InputsKept DEF CheckInv, Staged
  <1>3. ConfigsRead'
    BY <1>1, <1>2 DEF CheckInv, ConfigsRead
  <1> QED BY <1>1, <1>2, <1>3, MatchKept

\* The policy of the CIP is evaluated.
LEMMA EvaluateKeeps ==
  ASSUME CheckInv, Evaluate
  PROVE  CheckInv'
  <1>1. stage = "eval" /\ UNCHANGED inputVars /\ UNCHANGED loopVars /\ UNCHANGED ret
    BY DEF Evaluate, loopVars
  <1>2. policy.cip # None
    BY <1>1 DEF CheckInv, Staged
  <1>3. CASE Succeed
    BY <1>1, <1>3, RightlySucceeded
  <1>4. CASE Fail(Level(policy))
    BY <1>1, <1>2, <1>4, RightlyFailed
  <1>5. CASE Fail("plain")
    BY <1>1, <1>2, <1>5, RightlyFailed
  <1> QED BY <1>3, <1>4, <1>5 DEF Evaluate

\* Nothing of ValidatePolicy changes but its context.
LEMMA QuietKeeps ==
  ASSUME CheckInv, UNCHANGED <<inputVars, stage, loopVars, configVars, result>>
  PROVE  CheckInv'
  <1>1. /\ policy' = policy /\ evidence' = evidence /\ oci11' = oci11 /\ Keys' = Keys
        /\ Matches' = Matches /\ \A k : Found(k)' = Found(k)
    BY InputsKept
  <1>2. /\ stage' = stage /\ i' = i /\ looked' = looked /\ verified' = verified /\ checked' = checked
        /\ ret' = ret /\ pending' = pending /\ unread' = unread /\ left' = left
        /\ configs' = configs /\ cfgErr' = cfgErr /\ result' = result
    BY DEF loopVars, configVars
  <1>3. Tried(i - 1)' = Tried(i - 1)
    BY <1>1, <1>2 DEF Tried
  <1>4. Staged' /\ AtStart'
    BY <1>1, <1>2 DEF CheckInv, Staged, AtStart
  <1>5. KeysTried'
    BY <1>1, <1>2, <1>3 DEF CheckInv, KeysTried
  <1>6. WantedTried'
    BY <1>1, <1>2 DEF CheckInv, WantedTried
  <1>7. ConfigsRead'
    BY <1>1, <1>2 DEF CheckInv, ConfigsRead, FilesOf
  <1>8. LoopsDecide'
    BY <1>1, <1>2 DEF CheckInv, LoopsDecide
  <1> QED BY <1>4, <1>5, <1>6, <1>7, <1>8 DEF CheckInv

\* The locals go.
LEMMA EndKeeps ==
  ASSUME EndCheck
  PROVE  CheckInv' /\ stage' = "idle"
  <1>1. /\ stage' = "idle" /\ i' = 1 /\ looked' = {} /\ verified' = {} /\ checked' = {}
        /\ DOMAIN ret' = {} /\ pending' = {} /\ unread' = {} /\ DOMAIN configs' = {} /\ ~cfgErr'
    BY DEF EndCheck, NoConfigs
  <1> QED BY <1>1 DEF CheckInv, Staged, AtStart, KeysTried, WantedTried, ConfigsRead, LoopsDecide

\* Cancel leaves all but the context alone.
LEMMA CancelKeeps ==
  ASSUME CheckInv, Cancel
  PROVE  CheckInv' /\ policy' = policy /\ stage' = stage
  BY QuietKeeps DEF Cancel, inputVars

-----------------------------------------------------------------------------
(* What needs facts about cardinalities and least numbers.                  *)

INSTANCE FiniteSetTheorems

\* A result is taken from the channel.
LEMMA ReadKeeps ==
  ASSUME CheckInv, NEW m \in unread, ReadConfig(m)
  PROVE  CheckInv'
  <1> DEFINE rest == pending \cup unread
             done == evidence.index \ rest
  <1>1. /\ stage = "configs" /\ stage' = "configs" /\ UNCHANGED inputVars /\ UNCHANGED loopVars
        /\ left' = left - 1 /\ pending' = pending /\ unread' = unread \ {m}
    BY DEF ReadConfig
  <1>2. policy' = policy /\ evidence' = evidence /\ policy.cip # None /\ evidence \in Evidence
    BY <1>1, InputsKept DEF CheckInv, Staged
  <1>3. /\ policy.cip.configs /\ pending \subseteq evidence.index /\ unread \subseteq evidence.index
        /\ pending \cap unread = {}
        /\ ~cfgErr => left = Cardinality(rest) /\ FilesOf(done)
    BY <1>1 DEF CheckInv, ConfigsRead
  <1>4. rest' = rest \ {m} /\ done' = done \cup {m} /\ m \in rest
    BY <1>1, <1>2, <1>3
  <1>5. IsFiniteSet(rest)
    BY <1>2, <1>3, FS_Subset, EvidenceAssumption
  <1>6. ~cfgErr => left' = Cardinality(rest')
    BY <1>1, <1>3, <1>4, <1>5, FS_RemoveElement, FS_CardinalityType, ZenonT(60)
  <1>7. ~cfgErr' => ~cfgErr /\ FilesOf(done)'
    <2> HIDE DEF rest, done
    <2>1. CASE ~m.ok
      BY <2>1 DEF ReadConfig
    <2>2. CASE m.ok
      <3>1. /\ cfgErr' = cfgErr
            /\ configs' = [p \in DOMAIN configs \cup {m.platform} |-> IF p = m.platform THEN m.id ELSE configs[p]]
        BY <2>2 DEF ReadConfig
      <3>2. ASSUME FilesOf(done)
            PROVE  FilesOf(done)'
        <4>1. DOMAIN configs' = {x.platform : x \in done'}
          BY <1>4, <3>1, <3>2 DEF FilesOf
        <4>2. \A x \in done' : x.ok
          BY <1>4, <2>2, <3>2 DEF FilesOf
        <4>3. \A p \in DOMAIN configs' : \E x \in done' : x.platform = p /\ x.id = configs'[p]
          BY <1>4, <3>1, <3>2 DEF FilesOf
        <4> QED BY <4>1, <4>2, <4>3 DEF FilesOf
      <3> QED BY <1>3, <3>1, <3>2
    <2> QED BY <2>1, <2>2
  <1>8. ConfigsRead'
    BY <1>1, <1>2, <1>3, <1>6, <1>7 DEF ConfigsRead
  <1> QED BY <1>1, <1>2, <1>8, MatchKept

\* getConfigs ends: it has read every manifest, or fails.
LEMMA ConfigsDoneKeeps ==
  ASSUME CheckInv, ConfigsDone
  PROVE  CheckInv'
  <1>1. /\ stage = "configs" /\ left = 0 /\ pending = {} /\ UNCHANGED inputVars
        /\ UNCHANGED loopVars /\ UNCHANGED configVars
    BY DEF ConfigsDone
  <1>2. policy' = policy /\ evidence' = evidence /\ policy.cip # None /\ evidence \in Evidence
    BY <1>1, InputsKept DEF CheckInv, Staged
  <1>3. CASE cfgErr
    <2>1. Fail(Level(policy)) /\ UNCHANGED ret
      BY <1>1, <1>3 DEF ConfigsDone, loopVars
    <2> QED BY <1>1, <1>2, <2>1, RightlyFailed
  <1>4. CASE ~cfgErr
    <2>1. stage' = "eval"
      BY <1>4 DEF ConfigsDone
    <2>2. unread \subseteq evidence.index /\ Cardinality(unread) = 0
          /\ FilesOf(evidence.index \ unread)
      <3>1. pending \cup unread = unread
        BY <1>1
      <3> QED BY <1>1, <1>4, <3>1 DEF CheckInv, ConfigsRead
    <2>3. unread = {}
      BY <1>2, <2>2, FS_Subset, FS_EmptySet, EvidenceAssumption
    <2>4. FilesOf(evidence.index)
      <3>1. evidence.index \ unread = evidence.index
        BY <2>3
      <3> QED BY <2>2, <3>1
    <2>5. FilesOf(evidence.index)'
      BY <1>1, <1>2, <2>4 DEF FilesOf, configVars
    <2>6. ConfigsRead'
      BY <2>1, <2>5 DEF ConfigsRead
    <2> QED BY <1>1, <1>2, <2>1, <2>6, MatchKept
  <1> QED BY <1>3, <1>4

\* A step of ValidatePolicy, of any of its loops.
LEMMA CheckStepKeeps ==
  ASSUME CheckInv, CheckStep \/ \E m \in pending : FetchConfig(m)
  PROVE  CheckInv' /\ policy' = policy /\ stage # "idle" /\ stage' # "idle"
  <1>1. CheckInv'
    BY AttestationKeyKeeps, SignatureKeyKeeps, LookAtKeeps, NextWantedKeeps, CIPLevelKeeps,
       FetchKeeps, ReadKeeps, CancelledKeeps, ConfigsDoneKeeps, EvaluateKeeps DEF CheckStep
  <1>2. CASE TryAttestationKey \/ TrySignatureKey \/ NextWanted \/ CIPLevel
    BY <1>1, <1>2 DEF TryAttestationKey, TrySignatureKey, NextWanted, CIPLevel, Gather, Fail, Succeed, inputVars
  <1>3. CASE ConfigCancelled \/ ConfigsDone \/ Evaluate \/ (\E att \in verified : LookAt(att))
    BY <1>1, <1>3 DEF ConfigCancelled, ConfigsDone, Evaluate, LookAt, Fail, Succeed, inputVars
  <1>4. CASE (\E m \in unread : ReadConfig(m)) \/ (\E m \in pending : FetchConfig(m))
    BY <1>1, <1>4 DEF ReadConfig, FetchConfig, inputVars
  <1> QED BY <1>2, <1>3, <1>4 DEF CheckStep

\* With cosign's attestations the loops decide what the authority promises.
LEMMA LoopsKeepThePromise ==
  ASSUME NEW p, NEW ev, NEW oci, oci /\ p.wanted # <<>> => Referrers(ev) = {}
  PROVE  Matching(p, ev, oci) <=> Promised(p, ev)
  <1>1. CASE p.static # ""
    BY <1>1 DEF Matching, Promised
  <1>2. CASE p.static = "" /\ p.wanted = <<>>
    BY <1>2 DEF Matching, Promised
  <1>3. CASE p.static = "" /\ p.wanted # <<>>
    <2>1. \A k : ValidAttestations(ev, oci, k) = ev.found[k]
      BY <1>3 DEF ValidAttestations
    <2>2. \A att : att \in Usable(p, ev, oci) <=> \E n \in DOMAIN KeyList(p) : att \in ev.found[KeyList(p)[n]]
      BY <2>1 DEF Usable
    <2>3. Promised(p, ev) <=>
            /\ ev.opts
            /\ \A n \in DOMAIN KeyList(p) : ev.found[KeyList(p)[n]] # {}
            /\ \A w \in DOMAIN p.wanted : \E n \in DOMAIN KeyList(p) :
                 \E att \in ev.found[KeyList(p)[n]] : Satisfies(att, p.wanted[w])
      BY <1>3 DEF Promised
    <2>4. \A w \in DOMAIN p.wanted :
            (\E att \in Usable(p, ev, oci) : Satisfies(att, p.wanted[w])) <=>
            (\E n \in DOMAIN KeyList(p) : \E att \in ev.found[KeyList(p)[n]] : Satisfies(att, p.wanted[w]))
      BY <2>2
    <2>5. Matching(p, ev, oci) <=>
            /\ ev.opts
            /\ \A n \in DOMAIN KeyList(p) : ValidAttestations(ev, oci, KeyList(p)[n]) # {}
            /\ \A w \in DOMAIN p.wanted : \E att \in Usable(p, ev, oci) : Satisfies(att, p.wanted[w])
      BY <1>3, MatchingKinds
    <2>6. (\A w \in DOMAIN p.wanted : \E att \in Usable(p, ev, oci) : Satisfies(att, p.wanted[w])) <=>
          (\A w \in DOMAIN p.wanted : \E n \in DOMAIN KeyList(p) :
             \E att \in ev.found[KeyList(p)[n]] : Satisfies(att, p.wanted[w]))
      BY <2>4
    <2>7. (\A n \in DOMAIN KeyList(p) : ValidAttestations(ev, oci, KeyList(p)[n]) # {}) <=>
          (\A n \in DOMAIN KeyList(p) : ev.found[KeyList(p)[n]] # {})
      BY <2>1
    <2> QED BY <2>3, <2>5, <2>6, <2>7
  <1> QED BY <1>1, <1>2, <1>3

\* The invariant contains what an authority's match means.
LEMMA InvariantMatches ==
  ASSUME CheckInv
  PROVE  AuthorityMatches
  <1>1. FromCosign => (Matches <=> Promised(policy, evidence))
    BY LoopsKeepThePromise DEF FromCosign, Matches
  <1>2. Matches \in BOOLEAN /\ Promised(policy, evidence) \in BOOLEAN
    BY DEF Matches, Matching, Promised
  <1>3. FromCosign => Matches = Promised(policy, evidence)
    BY <1>1, <1>2
  <1> QED BY <1>1, <1>3 DEF CheckInv, LoopsDecide, AuthorityMatches

\* A set of numbers has a least one.
LEMMA NatMin ==
  ASSUME NEW K \in SUBSET Nat, K # {}
  PROVE  \E k \in K : \A m \in K : k <= m
  <1> DEFINE R == OpToRel(<, Nat)
  <1>1. IsWellFoundedOn(R, Nat)
    BY NatLessThanWellFounded
  <1>2. \A x, y \in Nat : x < y => <<x, y>> \in R
    BY DEF OpToRel
  <1> HIDE DEF R
  <1>3. PICK k \in K : \A m \in K : ~(<<m, k>> \in R)
    BY <1>1, WFMin
  <1>4. k \in Nat /\ \A m \in K : m \in Nat /\ ~(m < k)
    BY <1>2, <1>3
  <1>5. \A m \in K : k <= m
    BY <1>4
  <1> QED BY <1>5

=============================================================================
