--------------------------- MODULE PodCheckProofs ---------------------------
(***************************************************************************)
(* The answer for an object with a pod specification, for any containers   *)
(* and volumes.                                                            *)
(*                                                                         *)
(* A group's loop counts results instead of naming them, so the invariant  *)
(* says what the count stands for (left is the number of images not heard  *)
(* of) until a cancelled context was taken for a result: from then on the  *)
(* answer has an error whatever was missed.                                *)
(*                                                                         *)
(* Its second part is about the keys of TrustRoots that checks are made    *)
(* with.                                                                   *)
(***************************************************************************)
EXTENDS PodCheck, TrustRootKeys, FiniteSetTheorems, TLAPS

\* A result that was received.
Heard(s) == result[s] # Running /\ s \notin unread
Waiting == {s \in Checked(current) : ~Heard(s)}

\* The loop may have taken the cancelled context for a result.
Cut == ctxDone /\ "error" \in errs

\* Before the loops nothing was checked.
BeforeInv ==
  pc \in {"mutate", "validate"} =>
    /\ current = 1 /\ unread = {} /\ errs = {} /\ ~ctxDone
    /\ \A s \in Slots : result[s] = Running

\* The groups are checked in order, and what is no digest fails.
ResultInv ==
  /\ \A s \in Slots : result[s] # Running => /\ image[s] # "none" /\ group[s] <= current
                                             /\ image[s] # "digest" => result[s] = {"error"}
  /\ \A s \in Slots : image[s] # "none" /\ group[s] < current => result[s] # Running
  /\ \A s \in unread : result[s] # Running

\* What the loops gathered.
Gathers == \A x : x \in errs <=> \E s \in Slots : Heard(s) /\ x \in result[s]

LoopInv ==
  /\ pc = "check" => ~Skips(request)
  /\ pc = "check" /\ ~Cut => left = Cardinality(Waiting) /\ Gathers
  /\ pc = "done" /\ ~Skips(request) =>
       \/ errs = {"error"} /\ \A s \in Slots : result[s] = Running
       \/ /\ \A s \in Slots : image[s] # "none" => result[s] # Running
          /\ unread = {} /\ (~Cut => Gathers)

\* The inductive invariant.
IInv == TypeOK /\ BeforeInv /\ ResultInv /\ LoopInv

-----------------------------------------------------------------------------
LEMMA CheckedFinite ==
  ASSUME NEW g
  PROVE  /\ IsFiniteSet(Checked(g)) /\ Expected(g) \in 0..Cardinality(Slots)
         /\ Cardinality(Slots) \in Nat
  <1>1. Checked(g) \subseteq Slots
    BY DEF Checked
  <1>2. IsFiniteSet(Checked(g)) /\ Cardinality(Checked(g)) <= Cardinality(Slots)
    BY <1>1, FS_Subset, SlotsAssumption
  <1>3. Cardinality(Checked(g)) \in Nat /\ Cardinality(Slots) \in Nat
    BY <1>2, FS_CardinalityType, SlotsAssumption
  <1> QED BY <1>2, <1>3 DEF Expected

LEMMA Initially == Init => IInv
  <1> SUFFICES ASSUME Init PROVE IInv
    OBVIOUS
  <1>1. Cardinality(Slots) \in Nat
    BY FS_CardinalityType, SlotsAssumption
  <1>2. ctxDone \in BOOLEAN
    BY Zenon DEF Init
  <1>3. TypeOK
    <2>1. request \in Requests /\ group \in [Slots -> Groups] /\ image \in [Slots -> Images]
      BY DEF Init
    <2>2. pc \in {"mutate", "validate", "check", "done"} /\ current \in Groups /\ left \in 0..Cardinality(Slots)
      BY <1>1 DEF Init, Groups
    <2>3. result \in [Slots -> (SUBSET Levels) \cup {Running}] /\ unread \subseteq Checked(current) /\ errs \subseteq Levels
      BY DEF Init
    <2> QED BY <1>2, <2>1, <2>2, <2>3 DEF TypeOK
  <1>4. BeforeInv
    BY DEF BeforeInv, Init
  <1>5. ResultInv
    BY <1>3 DEF ResultInv, Init, TypeOK, Groups
  <1>6. LoopInv
    BY DEF LoopInv, Init
  <1> QED BY <1>3, <1>4, <1>5, <1>6 DEF IInv

\* Before the loops.
LEMMA ResolveStep == ASSUME IInv, Resolve PROVE IInv'
  <1> USE DEF IInv
  <1>1. /\ pc = "mutate" /\ pc' = "validate"
        /\ UNCHANGED <<request, group, ctxDone, current, left, result, unread, errs>>
        /\ unread = {} /\ \A s \in Slots : result[s] = Running
    BY DEF Resolve, BeforeInv
  <1>2. image' \in [Slots -> Images]
    BY DEF Resolve, resolvePodSpec, TypeOK, Images
  <1>3. TypeOK'
    BY <1>1, <1>2 DEF TypeOK
  <1>4. BeforeInv'
    BY <1>1 DEF BeforeInv
  <1>5. ResultInv'
    BY <1>1, <1>3 DEF ResultInv, TypeOK, Groups, BeforeInv
  <1>6. LoopInv'
    BY <1>1 DEF LoopInv
  <1> QED BY <1>3, <1>4, <1>5, <1>6

LEMMA ValidateStep == ASSUME IInv, Validate PROVE IInv'
  <1> USE DEF IInv
  <1>1. /\ pc = "validate" /\ UNCHANGED <<request, group, image, ctxDone, current, result, unread>>
        /\ current = 1 /\ unread = {} /\ errs = {} /\ ~ctxDone
        /\ \A s \in Slots : result[s] = Running
    BY DEF Validate, BeforeInv
  <1>2. \/ Skips(request) /\ pc' = "done" /\ UNCHANGED <<left, errs>>
        \/ ~Skips(request) /\ pc' = "done" /\ errs' = {"error"} /\ UNCHANGED left
        \/ ~Skips(request) /\ pc' = "check" /\ left' = Expected(1) /\ UNCHANGED errs
    BY DEF Validate
  <1>3. TypeOK'
    <2>1. left' \in 0..Cardinality(Slots)
      BY <1>2, CheckedFinite DEF TypeOK
    <2>2. errs' \subseteq Levels /\ pc' \in {"mutate", "validate", "check", "done"}
      BY <1>2 DEF TypeOK, Levels
    <2>3. Checked(current)' = Checked(current)
      BY <1>1 DEF Checked
    <2> QED BY <1>1, <2>1, <2>2, <2>3 DEF TypeOK
  <1>4. BeforeInv'
    BY <1>2 DEF BeforeInv
  <1>5. ResultInv'
    BY <1>1 DEF ResultInv
  <1>6. LoopInv'
    <2>1. Skips(request)' <=> Skips(request)
      BY <1>1 DEF Skips, isDeletedOrStatusUpdate, IsScalingDown
    <2>2. CASE pc' = "done"
      BY <1>1, <1>2, <2>1, <2>2 DEF LoopInv
    <2>3. CASE pc' = "check"
      <3>1. left' = Expected(1) /\ errs' = {} /\ ~Skips(request)
        BY <1>1, <1>2, <2>3
      <3>2. Waiting' = Checked(1)
        BY <1>1 DEF Waiting, Heard, Checked
      <3>3. Gathers'
        BY <1>1, <3>1 DEF Gathers, Heard
      <3> QED BY <2>1, <2>3, <3>1, <3>2, <3>3 DEF LoopInv, Expected
    <2> QED BY <1>2, <2>2, <2>3
  <1> QED BY <1>3, <1>4, <1>5, <1>6

-----------------------------------------------------------------------------
(* The loops.                                                               *)

\* What no step of the loops changes.
LEMMA Inputs ==
  ASSUME UNCHANGED <<request, group, image>>
  PROVE  /\ Skips(request)' <=> Skips(request)
         /\ \A g : Checked(g)' = Checked(g)
  BY DEF Skips, isDeletedOrStatusUpdate, IsScalingDown, Checked

LEMMA CancelStep == ASSUME IInv, Cancel PROVE IInv'
  <1> USE DEF IInv
  <1>1. /\ pc = "check" /\ ctxDone' = TRUE
        /\ UNCHANGED <<request, group, image, pc, current, left, result, unread, errs>>
    BY DEF Cancel
  <1>2. TypeOK'
    BY <1>1, Inputs DEF TypeOK
  <1>3. BeforeInv' /\ ResultInv'
    BY <1>1 DEF BeforeInv, ResultInv
  <1>4. Waiting' = Waiting /\ (Gathers <=> Gathers') /\ (Cut => Cut')
    BY <1>1, Inputs DEF Waiting, Gathers, Heard, Cut
  <1>5. LoopInv'
    BY <1>1, <1>4, Inputs DEF LoopInv
  <1> QED BY <1>2, <1>3, <1>5

LEMMA CheckImageStep == ASSUME IInv, NEW s \in Slots, CheckImage(s) PROVE IInv'
  <1> USE DEF IInv
  <1>1. /\ pc = "check" /\ s \in Checked(current) /\ result[s] = Running
        /\ unread' = unread \cup {s}
        /\ UNCHANGED <<request, group, image, ctxDone, pc, current, left, errs>>
    BY DEF CheckImage
  <1>2. PICK ls \in SUBSET Levels : /\ result' = [result EXCEPT ![s] = ls]
                                    /\ image[s] # "digest" => ls = {"error"}
    BY ZenonT(60) DEF CheckImage, Levels
  <1>3. ls # Running
    BY DEF Levels, Running
  <1>4. TypeOK'
    <2>1. result' \in [Slots -> (SUBSET Levels) \cup {Running}]
      BY <1>2 DEF TypeOK
    <2> QED BY <1>1, <2>1, Inputs DEF TypeOK
  <1>5. result'[s] = ls /\ \A t \in Slots : t # s => result'[t] = result[t]
    BY <1>2 DEF TypeOK
  <1>6. BeforeInv'
    BY <1>1 DEF BeforeInv
  <1>7. ResultInv'
    <2>1. image[s] # "none" /\ group[s] = current /\ current \in Nat
      BY <1>1 DEF Checked, TypeOK, Groups
    <2>2. \A t \in unread : t \in Slots
      BY DEF TypeOK, Checked
    <2> QED BY <1>1, <1>2, <1>3, <1>5, <2>1, <2>2 DEF ResultInv
  <1>8. \A t \in Slots : Heard(t)' <=> Heard(t)
    BY <1>1, <1>5 DEF Heard
  <1>9. ~Heard(s) /\ Waiting' = Waiting
    BY <1>1, <1>8, Inputs DEF Waiting, Checked, Heard
  <1>10. Gathers => Gathers'
    BY <1>1, <1>5, <1>8, <1>9 DEF Gathers
  <1>11. LoopInv'
    BY <1>1, <1>9, <1>10, Inputs DEF LoopInv, Cut
  <1> QED BY <1>4, <1>6, <1>7, <1>11

LEMMA ReadImageStep == ASSUME IInv, NEW s \in Slots, ReadImage(s) PROVE IInv'
  <1> USE DEF IInv
  <1>1. /\ pc = "check" /\ left > 0 /\ s \in unread /\ left' = left - 1 /\ unread' = unread \ {s}
        /\ errs' = errs \cup result[s]
        /\ UNCHANGED <<request, group, image, ctxDone, pc, current, result>>
    BY DEF ReadImage
  <1>2. result[s] # Running /\ s \in Checked(current)
    BY <1>1 DEF ResultInv, TypeOK
  <1>3. result[s] \subseteq Levels
    BY <1>2 DEF TypeOK
  <1>4. TypeOK'
    <2>1. left' \in 0..Cardinality(Slots)
      BY <1>1, CheckedFinite DEF TypeOK
    <2> QED BY <1>1, <1>3, <2>1, Inputs DEF TypeOK
  <1>5. BeforeInv' /\ ResultInv'
    BY <1>1 DEF BeforeInv, ResultInv
  <1>6. Heard(s)' /\ ~Heard(s) /\ \A t \in Slots : t # s => (Heard(t)' <=> Heard(t))
    BY <1>1, <1>2 DEF Heard
  <1>7. Waiting' = Waiting \ {s} /\ s \in Waiting
    BY <1>1, <1>2, <1>6, Inputs DEF Waiting, Checked
  <1>8. Cardinality(Waiting') = Cardinality(Waiting) - 1
    <2>1. IsFiniteSet(Waiting)
      BY CheckedFinite, FS_Subset DEF Waiting
    <2> QED BY <1>7, <2>1, FS_RemoveElement
  <1>9. Gathers => Gathers'
    <2> SUFFICES ASSUME Gathers, NEW x
                 PROVE  x \in errs' <=> \E t \in Slots : Heard(t)' /\ x \in result'[t]
      BY DEF Gathers
    <2>1. x \in errs <=> \E t \in Slots : Heard(t) /\ x \in result[t]
      BY DEF Gathers
    <2> QED BY <1>1, <1>6, <2>1
  <1>10. Cut => Cut'
    BY <1>1 DEF Cut
  <1>11. LoopInv'
    BY <1>1, <1>8, <1>9, <1>10, Inputs DEF LoopInv
  <1> QED BY <1>4, <1>5, <1>11

LEMMA CancelledStep == ASSUME IInv, Cancelled PROVE IInv'
  <1> USE DEF IInv
  <1>1. /\ pc = "check" /\ left > 0 /\ ctxDone /\ left' = left - 1 /\ errs' = errs \cup {"error"}
        /\ UNCHANGED <<request, group, image, ctxDone, pc, current, result, unread>>
    BY DEF Cancelled
  <1>2. TypeOK'
    <2>1. left' \in 0..Cardinality(Slots)
      BY <1>1, CheckedFinite DEF TypeOK
    <2> QED BY <1>1, <2>1, Inputs DEF TypeOK, Levels
  <1>3. BeforeInv' /\ ResultInv'
    BY <1>1 DEF BeforeInv, ResultInv
  <1>4. Cut'
    BY <1>1 DEF Cut
  <1>5. LoopInv'
    BY <1>1, <1>4, Inputs DEF LoopInv
  <1> QED BY <1>2, <1>3, <1>5

LEMMA NextGroupStep == ASSUME IInv, NextGroup PROVE IInv'
  <1> USE DEF IInv
  <1>1. /\ pc = "check" /\ left = 0 /\ \A s \in Checked(current) : result[s] # Running
        /\ unread' = {} /\ UNCHANGED <<request, group, image, ctxDone, result, errs>>
    BY DEF NextGroup
  <1>2. current \in 1..4 /\ \A s \in Slots : group[s] \in 1..4
    BY DEF TypeOK, Groups
  <1>3. (Cut' <=> Cut) /\ (~Cut => unread = {})
    <2>1. IsFiniteSet(Waiting) /\ (~Cut => Cardinality(Waiting) = 0)
      BY <1>1, CheckedFinite, FS_Subset DEF Waiting, LoopInv
    <2>2. ~Cut => Waiting = {}
      BY <2>1, FS_EmptySet
    <2>3. \A s \in unread : s \in Waiting
      BY DEF Waiting, Heard, TypeOK
    <2> QED BY <1>1, <2>2, <2>3 DEF Cut
  <1>4. ~Cut => Gathers /\ Gathers'
    BY <1>1, <1>3 DEF LoopInv, Gathers, Heard
  <1>5. \A s \in Slots : image[s] # "none" /\ group[s] <= current => result[s] # Running
    BY <1>1, <1>2 DEF ResultInv, Checked
  <1>6. CASE current = Volumes
    <2>1. pc' = "done" /\ UNCHANGED <<current, left>>
      BY <1>6 DEF NextGroup
    <2>2. TypeOK'
      BY <1>1, <2>1 DEF TypeOK
    <2>3. BeforeInv' /\ ResultInv'
      BY <1>1, <2>1 DEF BeforeInv, ResultInv
    <2>4. \A s \in Slots : image[s] # "none" => result[s] # Running
      BY <1>2, <1>5, <1>6 DEF Volumes
    <2>5. LoopInv'
      BY <1>1, <1>3, <1>4, <2>1, <2>4 DEF LoopInv
    <2> QED BY <2>2, <2>3, <2>5
  <1>7. CASE current # Volumes
    <2>1. pc' = pc /\ current' = current + 1 /\ left' = Expected(current + 1)
      BY <1>7 DEF NextGroup
    <2>2. current' \in 1..4 /\ current \in 1..4
      BY <1>2, <1>7, <2>1 DEF Volumes
    <2>3. left' \in 0..Cardinality(Slots)
      BY <2>1, CheckedFinite
    <2>4. TypeOK'
      BY <1>1, <2>1, <2>2, <2>3 DEF TypeOK, Groups
    <2>5. BeforeInv'
      BY <1>1, <2>1 DEF BeforeInv
    <2>6. ResultInv'
      BY <1>1, <1>2, <1>5, <2>1 DEF ResultInv
    <2>7. Waiting' = Checked(current + 1)
      <3>1. Waiting' \subseteq Checked(current + 1)
        BY <1>1, <2>1 DEF Waiting, Checked
      <3>2. ASSUME NEW s \in Checked(current + 1) PROVE s \in Waiting'
        <4>1. s \in Slots /\ group[s] = current + 1 /\ s \in Checked(current)'
          BY <1>1, <2>1 DEF Checked
        <4>2. result[s] = Running
          BY <1>2, <4>1 DEF ResultInv
        <4>3. ~Heard(s)'
          BY <1>1, <4>2 DEF Heard
        <4> QED BY <4>1, <4>3 DEF Waiting
      <3> QED BY <3>1, <3>2, ZenonT(60)
    <2>8. LoopInv'
      BY <1>1, <1>3, <1>4, <2>1, <2>7, Inputs DEF LoopInv, Expected
    <2> QED BY <2>4, <2>5, <2>6, <2>8
  <1> QED BY <1>6, <1>7

LEMMA Invariance == Spec => []IInv
  <1>1. IInv /\ UNCHANGED vars => IInv'
    <2> SUFFICES ASSUME IInv, UNCHANGED vars PROVE IInv'
      OBVIOUS
    <2>1. UNCHANGED <<request, group, image, ctxDone, pc, current, left, result, unread, errs>>
      BY DEF vars
    <2>2. TypeOK'
      BY <2>1, Inputs DEF IInv, TypeOK
    <2>3. BeforeInv' /\ ResultInv'
      BY <2>1 DEF IInv, BeforeInv, ResultInv
    <2>4. Waiting' = Waiting /\ (Gathers <=> Gathers') /\ (Cut <=> Cut')
      BY <2>1, Inputs DEF Waiting, Gathers, Heard, Cut
    <2>5. LoopInv'
      BY <2>1, <2>4, Inputs DEF IInv, LoopInv
    <2> QED BY <2>2, <2>3, <2>5 DEF IInv
  <1>2. IInv /\ [Next]_vars => IInv'
    BY <1>1, ResolveStep, ValidateStep, CancelStep, CheckImageStep, ReadImageStep, CancelledStep, NextGroupStep
       DEF Next, Handler
  <1> QED BY <1>2, Initially, PTL DEF Spec

\* The loops keep every variable's type, and a group never has more results than
\* its channel has room for.
THEOREM TypeCorrect == Spec => []TypeOK
  BY Invariance, PTL DEF IInv

\* An object that is admitted and was not left alone has every image checked and
\* pinned to a digest, for any number of containers and volumes.
THEOREM AdmittedAreChecked == Spec => []AdmittedIsChecked
  <1>1. IInv => AdmittedIsChecked
    <2> SUFFICES ASSUME IInv, pc = "done", "error" \notin errs, ~Skips(request), NEW s \in Named
                 PROVE  image[s] = "digest" /\ result[s] \in (SUBSET Levels) \ {{"error"}, Levels}
      BY DEF AdmittedIsChecked
    <2>1. s \in Slots /\ image[s] # "none" /\ unread = {} /\ result[s] # Running /\ Gathers
      BY DEF Named, IInv, LoopInv, Cut
    <2>2. "error" \notin result[s]
      BY <2>1 DEF Gathers, Heard
    <2>3. result[s] \in SUBSET Levels
      BY <2>1 DEF IInv, TypeOK
    <2>4. image[s] = "digest"
      BY <2>1, <2>2 DEF IInv, ResultInv
    <2> QED BY <2>2, <2>3, <2>4 DEF Levels
  <1> QED BY <1>1, Invariance, PTL

\* A request that was not cancelled is answered with what its images' checks
\* found, all of it and nothing else.
THEOREM AnswersAreComplete == Spec => []AnswerIsComplete
  <1>1. IInv => AnswerIsComplete
    <2> SUFFICES ASSUME IInv, pc = "done", ~ctxDone, ~Skips(request),
                        ~(errs = {"error"} /\ \A s \in Slots : result[s] = Running)
                 PROVE  errs = UNION {result[s] : s \in Named}
      BY DEF AnswerIsComplete
    <2>1. /\ \A s \in Slots : image[s] # "none" => result[s] # Running
          /\ unread = {} /\ Gathers
      BY DEF IInv, LoopInv, Cut
    <2>2. \A s \in Slots : Heard(s) <=> s \in Named
      BY <2>1 DEF Heard, Named, IInv, ResultInv
    <2>3. Named \subseteq Slots
      BY DEF Named
    <2>4. \A x : x \in errs <=> \E s \in Named : x \in result[s]
      BY <2>1, <2>2, <2>3 DEF Gathers
    <2>5. \A x : x \in UNION {result[s] : s \in Named} <=> \E s \in Named : x \in result[s]
      BY Zenon
    <2> QED BY <2>4, <2>5
  <1> QED BY <1>1, Invariance, PTL

-----------------------------------------------------------------------------
(***************************************************************************)
(* The keys of a TrustRoot, from what its user or its repository wrote to  *)
(* what the checks get, for every TrustRoot and every repository, with     *)
(* lists of any length: the pools hold the source's certificates and no    *)
(* others, the log keys published are usable, and so is a single timestamp *)
(* authority; the tester loads the same keys.                              *)
(***************************************************************************)

\* ConvertCA: a chain with nothing after its blocks is these blocks.
LEMMA ConvertedCA ==
  ASSUME NEW ca, ca.uri \in STRING, ca.chain \in Chains, ConvertCA(ca).chain # Null
  PROVE  ConvertCA(ca) \in HeldCAs /\ ConvertCA(ca).chain = ca.chain.blocks
  BY DEF ConvertCA, HeldCAs, Chains, DeserializeCertChain

\* ConvertLog: the key is kept.
LEMMA ConvertedLog ==
  ASSUME NEW log, log.url \in STRING, log.key \in STRING
  PROVE  ConvertLog(log) \in HeldLogs /\ ConvertLog(log).key = log.key
  <1>1. HashAlgorithm(log.hash) \in {"SHA2_256", "SHA2_384", "SHA2_512", "UNSPECIFIED"}
    BY DEF HashAlgorithm
  <1>2. KeyDetails(log.key) \in
          {"ECDSA_P256_SHA_256", "ECDSA_P384_SHA_384", "ECDSA_P521_SHA_512", "RSA_PSS_2048_SHA256",
           "RSA_PSS_3072_SHA256", "RSA_PSS_4096_SHA256", "UNSPECIFIED"}
    BY DEF KeyDetails
  <1> QED BY <1>1, <1>2 DEF ConvertLog, HeldLogs

\* Lists of authorities and of logs, converted.
LEMMA ConvertedCAs ==
  ASSUME NEW s, NEW n \in Nat, DOMAIN s = 1..n,
         \A i \in DOMAIN s : s[i].uri \in STRING /\ s[i].chain \in Chains,
         NEW h, h = [i \in 1..n |-> ConvertCA(s[i])], \A ca \in Range(h) : ca.chain # Null
  PROVE  h \in Seq(HeldCAs) /\ {ca.chain : ca \in Range(h)} = {ca.chain.blocks : ca \in Range(s)}
  <1>1. DOMAIN h = DOMAIN s /\ \A i \in DOMAIN s : h[i] = ConvertCA(s[i])
    OBVIOUS
  <1>2. \A i \in DOMAIN s : h[i] \in HeldCAs /\ h[i].chain = s[i].chain.blocks
    BY <1>1, ConvertedCA DEF Range
  <1>3. h \in Seq(HeldCAs)
    <2>1. h = [i \in 1..n |-> h[i]]
      BY <1>1
    <2> QED BY <1>1, <1>2, <2>1
  <1>4. {ca.chain : ca \in Range(h)} = {ca.chain.blocks : ca \in Range(s)}
    BY <1>1, <1>2 DEF Range
  <1> QED BY <1>3, <1>4

LEMMA ConvertedLogs ==
  ASSUME NEW s, NEW n \in Nat, DOMAIN s = 1..n,
         \A i \in DOMAIN s : s[i].url \in STRING /\ s[i].key \in STRING,
         NEW h, h = [i \in 1..n |-> ConvertLog(s[i])]
  PROVE  h \in Seq(HeldLogs) /\ {log.key : log \in Range(h)} = {log.key : log \in Range(s)}
  <1>1. DOMAIN h = DOMAIN s /\ \A i \in DOMAIN s : h[i] = ConvertLog(s[i])
    OBVIOUS
  <1>2. \A i \in DOMAIN s : h[i] \in HeldLogs /\ h[i].key = s[i].key
    BY <1>1, ConvertedLog
  <1>3. h \in Seq(HeldLogs)
    <2>1. h = [i \in 1..n |-> h[i]]
      BY <1>1
    <2> QED BY <1>1, <1>2, <2>1
  <1>4. {log.key : log \in Range(h)} = {log.key : log \in Range(s)}
    BY <1>1, <1>2 DEF Range
  <1> QED BY <1>3, <1>4

\* What a TrustRoot is converted to has the chains and the log keys of its source.
SameSource(sk, chains, logs) ==
  /\ sk \in HeldKeys
  /\ {ca.chain : ca \in Range(sk.cas)} = chains
  /\ {log.key : log \in Range(sk.tlogs)} = logs

LEMMA InlineConverted ==
  ASSUME NEW k \in WrittenKeys, NEW sk \in ConvertSigstoreKeys(k)
  PROVE  SameSource(sk, {ca.chain.blocks : ca \in Range(k.cas)}, {log.key : log \in Range(k.tlogs)})
  <1>1. /\ sk = [cas |-> Map(k.cas, ConvertCA), tsas |-> Map(k.tsas, ConvertCA),
                 ctlogs |-> Map(k.ctlogs, ConvertLog), tlogs |-> Map(k.tlogs, ConvertLog)]
        /\ \A ca \in Range(sk.cas) \cup Range(sk.tsas) : ca.chain # Null
    BY DEF ConvertSigstoreKeys
  <1>2. /\ sk.cas = [i \in DOMAIN k.cas |-> ConvertCA(k.cas[i])]
        /\ sk.tsas = [i \in DOMAIN k.tsas |-> ConvertCA(k.tsas[i])]
        /\ sk.ctlogs = [i \in DOMAIN k.ctlogs |-> ConvertLog(k.ctlogs[i])]
        /\ sk.tlogs = [i \in DOMAIN k.tlogs |-> ConvertLog(k.tlogs[i])]
    BY <1>1 DEF Map
  <1>3. /\ k.cas \in Seq(WrittenCAs) /\ k.tsas \in Seq(WrittenCAs)
        /\ k.ctlogs \in Seq(WrittenLogs) /\ k.tlogs \in Seq(WrittenLogs)
    BY DEF WrittenKeys
  <1>4. /\ sk.cas \in Seq(HeldCAs) /\ sk.tsas \in Seq(HeldCAs)
        /\ {ca.chain : ca \in Range(sk.cas)} = {ca.chain.blocks : ca \in Range(k.cas)}
    <2>1. ASSUME NEW s \in Seq(WrittenCAs), NEW h, h = [i \in DOMAIN s |-> ConvertCA(s[i])],
                 \A ca \in Range(h) : ca.chain # Null
          PROVE  h \in Seq(HeldCAs) /\ {ca.chain : ca \in Range(h)} = {ca.chain.blocks : ca \in Range(s)}
      <3>1. Len(s) \in Nat /\ DOMAIN s = 1..Len(s)
        OBVIOUS
      <3>2. \A i \in DOMAIN s : s[i].uri \in STRING /\ s[i].chain \in Chains
        <4>1. \A i \in DOMAIN s : s[i] \in WrittenCAs
          OBVIOUS
        <4> QED BY <4>1 DEF WrittenCAs
      <3> QED BY <2>1, <3>1, <3>2, ConvertedCAs, ZenonT(60)
    <2>2. \A ca \in Range(sk.cas) : ca.chain # Null
      BY <1>1
    <2>3. \A ca \in Range(sk.tsas) : ca.chain # Null
      BY <1>1
    <2>4. sk.tsas \in Seq(HeldCAs)
      BY <1>2, <1>3, <2>1, <2>3
    <2> QED BY <1>2, <1>3, <2>1, <2>2, <2>4
  <1>5. /\ sk.ctlogs \in Seq(HeldLogs) /\ sk.tlogs \in Seq(HeldLogs)
        /\ {log.key : log \in Range(sk.tlogs)} = {log.key : log \in Range(k.tlogs)}
    <2>1. ASSUME NEW s \in Seq(WrittenLogs), NEW h, h = [i \in DOMAIN s |-> ConvertLog(s[i])]
          PROVE  h \in Seq(HeldLogs) /\ {log.key : log \in Range(h)} = {log.key : log \in Range(s)}
      <3>1. Len(s) \in Nat /\ DOMAIN s = 1..Len(s)
        OBVIOUS
      <3>2. \A i \in DOMAIN s : s[i].url \in STRING /\ s[i].key \in STRING
        <4>1. \A i \in DOMAIN s : s[i] \in WrittenLogs
          OBVIOUS
        <4> QED BY <4>1 DEF WrittenLogs
      <3> QED BY <2>1, <3>1, <3>2, ConvertedLogs
    <2>2. sk.ctlogs \in Seq(HeldLogs)
      BY <1>2, <1>3, <2>1
    <2> QED BY <1>2, <1>3, <2>1, <2>2
  <1> QED BY <1>1, <1>4, <1>5 DEF SameSource, HeldKeys

\* The targets of a usage, as a list.
LEMMA Ordered ==
  ASSUME NEW c \in Contents, NEW S \in SUBSET c.targets, NEW f \in Orders(S)
  PROVE  Cardinality(S) \in Nat /\ DOMAIN f = 1..Cardinality(S) /\ Range(f) = S
         /\ \A i \in DOMAIN f : f[i] \in S
  <1>1. Cardinality(S) \in Nat
    BY FS_Subset, FS_CardinalityType, ContentsAssumption
  <1> QED BY <1>1 DEF Orders

\* LegacyCA and LegacyLog, over the targets of a usage.
LEMMA LegacyCAs ==
  ASSUME NEW c \in Contents, NEW S \in SUBSET c.targets, \A t \in S : t.usage = "Fulcio",
         NEW f \in Orders(S), NEW h, h = [i \in DOMAIN f |-> LegacyCA(f[i])],
         \A ca \in Range(h) : ca.chain # Null
  PROVE  h \in Seq(HeldCAs) /\ {ca.chain : ca \in Range(h)} = {t.data.blocks : t \in S}
  <1> DEFINE n == Cardinality(S)
             s == [i \in 1..n |-> [uri |-> f[i].uri, chain |-> f[i].data]]
  <1>1. n \in Nat /\ DOMAIN f = 1..n /\ Range(f) = S /\ \A i \in 1..n : f[i] \in S
    BY Ordered
  <1>2. DOMAIN s = 1..n /\ \A i \in 1..n : s[i] = [uri |-> f[i].uri, chain |-> f[i].data]
    OBVIOUS
  <1>3. \A i \in 1..n : s[i].uri \in STRING /\ s[i].chain \in Chains
    BY <1>1, <1>2, ContentsAssumption
  <1> HIDE DEF s, n
  <1>4. h = [i \in 1..n |-> ConvertCA(s[i])]
    BY <1>1, <1>2 DEF LegacyCA
  <1>5. h \in Seq(HeldCAs) /\ {ca.chain : ca \in Range(h)} = {ca.chain.blocks : ca \in Range(s)}
    BY <1>1, <1>2, <1>3, <1>4, ConvertedCAs
  <1>6. {ca.chain.blocks : ca \in Range(s)} = {t.data.blocks : t \in S}
    BY <1>1, <1>2 DEF Range
  <1> QED BY <1>5, <1>6

LEMMA LegacyLogs ==
  ASSUME NEW c \in Contents, NEW S \in SUBSET c.targets, \A t \in S : t.usage \in {"CTFE", "Rekor"},
         NEW f \in Orders(S), NEW h, h = [i \in DOMAIN f |-> LegacyLog(f[i])]
  PROVE  h \in Seq(HeldLogs) /\ {log.key : log \in Range(h)} = {t.data : t \in S}
  <1> DEFINE n == Cardinality(S)
             s == [i \in 1..n |-> [url |-> f[i].uri, hash |-> "sha256", key |-> f[i].data]]
  <1>1. n \in Nat /\ DOMAIN f = 1..n /\ Range(f) = S /\ \A i \in 1..n : f[i] \in S
    BY Ordered
  <1>2. DOMAIN s = 1..n /\ \A i \in 1..n : s[i] = [url |-> f[i].uri, hash |-> "sha256", key |-> f[i].data]
    OBVIOUS
  <1>3. \A i \in 1..n : s[i].url \in STRING /\ s[i].key \in STRING
    BY <1>1, <1>2, ContentsAssumption
  <1> HIDE DEF s, n
  <1>4. h = [i \in 1..n |-> ConvertLog(s[i])]
    BY <1>1, <1>2 DEF LegacyLog
  <1>5. h \in Seq(HeldLogs) /\ {log.key : log \in Range(h)} = {log.key : log \in Range(s)}
    BY <1>1, <1>2, <1>3, <1>4, ConvertedLogs
  <1>6. {log.key : log \in Range(s)} = {t.data : t \in S}
    BY <1>1, <1>2 DEF Range
  <1> QED BY <1>5, <1>6, ZenonT(60)

LEMMA LegacyConverted ==
  ASSUME NEW c \in Contents, NEW sk \in LegacyKeys(c)
  PROVE  SameSource(sk, {t.data.blocks : t \in For(c, "Fulcio")}, {t.data : t \in For(c, "Rekor")})
  <1>1. PICK f \in Orders(For(c, "Fulcio")), ct \in Orders(For(c, "CTFE")), r \in Orders(For(c, "Rekor")) :
          /\ sk = [cas |-> [i \in DOMAIN f |-> LegacyCA(f[i])], tsas |-> <<>>,
                   ctlogs |-> [i \in DOMAIN ct |-> LegacyLog(ct[i])], tlogs |-> [i \in DOMAIN r |-> LegacyLog(r[i])]]
          /\ \A ca \in Range(sk.cas) : ca.chain # Null
    BY DEF LegacyKeys, Map
  <1>2. /\ sk.cas = [i \in DOMAIN f |-> LegacyCA(f[i])]
        /\ sk.ctlogs = [i \in DOMAIN ct |-> LegacyLog(ct[i])]
        /\ sk.tlogs = [i \in DOMAIN r |-> LegacyLog(r[i])]
        /\ sk.tsas = <<>>
    BY <1>1
  <1>3. \A usage : For(c, usage) \in SUBSET c.targets /\ \A t \in For(c, usage) : t.usage = usage
    BY DEF For
  <1>4. sk.cas \in Seq(HeldCAs) /\ {ca.chain : ca \in Range(sk.cas)} = {t.data.blocks : t \in For(c, "Fulcio")}
    BY <1>1, <1>2, <1>3, LegacyCAs
  <1>5. sk.ctlogs \in Seq(HeldLogs)
    BY <1>2, <1>3, LegacyLogs
  <1>6. sk.tlogs \in Seq(HeldLogs) /\ {log.key : log \in Range(sk.tlogs)} = {t.data : t \in For(c, "Rekor")}
    BY <1>2, <1>3, LegacyLogs, ZenonT(60)
  <1>7. sk \in HeldKeys
    <2>1. sk.tsas \in Seq(HeldCAs)
      BY <1>2
    <2> QED BY <1>1, <1>4, <1>5, <1>6, <2>1 DEF HeldKeys
  <1> QED BY <1>4, <1>6, <1>7 DEF SameSource

-----------------------------------------------------------------------------
(* The inductive invariant: one field of an admitted spec is given, and     *)
(* valid; what is published is one of the results of its conversion, with   *)
(* the source it is converted from still there; what the checks get is made *)
(* of what is published.                                                    *)

KeysInv ==
  /\ spec \in Specs
  /\ spec.keys = Null => content \in Contents
  /\ stage \in {"admitted", "published", "used"} =>
       /\ Given(spec) \in {{"repository"}, {"remote"}, {"keys"}}
       /\ spec.keys # Null => ~InvalidKeys(spec.keys)
  /\ stage \in {"published", "used"} =>
       \E sk \in SigstoreKeys(spec) : LogsPass(sk) /\ keys = Published(sk)
  /\ stage = "used" =>
       opts = [fulcio |-> FulcioCerts(keys), rekor |-> RekorKeys(keys), tsa |-> Timestamps(keys)]

\* One of the three fields is given, and the others are not.
LEMMA SingleField ==
  ASSUME NEW sp
  PROVE  /\ Given(sp) = {"repository"} => sp.repository # Null /\ sp.remote = Null /\ sp.keys = Null
         /\ Given(sp) = {"remote"} => sp.repository = Null /\ sp.remote # Null /\ sp.keys = Null
         /\ Given(sp) = {"keys"} => sp.repository = Null /\ sp.remote = Null /\ sp.keys # Null
  BY DEF Given

\* Every action keeps the invariant.
LEMMA KeysInvHolds ==
  KeysSpec => []KeysInv
  <1>1. KeysInit => KeysInv
    BY DEF KeysInit, KeysInv
  <1>2. KeysInv /\ [KeysNext]_keysVars => KeysInv'
    <2> SUFFICES ASSUME KeysInv, [KeysNext]_keysVars PROVE KeysInv'
      OBVIOUS
    <2>1. CASE Admit
      <3>1. Valid(spec) => /\ Given(spec) \in {{"repository"}, {"remote"}, {"keys"}}
                           /\ spec.keys # Null => ~InvalidKeys(spec.keys)
        BY SingleField DEF Valid
      <3>2. UNCHANGED <<spec, content>> /\ stage' \in {"admitted", "rejected"} /\ (stage' = "admitted" => Valid(spec))
        BY <2>1 DEF Admit
      <3> QED BY <3>1, <3>2 DEF KeysInv
    <2>2. CASE ReconcileKind
      <3>1. /\ UNCHANGED <<spec, content>> /\ stage = "admitted" /\ stage' \in {"published", "failed"}
            /\ stage' = "published" => \E sk \in SigstoreKeys(spec) : LogsPass(sk) /\ keys' = Published(sk)
        BY <2>2 DEF ReconcileKind
      <3>2. SigstoreKeys(spec)' = SigstoreKeys(spec)
        BY <3>1 DEF SigstoreKeys
      <3> QED BY <3>1, <3>2 DEF KeysInv
    <2>3. CASE Change
      BY <2>3 DEF Change, KeysInv
    <2>4. CASE Use
      <3>1. /\ UNCHANGED <<spec, content, keys>> /\ stage = "published" /\ stage' = "used"
            /\ opts' = [fulcio |-> FulcioCerts(keys), rekor |-> RekorKeys(keys), tsa |-> Timestamps(keys)]
        BY <2>4 DEF Use
      <3>2. SigstoreKeys(spec)' = SigstoreKeys(spec)
        BY <3>1 DEF SigstoreKeys
      <3> QED BY <3>1, <3>2 DEF KeysInv
    <2>5. CASE UNCHANGED keysVars
      <3>1. SigstoreKeys(spec)' = SigstoreKeys(spec)
        BY <2>5 DEF SigstoreKeys, keysVars
      <3> QED BY <2>5, <3>1 DEF KeysInv, keysVars
    <2> QED BY <2>1, <2>2, <2>3, <2>4, <2>5 DEF KeysNext
  <1> QED BY <1>1, <1>2, PTL DEF KeysSpec

\* What a TrustRoot is converted to has its source's chains and log keys.
LEMMA SourceKept ==
  ASSUME spec \in Specs, spec.keys = Null => content \in Contents,
         Given(spec) \in {{"repository"}, {"remote"}, {"keys"}}, NEW sk \in SigstoreKeys(spec)
  PROVE  SameSource(sk, SourceChains, SourceLogs)
  <1>1. CASE spec.keys # Null
    <2>1. spec.repository = Null /\ spec.remote = Null
      BY <1>1, SingleField
    <2>2. sk \in ConvertSigstoreKeys(spec.keys)
      BY <2>1 DEF SigstoreKeys
    <2>3. spec.keys \in WrittenKeys
      BY <1>1, SpecsAssumption
    <2> QED BY <1>1, <2>2, <2>3, InlineConverted DEF SourceChains, SourceLogs
  <1>2. CASE spec.keys = Null
    <2> DEFINE target == Target(IF spec.remote # Null THEN spec.remote ELSE spec.repository)
    <2>1. Given(spec) # {"keys"}
      BY <1>2, SingleField
    <2>2. FromTrusted <=> content.name = target
      BY <2>1 DEF FromTrusted
    <2>3. sk \in GetSigstoreKeysFromTuf(content, target)
      BY <1>2, SingleField DEF SigstoreKeys
    <2> HIDE DEF target
    <2>4. CASE FromTrusted
      <3>1. sk = content.trusted /\ sk # Null
        BY <2>2, <2>3, <2>4 DEF GetSigstoreKeysFromTuf
      <3>2. sk \in HeldKeys
        BY <1>2, <3>1, ContentsAssumption
      <3> QED BY <1>2, <2>4, <3>1, <3>2 DEF SourceChains, SourceLogs, SameSource
    <2>5. CASE ~FromTrusted
      <3>1. sk \in LegacyKeys(content)
        BY <2>2, <2>3, <2>5 DEF GetSigstoreKeysFromTuf
      <3> QED BY <1>2, <2>5, <3>1, LegacyConverted DEF SourceChains, SourceLogs
    <2> QED BY <2>4, <2>5
  <1> QED BY <1>1, <1>2

\* The loops over the logs set the IDs and keep everything else.
LEMMA PublishedKeys ==
  ASSUME NEW sk \in HeldKeys
  PROVE  /\ Published(sk).cas = sk.cas /\ Published(sk).tsas = sk.tsas
         /\ {<<log.id, log.key>> : log \in Range(Published(sk).ctlogs)} = {<<log.key, log.key>> : log \in Range(sk.ctlogs)}
         /\ {<<log.id, log.key>> : log \in Range(Published(sk).tlogs)} = {<<log.key, log.key>> : log \in Range(sk.tlogs)}
         /\ {log.key : log \in Range(Published(sk).ctlogs)} = {log.key : log \in Range(sk.ctlogs)}
         /\ {log.key : log \in Range(Published(sk).tlogs)} = {log.key : log \in Range(sk.tlogs)}
  <1>1. \A log \in HeldLogs : WithID(log).id = log.key /\ WithID(log).key = log.key
    BY DEF HeldLogs, WithID
  <1>2. ASSUME NEW s \in Seq(HeldLogs), NEW h, h = [i \in DOMAIN s |-> WithID(s[i])]
        PROVE  /\ {<<log.id, log.key>> : log \in Range(h)} = {<<log.key, log.key>> : log \in Range(s)}
               /\ {log.key : log \in Range(h)} = {log.key : log \in Range(s)}
    <2>1. \A i \in DOMAIN s : s[i] \in HeldLogs
      OBVIOUS
    <2>2. DOMAIN h = DOMAIN s /\ \A i \in DOMAIN s : h[i].id = s[i].key /\ h[i].key = s[i].key
      BY <1>1, <1>2, <2>1
    <2> QED BY <2>2 DEF Range
  <1>3. /\ Published(sk).cas = sk.cas /\ Published(sk).tsas = sk.tsas
        /\ Published(sk).ctlogs = [i \in DOMAIN sk.ctlogs |-> WithID(sk.ctlogs[i])]
        /\ Published(sk).tlogs = [i \in DOMAIN sk.tlogs |-> WithID(sk.tlogs[i])]
    BY DEF Published, Map
  <1>4. sk.ctlogs \in Seq(HeldLogs) /\ sk.tlogs \in Seq(HeldLogs)
    BY DEF HeldKeys
  <1> QED BY <1>2, <1>3, <1>4, ZenonT(60)

\* fulcioCertsFromAuthority, on published keys.
CertificatesIn(chains) == UNION {Range(ch) : ch \in chains}

LEMMA PublishedPools ==
  ASSUME NEW sk \in HeldKeys, LogsPass(sk), NEW chains, chains = {ca.chain : ca \in Range(sk.cas)},
         NEW pools, pools = FulcioCerts(Published(sk))
  PROVE  /\ pools = Null <=> ~(CertificatesIn(chains) \subseteq Leaves \cup Inters \cup Roots)
         /\ pools # Null => /\ pools.roots = CertificatesIn(chains) \cap Roots
                            /\ pools.inters = CertificatesIn(chains) \ Roots
  <1> SUFFICES ASSUME NEW certs, certs = UNION {Range(ch) : ch \in chains}
               PROVE  /\ pools = Null <=> ~(certs \subseteq Leaves \cup Inters \cup Roots)
                      /\ pools # Null => pools.roots = certs \cap Roots /\ pools.inters = certs \ Roots
    BY ZenonT(60) DEF CertificatesIn
  <1> DEFINE all == Leaves \cup Inters \cup Roots
             parsed == {Certificates(ca.chain) : ca \in Range(sk.cas)}
             found == UNION {Range(ch) : ch \in parsed}
             ids == {<<log.id, log.key>> : log \in Range(Published(sk).ctlogs)}
  <1>1. \A ch \in chains : ch \in Seq(STRING)
    <2>1. sk.cas \in Seq(HeldCAs)
      BY DEF HeldKeys
    <2>2. \A ca \in Range(sk.cas) : ca \in HeldCAs
      BY <2>1 DEF Range
    <2> QED BY <2>2 DEF HeldCAs
  <1>2. \A ch \in chains : /\ Certificates(ch) = IF Range(ch) \subseteq all THEN ch ELSE Null
                           /\ ch # Null
    BY <1>1, NullAssumption DEF Certificates
  <1>3. parsed = {Certificates(ch) : ch \in chains}
    OBVIOUS
  <1>4. Null \in parsed <=> ~(certs \subseteq all)
    BY <1>2, <1>3
  <1>5. Null \notin parsed => found = certs
    BY <1>2, <1>3
  <1>6. \A log \in Range(Published(sk).ctlogs) : IsKey(log.key)
    <2>1. \A key \in {log.key : log \in Range(sk.ctlogs)} : IsKey(key)
      BY DEF LogsPass
    <2> QED BY <2>1, PublishedKeys
  <1>7. pools = IF Null \in parsed THEN Null
                ELSE [roots |-> found \cap Roots, inters |-> found \ Roots, ctlogs |-> ids]
    BY <1>6, PublishedKeys, ZenonT(60) DEF FulcioCerts
  <1>8. certs \in SUBSET STRING
    <2>1. \A ch \in Seq(STRING) : Range(ch) \in SUBSET STRING
      BY DEF Range
    <2> QED BY <1>1, <2>1
  <1>9. ids \in SUBSET (STRING \X STRING)
    <2>1. \A log \in Range(sk.ctlogs) : log.key \in STRING
      <3>1. sk.ctlogs \in Seq(HeldLogs)
        BY DEF HeldKeys
      <3>2. \A log \in Range(sk.ctlogs) : log \in HeldLogs
        BY <3>1 DEF Range
      <3> QED BY <3>2 DEF HeldLogs
    <2>2. ids = {<<log.key, log.key>> : log \in Range(sk.ctlogs)}
      BY PublishedKeys
    <2> QED BY <2>1, <2>2
  <1> HIDE DEF parsed, found, ids, all
  <1>10. Null \notin parsed => pools # Null
    <2>1. Null \notin parsed => pools \in Pools
      BY <1>5, <1>7, <1>8, <1>9 DEF Pools
    <2> QED BY <2>1, NullAssumption
  <1> QED BY <1>4, <1>5, <1>7, <1>10 DEF all

\* rekorKeysFromTrustRef, on published keys.
LEMMA PublishedLogKeys ==
  ASSUME NEW sk \in HeldKeys, LogsPass(sk), NEW logs, logs = {log.key : log \in Range(sk.tlogs)},
         NEW rekor, rekor = RekorKeys(Published(sk))
  PROVE  rekor # Null /\ rekor.tlogs = {<<k, k>> : k \in logs}
  <1> DEFINE s == Published(sk).tlogs
             ids == {<<log.id, log.key>> : log \in Range(s)}
             url == IF s = <<>> THEN "" ELSE s[Len(s)].url
  <1>1. \A log \in Range(s) : IsECDSA(log.key)
    <2>1. \A key \in {log.key : log \in Range(sk.tlogs)} : IsECDSA(key)
      BY DEF LogsPass
    <2> QED BY <2>1, PublishedKeys, ZenonT(60)
  <1>2. ids = {<<k, k>> : k \in logs}
    BY PublishedKeys
  <1>3. sk.tlogs \in Seq(HeldLogs)
    BY DEF HeldKeys
  <1>4. logs \in SUBSET STRING
    <2>1. \A log \in Range(sk.tlogs) : log \in HeldLogs
      BY <1>3 DEF Range
    <2> QED BY <2>1 DEF HeldLogs
  <1>5. url \in STRING \cup {""}
    <2>1. s = [i \in DOMAIN sk.tlogs |-> WithID(sk.tlogs[i])]
      BY DEF Published, Map
    <2>2. \A log \in HeldLogs : WithID(log) \in HeldLogs
      BY DEF HeldLogs, WithID
    <2>3. s \in Seq(HeldLogs)
      BY <1>3, <2>1, <2>2
    <2>4. s # <<>> => s[Len(s)] \in HeldLogs
      BY <2>3
    <2>5. s # <<>> => s[Len(s)].url \in STRING
      BY <2>4 DEF HeldLogs
    <2> QED BY <2>5
  <1>6. rekor = [tlogs |-> ids, url |-> url]
    BY <1>1 DEF RekorKeys
  <1> HIDE DEF ids, url, s
  <1>7. rekor \in LogKeys
    <2>1. ids \in SUBSET (STRING \X STRING)
      BY <1>2, <1>4
    <2>2. \A S, a, b : a \in SUBSET S /\ b \in STRING \cup {""}
                       => [tlogs |-> a, url |-> b] \in [tlogs : SUBSET S, url : STRING \cup {""}]
      OBVIOUS
    <2> QED BY <1>5, <1>6, <2>1, <2>2 DEF LogKeys
  <1>8. rekor # Null
    BY <1>7, NullAssumption
  <1>9. rekor.tlogs = ids
    BY <1>6
  <1> QED BY <1>2, <1>8, <1>9

\* The timestamp authorities of inline keys are converted one by one.
LEMMA InlineAuthority ==
  ASSUME NEW k \in WrittenKeys, NEW sk \in ConvertSigstoreKeys(k), Len(k.tsas) = 1
  PROVE  /\ DOMAIN sk.tsas = {1} /\ Len(sk.tsas) = 1 /\ k.tsas[1].chain \in Chains
         /\ sk.tsas[1].chain = k.tsas[1].chain.blocks /\ sk.tsas[1].chain \in Seq(STRING)
  <1>1. sk.tsas = [i \in DOMAIN k.tsas |-> ConvertCA(k.tsas[i])] /\ \A ca \in Range(sk.tsas) : ca.chain # Null
    BY DEF ConvertSigstoreKeys, Map
  <1>2. k.tsas \in Seq(WrittenCAs)
    BY DEF WrittenKeys
  <1>3. k.tsas[1] \in WrittenCAs /\ DOMAIN k.tsas = {1}
    BY <1>2
  <1>4. k.tsas[1].uri \in STRING /\ k.tsas[1].chain \in Chains
    BY <1>3 DEF WrittenCAs
  <1>5. DOMAIN sk.tsas = {1} /\ sk.tsas[1] = ConvertCA(k.tsas[1])
    BY <1>1, <1>3
  <1>6. sk.tsas[1].chain # Null
    BY <1>1, <1>5 DEF Range
  <1>7. sk.tsas[1] \in HeldCAs /\ sk.tsas[1].chain = k.tsas[1].chain.blocks
    BY <1>4, <1>5, <1>6, ConvertedCA
  <1>8. Len(sk.tsas) = 1
    <2>1. sk.tsas \in [1..1 -> HeldCAs]
      BY <1>1, <1>5, <1>7
    <2> QED BY <2>1
  <1> QED BY <1>4, <1>5, <1>7, <1>8 DEF HeldCAs

\* validateTimeStampAuthority, when it has the last word.
LEMMA LastWord ==
  ASSUME NEW k \in WrittenKeys, ~InvalidKeys(k), k.ctlogs = <<>>, k.tlogs = <<>>, Len(k.tsas) = 1
  PROVE  ~InvalidTimeStampAuthority(k.tsas[1])
  <1>1. k.tsas \in Seq(WrittenCAs)
    BY DEF WrittenKeys
  <1>2. DOMAIN k.tsas = {1}
    BY <1>1
  <1> DEFINE v == [i \in DOMAIN k.tsas |-> InvalidTimeStampAuthority(k.tsas[i])]
  <1>3. Len(v) = 1 /\ v # <<>> /\ v[1] = InvalidTimeStampAuthority(k.tsas[1])
    <2>1. v \in [1..1 -> BOOLEAN]
      BY <1>2 DEF InvalidTimeStampAuthority
    <2> HIDE DEF v
    <2>2. Len(v) = 1 /\ v # <<>>
      BY <2>1
    <2>3. v[1] = InvalidTimeStampAuthority(k.tsas[1])
      BY <1>2 DEF v
    <2> QED BY <2>2, <2>3
  <1> QED BY <1>3 DEF InvalidKeys, Errors, Map

\* The loop of checkOptsFromAuthority over a single timestamp authority.
LEMMA SingleAuthority ==
  ASSUME NEW p, DOMAIN p.tsas = {1}, NEW certs \in Seq(STRING), Certificates(p.tsas[1].chain) = certs,
         ~(Cardinality(Of(certs, Leaves)) > 1)
  PROVE  Timestamps(p) # Null
  <1> DEFINE chains == [i \in DOMAIN p.tsas |-> CertificatesOf(p.tsas[i])]
             named == {m \in DOMAIN chains : Of(chains[m], Leaves) # {}}
             last == CHOOSE m \in named : \A n \in named : n <= m
             cert == IF named = {} THEN {} ELSE Pool(chains[last], Leaves)
             inters == IF chains = <<>> THEN {} ELSE Pool(chains[Len(chains)], Inters)
             roots == IF chains = <<>> THEN {} ELSE Pool(chains[Len(chains)], Roots)
  <1>1. DOMAIN chains = {1} /\ chains[1] = certs
    BY DEF CertificatesOf
  <1>2. certs # Null
    BY NullAssumption
  <1>3. Len(chains) = 1
    <2>1. chains \in [1..1 -> {certs}]
      BY <1>1
    <2> QED BY <2>1
  <1>4. named # {} => last = 1
    <2>1. named # {} => named = {1}
      BY <1>1
    <2> HIDE DEF chains, named
    <2>2. named = {1} => last \in named
      <3>1. named = {1} => \E m \in named : \A n \in named : n <= m
        OBVIOUS
      <3> QED BY <3>1
    <2> QED BY <2>1, <2>2
  <1>5. \A kind : Pool(certs, kind) \in SUBSET STRING
    BY DEF Pool, Of
  <1>6. Timestamps(p) = [cert |-> cert, inters |-> inters, roots |-> roots]
    <2>1. ~ \E m \in DOMAIN chains : chains[m] = Null \/ Cardinality(Of(chains[m], Leaves)) > 1
      BY <1>1, <1>2
    <2>2. Timestamps(p) = IF \E m \in DOMAIN chains : chains[m] = Null \/ Cardinality(Of(chains[m], Leaves)) > 1 THEN Null
                          ELSE [cert |-> cert, inters |-> inters, roots |-> roots]
      BY Zenon DEF Timestamps, Map
    <2> HIDE DEF chains, cert, inters, roots
    <2> QED BY <2>1, <2>2
  <1> HIDE DEF chains, named, last
  <1>7. cert \in SUBSET STRING /\ inters \in SUBSET STRING /\ roots \in SUBSET STRING
    BY <1>1, <1>3, <1>4, <1>5
  <1> HIDE DEF cert, inters, roots
  <1>8. Timestamps(p) \in TimestampPools
    BY <1>6, <1>7 DEF TimestampPools
  <1> QED BY <1>8, NullAssumption

-----------------------------------------------------------------------------
(* The properties of the run, for all TrustRoots and repositories.          *)

\* The Fulcio pools are exactly the certificates of the source, and missing exactly
\* when it holds something else.
THEOREM PoolsHaveTheSource ==
  KeysSpec => []PoolsAreTheSource
  <1>1. KeysInv => PoolsAreTheSource
    <2> SUFFICES ASSUME KeysInv, stage = "used"
                 PROVE  /\ opts.fulcio = Null <=> ~(SourceCertificates \subseteq Leaves \cup Inters \cup Roots)
                        /\ opts.fulcio # Null => /\ opts.fulcio.roots = SourceCertificates \cap Roots
                                                 /\ opts.fulcio.inters = SourceCertificates \ Roots
      BY DEF PoolsAreTheSource
    <2>1. PICK sk \in SigstoreKeys(spec) : LogsPass(sk) /\ keys = Published(sk)
      BY DEF KeysInv
    <2>2. SameSource(sk, SourceChains, SourceLogs)
      BY SourceKept DEF KeysInv
    <2>3. sk \in HeldKeys /\ SourceChains = {ca.chain : ca \in Range(sk.cas)}
      BY <2>2 DEF SameSource
    <2>4. opts.fulcio = FulcioCerts(Published(sk))
      BY <2>1 DEF KeysInv
    <2>5. SourceCertificates = CertificatesIn(SourceChains)
      BY DEF SourceCertificates, CertificatesIn
    <2>6. LogsPass(sk)
      BY <2>1
    <2> QED BY <2>3, <2>4, <2>5, <2>6, PublishedPools
  <1> QED BY <1>1, KeysInvHolds, PTL

\* What is published is what rekorKeysFromTrustRef takes, key by key.
THEOREM RekorKeysAreUsable ==
  KeysSpec => []RekorKeysUsable
  <1>1. KeysInv => RekorKeysUsable
    <2> SUFFICES ASSUME KeysInv, stage = "used"
                 PROVE  opts.rekor # Null /\ opts.rekor.tlogs = {<<k, k>> : k \in SourceLogs}
      BY DEF RekorKeysUsable
    <2>1. PICK sk \in SigstoreKeys(spec) : LogsPass(sk) /\ keys = Published(sk)
      BY DEF KeysInv
    <2>2. SameSource(sk, SourceChains, SourceLogs)
      BY SourceKept DEF KeysInv
    <2>3. sk \in HeldKeys /\ SourceLogs = {log.key : log \in Range(sk.tlogs)}
      BY <2>2 DEF SameSource
    <2>4. opts.rekor = RekorKeys(Published(sk))
      BY <2>1 DEF KeysInv
    <2> QED BY <2>1, <2>3, <2>4, PublishedLogKeys
  <1> QED BY <1>1, KeysInvHolds, PTL

\* A single timestamp authority without logs is always usable once admitted.
THEOREM SingleTimestampIsUsable ==
  KeysSpec => []SingleTimestampUsable
  <1>1. KeysInv => SingleTimestampUsable
    <2> SUFFICES ASSUME KeysInv, stage = "used", spec.keys # Null, spec.keys.ctlogs = <<>>, spec.keys.tlogs = <<>>,
                        Len(spec.keys.tsas) = 1
                 PROVE  opts.tsa # Null
      BY DEF SingleTimestampUsable
    <2>1. PICK sk \in SigstoreKeys(spec) : LogsPass(sk) /\ keys = Published(sk)
      BY DEF KeysInv
    <2>2. spec.keys \in WrittenKeys /\ ~InvalidKeys(spec.keys)
      BY SpecsAssumption DEF KeysInv
    <2>3. sk \in ConvertSigstoreKeys(spec.keys)
      BY SingleField DEF KeysInv, SigstoreKeys
    <2> DEFINE certs == spec.keys.tsas[1].chain.blocks
    <2>4. DOMAIN sk.tsas = {1} /\ sk.tsas[1].chain = certs /\ certs \in Seq(STRING)
      BY <2>2, <2>3, InlineAuthority
    <2>5. Certificates(certs) = certs /\ ~(Cardinality(Of(certs, Leaves)) > 1)
      BY <2>2, LastWord DEF InvalidTimeStampAuthority, Unmarshal, Certificates
    <2>6. keys.tsas = sk.tsas
      BY <2>1 DEF Published
    <2>7. opts.tsa = Timestamps(keys)
      BY DEF KeysInv
    <2> HIDE DEF certs
    <2> QED BY <2>4, <2>5, <2>6, <2>7, SingleAuthority
  <1> QED BY <1>1, KeysInvHolds, PTL
=============================================================================
