-------------------------- MODULE ImageCheckProofs --------------------------
(***************************************************************************)
(* The answer for an image, for any policies and authorities: whom it      *)
(* blames, and that it is right when nothing but policies failed.          *)
(*                                                                         *)
(* The invariant follows the three loops: what ValidatePolicy has gathered *)
(* (PolicyInv), that validatePolicies has heard of every policy unless it  *)
(* took the cancelled context for one (GatherInv), and that the flags and  *)
(* levels of errorsToFieldErrors say what was visited (FoldInv).           *)
(***************************************************************************)
EXTENDS ImageCheck, FiniteSetTheorems, TLAPS

\* A policy's matches did match, its errors have its level or are plain, and it is
\* satisfied only with a match.
PolicyInv ==
  \A p \in Policies :
    /\ \A a \in matches[p] : outcome[p][a] = "match"
    /\ errs[p] \subseteq {"plain", Level(p)}
    /\ result[p] = "satisfied" => matches[p] # {}
    /\ result[p] # "running" => p \in matching /\ pc # "start"

\* What is kept of a policy whose result was read.
Kept(p) == IF result[p] = "satisfied" THEN {} ELSE IF errs[p] = {} THEN {"plain"} ELSE errs[p]
Heard(p) == p \in matching /\ result[p] # "running" /\ p \notin unreadP
Waiting == {p \in matching : ~Heard(p)}

GatherInv ==
  /\ \A p \in unreadP : p \in matching /\ result[p] # "running"
  /\ \A p \in Policies : ret[p] = IF Heard(p) THEN Kept(p) ELSE {}
  /\ ret[Internal] \in {{}, {"plain"}}
  /\ pc = "gather" /\ ret[Internal] = {} => leftP = Cardinality(Waiting)
  /\ (pc = "fold" \/ Gathered) /\ ret[Internal] = {} => Waiting = {}

\* The keys errorsToFieldErrors has visited.
Visited == {k \in Keys : ret[k] # {} /\ k \notin todo}

FoldInv ==
  /\ pc \in {"start", "gather"} => fes = {} /\ ~hasWarnings /\ ~hasErrors
  /\ pc # "fold" => todo = {}
  /\ \A k \in todo : ret[k] # {}
  /\ pc = "fold" \/ Gathered =>
       /\ hasErrors <=> \E k \in Visited : "error" \in ret[k]
       /\ hasWarnings <=> \E k \in Visited : "warning" \in ret[k]
       /\ "error" \in Levels <=> hasErrors
       /\ "warning" \in Levels <=> hasWarnings
       /\ {e.policy : e \in fes} \subseteq Visited
       /\ NoPlain => Visited \subseteq {e.policy : e \in fes}

\* The inductive invariant.
IInv == TypeOK /\ PolicyInv /\ GatherInv /\ FoldInv

-----------------------------------------------------------------------------
(* Types.                                                                   *)

LEMMA KindsType == \A p \in Policies : Level(p) \in Kinds /\ "plain" \in Kinds
  BY DEF Level, Kinds

LEMMA TypeStep ==
  ASSUME TypeOK, [Next]_vars PROVE TypeOK'
  <1> USE DEF TypeOK
  <1>1. CASE Start
    <2>1. Cardinality(matching) \in Nat
      BY FS_CardinalityType, FS_Subset, PoliciesAssumption
    <2>2. leftP' \in Nat
      BY <1>1, <2>1 DEF Start
    <2>3. fes' \subseteq [policy : Keys, level : {"warning", "error"}]
      BY <1>1 DEF Start, NoMatchErrors, Keys
    <2>4. pc' \in {"start", "gather", "fold", "done"}
      BY <1>1 DEF Start
    <2> QED BY <1>1, <2>2, <2>3, <2>4 DEF Start, inputs, policyVars
  <1>2. CASE Cancel
    BY <1>2 DEF Cancel, inputs, policyVars, gatherVars, foldVars
  <1>3. ASSUME NEW p \in Policies, NEW a \in Authorities, CheckAuthority(p, a) PROVE TypeOK'
    <2>1. outcome' \in [Policies -> [Authorities -> Outcomes \cup {"running"}]]
      BY <1>3 DEF CheckAuthority
    <2>2. unread' \in [Policies -> SUBSET Authorities]
      BY <1>3 DEF CheckAuthority
    <2> QED BY <1>3, <2>1, <2>2 DEF CheckAuthority, inputs, gatherVars, foldVars
  <1>4. ASSUME NEW p \in Policies, NEW a \in Authorities, ReadAuthority(p, a) PROVE TypeOK'
    <2>1. left' \in [Policies -> Nat] /\ unread' \in [Policies -> SUBSET Authorities]
      BY <1>4 DEF ReadAuthority
    <2>2. matches' \in [Policies -> SUBSET Authorities]
      BY <1>4 DEF ReadAuthority
    <2>3. errs' \in [Policies -> SUBSET Kinds]
      BY <1>4, KindsType DEF ReadAuthority
    <2> QED BY <1>4, <2>1, <2>2, <2>3 DEF ReadAuthority, inputs, gatherVars, foldVars
  <1>5. ASSUME NEW p \in Policies, AuthorityCancelled(p) PROVE TypeOK'
    <2>1. left' \in [Policies -> Nat]
      BY <1>5 DEF AuthorityCancelled
    <2>2. errs' \in [Policies -> SUBSET Kinds]
      BY <1>5, KindsType DEF AuthorityCancelled
    <2> QED BY <1>5, <2>1, <2>2 DEF AuthorityCancelled, inputs, gatherVars, foldVars
  <1>6. ASSUME NEW p \in Policies, ReturnPolicy(p) PROVE TypeOK'
    <2>1. result' \in [Policies -> {"running", "satisfied", "failed"}]
      BY <1>6 DEF ReturnPolicy
    <2>2. errs' \in [Policies -> SUBSET Kinds]
      BY <1>6, KindsType DEF ReturnPolicy
    <2> QED BY <1>6, <2>1, <2>2 DEF ReturnPolicy, inputs, foldVars
  <1>7. ASSUME NEW p \in Policies, ReadPolicy(p) PROVE TypeOK'
    <2>1. ret' \in [Keys -> SUBSET Kinds]
      BY <1>7 DEF ReadPolicy, Keys, Kinds
    <2>2. leftP' \in Nat /\ unreadP' \subseteq Policies
      BY <1>7 DEF ReadPolicy
    <2> QED BY <1>7, <2>1, <2>2 DEF ReadPolicy, inputs, policyVars, foldVars
  <1>8. CASE PolicyCancelled
    <2>1. ret' \in [Keys -> SUBSET Kinds]
      BY <1>8 DEF PolicyCancelled, Keys, Kinds
    <2>2. leftP' \in Nat
      BY <1>8 DEF PolicyCancelled
    <2> QED BY <1>8, <2>1, <2>2 DEF PolicyCancelled, inputs, policyVars, foldVars
  <1>9. CASE ReturnPolicies
    BY <1>9 DEF ReturnPolicies, inputs, policyVars, gatherVars
  <1>10. ASSUME NEW k \in Keys, FoldPolicy(k) PROVE TypeOK'
    <2>1. \A set : set \subseteq [policy : Keys, level : {"warning", "error"}] =>
            At(set, "warning") \subseteq [policy : Keys, level : {"warning", "error"}]
      BY DEF At
    <2>2. fes' \subseteq [policy : Keys, level : {"warning", "error"}]
      BY <1>10, <2>1 DEF FoldPolicy
    <2> QED BY <1>10, <2>2, ZenonT(60) DEF FoldPolicy, inputs, policyVars, gatherVars
  <1>11. CASE Return
    BY <1>11 DEF Return, inputs, policyVars, gatherVars, foldVars
  <1>12. CASE UNCHANGED vars
    BY <1>12 DEF vars, inputs, policyVars, gatherVars, foldVars
  <1> QED BY <1>1, <1>2, <1>3, <1>4, <1>5, <1>6, <1>7, <1>8, <1>9, <1>10, <1>11, <1>12
          DEF Next, ImageStep, PolicyStep

-----------------------------------------------------------------------------
(* ValidatePolicy.                                                          *)

LEMMA PolicyInit == Init => PolicyInv
  BY DEF Init, PolicyInv

\* What leaves ValidatePolicy alone keeps its invariant.
LEMMA PolicyFrame ==
  ASSUME PolicyInv, UNCHANGED <<inputs, policyVars>>, pc = "start" \/ pc' # "start"
  PROVE  PolicyInv'
  BY DEF PolicyInv, inputs, policyVars, Level

LEMMA PolicyActions ==
  ASSUME TypeOK, PolicyInv, NEW p \in Policies,
         PolicyStep(p) \/ \E a \in Authorities : CheckAuthority(p, a)
  PROVE  PolicyInv'
  <1> USE DEF TypeOK
  <1>1. /\ matching' = matching /\ mode' = mode /\ pc' = "gather" /\ pc = "gather"
        /\ p \in matching /\ result[p] = "running"
    BY DEF PolicyStep, AuthorityCancelled, ReturnPolicy, ReadAuthority, CheckAuthority, Checking, inputs
  <1>2. \A q \in Policies : Level(q)' = Level(q)
    BY <1>1 DEF Level
  <1>3. ASSUME NEW q \in Policies, q # p
        PROVE  /\ matches'[q] = matches[q] /\ outcome'[q] = outcome[q]
               /\ errs'[q] = errs[q] /\ result'[q] = result[q]
    BY <1>3 DEF PolicyStep, AuthorityCancelled, ReturnPolicy, ReadAuthority, CheckAuthority
  <1>4. ASSUME NEW b \in matches'[p] PROVE outcome'[p][b] = "match"
    <2>1. ASSUME NEW a \in Authorities, CheckAuthority(p, a) PROVE outcome'[p][b] = "match"
      <3>1. b \in matches[p] /\ outcome[p][b] = "match" /\ outcome[p][a] = "running"
        BY <1>4, <2>1 DEF CheckAuthority, PolicyInv
      <3> QED BY <2>1, <3>1 DEF CheckAuthority
    <2>2. ASSUME NEW a \in Authorities, ReadAuthority(p, a) PROVE outcome'[p][b] = "match"
      BY <1>4, <2>2 DEF ReadAuthority, PolicyInv
    <2>3. CASE AuthorityCancelled(p) \/ ReturnPolicy(p)
      BY <1>4, <2>3 DEF AuthorityCancelled, ReturnPolicy, PolicyInv
    <2> QED BY <2>1, <2>2, <2>3 DEF PolicyStep
  <1>5. errs'[p] \subseteq {"plain", Level(p)}
    BY DEF PolicyInv, PolicyStep, AuthorityCancelled, ReturnPolicy, ReadAuthority, CheckAuthority
  <1>6. result'[p] = "satisfied" => matches'[p] # {}
    BY <1>1 DEF PolicyStep, AuthorityCancelled, ReturnPolicy, ReadAuthority, CheckAuthority
  <1> QED BY <1>1, <1>2, <1>3, <1>4, <1>5, <1>6 DEF PolicyInv

LEMMA PolicyInvStep ==
  ASSUME TypeOK, PolicyInv, [Next]_vars PROVE PolicyInv'
  <1>1. CASE Start \/ Cancel \/ PolicyCancelled \/ ReturnPolicies \/ Return
    BY <1>1, PolicyFrame DEF Start, Cancel, PolicyCancelled, ReturnPolicies, Return
  <1>2. ASSUME NEW p \in Policies, ReadPolicy(p) PROVE PolicyInv'
    BY <1>2, PolicyFrame DEF ReadPolicy
  <1>3. ASSUME NEW k \in Keys, FoldPolicy(k) PROVE PolicyInv'
    BY <1>3, PolicyFrame DEF FoldPolicy
  <1>4. CASE UNCHANGED vars
    BY <1>4, PolicyFrame DEF vars
  <1> QED BY <1>1, <1>2, <1>3, <1>4, PolicyActions DEF Next, ImageStep

-----------------------------------------------------------------------------
(* validatePolicies.                                                        *)

LEMMA GatherInit == Init => GatherInv
  BY PoliciesAssumption DEF Init, GatherInv, Heard, Keys, Gathered

\* A step within a policy's check moves it from running to unread at most.
LEMMA GatherActions ==
  ASSUME TypeOK, PolicyInv, GatherInv, NEW p \in Policies,
         PolicyStep(p) \/ \E a \in Authorities : CheckAuthority(p, a)
  PROVE  GatherInv'
  <1> USE DEF TypeOK
  <1>1. /\ matching' = matching /\ pc' = "gather" /\ pc = "gather" /\ ret' = ret /\ leftP' = leftP
        /\ p \in matching /\ result[p] = "running"
    BY DEF PolicyStep, AuthorityCancelled, ReturnPolicy, ReadAuthority, CheckAuthority, Checking,
           inputs, gatherVars
  <1>2. ASSUME NEW q \in Policies, q # p
        PROVE  errs'[q] = errs[q] /\ result'[q] = result[q] /\ (q \in unreadP' <=> q \in unreadP)
    BY <1>2 DEF PolicyStep, AuthorityCancelled, ReturnPolicy, ReadAuthority, CheckAuthority, gatherVars
  <1>3. ~Heard(p) /\ ~Heard(p)'
    BY <1>1 DEF Heard, PolicyStep, AuthorityCancelled, ReturnPolicy, ReadAuthority, CheckAuthority
  <1>4. unreadP' \subseteq Policies /\ (p \in unreadP' => result'[p] # "running")
    BY <1>1 DEF PolicyStep, AuthorityCancelled, ReturnPolicy, ReadAuthority, CheckAuthority, gatherVars, GatherInv
  <1>5. \A q \in Policies : Heard(q)' <=> Heard(q)
    BY <1>1, <1>2, <1>3 DEF Heard
  <1>6. Waiting' = Waiting
    BY <1>1, <1>5 DEF Waiting
  <1>7. \A q \in Policies : ret'[q] = IF Heard(q)' THEN Kept(q)' ELSE {}
    BY <1>1, <1>2, <1>3, <1>5 DEF GatherInv, Kept
  <1>8. \A q \in unreadP' : q \in matching' /\ result'[q] # "running"
    BY <1>1, <1>2, <1>4 DEF GatherInv
  <1>9. pc' # "fold" /\ ~Gathered'
    BY <1>1 DEF Gathered
  <1> QED BY <1>1, <1>6, <1>7, <1>8, <1>9 DEF GatherInv

LEMMA GatherInvStep ==
  ASSUME TypeOK, PolicyInv, GatherInv, [Next]_vars PROVE GatherInv'
  <1> USE DEF TypeOK
  <1>1. IsFiniteSet(matching) /\ Waiting \subseteq matching /\ IsFiniteSet(Waiting)
    BY FS_Subset, PoliciesAssumption DEF Waiting
  <1>2. CASE Start
    <2>1. UNCHANGED <<matching, result, errs, unreadP, ret>>
      BY <1>2 DEF Start, inputs, policyVars
    <2>2. \A p \in Policies : result[p] = "running"
      BY <1>2 DEF Start, PolicyInv
    <2>3. Waiting = matching /\ Waiting' = matching'
      BY <2>1, <2>2 DEF Waiting, Heard
    <2>4. \A p \in Policies : (Heard(p)' <=> Heard(p)) /\ Kept(p)' = Kept(p)
      BY <2>1 DEF Heard, Kept
    <2>5. pc' # "fold" /\ ~Gathered'
      BY <1>2, <2>1, <2>2 DEF Start, Gathered
    <2>6. pc' = "gather" => leftP' = Cardinality(Waiting')
      BY <1>2, <2>1, <2>3 DEF Start
    <2> QED BY <2>1, <2>4, <2>5, <2>6 DEF GatherInv
  <1>3. ASSUME NEW p \in Policies, ReadPolicy(p) PROVE GatherInv'
    <2>1. /\ UNCHANGED <<matching, result, errs, pc>> /\ pc = "gather" /\ p \in unreadP
          /\ unreadP' = unreadP \ {p} /\ leftP' = leftP - 1 /\ leftP > 0
      BY <1>3 DEF ReadPolicy, inputs, policyVars
    <2>2. p \in matching /\ result[p] # "running"
      BY <2>1 DEF GatherInv
    <2>3. Heard(p)' /\ ~Heard(p) /\ \A q \in Policies : q # p => (Heard(q)' <=> Heard(q))
      BY <2>1, <2>2 DEF Heard
    <2>4. Waiting' = Waiting \ {p} /\ p \in Waiting
      BY <2>1, <2>2, <2>3 DEF Waiting
    <2>5. Cardinality(Waiting \ {p}) = Cardinality(Waiting) - 1
      BY <1>1, <2>4, FS_RemoveElement
    <2>6. ret' = [ret EXCEPT ![p] = Kept(p)] /\ \A q \in Policies : Kept(q)' = Kept(q)
      BY <1>3, <2>1 DEF ReadPolicy, Kept
    <2>7. ret'[Internal] = ret[Internal] /\ \A q \in Policies : ret'[q] = IF Heard(q)' THEN Kept(q)' ELSE {}
      BY <2>3, <2>6, PoliciesAssumption, ZenonT(60) DEF GatherInv, Keys
    <2>8. pc' = "gather" /\ ret'[Internal] = {} => leftP' = Cardinality(Waiting')
      BY <2>1, <2>4, <2>5, <2>7 DEF GatherInv
    <2>9. pc' # "fold" /\ ~Gathered'
      BY <2>1 DEF Gathered
    <2> QED BY <2>1, <2>7, <2>8, <2>9 DEF GatherInv
  <1>4. CASE PolicyCancelled
    <2>1. UNCHANGED <<matching, result, errs, unreadP, pc>> /\ pc = "gather"
      BY <1>4 DEF PolicyCancelled, inputs, policyVars
    <2>2. ret'[Internal] = {"plain"} /\ \A q \in Policies : ret'[q] = ret[q]
      BY <1>4, PoliciesAssumption DEF PolicyCancelled, Keys
    <2>3. \A q \in Policies : (Heard(q)' <=> Heard(q)) /\ Kept(q)' = Kept(q)
      BY <2>1 DEF Heard, Kept
    <2> QED BY <2>1, <2>2, <2>3 DEF GatherInv
  <1>5. CASE ReturnPolicies
    <2>1. UNCHANGED <<matching, result, errs, unreadP, ret>> /\ pc = "gather" /\ pc' = "fold" /\ leftP = 0
      BY <1>5 DEF ReturnPolicies, inputs, policyVars, gatherVars
    <2>2. Waiting' = Waiting /\ \A q \in Policies : (Heard(q)' <=> Heard(q)) /\ Kept(q)' = Kept(q)
      BY <2>1 DEF Heard, Kept, Waiting
    <2>3. ret[Internal] = {} => Waiting = {}
      BY <1>1, <2>1, FS_EmptySet DEF GatherInv
    <2> QED BY <2>1, <2>2, <2>3 DEF GatherInv
  <1>6. CASE /\ UNCHANGED <<matching, result, errs, gatherVars>>
             /\ pc' = pc \/ (pc = "fold" /\ pc' = "done")
    <2>1. /\ Waiting' = Waiting /\ \A q \in Policies : (Heard(q)' <=> Heard(q)) /\ Kept(q)' = Kept(q)
          /\ UNCHANGED <<matching, result, unreadP, leftP, ret>>
      BY <1>6 DEF Heard, Kept, Waiting, gatherVars
    <2>2. pc' = "fold" \/ Gathered' => pc = "fold" \/ Gathered
      BY <1>6 DEF Gathered
    <2>3. pc' = "gather" => pc = "gather"
      BY <1>6
    <2> QED BY <2>1, <2>2, <2>3 DEF GatherInv
  <1>7. CASE Cancel \/ Return \/ (\E k \in Keys : FoldPolicy(k)) \/ UNCHANGED vars
    BY <1>6, <1>7 DEF Cancel, Return, FoldPolicy, vars, inputs, policyVars
  <1> QED BY <1>2, <1>3, <1>4, <1>5, <1>7, GatherActions DEF Next, ImageStep

-----------------------------------------------------------------------------
(* errorsToFieldErrors.                                                     *)

LEMMA FoldInit == Init => FoldInv
  BY DEF Init, FoldInv, Gathered

\* FieldError.At keeps the errors and gives them all one level.
LEMMA AtKeeps ==
  ASSUME NEW S, S \subseteq [policy : Keys, level : {"warning", "error"}], NEW l \in {"warning", "error"}
  PROVE  /\ {e.policy : e \in At(S, l)} = {e.policy : e \in S}
         /\ \A e \in At(S, l) : e.level = l
  <1>1. \A e \in S : [e EXCEPT !.level = l].policy = e.policy /\ [e EXCEPT !.level = l].level = l
    OBVIOUS
  <1>2. ASSUME NEW x \in {e.policy : e \in At(S, l)} PROVE x \in {e.policy : e \in S}
    <2>1. PICK f \in At(S, l) : x = f.policy
      OBVIOUS
    <2>2. PICK e \in S : f = [e EXCEPT !.level = l]
      BY DEF At
    <2> QED BY <1>1, <2>1, <2>2
  <1>3. ASSUME NEW x \in {e.policy : e \in S} PROVE x \in {e.policy : e \in At(S, l)}
    <2>1. PICK e \in S : x = e.policy
      OBVIOUS
    <2>2. [e EXCEPT !.level = l] \in At(S, l)
      BY DEF At
    <2> QED BY <1>1, <2>1, <2>2
  <1>4. ASSUME NEW f \in At(S, l) PROVE f.level = l
    BY <1>1 DEF At
  <1> QED BY <1>2, <1>3, <1>4

\* One more error names one more policy.
LEMMA OneMore ==
  ASSUME NEW S, NEW k, NEW l
  PROVE  {e.policy : e \in S \cup {[policy |-> k, level |-> l]}} = {e.policy : e \in S} \cup {k}
  <1>1. [policy |-> k, level |-> l].policy = k
    OBVIOUS
  <1> DEFINE r == [policy |-> k, level |-> l]
  <1>2. r.policy = k
    BY <1>1
  <1> HIDE DEF r
  <1>3. {e.policy : e \in S \cup {r}} = {e.policy : e \in S} \cup {k}
    BY <1>2, Zenon
  <1> QED BY <1>3 DEF r

\* One round of the loop.
LEMMA FoldRound ==
  ASSUME TypeOK, FoldInv, NEW k \in Keys, FoldPolicy(k) PROVE FoldInv'
  <1> DEFINE warn == hasWarnings \/ "warning" \in ret[k]
             err == hasErrors \/ "error" \in ret[k]
             W == [policy |-> k, level |-> "warning"]
             E == [policy |-> k, level |-> "error"]
             warned == IF warn THEN At(fes \cup {W}, "warning") ELSE fes
             Pols(S) == {e.policy : e \in S}
             Lvls(S) == {e.level : e \in S}
  <1>1. /\ pc = "fold" /\ pc' = "fold" /\ k \in todo /\ todo' = todo \ {k} /\ ret' = ret
        /\ hasWarnings' = warn /\ hasErrors' = err
        /\ fes' = IF err THEN warned \cup {E} ELSE warned
    BY DEF FoldPolicy, gatherVars
  <1>2. /\ hasErrors <=> \E j \in Visited : "error" \in ret[j]
        /\ hasWarnings <=> \E j \in Visited : "warning" \in ret[j]
        /\ "error" \in Lvls(fes) <=> hasErrors
        /\ "warning" \in Lvls(fes) <=> hasWarnings
        /\ Pols(fes) \subseteq Visited
        /\ NoPlain => Visited \subseteq Pols(fes)
    BY <1>1 DEF FoldInv, Levels
  <1>3. Visited' = Visited \cup {k}
    BY <1>1 DEF Visited, FoldInv
  <1>4. /\ warn => Pols(warned) = Pols(fes) \cup {k} /\ \A e \in warned : e.level = "warning"
        /\ ~warn => warned = fes
    <2>1. fes \cup {W} \subseteq [policy : Keys, level : {"warning", "error"}]
      BY DEF TypeOK
    <2>2. Pols(fes \cup {W}) = Pols(fes) \cup {k}
      BY OneMore
    <2> QED BY <2>1, <2>2, AtKeeps
  <1>5. /\ hasErrors' <=> \E j \in Visited' : "error" \in ret'[j]
        /\ hasWarnings' <=> \E j \in Visited' : "warning" \in ret'[j]
    BY <1>1, <1>2, <1>3
  <1>6. warn => k \in Pols(warned)
    BY <1>4
  <1>7. warn => "warning" \in Lvls(warned)
    <2>1. warn => \E e \in warned : TRUE
      BY <1>6
    <2> QED BY <2>1, <1>4
  <1>8. "error" \in Lvls(fes') <=> err
    <2>1. CASE err
      <3>1. E \in fes' /\ E.level = "error"
        BY <1>1, <2>1
      <3> QED BY <2>1, <3>1
    <2>2. CASE ~err
      <3>1. fes' = warned /\ "error" \notin Lvls(fes)
        BY <1>1, <1>2, <2>2
      <3>2. \A e \in warned : e.level # "error"
        BY <1>4, <3>1
      <3> QED BY <2>2, <3>1, <3>2
    <2> QED BY <2>1, <2>2
  <1>9. "warning" \in Lvls(fes') <=> warn
    <2>1. CASE warn
      BY <1>1, <1>7, <2>1
    <2>2. CASE ~warn
      <3>1. warned = fes /\ "warning" \notin Lvls(fes)
        BY <1>2, <1>4, <2>2
      <3>2. \A e \in fes' : e.level # "warning"
        BY <1>1, <3>1
      <3> QED BY <2>2, <3>2
    <2> QED BY <2>1, <2>2
  <1>10. Pols(warned) \subseteq Pols(fes) \cup {k} /\ Pols(fes) \subseteq Pols(warned)
    BY <1>4
  <1>11. Pols(fes') = IF err THEN Pols(warned) \cup {k} ELSE Pols(warned)
    <2>1. Pols(warned \cup {E}) = Pols(warned) \cup {k}
      BY OneMore
    <2> HIDE DEF warned, err
    <2> QED BY <1>1, <2>1
  <1>12. Pols(fes') \subseteq Visited'
    BY <1>2, <1>3, <1>10, <1>11, ZenonT(60)
  <1>13. NoPlain' => Visited' \subseteq Pols(fes')
    <2>1. NoPlain' => NoPlain /\ (warn \/ err)
      <3>1. NoPlain' => NoPlain /\ "plain" \notin ret[k]
        BY <1>1 DEF NoPlain
      <3>2. ret[k] # {} /\ ret[k] \subseteq {"plain", "warning", "error"}
        BY <1>1 DEF FoldInv, TypeOK, Kinds
      <3> QED BY <3>1, <3>2
    <2>2. warn \/ err => k \in Pols(fes')
      BY <1>6, <1>11
    <2> HIDE DEF warn, err, warned, Pols
    <2> QED BY <1>2, <1>3, <1>10, <1>11, <2>1, <2>2
  <1>14. \A j \in todo' : ret'[j] # {}
    BY <1>1 DEF FoldInv
  <1> HIDE DEF warn, err, warned
  <1> QED BY <1>1, <1>5, <1>8, <1>9, <1>12, <1>13, <1>14 DEF FoldInv, Levels

LEMMA FoldInvStep ==
  ASSUME TypeOK, PolicyInv, FoldInv, [Next]_vars PROVE FoldInv'
  <1>1. CASE Start
    <2>1. /\ UNCHANGED <<matching, result, ret, todo, hasWarnings, hasErrors>> /\ pc = "start"
          /\ pc' \in {"gather", "done"} /\ (pc' = "gather" => fes' = fes)
      BY <1>1 DEF Start, inputs, policyVars
    <2>2. ~Gathered'
      BY <2>1 DEF Gathered, PolicyInv, TypeOK
    <2> QED BY <2>1, <2>2 DEF FoldInv
  <1>2. CASE /\ UNCHANGED foldVars /\ pc' = pc /\ pc \in {"start", "gather"}
    BY <1>2 DEF FoldInv, foldVars, Gathered
  <1>3. ASSUME NEW p \in Policies, PolicyStep(p) \/ \E a \in Authorities : CheckAuthority(p, a)
        PROVE  FoldInv'
    BY <1>2, <1>3 DEF PolicyStep, AuthorityCancelled, ReturnPolicy, ReadAuthority, CheckAuthority, Checking
  <1>4. CASE PolicyCancelled \/ \E p \in Policies : ReadPolicy(p)
    BY <1>2, <1>4 DEF PolicyCancelled, ReadPolicy
  <1>5. CASE ReturnPolicies
    <2>1. /\ pc = "gather" /\ pc' = "fold" /\ todo' = {k \in Keys : ret[k] # {}}
          /\ UNCHANGED <<ret, hasWarnings, hasErrors, fes>>
      BY <1>5 DEF ReturnPolicies, gatherVars
    <2>2. fes' = {} /\ ~hasWarnings' /\ ~hasErrors' /\ Visited' = {}
      BY <2>1 DEF FoldInv, Visited
    <2> QED BY <2>1, <2>2 DEF FoldInv, Levels
  <1>6. CASE /\ UNCHANGED <<matching, result, ret, foldVars>>
             /\ pc' = pc \/ (pc = "fold" /\ pc' = "done" /\ todo = {})
    <2>1. UNCHANGED <<todo, hasWarnings, hasErrors, fes>> /\ Visited' = Visited /\ Levels' = Levels /\ ret' = ret
      BY <1>6 DEF foldVars, Visited, Levels
    <2>2. NoPlain' = NoPlain
      BY <2>1 DEF NoPlain
    <2>3. /\ pc' = "fold" \/ Gathered' => pc = "fold" \/ Gathered
          /\ pc' \in {"start", "gather"} => pc \in {"start", "gather"}
          /\ pc' # "fold" => todo = {}
      BY <1>6 DEF Gathered, FoldInv
    <2> QED BY <2>1, <2>2, <2>3 DEF FoldInv
  <1>7. CASE Cancel \/ Return \/ UNCHANGED vars
    BY <1>6, <1>7 DEF Cancel, Return, vars, inputs, policyVars, gatherVars
  <1> QED BY <1>1, <1>3, <1>4, <1>5, <1>7, FoldRound DEF Next, ImageStep

-----------------------------------------------------------------------------
(* The theorems.                                                            *)

LEMMA Invariance == Spec => []IInv
  <1>1. Init => TypeOK
    <2>1. Cardinality(Authorities) \in Nat
      BY FS_CardinalityType, AuthoritiesAssumption
    <2>2. Init => left \in [Policies -> Nat]
      BY <2>1 DEF Init
    <2>3. Init => outcome \in [Policies -> [Authorities -> Outcomes \cup {"running"}]]
      BY DEF Init
    <2>4. Init => ret \in [Keys -> SUBSET Kinds]
      BY DEF Init
    <2>5. Init => /\ unread \in [Policies -> SUBSET Authorities]
                  /\ matches \in [Policies -> SUBSET Authorities]
                  /\ errs \in [Policies -> SUBSET Kinds]
                  /\ result \in [Policies -> {"running", "satisfied", "failed"}]
      BY DEF Init
    <2>6. Init => /\ matching \subseteq Policies /\ mode \in [Policies -> {"enforce", "warn"}]
                  /\ pc \in {"start", "gather", "fold", "done"}
                  /\ unreadP \subseteq Policies /\ leftP \in Nat /\ todo \subseteq Keys
                  /\ fes \subseteq [policy : Keys, level : {"warning", "error"}]
      BY DEF Init
    <2>7. Init => ctxDone \in BOOLEAN /\ hasWarnings \in BOOLEAN /\ hasErrors \in BOOLEAN
      BY Zenon DEF Init
    <2> QED BY <2>2, <2>3, <2>4, <2>5, <2>6, <2>7, Zenon DEF TypeOK
  <1>2. Init => IInv
    BY <1>1, PolicyInit, GatherInit, FoldInit DEF IInv
  <1>3. IInv /\ [Next]_vars => IInv'
    BY TypeStep, PolicyInvStep, GatherInvStep, FoldInvStep DEF IInv
  <1> QED BY <1>2, <1>3, PTL DEF Spec

\* validateContainerImage and all it starts keep every variable's type.
THEOREM TypeCorrect == Spec => []TypeOK
  BY Invariance, PTL DEF IInv

\* Whatever is cancelled and whenever, the answer names no policy that was
\* satisfied.
THEOREM OnlyFailedAreBlamed == Spec => []OnlyFailedBlamed
  <1>1. IInv => OnlyFailedBlamed
    <2> SUFFICES ASSUME IInv, Gathered, NEW e \in fes, e.policy # Internal
                 PROVE  e.policy \in Failed
      BY DEF OnlyFailedBlamed
    <2>1. e.policy \in Visited
      BY DEF IInv, FoldInv
    <2>2. e.policy \in Policies /\ ret[e.policy] # {}
      BY <2>1 DEF Visited, Keys
    <2>3. Heard(e.policy) /\ Kept(e.policy) # {}
      BY <2>2 DEF IInv, GatherInv
    <2> QED BY <2>2, <2>3 DEF Heard, Kept, Failed, IInv, TypeOK
  <1> QED BY <1>1, Invariance, PTL

\* When nothing but policies failed, the answer is right whatever the order in
\* which goroutines, channels and the map are served.
THEOREM VerdictIsRight == Spec => []Verdict
  <1>1. IInv => Verdict
    <2> SUFFICES ASSUME IInv, Gathered, NoPlain
                 PROVE  /\ {e.policy : e \in fes} = Failed
                        /\ "error" \in Levels <=> \E p \in Failed : mode[p] = "enforce"
                        /\ "warning" \in Levels <=> \E p \in Failed : mode[p] = "warn"
                        /\ \A p \in matching \ Failed : \E a \in Authorities : outcome[p][a] = "match"
      BY DEF Verdict
    <2>1. ret[Internal] = {} /\ Waiting = {}
      BY DEF IInv, GatherInv, NoPlain, Keys
    <2>2. ASSUME NEW p \in Failed PROVE p \in Policies /\ ret[p] = {Level(p)}
      <3>1. p \in Policies /\ p \in matching /\ result[p] = "failed"
        BY DEF Failed, IInv, TypeOK
      <3>2. Heard(p) /\ ret[p] = Kept(p)
        BY <2>1, <3>1 DEF Waiting, IInv, GatherInv
      <3>3. "plain" \notin ret[p] /\ errs[p] \subseteq {"plain", Level(p)}
        BY <3>1 DEF NoPlain, Keys, IInv, PolicyInv
      <3> QED BY <3>1, <3>2, <3>3 DEF Kept
    <2>3. ASSUME NEW p \in Policies, p \notin Failed PROVE ret[p] = {}
      <3>1. Heard(p) => Kept(p) = {}
        BY <2>3 DEF Heard, Kept, Failed, IInv, TypeOK
      <3> QED BY <3>1 DEF IInv, GatherInv
    <2>4. Visited = Failed
      <3>1. todo = {}
        BY DEF Gathered, IInv, FoldInv
      <3> QED BY <2>1, <2>2, <2>3, <3>1 DEF Visited, Keys
    <2>5. \A p \in Failed : /\ "error" \in ret[p] <=> mode[p] = "enforce"
                            /\ "warning" \in ret[p] <=> mode[p] = "warn"
      BY <2>2 DEF Level, IInv, TypeOK
    <2>6. {e.policy : e \in fes} = Failed
      BY <2>4 DEF IInv, FoldInv
    <2>7. "error" \in Levels <=> \E p \in Failed : mode[p] = "enforce"
      BY <2>4, <2>5 DEF IInv, FoldInv
    <2>8. "warning" \in Levels <=> \E p \in Failed : mode[p] = "warn"
      BY <2>4, <2>5 DEF IInv, FoldInv
    <2>9. ASSUME NEW p \in matching \ Failed PROVE \E a \in Authorities : outcome[p][a] = "match"
      <3>1. p \in Policies /\ result[p] = "satisfied"
        BY DEF Failed, Gathered, IInv, TypeOK
      <3>2. matches[p] # {} /\ matches[p] \subseteq Authorities
        BY <3>1 DEF IInv, PolicyInv, TypeOK
      <3> QED BY <3>1, <3>2 DEF IInv, PolicyInv
    <2> QED BY <2>6, <2>7, <2>8, <2>9
  <1> QED BY <1>1, Invariance, PTL
=============================================================================
