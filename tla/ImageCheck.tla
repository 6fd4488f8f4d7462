----------------------------- MODULE ImageCheck -----------------------------
(***************************************************************************)
(* The admission of one image (pkg/webhook/validator.go):                  *)
(* validateContainerImage looks up the policies that match the image,      *)
(* validatePolicies checks them in one goroutine each, ValidatePolicy      *)
(* checks the authorities of a policy in one goroutine each, and           *)
(* errorsToFieldErrors turns what failed into the answer.                  *)
(*                                                                         *)
(* A goroutine sends its result to a buffered channel.  The gatherer takes *)
(* as many results as it started goroutines, but takes a cancelled context *)
(* instead of a result whenever it can; then it waits for the goroutines.  *)
(*                                                                         *)
(* An error is abstracted to its kind: "plain" for a Go error, "error" and *)
(* "warning" for an apis.FieldError of that level.                         *)
(***************************************************************************)
EXTENDS Naturals, FiniteSets

CONSTANTS Policies,     \* the policies of the ConfigMap
          Authorities,  \* the authorities of each
          Internal      \* the key "internalerror" of the errors

ASSUME AuthoritiesAssumption == IsFiniteSet(Authorities) /\ Authorities # {}
ASSUME PoliciesAssumption == IsFiniteSet(Policies) /\ Internal \notin Policies

VARIABLES matching,  \* the policies whose patterns and resources match the image
          mode,      \* their mode, "enforce" or "warn"
          ctxDone,   \* the request's context was cancelled
          outcome,   \* what each authority's goroutine found, or "running"
          unread,    \* the results channel of each policy
          left,      \* results ValidatePolicy of each policy still waits for
          matches,   \* the authorities it found to match
          errs,      \* the errors it gathered
          result,    \* what it returned, or "running"
          pc,        \* validateContainerImage: "start", "gather", "fold", "done"
          unreadP,   \* the results channel of validatePolicies
          leftP,     \* results it still waits for
          ret,       \* the errors it returns, by policy
          todo,      \* errorsToFieldErrors: keys of ret still to visit,
          hasWarnings, hasErrors,
          fes        \* and the FieldErrors it made

inputs == <<matching, mode>>
policyVars == <<outcome, unread, left, matches, errs, result>>
gatherVars == <<unreadP, leftP, ret>>
foldVars == <<todo, hasWarnings, hasErrors, fes>>
vars == <<inputs, ctxDone, policyVars, pc, gatherVars, foldVars>>

Outcomes == {"match", "err", "empty"}
Kinds == {"plain", "warning", "error"}
Keys == Policies \cup {Internal}

Init ==
  /\ matching \in SUBSET Policies
  /\ mode \in [Policies -> {"enforce", "warn"}]
  /\ ctxDone = FALSE
  /\ outcome = [p \in Policies |-> [a \in Authorities |-> "running"]]
  /\ unread = [p \in Policies |-> {}]
  /\ left = [p \in Policies |-> Cardinality(Authorities)]
  /\ matches = [p \in Policies |-> {}]
  /\ errs = [p \in Policies |-> {}]
  /\ result = [p \in Policies |-> "running"]
  /\ pc = "start"
  /\ unreadP = {} /\ leftP = 0
  /\ ret = [k \in Keys |-> {}]
  /\ todo = {} /\ hasWarnings = FALSE /\ hasErrors = FALSE /\ fes = {}

-----------------------------------------------------------------------------
(* validateContainerImage.                                                  *)

\* setNoMatchingPoliciesError: what the configuration says of images that no
\* policy matches.
NoMatchErrors(noMatch) ==
  IF noMatch = "allow" THEN {}
  ELSE {[policy |-> Internal, level |-> IF noMatch = "warn" THEN "warning" ELSE "error"]}

\* GetMatchingPolicies fails or yields the policies to check.
Start ==
  /\ pc = "start"
  /\ \/ pc' = "done" /\ fes' = {[policy |-> Internal, level |-> "error"]} /\ UNCHANGED leftP
     \/ /\ matching = {} /\ pc' = "done" /\ UNCHANGED leftP
        /\ \E noMatch \in {"allow", "warn", "deny"} : fes' = NoMatchErrors(noMatch)
     \/ matching # {} /\ pc' = "gather" /\ leftP' = Cardinality(matching) /\ UNCHANGED fes
  /\ UNCHANGED <<inputs, ctxDone, policyVars, unreadP, ret, todo, hasWarnings, hasErrors>>

\* The client of the API server gives up, or its timeout is over.
Cancel ==
  /\ ~ctxDone /\ pc # "done" /\ ctxDone' = TRUE
  /\ UNCHANGED <<inputs, policyVars, pc, gatherVars, foldVars>>

-----------------------------------------------------------------------------
(* ValidatePolicy.                                                          *)

Checking(p) == pc = "gather" /\ p \in matching /\ result[p] = "running"

\* The goroutine of an authority: it matches (signatures, attestations, static
\* pass), fails, or finds neither; the channel has room for every result.
CheckAuthority(p, a) ==
  /\ Checking(p) /\ outcome[p][a] = "running"
  /\ \E o \in Outcomes : outcome' = [outcome EXCEPT ![p][a] = o]
  /\ unread' = [unread EXCEPT ![p] = @ \cup {a}]
  /\ UNCHANGED <<inputs, ctxDone, left, matches, errs, result, pc, gatherVars, foldVars>>

\* asFieldError.
Level(p) == IF mode[p] = "warn" THEN "warning" ELSE "error"

\* The loop over the results: a result, or the cancelled context.
ReadAuthority(p, a) ==
  /\ Checking(p) /\ left[p] > 0 /\ a \in unread[p]
  /\ left' = [left EXCEPT ![p] = @ - 1]
  /\ unread' = [unread EXCEPT ![p] = @ \ {a}]
  /\ IF outcome[p][a] = "match"
       THEN matches' = [matches EXCEPT ![p] = @ \cup {a}] /\ UNCHANGED errs
       ELSE /\ errs' = [errs EXCEPT ![p] = @ \cup {IF outcome[p][a] = "err" THEN Level(p) ELSE "plain"}]
            /\ UNCHANGED matches
  /\ UNCHANGED <<inputs, ctxDone, outcome, result, pc, gatherVars, foldVars>>

AuthorityCancelled(p) ==
  /\ Checking(p) /\ left[p] > 0 /\ ctxDone
  /\ left' = [left EXCEPT ![p] = @ - 1]
  /\ errs' = [errs EXCEPT ![p] = @ \cup {"plain"}]
  /\ UNCHANGED <<inputs, ctxDone, outcome, unread, matches, result, pc, gatherVars, foldVars>>

\* Mutant of ReturnPolicy: a policy without a match sends no result.
ReturnPolicySilent(p) ==
  /\ Checking(p) /\ left[p] = 0 /\ \A a \in Authorities : outcome[p][a] # "running"
  /\ result' = [result EXCEPT ![p] = IF matches[p] = {} THEN "failed" ELSE "satisfied"]
  /\ unreadP' = IF matches[p] = {} THEN unreadP ELSE unreadP \cup {p}
  /\ UNCHANGED <<inputs, ctxDone, outcome, unread, left, matches, errs, pc, leftP, ret, foldVars>>

\* wg.Wait, then the policy of the CIP itself: absent or passed, failed (or the
\* config file could not be fetched), or not marshalled.  The goroutine of
\* validatePolicies sends the result.
ReturnPolicy(p) ==
  /\ Checking(p) /\ left[p] = 0 /\ \A a \in Authorities : outcome[p][a] # "running"
  /\ \/ matches[p] = {} /\ result' = [result EXCEPT ![p] = "failed"] /\ UNCHANGED errs
     \/ matches[p] # {} /\ result' = [result EXCEPT ![p] = "satisfied"] /\ UNCHANGED errs
     \/ /\ matches[p] # {} /\ result' = [result EXCEPT ![p] = "failed"]
        /\ \E k \in {Level(p), "plain"} : errs' = [errs EXCEPT ![p] = @ \cup {k}]
  /\ unreadP' = unreadP \cup {p}
  /\ UNCHANGED <<inputs, ctxDone, outcome, unread, left, matches, pc, leftP, ret, foldVars>>

-----------------------------------------------------------------------------
(* validatePolicies.                                                        *)

\* Mutant of ReadPolicy: the errors of a policy come before its result.
ReadPolicyErrors(p) ==
  /\ pc = "gather" /\ leftP > 0 /\ p \in unreadP
  /\ leftP' = leftP - 1 /\ unreadP' = unreadP \ {p}
  /\ ret' = [ret EXCEPT ![p] = errs[p]]
  /\ UNCHANGED <<inputs, ctxDone, policyVars, pc, foldVars>>

ReadPolicy(p) ==
  /\ pc = "gather" /\ leftP > 0 /\ p \in unreadP
  /\ leftP' = leftP - 1 /\ unreadP' = unreadP \ {p}
  /\ ret' = [ret EXCEPT ![p] = IF result[p] = "satisfied" THEN {}
                               ELSE IF errs[p] = {} THEN {"plain"} ELSE errs[p]]
  /\ UNCHANGED <<inputs, ctxDone, policyVars, pc, foldVars>>

PolicyCancelled ==
  /\ pc = "gather" /\ leftP > 0 /\ ctxDone
  /\ leftP' = leftP - 1
  /\ ret' = [ret EXCEPT ![Internal] = {"plain"}]
  /\ UNCHANGED <<inputs, ctxDone, policyVars, pc, unreadP, foldVars>>

\* wg.Wait and return.
ReturnPolicies ==
  /\ pc = "gather" /\ leftP = 0 /\ \A p \in matching : result[p] # "running"
  /\ pc' = "fold" /\ todo' = {k \in Keys : ret[k] # {}}
  /\ UNCHANGED <<inputs, ctxDone, policyVars, gatherVars, hasWarnings, hasErrors, fes>>

-----------------------------------------------------------------------------
(* errorsToFieldErrors: Go visits a map in any order.                       *)

\* FieldError.At (knative) sets the level of the errors gathered so far too.
At(set, level) == {[e EXCEPT !.level = level] : e \in set}

\* Mutant of FoldPolicy: the flags are those of the policy visited.
FoldPolicyReset(k) ==
  LET warned == IF "warning" \in ret[k]
                  THEN At(fes \cup {[policy |-> k, level |-> "warning"]}, "warning") ELSE fes
  IN
  /\ pc = "fold" /\ k \in todo
  /\ todo' = todo \ {k}
  /\ fes' = IF "error" \in ret[k] THEN warned \cup {[policy |-> k, level |-> "error"]} ELSE warned
  /\ UNCHANGED <<inputs, ctxDone, policyVars, pc, gatherVars, hasWarnings, hasErrors>>

FoldPolicy(k) ==
  LET warn == hasWarnings \/ "warning" \in ret[k]
      err == hasErrors \/ "error" \in ret[k]
      warned == IF warn THEN At(fes \cup {[policy |-> k, level |-> "warning"]}, "warning") ELSE fes
  IN
  /\ pc = "fold" /\ k \in todo
  /\ todo' = todo \ {k}
  /\ hasWarnings' = warn /\ hasErrors' = err
  /\ fes' = IF err THEN warned \cup {[policy |-> k, level |-> "error"]} ELSE warned
  /\ UNCHANGED <<inputs, ctxDone, policyVars, pc, gatherVars>>

Return ==
  /\ pc = "fold" /\ todo = {} /\ pc' = "done"
  /\ UNCHANGED <<inputs, ctxDone, policyVars, gatherVars, foldVars>>

-----------------------------------------------------------------------------
PolicyStep(p) ==
  \/ AuthorityCancelled(p)
  \/ ReturnPolicy(p)
  \/ \E a \in Authorities : ReadAuthority(p, a)

ImageStep ==
  \/ Start \/ PolicyCancelled \/ ReturnPolicies \/ Return
  \/ \E p \in Policies : ReadPolicy(p)
  \/ \E k \in Keys : FoldPolicy(k)

Next ==
  \/ Cancel
  \/ ImageStep
  \/ \E p \in Policies : PolicyStep(p) \/ \E a \in Authorities : CheckAuthority(p, a)

Spec == Init /\ [][Next]_vars

\* Every goroutine runs: the requests an authority makes end, with an error at
\* the latest when the context does, and nothing else blocks.
FairSpec ==
  /\ Spec
  /\ WF_vars(ImageStep)
  /\ \A p \in Policies : /\ WF_vars(PolicyStep(p))
                          /\ \A a \in Authorities : WF_vars(CheckAuthority(p, a))

-----------------------------------------------------------------------------
(* Properties.                                                              *)

\* Every variable has its type.
TypeOK ==
  /\ matching \subseteq Policies /\ mode \in [Policies -> {"enforce", "warn"}]
  /\ ctxDone \in BOOLEAN
  /\ outcome \in [Policies -> [Authorities -> Outcomes \cup {"running"}]]
  /\ unread \in [Policies -> SUBSET Authorities] /\ left \in [Policies -> Nat]
  /\ matches \in [Policies -> SUBSET Authorities] /\ errs \in [Policies -> SUBSET Kinds]
  /\ result \in [Policies -> {"running", "satisfied", "failed"}]
  /\ pc \in {"start", "gather", "fold", "done"}
  /\ unreadP \subseteq Policies /\ leftP \in Nat /\ ret \in [Keys -> SUBSET Kinds]
  /\ todo \subseteq Keys /\ hasWarnings \in BOOLEAN /\ hasErrors \in BOOLEAN
  /\ fes \subseteq [policy : Keys, level : {"warning", "error"}]

Levels == {e.level : e \in fes}

Failed == {p \in matching : result[p] = "failed"}

\* validatePolicies ran and every goroutine of it returned.
Gathered == pc = "done" /\ matching # {} /\ \A p \in matching : result[p] # "running"

NoPlain == \A k \in Keys : "plain" \notin ret[k]

\* When nothing but policies failed (no cancelled context, no internal error),
\* the answer is right whatever the order of the results and of the map: the
\* policies it names are exactly those that failed, it has an error exactly when
\* a policy in enforce mode failed and a warning exactly when one in warn mode
\* did, and every policy it does not name has an authority that matched.
Verdict ==
  Gathered /\ NoPlain =>
    /\ {e.policy : e \in fes} = Failed
    /\ "error" \in Levels <=> \E p \in Failed : mode[p] = "enforce"
    /\ "warning" \in Levels <=> \E p \in Failed : mode[p] = "warn"
    /\ \A p \in matching \ Failed : \E a \in Authorities : outcome[p][a] = "match"

\* Whatever is cancelled and whenever, the answer blames only policies that did
\* not return a result, or whose result was lost to the cancelled context.
OnlyFailedBlamed ==
  Gathered => \A e \in fes : e.policy \in Failed \cup {Internal}

\* The image is answered for: no goroutine waits for a result that was never
\* sent, or to send one.
Answered == <>(pc = "done")

\* The comment in validatePolicies: "If multiple policies match a particular
\* image, then ALL of those policies must be satisfied for the image to be
\* admitted".
AllSatisfied ==
  Gathered /\ "error" \notin Levels =>
    \A p \in matching : mode[p] = "enforce" => result[p] = "satisfied"
=============================================================================
