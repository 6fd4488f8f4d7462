------------------------------ MODULE PodCheck ------------------------------
(***************************************************************************)
(* The admission of one object that holds a pod specification              *)
(* (pkg/webhook/validator.go): the mutating webhook calls Resolve*, which  *)
(* replaces tags by digests, then the validating webhook calls Validate*,  *)
(* which checks init containers, containers, ephemeral containers and      *)
(* image volumes, one group after the other and the images of a group in   *)
(* one goroutine each.                                                     *)
(*                                                                         *)
(* What validateContainerImage answers for an image is the set of levels   *)
(* of its FieldErrors; module ImageCheck models how it comes about.        *)
(***************************************************************************)
EXTENDS Naturals, FiniteSets

CONSTANTS Slots,     \* the places of the pod specification that name an image
          MaxScale   \* a bound on the replicas

ASSUME SlotsAssumption == IsFiniteSet(Slots)

\* initContainers, containers, ephemeralContainers, volumes.
Groups == 1..4
Volumes == 4

VARIABLES request,  \* what is asked: the operation, the object and its replicas
          group,    \* the group of each slot
          image,    \* its image: a digest, a tag, not a reference, or none
          ctxDone,  \* the context of the validating request was cancelled
          pc,       \* "mutate", "validate", "check", "done"
          current,  \* the group that is being checked
          left,     \* results its loop still waits for
          result,   \* the levels of the FieldErrors of each image, or Running
          unread,   \* the results channel
          errs      \* the levels of the errors answered

vars == <<request, group, image, ctxDone, pc, current, left, result, unread, errs>>

Levels == {"warning", "error"}
Running == {"running"}
Images == {"digest", "tag", "bad", "none"}

\* Replicas are a pointer; 0 stands for 0 replicas, MaxScale + 1 for nil.
Requests ==
  [kind : {"PodScalable", "PodSpecable", "Pod", "CronJob"},
   op : {"create", "update", "delete"}, terminating : BOOLEAN, status : BOOLEAN,
   old : 0..MaxScale + 1, new : 0..MaxScale + 1]

\* Only an update can be one of the status, and only the replicas of an updated
\* PodScalable are ever read.  A volume need not be an image volume; every
\* container has an image.
Init ==
  /\ request \in {r \in Requests :
       /\ r.op # "update" => ~r.status
       /\ r.kind # "PodScalable" \/ r.op # "update" => (r.old = 0 /\ r.new = 0)}
  /\ group \in [Slots -> Groups]
  /\ image \in [Slots -> Images]
  /\ \A s \in Slots : image[s] = "none" => group[s] = Volumes
  /\ ctxDone = FALSE /\ pc = "mutate" /\ current = 1 /\ left = 0
  /\ result = [s \in Slots |-> Running]
  /\ unread = {} /\ errs = {}

-----------------------------------------------------------------------------
(* What both webhooks leave alone.                                          *)

isDeletedOrStatusUpdate(r) == r.op = "delete" \/ r.terminating \/ r.status

IsScalingDown(r) ==
  /\ r.op = "update"
  /\ r.new <= MaxScale /\ r.old <= MaxScale
  /\ r.new < r.old

Skips(r) == isDeletedOrStatusUpdate(r) \/ (r.kind = "PodScalable" /\ IsScalingDown(r))

-----------------------------------------------------------------------------
(* The mutating webhook.                                                    *)

\* resolvePodSpec: a tag the registry resolves gets its digest.
resolvePodSpec(resolved) == [s \in Slots |-> IF s \in resolved THEN "digest" ELSE image[s]]

\* Resolve*.  The registry resolves a tag or fails to; without a keychain nothing
\* is resolved.
Resolve ==
  /\ pc = "mutate" /\ pc' = "validate"
  /\ IF Skips(request)
       THEN UNCHANGED image
       ELSE \E resolved \in SUBSET {s \in Slots : image[s] = "tag"} :
              image' = resolvePodSpec(resolved)
  /\ UNCHANGED <<request, group, ctxDone, current, left, result, unread, errs>>

-----------------------------------------------------------------------------
(* The validating webhook.                                                  *)

\* The slots of a group that get a goroutine.
Checked(g) == {s \in Slots : group[s] = g /\ image[s] # "none"}

\* Mutant of Expected: image volumes are not told from other volumes.
ExpectedAll(g) == Cardinality({s \in Slots : group[s] = g})

\* The results the loop of a group waits for.
Expected(g) == Cardinality(Checked(g))

Validate ==
  /\ pc = "validate"
  /\ \/ Skips(request) /\ pc' = "done" /\ UNCHANGED <<left, errs>>
     \/ ~Skips(request) /\ pc' = "done" /\ errs' = {"error"} /\ UNCHANGED left
     \/ ~Skips(request) /\ pc' = "check" /\ left' = Expected(1) /\ UNCHANGED errs
  /\ UNCHANGED <<request, group, image, ctxDone, current, result, unread>>

\* The API server gives up on the request.
Cancel ==
  /\ ~ctxDone /\ pc = "check" /\ ctxDone' = TRUE
  /\ UNCHANGED <<request, group, image, pc, current, left, result, unread, errs>>

\* The goroutine of an image: refOrFieldError, then validateContainerImage.
CheckImage(s) ==
  /\ pc = "check" /\ s \in Checked(current) /\ result[s] = Running
  /\ \E ls \in IF image[s] = "digest" THEN SUBSET Levels ELSE {{"error"}} :
       result' = [result EXCEPT ![s] = ls]
  /\ unread' = unread \cup {s}
  /\ UNCHANGED <<request, group, image, ctxDone, pc, current, left, errs>>

\* Mutant of ReadImage: warnings are forgotten.
ReadImageErrors(s) ==
  /\ pc = "check" /\ left > 0 /\ s \in unread
  /\ left' = left - 1 /\ unread' = unread \ {s} /\ errs' = errs \cup (result[s] \cap {"error"})
  /\ UNCHANGED <<request, group, image, ctxDone, pc, current, result>>

ReadImage(s) ==
  /\ pc = "check" /\ left > 0 /\ s \in unread
  /\ left' = left - 1 /\ unread' = unread \ {s} /\ errs' = errs \cup result[s]
  /\ UNCHANGED <<request, group, image, ctxDone, pc, current, result>>

\* Mutant of Cancelled: the loop is cut short in silence.
CancelledSilently ==
  /\ pc = "check" /\ left > 0 /\ ctxDone /\ left' = left - 1
  /\ UNCHANGED <<request, group, image, ctxDone, pc, current, result, unread, errs>>

Cancelled ==
  /\ pc = "check" /\ left > 0 /\ ctxDone
  /\ left' = left - 1 /\ errs' = errs \cup {"error"}
  /\ UNCHANGED <<request, group, image, ctxDone, pc, current, result, unread>>

\* wg.Wait, then the next group with a channel of its own, or the answer.
NextGroup ==
  /\ pc = "check" /\ left = 0 /\ \A s \in Checked(current) : result[s] # Running
  /\ unread' = {}
  /\ IF current = Volumes
       THEN pc' = "done" /\ UNCHANGED <<current, left>>
       ELSE current' = current + 1 /\ left' = Expected(current + 1) /\ UNCHANGED pc
  /\ UNCHANGED <<request, group, image, ctxDone, result, errs>>

-----------------------------------------------------------------------------
Handler == Resolve \/ Validate \/ Cancelled \/ NextGroup \/ \E s \in Slots : ReadImage(s)

Next == Cancel \/ Handler \/ \E s \in Slots : CheckImage(s)

Spec == Init /\ [][Next]_vars

\* The handler runs, and every image is answered for (ImageCheck!Answered).
FairSpec == Spec /\ WF_vars(Handler) /\ \A s \in Slots : WF_vars(CheckImage(s))

-----------------------------------------------------------------------------
(* Properties.                                                              *)

\* Every variable has its type, and no more results are sent than the channel
\* of the group has room for.
TypeOK ==
  /\ request \in Requests /\ group \in [Slots -> Groups] /\ image \in [Slots -> Images]
  /\ ctxDone \in BOOLEAN /\ pc \in {"mutate", "validate", "check", "done"}
  /\ current \in Groups /\ left \in 0..Cardinality(Slots)
  /\ result \in [Slots -> (SUBSET Levels) \cup {Running}]
  /\ unread \subseteq Checked(current) /\ errs \subseteq Levels

\* The slots of the object that name an image.
Named == {s \in Slots : image[s] # "none"}

\* An object that is admitted and was not left alone has every image, whatever
\* the group, pinned to a digest whose check ended without an error: no image is
\* missed because of another's result, a failed resolution or a cancelled
\* request.
AdmittedIsChecked ==
  pc = "done" /\ "error" \notin errs /\ ~Skips(request) =>
    \A s \in Named : image[s] = "digest" /\ result[s] \in (SUBSET Levels) \ {{"error"}, Levels}

\* A request that was not cancelled is answered with all the errors and warnings
\* of its images and no others (or with the error of the keychain alone).
AnswerIsComplete ==
  pc = "done" /\ ~ctxDone /\ ~Skips(request) =>
    \/ errs = UNION {result[s] : s \in Named}
    \/ errs = {"error"} /\ \A s \in Slots : result[s] = Running

\* The request is answered: no loop waits for a goroutine that was not started.
Answered == <>(pc = "done")
=============================================================================
