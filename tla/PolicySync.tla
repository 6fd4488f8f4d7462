----------------------------- MODULE PolicySync -----------------------------
(***************************************************************************)
(* The ClusterImagePolicy (CIP) reconciler: how the CIP objects of the API *)
(* server are compiled into the ConfigMap config-image-policies that the   *)
(* admission webhook reads.                                                *)
(*                                                                         *)
(* Sources: pkg/reconciler/clusterimagepolicy and the generated reconciler *)
(* that calls it, pkg/client/injection/reconciler/policy/v1alpha1/         *)
(* clusterimagepolicy/reconciler.go.                                       *)
(*                                                                         *)
(* The controller never reads the server: it reads listers, copies that an *)
(* informer brings up to date later.  An object is therefore a log of its  *)
(* versions: the lister holds the first, the server the last, and the      *)
(* informer delivers the ones between in order.                            *)
(***************************************************************************)
EXTENDS ConfigMapPatch, Naturals, Sequences, FiniteSets

CONSTANTS Names,    \* the names of CIPs; the other Keys (_example) belong to nobody
          Vals,     \* what the keys and policies a CIP refers to can inline to
          Bads,     \* how inlining can fail: "badKeys", "badPolicies", or
                    \* "badAttestation": the remote policy of an attestation
                    \* fails and the CIP has no remote policy of its own
          Threads,  \* workers of the controller
          MaxLag,   \* bound: versions of an object an informer has not gone past
          MaxEnv,   \* bound: steps the environment takes
          EnvOps    \* the kinds of step the environment takes

ASSUME NamesAssumption == Names \subseteq Keys
ASSUME ValsAssumption == /\ Vals # {}
                         /\ Vals \cap {"badKeys", "badPolicies", "badAttestation"} = {}
                         /\ Bads \subseteq {"badKeys", "badPolicies", "badAttestation"}
ASSUME BoundsAssumption == Threads \in Nat /\ MaxLag \in Nat /\ MaxEnv \in Nat

VARIABLES cips,   \* the log of each CIP
          cmLog,  \* the log of the ConfigMap
          src,    \* what inlining the references of each CIP yields
          queue,  \* the workqueue
          pc,     \* where the worker of each key is; a key has at most one
          work,   \* that worker's locals
          env     \* environment steps taken

vars == <<cips, cmLog, src, queue, pc, work, env>>

Latest(log) == log[Len(log)]
Cip(name) == Latest(cips[name])   \* the server's CIP
Cm == Latest(cmLog)               \* the server's ConfigMap

Conditions == {"KeysInlined", "PoliciesInlined", "ConfigMapUpdated"}
Unknown == [c \in Conditions |-> "Unknown"]

\* A version of a CIP.  A deleted one is a version too: resourceVersions never
\* repeat, even when a name is used again.
Gone(rv) == [exists |-> FALSE, rv |-> rv, gen |-> 0, fin |-> FALSE, del |-> FALSE,
             conds |-> Unknown, obs |-> 0]

NoWork == [obj |-> Gone(0), req |-> NoPatch, err |-> FALSE, conds |-> Unknown]

\* The entry of a CIP: webhookcip.ClusterImagePolicy carries the
\* resourceVersion, which stands for the spec, and the inlined data.
Entry(obj, val) == [rv |-> obj.rv, val |-> val]
ExampleEntry == [rv |-> 0, val |-> None]

NewCIP == [Gone(1) EXCEPT !.exists = TRUE, !.gen = 1]

\* The controller starts in a fresh install: some CIPs were created before, and
\* the ConfigMap is missing, empty, or the shipped one with _example.
Init ==
  /\ queue \in SUBSET Names
  /\ cips = [n \in Names |-> <<IF n \in queue THEN NewCIP ELSE Gone(0)>>]
  /\ cmLog \in {<<NoConfigMap>>, <<ConfigMapOf(EmptyData)>>,
                <<ConfigMapOf([k \in Keys |-> IF k \in Names THEN None ELSE ExampleEntry])>>}
  /\ src \in [Names -> Vals \cup Bads]
  /\ pc = [n \in Names |-> "idle"]
  /\ work = [n \in Names |-> NoWork]
  /\ env = 0

-----------------------------------------------------------------------------
(* The environment: users, referenced objects, faults.                      *)

EnvStep(op) == op \in EnvOps /\ env < MaxEnv /\ env' = env + 1

\* The server stores a new version of a CIP; it sets the resourceVersion.
Store(name, obj) ==
  /\ Len(cips[name]) < MaxLag
  /\ cips' = [cips EXCEPT ![name] = Append(@, [obj EXCEPT !.rv = Cip(name).rv + 1])]

StoreConfigMap(cm) ==
  /\ Len(cmLog) < MaxLag
  /\ cmLog' = Append(cmLog, cm)

CreateCIP(name) ==
  /\ EnvStep("create") /\ ~Cip(name).exists
  /\ Store(name, NewCIP)
  /\ UNCHANGED <<cmLog, src, queue, pc, work>>

EditCIP(name) ==
  /\ EnvStep("edit") /\ Cip(name).exists
  /\ Store(name, [Cip(name) EXCEPT !.gen = @ + 1])
  /\ UNCHANGED <<cmLog, src, queue, pc, work>>

\* Deleting an object that has a finalizer only marks it.
DeleteCIP(name) ==
  /\ EnvStep("delete") /\ Cip(name).exists /\ ~Cip(name).del
  /\ Store(name, IF Cip(name).fin THEN [Cip(name) EXCEPT !.del = TRUE] ELSE Gone(0))
  /\ UNCHANGED <<cmLog, src, queue, pc, work>>

\* A referenced Secret or ConfigMap changes.  The tracker enqueues the CIPs
\* that refer to it; one that is not tracked yet is queued or being reconciled.
ChangeSource(name) ==
  /\ EnvStep("source")
  /\ \E v \in (Vals \cup Bads) \ {src[name]} : src' = [src EXCEPT ![name] = v]
  /\ queue' = IF Head(cips[name]).exists THEN queue \cup {name} ELSE queue
  /\ UNCHANGED <<cips, cmLog, pc, work>>

DeleteConfigMap ==
  /\ EnvStep("deletecm") /\ Cm.exists
  /\ StoreConfigMap(NoConfigMap)
  /\ UNCHANGED <<cips, src, queue, pc, work>>

\* A resync period is over: of the ConfigMap informer (grCb), or of the CIP
\* informer, which hands every CIP it lists to Enqueue again.
GlobalResync ==
  /\ EnvStep("resync")
  /\ queue' = queue \cup {n \in Names : Head(cips[n]).exists}
  /\ UNCHANGED <<cips, cmLog, src, pc, work>>

\* The controller starts again: its informers list and enqueue what they list.
Relist ==
  /\ cips' = [n \in Names |-> <<Cip(n)>>]
  /\ cmLog' = <<Cm>>
  /\ queue' = {n \in Names : Cip(n).exists}
  /\ pc' = [n \in Names |-> "idle"]
  /\ work' = [n \in Names |-> NoWork]
  /\ UNCHANGED src

Restart == EnvStep("restart") /\ Relist

-----------------------------------------------------------------------------
(* Informers (controller.go).                                               *)

\* controller.HandleAll(impl.Enqueue) on CIPs.
DeliverCIP(name) ==
  /\ Len(cips[name]) > 1
  /\ cips' = [cips EXCEPT ![name] = Tail(@)]
  /\ queue' = queue \cup {name}
  /\ UNCHANGED <<cmLog, src, pc, work, env>>

\* Mutant of DeliverConfigMap: no resync.
DeliverConfigMapOnly ==
  /\ Len(cmLog) > 1
  /\ cmLog' = Tail(cmLog)
  /\ UNCHANGED <<cips, src, queue, pc, work, env>>

\* grCb on config-image-policies: a global resync of the CIPs listed.
DeliverConfigMap ==
  /\ Len(cmLog) > 1
  /\ cmLog' = Tail(cmLog)
  /\ queue' = queue \cup {n \in Names : Head(cips[n]).exists}
  /\ UNCHANGED <<cips, src, pc, work, env>>

-----------------------------------------------------------------------------
(* A worker.  Reading a lister and sending the request computed from it are *)
(* separate steps: other workers and informers run between them.            *)

\* A request gets a reply: "ok" is the server's answer, "failed" an error
\* without effect, "lost" an error although the server did apply it.
Replies == {"ok", "failed", "lost"}
Reply(r, accepted) == IF r = "ok" THEN UNCHANGED env ELSE accepted /\ EnvStep("fault")

\* The key is done; an error puts it back into the queue.
Finish(name, err) ==
  /\ pc' = [pc EXCEPT ![name] = "idle"]
  /\ work' = [work EXCEPT ![name] = NoWork]
  /\ queue' = IF err THEN queue \cup {name} ELSE queue

Goto(name, label, locals) ==
  /\ pc' = [pc EXCEPT ![name] = label]
  /\ work' = [work EXCEPT ![name] = locals]

\* Mutant of Reconcile: the finalizer is not set first.
ReconcileNoFinalizer(name) ==
  LET obj == Head(cips[name]) IN
  /\ name \in queue /\ pc[name] = "idle"
  /\ Cardinality({n \in Names : pc[n] # "idle"}) < Threads
  /\ queue' = queue \ {name}
  /\ IF obj.exists
       THEN Goto(name, IF obj.del THEN "finalizeKind" ELSE "reconcileKind", [NoWork EXCEPT !.obj = obj])
       ELSE UNCHANGED <<pc, work>>
  /\ UNCHANGED <<cips, cmLog, src, env>>

\* reconcilerImpl.Reconcile: take a key, read its CIP from the lister and
\* choose the method.
Reconcile(name) ==
  LET obj == Head(cips[name]) IN
  /\ name \in queue /\ pc[name] = "idle"
  /\ Cardinality({n \in Names : pc[n] # "idle"}) < Threads
  /\ queue' = queue \ {name}
  /\ IF obj.exists
       THEN Goto(name, IF obj.del THEN "finalizeKind" ELSE IF obj.fin THEN "reconcileKind"
                       ELSE "setFinalizer", [NoWork EXCEPT !.obj = obj])
       ELSE UNCHANGED <<pc, work>>
  /\ UNCHANGED <<cips, cmLog, src, env>>

\* Mutant of SetFinalizer: an error of the patch is ignored.
SetFinalizerAnyway(name, r) ==
  LET obj == work[name].obj
      accepted == Cip(name).exists /\ Cip(name).rv = obj.rv
  IN
  /\ pc[name] = "setFinalizer" /\ Reply(r, accepted)
  /\ IF accepted /\ r # "failed" THEN Store(name, [obj EXCEPT !.fin = TRUE]) ELSE UNCHANGED cips
  /\ Goto(name, "reconcileKind", work[name])
  /\ UNCHANGED <<cmLog, src, queue>>

\* setFinalizerIfFinalizer: a merge patch that names the resourceVersion read.
SetFinalizer(name, r) ==
  LET obj == work[name].obj
      accepted == Cip(name).exists /\ Cip(name).rv = obj.rv
  IN
  /\ pc[name] = "setFinalizer" /\ Reply(r, accepted)
  /\ IF accepted /\ r # "failed" THEN Store(name, [obj EXCEPT !.fin = TRUE]) ELSE UNCHANGED cips
  /\ IF accepted /\ r = "ok"
       THEN /\ Goto(name, "reconcileKind",
                    [work[name] EXCEPT !.obj = [obj EXCEPT !.fin = TRUE, !.rv = @ + 1]])
            /\ UNCHANGED queue
       ELSE Finish(name, TRUE)
  /\ UNCHANGED <<cmLog, src>>

\* The keys (Secrets, KMS) and the policies (ConfigMaps, URLs) of a CIP inline.
inlinePublicKeys(name) == src[name] # "badKeys"
inlinePolicies(name) == src[name] # "badPolicies"

\* What ReconcileKind asks of the server, from its copy of the CIP and the
\* ConfigMap lister: a CIP that can be inlined is created or patched into the
\* ConfigMap, one that cannot is taken out of it (handleCIPError).
Request(name) ==
  LET seen == Head(cmLog)
      entry == Entry(work[name].obj, src[name])
  IN IF src[name] \in Vals
       THEN IF seen.exists THEN CreatePatch(name, seen.data, entry) ELSE NewConfigMap(name, entry)
       ELSE IF seen.exists THEN CreateRemovePatch(name, seen.data) ELSE NoPatch

\* The conditions ReconcileKind marks before it writes the ConfigMap.
Marked(name, conds) ==
  [conds EXCEPT
     !["KeysInlined"] = IF inlinePublicKeys(name) THEN "True" ELSE "False",
     !["PoliciesInlined"] = IF ~inlinePublicKeys(name) THEN @
                            ELSE IF inlinePolicies(name) THEN "True" ELSE "False",
     !["ConfigMapUpdated"] = IF src[name] \in Vals /\ Request(name).op = "none" THEN "True" ELSE @]

\* ReconcileKind up to its request: inline the references, read the ConfigMap
\* lister.  A CIP that cannot be inlined is an error.
ReconcileKind(name) ==
  /\ pc[name] = "reconcileKind" /\ src[name] # "badAttestation"
  /\ Goto(name, IF Request(name).op = "none" THEN "updateStatus" ELSE "writeConfigMap",
          [work[name] EXCEPT !.req = Request(name), !.err = src[name] \notin Vals,
                             !.conds = Marked(name, work[name].obj.conds)])
  /\ UNCHANGED <<cips, cmLog, src, queue, env>>

\* inlinePolicies logs the failed remote policy of an attestation with the URL of
\* the CIP's own remote policy; without one it dereferences nil and the process
\* ends, with all its workers.
Panic(name) ==
  /\ pc[name] = "reconcileKind" /\ src[name] = "badAttestation"
  /\ Relist
  /\ UNCHANGED env

\* The server handles a ConfigMap request; one that changes nothing makes no version.
Serve(req, applied) ==
  IF applied /\ Apply(Cm, req) # Cm THEN StoreConfigMap(Apply(Cm, req)) ELSE UNCHANGED cmLog

\* The Create or Patch of ReconcileKind.  handleCIPError only logs a failure.
WriteConfigMap(name, r) ==
  LET w == work[name]
      accepted == Accepts(Cm, w.req)
      ok == accepted /\ r = "ok"
  IN
  /\ pc[name] = "writeConfigMap" /\ Reply(r, accepted)
  /\ Serve(w.req, accepted /\ r # "failed")
  /\ Goto(name, "updateStatus",
          IF w.err THEN w
          ELSE [w EXCEPT !.err = ~ok, !.conds["ConfigMapUpdated"] = IF ok THEN "True" ELSE "False"])
  /\ UNCHANGED <<cips, src, queue>>

\* updateStatus: nothing when the status read from the lister already says it;
\* otherwise retried on conflict against the server's object.
UpdateStatus(name, r) ==
  LET w == work[name]
      desired == [Cip(name) EXCEPT !.conds = w.conds, !.obs = w.obj.gen]
      changed == w.conds # w.obj.conds \/ w.obj.gen # w.obj.obs
      accepted == changed /\ Cip(name).exists
  IN
  /\ pc[name] = "updateStatus" /\ Reply(r, accepted)
  /\ IF accepted /\ desired # Cip(name) /\ r # "failed" THEN Store(name, desired) ELSE UNCHANGED cips
  /\ Finish(name, w.err \/ r # "ok" \/ (changed /\ ~accepted))
  /\ UNCHANGED <<cmLog, src>>

\* FinalizeKind up to its request: read the ConfigMap lister.
FinalizeKind(name) ==
  LET seen == Head(cmLog)
      req == IF seen.exists THEN CreateRemovePatch(name, seen.data) ELSE NoPatch
  IN
  /\ pc[name] = "finalizeKind"
  /\ Goto(name, IF req.op = "none" THEN "clearFinalizer" ELSE "removeEntry",
          [work[name] EXCEPT !.req = req])
  /\ UNCHANGED <<cips, cmLog, src, queue, env>>

\* Mutant of RemoveEntry: an error of the patch is ignored.
RemoveEntryAnyway(name, r) ==
  LET w == work[name]
      accepted == Accepts(Cm, w.req)
  IN
  /\ pc[name] = "removeEntry" /\ Reply(r, accepted)
  /\ Serve(w.req, accepted /\ r # "failed")
  /\ Goto(name, "clearFinalizer", w)
  /\ UNCHANGED <<cips, src, queue>>

\* removeCIPEntry of FinalizeKind; with an error the finalizer stays.
RemoveEntry(name, r) ==
  LET w == work[name]
      accepted == Accepts(Cm, w.req)
  IN
  /\ pc[name] = "removeEntry" /\ Reply(r, accepted)
  /\ Serve(w.req, accepted /\ r # "failed")
  /\ IF accepted /\ r = "ok"
       THEN Goto(name, "clearFinalizer", w) /\ UNCHANGED queue
       ELSE Finish(name, TRUE)
  /\ UNCHANGED <<cips, src>>

\* clearFinalizer: a merge patch that names the resourceVersion read; the
\* server then drops the object.
ClearFinalizer(name, r) ==
  LET accepted == Cip(name).exists /\ Cip(name).rv = work[name].obj.rv
  IN
  /\ pc[name] = "clearFinalizer" /\ Reply(r, accepted)
  /\ IF accepted /\ r # "failed" THEN Store(name, Gone(0)) ELSE UNCHANGED cips
  /\ Finish(name, ~(accepted /\ r = "ok"))
  /\ UNCHANGED <<cmLog, src>>

Worker(name) ==
  \/ Reconcile(name)
  \/ ReconcileKind(name)
  \/ FinalizeKind(name)
  \/ \E r \in Replies : \/ SetFinalizer(name, r)
                        \/ WriteConfigMap(name, r)
                        \/ UpdateStatus(name, r)
                        \/ RemoveEntry(name, r)
                        \/ ClearFinalizer(name, r)

Environment ==
  \/ \E n \in Names : CreateCIP(n) \/ EditCIP(n) \/ DeleteCIP(n) \/ ChangeSource(n)
  \/ DeleteConfigMap
  \/ GlobalResync
  \/ Restart

Next ==
  \/ Environment
  \/ \E n \in Names : DeliverCIP(n) \/ Worker(n) \/ Panic(n)
  \/ DeliverConfigMap

Spec == Init /\ [][Next]_vars

\* The informers deliver; a worker that has a key runs, for it blocks on nothing
\* but the requests it sent; and a queued key gets its turn although other keys
\* fail and come back forever: the workqueue is first in, first out.
Fairness ==
  /\ WF_vars(DeliverConfigMap)
  /\ \A n \in Names : /\ WF_vars(DeliverCIP(n))
                       /\ WF_vars(Worker(n) \/ Panic(n))
                       /\ SF_vars(Reconcile(n))

FairSpec == Spec /\ Fairness

-----------------------------------------------------------------------------
(* Properties.                                                              *)

Objects == [exists : BOOLEAN, rv : Nat, gen : Nat, fin : BOOLEAN, del : BOOLEAN,
            conds : [Conditions -> {"Unknown", "True", "False"}], obs : Nat]
Data == [Keys -> [rv : Nat, val : Vals \cup {None}] \cup {None}]
ConfigMaps == [exists : BOOLEAN, data : Data]
Requests == [op : Ops, path : Keys \cup {DataPath}, value : Data]
Locals == [obj : Objects, req : Requests, err : BOOLEAN,
           conds : [Conditions -> {"Unknown", "True", "False"}]]
Labels == {"idle", "setFinalizer", "reconcileKind", "writeConfigMap", "updateStatus",
           "finalizeKind", "removeEntry", "clearFinalizer"}

\* Every variable has its type, and no log is empty: a lister and the server
\* always have a version of each object.
TypeOK ==
  /\ cips \in [Names -> Seq(Objects)] /\ \A n \in Names : cips[n] # <<>>
  /\ cmLog \in Seq(ConfigMaps) /\ cmLog # <<>>
  /\ src \in [Names -> Vals \cup Bads]
  /\ queue \subseteq Names
  /\ pc \in [Names -> Labels]
  /\ work \in [Names -> Locals]
  /\ env \in Nat

\* While ReconcileKind works on a CIP, with however old a copy of it, the
\* server's CIP exists and carries the finalizer: setFinalizerIfFinalizer ran
\* before, and only the worker of the same key takes the finalizer off.
FinalizerHeld ==
  \A n \in Names : pc[n] \in {"reconcileKind", "writeConfigMap", "updateStatus"}
                     => Cip(n).exists /\ Cip(n).fin

\* An entry appears in the ConfigMap only while its CIP exists and carries the
\* finalizer: no late Create or Patch of ReconcileKind brings back the entry of
\* a CIP that was deleted meanwhile.
NoResurrection ==
  [][\A n \in Names : Cm.data[n] = None /\ Cm'.data[n] # None => Cip(n).exists /\ Cip(n).fin]_vars

\* An entry is never replaced by one from an older version of its CIP, although
\* every patch is computed from listers that may be behind, and some patches
\* replace the whole of /data.
EntryNeverRegresses ==
  [][\A n \in Names : Cm.data[n] # None /\ Cm'.data[n] # None
                        => Cm'.data[n].rv >= Cm.data[n].rv]_vars

\* The ConfigMap as its reader is promised it: every step of the controller, of its
\* environment and of the server keeps all entries or drops some, except that a
\* patch of ReconcileKind writes the one of its own CIP, forward and while the CIP
\* is held.
Promise == INSTANCE CompiledPolicies WITH
             entry <- [n \in Names |-> Cm.data[n]],
             held <- [n \in Names |-> Cip(n).exists /\ Cip(n).fin]
KeepsPromise == Promise!Spec

\* IsReady of clusterimagepolicy_lifecycle.go.
IsReady(obj) == obj.obs = obj.gen /\ \A c \in Conditions : obj.conds[c] = "True"

\* The ConfigMap and the status say what the CIP and its references are now: a
\* CIP that is marked deleted is gone; the entry of one that can be inlined is its
\* current one and the CIP is ready; one that cannot has no entry and says why.
\* Nothing more is said of one that makes the controller panic.
InSync(n) ==
  Cip(n).exists =>
    /\ ~Cip(n).del
    /\ src[n] \in Vals => Cm.data[n] = Entry(Cip(n), src[n]) /\ IsReady(Cip(n))
    /\ src[n] \in {"badKeys", "badPolicies"} =>
         /\ Cm.data[n] = None
         /\ Cip(n).obs = Cip(n).gen
         /\ Cip(n).conds[IF src[n] = "badKeys" THEN "KeysInlined" ELSE "PoliciesInlined"] = "False"

\* Once users, faults and restarts pause, every CIP gets in sync and stays so, or
\* goes away when it was deleted, whatever patches were lost, overtaken or
\* overwritten before: failed keys are retried until FinalizeKind and
\* clearFinalizer succeed too, and a change of the ConfigMap resyncs every CIP.
Converges == <>[](\A n \in Names : InSync(n))

\* What FinalizeKind says it does: the entry of a CIP that is gone does not
\* stay in the ConfigMap.
NoOrphanEntry == \A n \in Names : ~Cip(n).exists ~> (Cm.data[n] = None \/ Cip(n).exists)

\* An entry outlives its CIP only if FinalizeKind did not ask for its removal, because
\* the lister had no such entry: once a removal was accepted, no patch that was late
\* or whose answer was lost brings the entry back before the finalizer is cleared.
RemovalHolds ==
  \A n \in Names : pc[n] = "clearFinalizer" /\ work[n].req.op # "none" => Cm.data[n] = None

-----------------------------------------------------------------------------
(* The inductive invariant behind FinalizerHeld, NoResurrection and         *)
(* EntryNeverRegresses.                                                     *)

Active(obj) == obj.exists /\ obj.fin /\ ~obj.del

InReconcileKind(n) == pc[n] \in {"reconcileKind", "writeConfigMap", "updateStatus"}
InFinalizeKind(n) == pc[n] \in {"finalizeKind", "removeEntry", "clearFinalizer"}

\* The versions of a CIP not yet delivered have increasing resourceVersions,
\* and the finalizer of a version that is not being deleted is still there in
\* every later one: taking it off needs a deleted version in the lister.
LogInv(n) ==
  \A i, j \in DOMAIN cips[n] : i < j =>
    /\ cips[n][i].rv < cips[n][j].rv
    /\ Active(cips[n][i]) => cips[n][j].exists /\ cips[n][j].fin

\* What a worker knows of its CIP: the copy it took from the lister is not newer
\* than the lister's and the same when no older; while it reconciles, every
\* version from its own on has the finalizer, and no older one is active.
WorkInv(n) ==
  LET obj == work[n].obj IN
  /\ pc[n] = "setFinalizer" => obj.exists /\ ~obj.del /\ ~obj.fin
  /\ InFinalizeKind(n) => obj.del
  /\ pc[n] = "setFinalizer" \/ InFinalizeKind(n) =>
       obj.rv <= cips[n][1].rv /\ (obj.rv = cips[n][1].rv => obj = cips[n][1])
  /\ InReconcileKind(n) =>
       /\ obj.rv <= Cip(n).rv
       /\ \A i \in DOMAIN cips[n] : IF cips[n][i].rv >= obj.rv
                                      THEN cips[n][i].exists /\ cips[n][i].fin
                                      ELSE ~Active(cips[n][i])

\* A request changes the entry of its own key, and drops the others when it
\* names the whole of /data.
OnlyOwnEntry(req, n) ==
  /\ req.path \in {n, DataPath}
  /\ req.path = DataPath => \A k \in Keys \ {n} : req.value[k] = None

\* A pending request writes no entry but its own, and no version of the CIP but
\* the worker's.
RequestInv(n) ==
  LET req == work[n].req IN
  pc[n] \in {"writeConfigMap", "removeEntry"} =>
    /\ OnlyOwnEntry(req, n)
    /\ req.value[n] # None => pc[n] = "writeConfigMap" /\ req.value[n].rv = work[n].obj.rv

\* The entry of a CIP is no newer than the CIP, nor than what its worker, or the
\* next one, writes.
EntryInv(n) ==
  Cm.data[n] # None =>
    /\ Cm.data[n].rv <= Cip(n).rv
    /\ InReconcileKind(n) => Cm.data[n].rv <= work[n].obj.rv
    /\ \A i \in DOMAIN cips[n] : Active(cips[n][i]) => Cm.data[n].rv <= cips[n][i].rv

\* The listers, the workers' copies, the pending requests and the ConfigMap of
\* every CIP are consistent in the sense of the four definitions above.
Consistent == \A n \in Names : LogInv(n) /\ WorkInv(n) /\ RequestInv(n) /\ EntryInv(n)
=============================================================================
