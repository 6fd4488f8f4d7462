--------------------------- MODULE TrustRootSync ---------------------------
(***************************************************************************)
(* The TrustRoot reconciler: how the keys a TrustRoot names get into the   *)
(* ConfigMap config-sigstore-keys, and what its status says of it.         *)
(*                                                                         *)
(* Sources: pkg/reconciler/trustroot, trustroot_lifecycle.go, and the      *)
(* generated reconciler that calls it, pkg/client/injection/reconciler/    *)
(* policy/v1alpha1/trustroot/reconciler.go.                                *)
(*                                                                         *)
(* As in PolicySync an object is a log of its versions: the lister holds   *)
(* the first, the server the last.  New here: the keys of a remote TUF     *)
(* repository change without an event, an unusable TrustRoot keeps its     *)
(* entry, and the Ready condition is computed over two condition sets.     *)
(***************************************************************************)
EXTENDS ConfigMapPatch, Naturals, Sequences, FiniteSets

CONSTANTS Names,    \* the names of TrustRoots; the other Keys belong to nobody
          Vals,     \* serialised sigstore keys
          Bads,     \* "badKeys": no keys can be had; "badLog": a log's key is unusable
          Remote,   \* a spec that names a remote repository; the other specs are their keys
          Threads,  \* workers of the controller
          MaxLag,   \* bound: versions of an object an informer has not gone past
          MaxEnv,   \* bound: steps the environment takes
          EnvOps    \* the kinds of step the environment takes

ASSUME NamesAssumption == Names \subseteq Keys
ASSUME SpecsAssumption == /\ Vals # {} /\ Vals \cap (Bads \cup {Remote, None}) = {}
                          /\ Bads \subseteq {"badKeys", "badLog"} /\ Remote \notin Bads
ASSUME BoundsAssumption == Threads \in Nat /\ MaxLag \in Nat /\ MaxEnv \in Nat

VARIABLES trs,     \* the log of each TrustRoot
          cmLog,   \* the log of the ConfigMap
          remote,  \* what each TrustRoot's remote repository holds now
          queue,   \* the workqueue
          pc,      \* where the worker of each key is; a key has at most one
          work,    \* that worker's locals
          env      \* environment steps taken

vars == <<trs, cmLog, remote, queue, pc, work, env>>

Latest(log) == log[Len(log)]
TrustRoot(name) == Latest(trs[name])   \* the server's TrustRoot
Cm == Latest(cmLog)                    \* the server's ConfigMap

Specs == Vals \cup Bads \cup {Remote}

-----------------------------------------------------------------------------
(* Conditions.                                                              *)

\* The dependents of Ready in the two condition sets that manage the status of
\* a TrustRoot.
trCondSet == {"KeysInlined", "ConfigMapUpdated"}
cipCondSet == {"KeysInlined", "PoliciesInlined", "ConfigMapUpdated"}

Conditions == trCondSet \cup {"Ready"}
Unknown == [c \in Conditions |-> "Unknown"]

\* knative recomputes Ready after MarkTrue: a dependent that is False or Unknown
\* decides, and so does one that has no condition at all.
Happy(set, conds) ==
  IF \E c \in set \cap trCondSet : conds[c] = "False" THEN "False"
  ELSE IF set \subseteq trCondSet /\ \A c \in set : conds[c] = "True" THEN "True"
  ELSE "Unknown"

MarkTrue(set, conds, c) ==
  LET marked == [conds EXCEPT ![c] = "True"] IN [marked EXCEPT !["Ready"] = Happy(set, marked)]
MarkFalse(conds, c) == [conds EXCEPT ![c] = "False", !["Ready"] = "False"]

\* PreProcessReconcile: a new generation takes Ready back.
PreProcess(obj) ==
  IF obj.obs = obj.gen THEN obj.conds
  ELSE [obj.conds EXCEPT !["Ready"] =
          IF \E c \in trCondSet : obj.conds[c] = "False" THEN "False" ELSE "Unknown"]

MarkInlineKeysFailed(conds) == MarkFalse(conds, "KeysInlined")

\* Mutant of MarkInlineKeysOk: managed by the TrustRoot's own condition set.
MarkInlineKeysOkOwnSet(conds) == MarkTrue(trCondSet, conds, "KeysInlined")

MarkInlineKeysOk(conds) == MarkTrue(cipCondSet, conds, "KeysInlined")
MarkCMUpdateFailed(conds) == MarkFalse(conds, "ConfigMapUpdated")
MarkCMUpdatedOK(conds) == MarkTrue(trCondSet, conds, "ConfigMapUpdated")

IsReady(obj) == obj.obs = obj.gen /\ obj.conds["Ready"] = "True"

-----------------------------------------------------------------------------

\* A version of a TrustRoot; a deleted one is a version too.
Gone == [exists |-> FALSE, rv |-> 0, gen |-> 0, spec |-> Remote, fin |-> FALSE, del |-> FALSE,
         conds |-> Unknown, obs |-> 0]
NewTrustRoot(spec) == [Gone EXCEPT !.exists = TRUE, !.gen = 1, !.spec = spec]

NoWork == [obj |-> Gone, keys |-> None, req |-> NoPatch, err |-> FALSE, conds |-> Unknown]

\* The controller starts with the ConfigMap missing or as it is shipped: empty.
Init ==
  /\ queue \in SUBSET Names
  /\ \E spec \in [Names -> Specs] :
       trs = [n \in Names |-> <<IF n \in queue THEN NewTrustRoot(spec[n]) ELSE Gone>>]
  /\ cmLog \in {<<NoConfigMap>>, <<ConfigMapOf(EmptyData)>>}
  /\ remote \in [Names -> Vals \cup Bads]
  /\ pc = [n \in Names |-> "idle"]
  /\ work = [n \in Names |-> NoWork]
  /\ env = 0

-----------------------------------------------------------------------------
(* The environment: users, remote repositories, faults.                     *)

EnvStep(op) == op \in EnvOps /\ env < MaxEnv /\ env' = env + 1

\* The server stores a new version of a TrustRoot; it sets the resourceVersion.
Store(name, obj) ==
  /\ Len(trs[name]) < MaxLag
  /\ trs' = [trs EXCEPT ![name] = Append(@, [obj EXCEPT !.rv = TrustRoot(name).rv + 1])]

StoreConfigMap(cm) ==
  /\ Len(cmLog) < MaxLag
  /\ cmLog' = Append(cmLog, cm)

CreateTrustRoot(name) ==
  /\ EnvStep("create") /\ ~TrustRoot(name).exists
  /\ \E spec \in Specs : Store(name, NewTrustRoot(spec))
  /\ UNCHANGED <<cmLog, remote, queue, pc, work>>

EditTrustRoot(name) ==
  /\ EnvStep("edit") /\ TrustRoot(name).exists
  /\ \E spec \in Specs \ {TrustRoot(name).spec} :
       Store(name, [TrustRoot(name) EXCEPT !.gen = @ + 1, !.spec = spec])
  /\ UNCHANGED <<cmLog, remote, queue, pc, work>>

\* Deleting an object that has a finalizer only marks it.
DeleteTrustRoot(name) ==
  /\ EnvStep("delete") /\ TrustRoot(name).exists /\ ~TrustRoot(name).del
  /\ Store(name, IF TrustRoot(name).fin THEN [TrustRoot(name) EXCEPT !.del = TRUE] ELSE Gone)
  /\ UNCHANGED <<cmLog, remote, queue, pc, work>>

\* The remote repository changes, goes away or comes back: nobody is told.
ChangeRemote(name) ==
  /\ EnvStep("remote")
  /\ \E v \in (Vals \cup Bads) \ {remote[name]} : remote' = [remote EXCEPT ![name] = v]
  /\ UNCHANGED <<trs, cmLog, queue, pc, work>>

DeleteConfigMap ==
  /\ EnvStep("deletecm") /\ Cm.exists
  /\ StoreConfigMap(NoConfigMap)
  /\ UNCHANGED <<trs, remote, queue, pc, work>>

\* The controller restarts: its informers list again and enqueue what they list.
Restart ==
  /\ EnvStep("restart")
  /\ trs' = [n \in Names |-> <<TrustRoot(n)>>]
  /\ cmLog' = <<Cm>>
  /\ queue' = {n \in Names : TrustRoot(n).exists}
  /\ pc' = [n \in Names |-> "idle"]
  /\ work' = [n \in Names |-> NoWork]
  /\ UNCHANGED remote

-----------------------------------------------------------------------------
(* Informers (controller.go).                                               *)

\* controller.HandleAll(impl.Enqueue) on TrustRoots.
DeliverTrustRoot(name) ==
  /\ Len(trs[name]) > 1
  /\ trs' = [trs EXCEPT ![name] = Tail(@)]
  /\ queue' = queue \cup {name}
  /\ UNCHANGED <<cmLog, remote, pc, work, env>>

\* grCb: a global resync of the TrustRoots listed.
grCb == queue' = queue \cup {n \in Names : Head(trs[n]).exists}

\* An event on config-sigstore-keys.
DeliverConfigMap ==
  /\ Len(cmLog) > 1
  /\ cmLog' = Tail(cmLog)
  /\ grCb
  /\ UNCHANGED <<trs, remote, pc, work, env>>

\* The resync period is over: the informer hands the ConfigMap it has to grCb.
Resync ==
  /\ Head(cmLog).exists
  /\ grCb
  /\ UNCHANGED <<trs, cmLog, remote, pc, work, env>>

-----------------------------------------------------------------------------
(* A worker.  Fetching keys, reading a lister and sending a request are     *)
(* separate steps: other workers, informers and the remote run between.     *)

\* "ok" is the server's answer, "failed" an error without effect, "lost" an
\* error although the server did apply the request.
Replies == {"ok", "failed", "lost"}
Reply(r, accepted) == IF r = "ok" THEN UNCHANGED env ELSE accepted /\ EnvStep("fault")

\* The key is done; an error puts it back into the queue.
Finish(name, err) ==
  /\ pc' = [pc EXCEPT ![name] = "idle"]
  /\ work' = [work EXCEPT ![name] = NoWork]
  /\ queue' = IF err THEN queue \cup {name} ELSE queue

Goto(name, label, locals) ==
  /\ pc' = [pc EXCEPT ![name] = label]
  /\ work' = [work EXCEPT ![name] = locals]

\* reconcilerImpl.Reconcile: take a key, read its TrustRoot from the lister and
\* choose the method.
Reconcile(name) ==
  LET obj == Head(trs[name]) IN
  /\ name \in queue /\ pc[name] = "idle"
  /\ Cardinality({n \in Names : pc[n] # "idle"}) < Threads
  /\ queue' = queue \ {name}
  /\ IF obj.exists
       THEN Goto(name, IF obj.del THEN "finalizeKind" ELSE IF obj.fin THEN "reconcileKind"
                       ELSE "setFinalizer", [NoWork EXCEPT !.obj = obj])
       ELSE UNCHANGED <<pc, work>>
  /\ UNCHANGED <<trs, cmLog, remote, env>>

\* Mutant of SetFinalizer: an error of the patch is ignored.
SetFinalizerAnyway(name, r) ==
  LET obj == work[name].obj
      accepted == TrustRoot(name).exists /\ TrustRoot(name).rv = obj.rv
  IN
  /\ pc[name] = "setFinalizer" /\ Reply(r, accepted)
  /\ IF accepted /\ r # "failed" THEN Store(name, [obj EXCEPT !.fin = TRUE]) ELSE UNCHANGED trs
  /\ Goto(name, "reconcileKind", work[name])
  /\ UNCHANGED <<cmLog, remote, queue>>

\* setFinalizerIfFinalizer: a merge patch that names the resourceVersion read.
SetFinalizer(name, r) ==
  LET obj == work[name].obj
      accepted == TrustRoot(name).exists /\ TrustRoot(name).rv = obj.rv
  IN
  /\ pc[name] = "setFinalizer" /\ Reply(r, accepted)
  /\ IF accepted /\ r # "failed" THEN Store(name, [obj EXCEPT !.fin = TRUE]) ELSE UNCHANGED trs
  /\ IF accepted /\ r = "ok"
       THEN /\ Goto(name, "reconcileKind",
                    [work[name] EXCEPT !.obj = [obj EXCEPT !.fin = TRUE, !.rv = @ + 1]])
            /\ UNCHANGED queue
       ELSE Finish(name, TRUE)
  /\ UNCHANGED <<cmLog, remote>>

\* The keys of a TrustRoot: getSigstoreKeysFromMirrorFS, getSigstoreKeysFromRemote
\* or ConvertSigstoreKeys, and then the log IDs of its Rekor and CT logs.
SigstoreKeys(name, spec) == IF spec = Remote THEN remote[name] ELSE spec

\* Mutants of GetKeys: the keys of the logs are not looked at; a TrustRoot without
\* keys is taken out of the ConfigMap.
GetKeysUnchecked(name) ==
  LET w == work[name]
      keys == SigstoreKeys(name, w.obj.spec)
      conds == PreProcess(w.obj)
  IN
  /\ pc[name] = "reconcileKind"
  /\ IF keys = "badKeys"
       THEN Goto(name, "updateStatus", [w EXCEPT !.err = TRUE, !.conds = MarkInlineKeysFailed(conds)])
       ELSE Goto(name, "readConfigMap", [w EXCEPT !.keys = keys, !.conds = MarkInlineKeysOk(conds)])
  /\ UNCHANGED <<trs, cmLog, remote, queue, env>>

GetKeysOrRemove(name) ==
  LET w == work[name]
      keys == SigstoreKeys(name, w.obj.spec)
  IN
  /\ pc[name] = "reconcileKind"
  /\ IF keys \in Vals
       THEN Goto(name, "readConfigMap", [w EXCEPT !.keys = keys, !.conds = MarkInlineKeysOk(PreProcess(w.obj))])
       ELSE Goto(name, "finalizeKind", w)
  /\ UNCHANGED <<trs, cmLog, remote, queue, env>>

\* ReconcileKind up to the lister of ConfigMaps.  Only the failure to get keys is
\* marked; a log key that is no key, or a Rekor key that is not ECDSA, is an error
\* after MarkInlineKeysOk.
GetKeys(name) ==
  LET w == work[name]
      keys == SigstoreKeys(name, w.obj.spec)
      conds == PreProcess(w.obj)
  IN
  /\ pc[name] = "reconcileKind"
  /\ CASE keys = "badKeys" -> Goto(name, "updateStatus",
                                   [w EXCEPT !.err = TRUE, !.conds = MarkInlineKeysFailed(conds)])
       [] keys = "badLog"  -> Goto(name, "updateStatus",
                                   [w EXCEPT !.err = TRUE, !.conds = MarkInlineKeysOk(conds)])
       [] OTHER            -> Goto(name, "readConfigMap",
                                   [w EXCEPT !.keys = keys, !.conds = MarkInlineKeysOk(conds)])
  /\ UNCHANGED <<trs, cmLog, remote, queue, env>>

\* The requests made from what the lister holds: those of the TrustRoots' own
\* resources package are the ones of ConfigMapPatch.
Request(name, seen, keys) ==
  IF seen.exists THEN CreatePatch(name, seen.data, keys) ELSE NewConfigMap(name, keys)
RemoveRequest(name, seen) ==
  IF seen.exists THEN CreateRemovePatch(name, seen.data) ELSE NoPatch

\* ReconcileKind reads the lister and makes its request.
ReadConfigMap(name) ==
  LET w == work[name]
      req == Request(name, Head(cmLog), w.keys)
  IN
  /\ pc[name] = "readConfigMap"
  /\ IF req.op = "none"
       THEN Goto(name, "updateStatus", [w EXCEPT !.conds = MarkCMUpdatedOK(@)])
       ELSE Goto(name, "writeConfigMap", [w EXCEPT !.req = req])
  /\ UNCHANGED <<trs, cmLog, remote, queue, env>>

\* The server handles a ConfigMap request; one that changes nothing makes no version.
Serve(req, applied) ==
  IF applied /\ Apply(Cm, req) # Cm THEN StoreConfigMap(Apply(Cm, req)) ELSE UNCHANGED cmLog

\* The Create or Patch of ReconcileKind.
WriteConfigMap(name, r) ==
  LET w == work[name]
      accepted == Accepts(Cm, w.req)
      ok == accepted /\ r = "ok"
  IN
  /\ pc[name] = "writeConfigMap" /\ Reply(r, accepted)
  /\ Serve(w.req, accepted /\ r # "failed")
  /\ Goto(name, "updateStatus",
          [w EXCEPT !.err = ~ok, !.conds = IF ok THEN MarkCMUpdatedOK(@) ELSE MarkCMUpdateFailed(@)])
  /\ UNCHANGED <<trs, remote, queue>>

\* updateStatus: nothing when the status read from the lister already says it;
\* otherwise retried on conflict against the server's object.
UpdateStatus(name, r) ==
  LET w == work[name]
      desired == [TrustRoot(name) EXCEPT !.conds = w.conds, !.obs = w.obj.gen]
      changed == w.conds # w.obj.conds \/ w.obj.gen # w.obj.obs
      accepted == changed /\ TrustRoot(name).exists
  IN
  /\ pc[name] = "updateStatus" /\ Reply(r, accepted)
  /\ IF accepted /\ desired # TrustRoot(name) /\ r # "failed" THEN Store(name, desired) ELSE UNCHANGED trs
  /\ Finish(name, w.err \/ r # "ok" \/ (changed /\ ~accepted))
  /\ UNCHANGED <<cmLog, remote>>

\* FinalizeKind up to its request: read the ConfigMap lister.
FinalizeKind(name) ==
  LET req == RemoveRequest(name, Head(cmLog)) IN
  /\ pc[name] = "finalizeKind"
  /\ Goto(name, IF req.op = "none" THEN "clearFinalizer" ELSE "removeEntry",
          [work[name] EXCEPT !.req = req])
  /\ UNCHANGED <<trs, cmLog, remote, queue, env>>

\* removeTrustRootEntry; with an error the finalizer stays.
RemoveEntry(name, r) ==
  LET w == work[name]
      accepted == Accepts(Cm, w.req)
  IN
  /\ pc[name] = "removeEntry" /\ Reply(r, accepted)
  /\ Serve(w.req, accepted /\ r # "failed")
  /\ IF accepted /\ r = "ok"
       THEN Goto(name, "clearFinalizer", w) /\ UNCHANGED queue
       ELSE Finish(name, TRUE)
  /\ UNCHANGED <<trs, remote>>

\* clearFinalizer: a merge patch that names the resourceVersion read; the
\* server then drops the object.
ClearFinalizer(name, r) ==
  LET accepted == TrustRoot(name).exists /\ TrustRoot(name).rv = work[name].obj.rv IN
  /\ pc[name] = "clearFinalizer" /\ Reply(r, accepted)
  /\ IF accepted /\ r # "failed" THEN Store(name, Gone) ELSE UNCHANGED trs
  /\ Finish(name, ~(accepted /\ r = "ok"))
  /\ UNCHANGED <<cmLog, remote>>

Worker(name) ==
  \/ Reconcile(name)
  \/ GetKeys(name)
  \/ ReadConfigMap(name)
  \/ FinalizeKind(name)
  \/ \E r \in Replies : \/ SetFinalizer(name, r)
                        \/ WriteConfigMap(name, r)
                        \/ UpdateStatus(name, r)
                        \/ RemoveEntry(name, r)
                        \/ ClearFinalizer(name, r)

Environment ==
  \/ \E n \in Names : CreateTrustRoot(n) \/ EditTrustRoot(n) \/ DeleteTrustRoot(n) \/ ChangeRemote(n)
  \/ DeleteConfigMap
  \/ Restart

Next ==
  \/ Environment
  \/ \E n \in Names : DeliverTrustRoot(n) \/ Worker(n)
  \/ DeliverConfigMap
  \/ Resync

Spec == Init /\ [][Next]_vars

\* The informers deliver and resync periods end; a worker that has a key runs;
\* the workqueue is first in, first out.
FairSpec ==
  /\ Spec
  /\ WF_vars(DeliverConfigMap)
  /\ WF_vars(Resync)
  /\ \A n \in Names : /\ WF_vars(DeliverTrustRoot(n))
                       /\ WF_vars(Worker(n))
                       /\ SF_vars(Reconcile(n))

-----------------------------------------------------------------------------
(* Properties.                                                              *)

Statuses == [Conditions -> {"Unknown", "True", "False"}]
Objects == [exists : BOOLEAN, rv : Nat, gen : Nat, spec : Specs, fin : BOOLEAN, del : BOOLEAN,
            conds : Statuses, obs : Nat]
Data == [Keys -> Vals \cup {None}]
ConfigMaps == [exists : BOOLEAN, data : Data]
Requests == [op : Ops, path : Keys \cup {DataPath}, value : Data]
Labels == {"idle", "setFinalizer", "reconcileKind", "readConfigMap", "writeConfigMap", "updateStatus",
           "finalizeKind", "removeEntry", "clearFinalizer"}
Locals == [obj : Objects, keys : Vals \cup {None}, req : Requests, err : BOOLEAN, conds : Statuses]

\* Every variable has its type; in particular no unusable keys get into a request
\* or into the ConfigMap.
TypeOK ==
  /\ trs \in [Names -> Seq(Objects)] /\ \A n \in Names : trs[n] # <<>>
  /\ cmLog \in Seq(ConfigMaps) /\ cmLog # <<>>
  /\ remote \in [Names -> Vals \cup Bads]
  /\ queue \subseteq Names
  /\ pc \in [Names -> Labels]
  /\ work \in [Names -> Locals]
  /\ env \in Nat

\* A TrustRoot whose keys can no longer be had keeps the entry it has: the entry
\* goes only when FinalizeKind sees a deleted TrustRoot, with the whole ConfigMap, or when
\* the patch of another TrustRoot, made from a lister that lacks this entry, replaces
\* or removes /data.
EntryKept ==
  [][\A n \in Names : Cm.data[n] # None /\ Cm'.data[n] = None =>
       \/ pc[n] = "removeEntry" /\ work[n].obj.del
       \/ ~Cm'.exists
       \/ \E m \in Names \ {n} : pc[m] \in {"writeConfigMap", "removeEntry"} /\ work[m].req.path = DataPath]_vars

\* An entry appears in the ConfigMap only while its TrustRoot exists and carries
\* the finalizer, however long fetching the keys took.
NoResurrection ==
  [][\A n \in Names : Cm.data[n] = None /\ Cm'.data[n] # None
                        => TrustRoot(n).exists /\ TrustRoot(n).fin]_vars

\* The ConfigMap and the status say what the TrustRoot and its repository are
\* now: usable keys are in the ConfigMap and the TrustRoot is ready, one whose
\* keys are unusable is not ready.
InSync(n) ==
  LET keys == SigstoreKeys(n, TrustRoot(n).spec) IN
  TrustRoot(n).exists /\ ~TrustRoot(n).del =>
    IF keys \in Vals THEN Cm.data[n] = keys /\ IsReady(TrustRoot(n))
    ELSE /\ ~IsReady(TrustRoot(n))
         /\ TrustRoot(n).obs = TrustRoot(n).gen
         /\ TrustRoot(n).conds["KeysInlined"] = IF keys = "badKeys" THEN "False" ELSE "True"

\* Once users, repositories, faults and restarts pause, every TrustRoot gets in
\* sync and stays so: the resync period finds what a remote repository did, and
\* a TrustRoot that fails after MarkInlineKeysOk does not stay ready.
Converges == \A n \in Names : <>[]InSync(n)
=============================================================================
