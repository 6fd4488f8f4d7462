------------------------- MODULE TrustRootSyncProofs -------------------------
(***************************************************************************)
(* The entries of TrustRoots in config-sigstore-keys, for any number of    *)
(* TrustRoots, workers and versions an informer is behind: none goes but   *)
(* for the reasons EntryKept lists, none appears for a TrustRoot that is   *)
(* gone.                                                                   *)
(*                                                                         *)
(* A worker's copy comes from a lister that may be behind, so what it says *)
(* of the finalizer must still hold at the server: LogInv and WorkInv.     *)
(* What a pending request can do to the ConfigMap is RequestInv.           *)
(***************************************************************************)
EXTENDS TrustRootSync, TLAPS

Active(obj) == obj.exists /\ obj.fin /\ ~obj.del

InReconcileKind(n) == pc[n] \in {"reconcileKind", "readConfigMap", "writeConfigMap", "updateStatus"}
InFinalizeKind(n) == pc[n] \in {"finalizeKind", "removeEntry", "clearFinalizer"}

\* The versions of a TrustRoot have increasing resourceVersions, and the finalizer
\* of one that is not being deleted is still there in every later one.
LogInv(n) ==
  \A i, j \in DOMAIN trs[n] : i < j =>
    /\ trs[n][i].rv < trs[n][j].rv
    /\ Active(trs[n][i]) => trs[n][j].exists /\ trs[n][j].fin

\* The copy of a worker that finalizes is deleted, and is the lister's unless older;
\* while a worker reconciles the server's TrustRoot has the finalizer.
WorkInv(n) ==
  LET obj == work[n].obj IN
  /\ pc[n] = "setFinalizer" => obj.exists
  /\ InFinalizeKind(n) => /\ obj.del /\ obj.rv <= trs[n][1].rv
                          /\ obj.rv = trs[n][1].rv => obj = trs[n][1]
  /\ InReconcileKind(n) => TrustRoot(n).exists /\ TrustRoot(n).fin

\* A request changes the entry of its own key, and drops the others when it
\* names the whole of /data.
OnlyOwnEntry(req, n) ==
  /\ req.path \in {n, DataPath}
  /\ req.path = DataPath => \A k \in Keys \ {n} : req.value[k] = None

\* A pending request writes usable keys or removes the entry, and no other entry.
RequestInv(n) ==
  /\ pc[n] = "readConfigMap" => work[n].keys \in Vals
  /\ pc[n] = "writeConfigMap" => OnlyOwnEntry(work[n].req, n) /\ work[n].req.value[n] \in Vals
  /\ pc[n] = "removeEntry" => OnlyOwnEntry(work[n].req, n) /\ work[n].req.value[n] = None

RootInv(n) == LogInv(n) /\ WorkInv(n) /\ RequestInv(n)

\* The inductive invariant.
Consistent == \A n \in Names : RootInv(n)

-----------------------------------------------------------------------------
(* Logs.                                                                    *)

LEMMA LatestType ==
  ASSUME NEW S, NEW s \in Seq(S), s # <<>>
  PROVE  /\ Len(s) \in Nat \ {0} /\ DOMAIN s = 1..Len(s)
         /\ Latest(s) \in S /\ Head(s) \in S /\ Head(s) = s[1]
  BY DEF Latest

LEMMA AppendLog ==
  ASSUME NEW S, NEW s \in Seq(S), s # <<>>, NEW e \in S
  PROVE  /\ Append(s, e) \in Seq(S) /\ Append(s, e) # <<>>
         /\ Latest(Append(s, e)) = e
         /\ \A i \in 1..Len(s) : Append(s, e)[i] = s[i]
         /\ Append(s, e)[Len(s) + 1] = e
         /\ DOMAIN Append(s, e) = 1..(Len(s) + 1)
  BY DEF Latest

LEMMA TailLog ==
  ASSUME NEW S, NEW s \in Seq(S), Len(s) > 1
  PROVE  /\ Tail(s) \in Seq(S) /\ Tail(s) # <<>>
         /\ Latest(Tail(s)) = Latest(s)
         /\ \A i \in 1..(Len(s) - 1) : Tail(s)[i] = s[i + 1]
         /\ DOMAIN Tail(s) = 1..(Len(s) - 1)
  <1> DEFINE t == Tail(s)
  <1>1. Len(s) \in Nat /\ t \in Seq(S) /\ Len(t) = Len(s) - 1
    OBVIOUS
  <1>2. \A i \in 1..(Len(s) - 1) : t[i] = s[i + 1]
    OBVIOUS
  <1> HIDE DEF t
  <1>3. t # <<>> /\ DOMAIN t = 1..(Len(s) - 1)
    BY <1>1
  <1>4. Latest(t) = Latest(s)
    BY <1>1, <1>2 DEF Latest
  <1> QED BY <1>1, <1>2, <1>3, <1>4 DEF t

LEMMA SingletonLog ==
  ASSUME NEW S, NEW e \in S
  PROVE  /\ <<e>> \in Seq(S) /\ <<e>> # <<>>
         /\ Latest(<<e>>) = e /\ <<e>>[1] = e /\ DOMAIN <<e>> = 1..1
  BY DEF Latest

-----------------------------------------------------------------------------
(* Requests.                                                                *)

LEMMA EmptyDataType == EmptyData \in Data
  BY DEF EmptyData, Data

LEMMA NoPatchType == NoPatch \in Requests
  BY EmptyDataType DEF NoPatch, Requests, Ops

LEMMA ApplyType ==
  ASSUME NEW cm \in ConfigMaps, NEW req \in Requests
  PROVE  Apply(cm, req) \in ConfigMaps
  <1>1. cm.data \in Data /\ req.value \in Data /\ req.path \in Keys \cup {DataPath}
    BY DEF ConfigMaps, Requests
  <1>2. CASE req.path = DataPath
    BY <1>1, <1>2 DEF Apply, ConfigMapOf, ConfigMaps
  <1>3. CASE req.path # DataPath
    <2>1. [cm.data EXCEPT ![req.path] = req.value[req.path]] \in Data
      BY <1>1, <1>3 DEF Data
    <2> QED BY <2>1, <1>3 DEF Apply, ConfigMapOf, ConfigMaps
  <1> QED BY <1>2, <1>3

\* What a request does to the entry of its own key, and to the others.
LEMMA ApplyEntries ==
  ASSUME NEW n \in Keys, NEW cm \in ConfigMaps, NEW req \in Requests, OnlyOwnEntry(req, n)
  PROVE  /\ \A k \in Keys \ {n} : \/ Apply(cm, req).data[k] = cm.data[k]
                                  \/ Apply(cm, req).data[k] = None /\ req.path = DataPath
         /\ Apply(cm, req).data[n] \in {cm.data[n], req.value[n]}
  BY PathAssumption DEF Apply, ConfigMapOf, ConfigMaps, Requests, Data, OnlyOwnEntry

\* A request, if there is one, that gives its own entry the value v.
Writes(req, n, v) ==
  req \in Requests /\ (req.op # "none" => OnlyOwnEntry(req, n) /\ req.value[n] = v)

\* The JSON patch between two ConfigMaps that differ in one entry.
LEMMA JSONPatchShape ==
  ASSUME NEW n \in Keys, NEW before \in Data, NEW v \in Vals \cup {None}
  PROVE  Writes(JSONPatch(before, [before EXCEPT ![n] = v], n), n, v)
  <1> DEFINE after == [before EXCEPT ![n] = v]
             req == JSONPatch(before, after, n)
  <1>1. after \in Data /\ after[n] = v /\ \A k \in Keys \ {n} : after[k] = before[k]
    BY DEF Data
  <1> HIDE DEF after
  <1>2. CASE before = after
    <2>1. req = NoPatch /\ NoPatch.op = "none"
      BY <1>2 DEF JSONPatch, NoPatch
    <2> QED BY <2>1, NoPatchType DEF Writes, after
  <1>3. CASE before # after
    <2>1. /\ req.value = after /\ req.path = (IF before = EmptyData \/ after = EmptyData THEN DataPath ELSE n)
          /\ req \in Requests
      BY <1>1, <1>3 DEF JSONPatch, Requests, Ops
    <2>2. req.path = DataPath => \A k \in Keys \ {n} : after[k] = None
      BY <1>1, <2>1, PathAssumption, Zenon DEF EmptyData
    <2> HIDE DEF req
    <2>3. OnlyOwnEntry(req, n) /\ req.value[n] = v
      BY <1>1, <2>1, <2>2 DEF OnlyOwnEntry
    <2>4. Writes(req, n, v)
      BY <2>1, <2>3 DEF Writes
    <2> QED BY <2>4 DEF req, after
  <1> QED BY <1>2, <1>3

\* The requests of ReconcileKind and FinalizeKind, whatever the lister shows.
LEMMA RequestShape ==
  ASSUME NEW n \in Names, NEW seen \in ConfigMaps, NEW v \in Vals \cup {None}
  PROVE  Writes(Request(n, seen, v), n, v)
  <1>1. n \in Keys /\ seen.data \in Data
    BY NamesAssumption DEF ConfigMaps
  <1>2. CASE seen.exists
    <2>1. Request(n, seen, v) = JSONPatch(seen.data, [seen.data EXCEPT ![n] = v], n)
      BY <1>2 DEF Request, CreatePatch
    <2> QED BY <1>1, <2>1, JSONPatchShape
  <1>3. CASE ~seen.exists
    <2>1. [EmptyData EXCEPT ![n] = v] \in Data
      BY EmptyDataType DEF Data
    <2>2. NewConfigMap(n, v) \in Requests
      BY <2>1 DEF NewConfigMap, Requests, Ops
    <2>3. OnlyOwnEntry(NewConfigMap(n, v), n) /\ NewConfigMap(n, v).value[n] = v
      BY <1>1 DEF NewConfigMap, EmptyData, OnlyOwnEntry
    <2> QED BY <1>3, <2>2, <2>3 DEF Request, Writes
  <1> QED BY <1>2, <1>3

LEMMA RemoveRequestShape ==
  ASSUME NEW n \in Names, NEW seen \in ConfigMaps
  PROVE  Writes(RemoveRequest(n, seen), n, None)
  <1>1. n \in Keys /\ seen.data \in Data
    BY NamesAssumption DEF ConfigMaps
  <1>2. CASE seen.exists
    <2>1. RemoveRequest(n, seen) = JSONPatch(seen.data, [seen.data EXCEPT ![n] = None], n)
      BY <1>2 DEF RemoveRequest, CreateRemovePatch
    <2> QED BY <1>1, <2>1, JSONPatchShape
  <1>3. CASE ~seen.exists
    BY <1>3, NoPatchType DEF RemoveRequest, NoPatch, Writes
  <1> QED BY <1>2, <1>3

-----------------------------------------------------------------------------
(* Types.                                                                   *)

TrsType == trs \in [Names -> Seq(Objects)] /\ \A n \in Names : trs[n] # <<>>
CmLogType == cmLog \in Seq(ConfigMaps) /\ cmLog # <<>>
WorkType == pc \in [Names -> Labels] /\ work \in [Names -> Locals]

LEMMA TypeParts ==
  TypeOK <=> /\ TrsType /\ CmLogType /\ WorkType
             /\ remote \in [Names -> Vals \cup Bads] /\ queue \subseteq Names /\ env \in Nat
  BY Zenon DEF TypeOK, TrsType, CmLogType, WorkType

LEMMA MarkTypes ==
  ASSUME NEW conds \in Statuses, NEW c \in Conditions
  PROVE  /\ \A set : MarkTrue(set, conds, c) \in Statuses
         /\ MarkFalse(conds, c) \in Statuses
  <1>1. "Ready" \in Conditions
    BY DEF Conditions
  <1>2. \A x, y \in {"Unknown", "True", "False"} :
          [[conds EXCEPT ![c] = x] EXCEPT !["Ready"] = y] \in Statuses
    BY DEF Statuses
  <1>3. \A set, m : Happy(set, m) \in {"Unknown", "True", "False"}
    BY DEF Happy
  <1>4. ASSUME NEW set PROVE MarkTrue(set, conds, c) \in Statuses
    BY <1>2, <1>3 DEF MarkTrue
  <1>5. MarkFalse(conds, c) \in Statuses
    BY DEF MarkFalse, Statuses
  <1> QED BY <1>4, <1>5

LEMMA ConditionTypes ==
  ASSUME NEW conds \in Statuses
  PROVE  /\ MarkInlineKeysOk(conds) \in Statuses /\ MarkInlineKeysFailed(conds) \in Statuses
         /\ MarkCMUpdatedOK(conds) \in Statuses /\ MarkCMUpdateFailed(conds) \in Statuses
  <1>1. "KeysInlined" \in Conditions /\ "ConfigMapUpdated" \in Conditions
    BY DEF Conditions, trCondSet
  <1> QED BY <1>1, MarkTypes
          DEF MarkInlineKeysOk, MarkInlineKeysFailed, MarkCMUpdatedOK, MarkCMUpdateFailed

LEMMA PreProcessType ==
  ASSUME NEW obj \in Objects PROVE PreProcess(obj) \in Statuses
  <1>1. obj.conds \in Statuses
    BY DEF Objects
  <1>2. \A y \in {"Unknown", "True", "False"} : [obj.conds EXCEPT !["Ready"] = y] \in Statuses
    BY <1>1 DEF Statuses
  <1> QED BY <1>1, <1>2 DEF PreProcess

LEMMA GoneType == Gone \in Objects
  <1>1. Unknown \in Statuses
    BY DEF Unknown, Statuses
  <1> QED BY <1>1 DEF Gone, Objects, Specs

LEMMA NewTrustRootType == \A spec \in Specs : NewTrustRoot(spec) \in Objects
  <1>1. \A o \in Objects, spec \in Specs : [o EXCEPT !.exists = TRUE, !.gen = 1, !.spec = spec] \in Objects
    BY Zenon DEF Objects
  <1> QED BY <1>1, GoneType DEF NewTrustRoot

LEMMA NoWorkType == NoWork \in Locals
  <1>1. Unknown \in Statuses
    BY DEF Unknown, Statuses
  <1> QED BY <1>1, GoneType, NoPatchType DEF NoWork, Locals

LEMMA ConfigMapTypes == NoConfigMap \in ConfigMaps /\ ConfigMapOf(EmptyData) \in ConfigMaps
  BY EmptyDataType DEF NoConfigMap, ConfigMapOf, ConfigMaps

LEMMA LogTypes ==
  ASSUME TypeOK, NEW n \in Names
  PROVE  /\ trs[n] \in Seq(Objects) /\ trs[n] # <<>>
         /\ TrustRoot(n) \in Objects /\ Head(trs[n]) \in Objects /\ TrustRoot(n).rv \in Nat
         /\ Cm \in ConfigMaps /\ Head(cmLog) \in ConfigMaps
         /\ work[n] \in Locals /\ work[n].obj \in Objects /\ work[n].req \in Requests
         /\ work[n].conds \in Statuses
  <1>1. trs[n] \in Seq(Objects) /\ trs[n] # <<>> /\ cmLog \in Seq(ConfigMaps) /\ cmLog # <<>>
        /\ work[n] \in Locals
    BY DEF TypeOK
  <1>2. TrustRoot(n) \in Objects /\ Head(trs[n]) \in Objects
    BY <1>1, LatestType DEF TrustRoot
  <1>3. Cm \in ConfigMaps /\ Head(cmLog) \in ConfigMaps
    BY <1>1, LatestType DEF Cm
  <1>4. \A o \in Objects : o.rv \in Nat
    BY DEF Objects
  <1>5. \A w \in Locals : w.obj \in Objects /\ w.req \in Requests /\ w.conds \in Statuses
    BY DEF Locals
  <1> QED BY <1>1, <1>2, <1>3, <1>4, <1>5

\* The updates of a TrustRoot's fields that the actions make.
LEMMA ObjectUpdates ==
  ASSUME NEW o \in Objects
  PROVE  /\ \A r \in Nat : LET f == [o EXCEPT !.rv = r] IN
              f \in Objects /\ f.rv = r /\ f.exists = o.exists /\ f.fin = o.fin
         /\ \A spec \in Specs : LET f == [o EXCEPT !.gen = @ + 1, !.spec = spec] IN
              f \in Objects /\ f.exists = o.exists /\ f.fin = o.fin
         /\ LET f == [o EXCEPT !.del = TRUE] IN f \in Objects /\ f.exists = o.exists /\ f.fin = o.fin
         /\ LET f == [o EXCEPT !.fin = TRUE] IN f \in Objects /\ f.exists = o.exists /\ f.fin
         /\ [o EXCEPT !.fin = TRUE, !.rv = @ + 1] \in Objects
         /\ \A conds \in Statuses, g \in Nat : LET f == [o EXCEPT !.conds = conds, !.obs = g] IN
              f \in Objects /\ f.exists = o.exists /\ f.fin = o.fin
  <1>1. \A r \in Nat : LET f == [o EXCEPT !.rv = r] IN
          f \in Objects /\ f.rv = r /\ f.exists = o.exists /\ f.fin = o.fin
    BY Zenon DEF Objects
  <1>2. ASSUME NEW spec \in Specs
        PROVE  LET f == [o EXCEPT !.gen = @ + 1, !.spec = spec] IN
                 f \in Objects /\ f.exists = o.exists /\ f.fin = o.fin
    <2>1. o.gen + 1 \in Nat
      BY DEF Objects
    <2>2. \A g \in Nat : LET f == [o EXCEPT !.gen = g, !.spec = spec] IN
            f \in Objects /\ f.exists = o.exists /\ f.fin = o.fin
      BY Zenon DEF Objects
    <2> QED BY <2>1, <2>2, Zenon
  <1>3. LET f == [o EXCEPT !.del = TRUE] IN f \in Objects /\ f.exists = o.exists /\ f.fin = o.fin
    BY Zenon DEF Objects
  <1>4. LET f == [o EXCEPT !.fin = TRUE] IN f \in Objects /\ f.exists = o.exists /\ f.fin
    BY Zenon DEF Objects
  <1>5. [o EXCEPT !.fin = TRUE, !.rv = @ + 1] \in Objects
    <2>1. o.rv + 1 \in Nat
      BY DEF Objects
    <2>2. \A g \in Nat : [o EXCEPT !.fin = TRUE, !.rv = g] \in Objects
      BY Zenon DEF Objects
    <2> QED BY <2>1, <2>2, Zenon
  <1>6. \A conds \in Statuses, g \in Nat : LET f == [o EXCEPT !.conds = conds, !.obs = g] IN
          f \in Objects /\ f.exists = o.exists /\ f.fin = o.fin
    BY Zenon DEF Objects
  <1> QED BY <1>1, <1>2, <1>3, <1>4, <1>5, <1>6, Zenon

LEMMA StoreType ==
  ASSUME TypeOK, NEW n \in Names, NEW obj \in Objects, Store(n, obj)
  PROVE  TrsType'
  <1> DEFINE e == [obj EXCEPT !.rv = TrustRoot(n).rv + 1]
  <1>1. e \in Objects
    <2>1. TrustRoot(n).rv + 1 \in Nat
      BY LogTypes
    <2> HIDE DEF TrustRoot
    <2> QED BY <2>1, ObjectUpdates, Zenon
  <1>2. Append(trs[n], e) \in Seq(Objects) /\ Append(trs[n], e) # <<>>
    BY <1>1, LogTypes, AppendLog
  <1> QED BY <1>2, Zenon DEF Store, TrsType, TypeOK

LEMMA StoreConfigMapType ==
  ASSUME TypeOK, NEW cm \in ConfigMaps, StoreConfigMap(cm)
  PROVE  CmLogType' /\ Cm' = cm
  BY AppendLog DEF StoreConfigMap, CmLogType, TypeOK, Cm

LEMMA GotoType ==
  ASSUME TypeOK, NEW n \in Names, NEW label \in Labels, NEW locals \in Locals, Goto(n, label, locals)
  PROVE  WorkType' /\ pc'[n] = label /\ work'[n] = locals
  BY DEF Goto, WorkType, TypeOK

LEMMA FinishType ==
  ASSUME TypeOK, NEW n \in Names, NEW err, Finish(n, err)
  PROVE  WorkType' /\ queue' \subseteq Names /\ pc'[n] = "idle"
  BY NoWorkType DEF Finish, WorkType, TypeOK, Labels

LEMMA ServeType ==
  ASSUME TypeOK, NEW req \in Requests, NEW applied, Serve(req, applied), NEW n \in Names
  PROVE  CmLogType' /\ Cm' \in {Cm, Apply(Cm, req)}
  <1>1. Apply(Cm, req) \in ConfigMaps
    BY LogTypes, ApplyType
  <1>2. CASE UNCHANGED cmLog
    BY <1>2 DEF CmLogType, TypeOK, Cm
  <1>3. CASE StoreConfigMap(Apply(Cm, req))
    BY <1>1, <1>3, StoreConfigMapType
  <1> QED BY <1>2, <1>3 DEF Serve

LEMMA ReplyType ==
  ASSUME TypeOK, NEW r, NEW accepted, Reply(r, accepted)
  PROVE  env' \in Nat
  BY DEF Reply, EnvStep, TypeOK
LEMMA EnvironmentType ==
  ASSUME TypeOK, Environment
  PROVE  TypeOK'
  <1>1. ASSUME NEW n \in Names, CreateTrustRoot(n)
        PROVE  TypeOK'
    <2>1. TrsType'
      BY <1>1, StoreType, NewTrustRootType DEF CreateTrustRoot
    <2> QED BY <1>1, <2>1 DEF CreateTrustRoot, EnvStep, TypeOK, TrsType
  <1>2. ASSUME NEW n \in Names, EditTrustRoot(n)
        PROVE  TypeOK'
    <2>1. PICK spec \in Specs : Store(n, [TrustRoot(n) EXCEPT !.gen = @ + 1, !.spec = spec])
      BY <1>2 DEF EditTrustRoot
    <2>2. TrsType'
      BY <2>1, StoreType, ObjectUpdates, LogTypes, Zenon
    <2> QED BY <1>2, <2>2 DEF EditTrustRoot, EnvStep, TypeOK, TrsType
  <1>3. ASSUME NEW n \in Names, DeleteTrustRoot(n)
        PROVE  TypeOK'
    <2>1. (IF TrustRoot(n).fin THEN [TrustRoot(n) EXCEPT !.del = TRUE] ELSE Gone) \in Objects
      BY LogTypes, ObjectUpdates, GoneType, Zenon
    <2>2. TrsType'
      BY <1>3, <2>1, StoreType DEF DeleteTrustRoot
    <2> QED BY <1>3, <2>2, SMTT(30) DEF DeleteTrustRoot, EnvStep, TypeOK, TrsType
  <1>4. ASSUME NEW n \in Names, ChangeRemote(n)
        PROVE  TypeOK'
    BY <1>4 DEF ChangeRemote, EnvStep, TypeOK
  <1>5. CASE DeleteConfigMap
    <2>1. CmLogType'
      BY <1>5, StoreConfigMapType, ConfigMapTypes DEF DeleteConfigMap
    <2> QED BY <1>5, <2>1 DEF DeleteConfigMap, EnvStep, TypeOK, CmLogType
  <1>6. CASE Restart
    <2>1. TrsType'
      <3>1. \A n \in Names : <<TrustRoot(n)>> \in Seq(Objects) /\ <<TrustRoot(n)>> # <<>>
        BY LogTypes, SingletonLog
      <3> QED BY <1>6, <3>1 DEF Restart, TrsType
    <2>2. CmLogType'
      BY <1>6, LatestType, SingletonLog DEF Restart, CmLogType, TypeOK, Cm
    <2>3. WorkType' /\ queue' \subseteq Names
      BY <1>6, NoWorkType DEF Restart, WorkType, Labels
    <2> QED BY <1>6, <2>1, <2>2, <2>3 DEF Restart, EnvStep, TypeOK, TrsType, CmLogType, WorkType
  <1> QED BY <1>1, <1>2, <1>3, <1>4, <1>5, <1>6 DEF Environment

LEMMA DeliverType ==
  ASSUME TypeOK, DeliverConfigMap \/ Resync \/ \E n \in Names : DeliverTrustRoot(n)
  PROVE  TypeOK'
  <1>1. CASE DeliverConfigMap
    <2>1. CmLogType'
      BY <1>1, TailLog DEF DeliverConfigMap, CmLogType, TypeOK
    <2> QED BY <1>1, <2>1 DEF DeliverConfigMap, grCb, TypeOK, CmLogType
  <1>2. ASSUME NEW n \in Names, DeliverTrustRoot(n)
        PROVE  TypeOK'
    <2>1. Tail(trs[n]) \in Seq(Objects) /\ Tail(trs[n]) # <<>>
      BY <1>2, TailLog, LogTypes DEF DeliverTrustRoot
    <2> QED BY <1>2, <2>1 DEF DeliverTrustRoot, TypeOK
  <1>3. CASE Resync
    BY <1>3 DEF Resync, grCb, TypeOK
  <1> QED BY <1>1, <1>2, <1>3

\* The keys GetKeys goes on with are usable ones.
LEMMA KeysType ==
  ASSUME TypeOK, NEW n \in Names, NEW spec \in Specs
  PROVE  SigstoreKeys(n, spec) \in Vals \cup Bads
  BY DEF SigstoreKeys, Specs, TypeOK

\* The updates of a worker's locals that the actions make.
LEMMA LocalUpdates ==
  ASSUME NEW w \in Locals
  PROVE  /\ \A b \in BOOLEAN, conds \in Statuses : [w EXCEPT !.err = b, !.conds = conds] \in Locals
         /\ \A k \in Vals \cup {None}, conds \in Statuses :
              [w EXCEPT !.keys = k, !.conds = conds] \in Locals
         /\ \A conds \in Statuses : [w EXCEPT !.conds = conds] \in Locals
         /\ \A req \in Requests : [w EXCEPT !.req = req] \in Locals
         /\ \A obj \in Objects : [w EXCEPT !.obj = obj] \in Locals
  BY Zenon DEF Locals

LEMMA WorkerType ==
  ASSUME TypeOK, NEW n \in Names, Worker(n)
  PROVE  TypeOK'
  <1> DEFINE w == work[n]
             obj == w.obj
  <1>0. w \in Locals /\ obj \in Objects /\ w.req \in Requests /\ w.conds \in Statuses
    BY LogTypes
  <1> USE DEF Labels
  <1> HIDE DEF w, obj
  <1>1. CASE Reconcile(n)
    <2>1. [NoWork EXCEPT !.obj = Head(trs[n])] \in Locals
      BY LogTypes, NoWorkType, LocalUpdates, Zenon
    <2>2. WorkType'
      <3>1. CASE UNCHANGED <<pc, work>>
        BY <3>1 DEF WorkType, TypeOK
      <3>2. CASE ~UNCHANGED <<pc, work>>
        BY <1>1, <2>1, <3>2, GotoType DEF Reconcile
      <3> QED BY <3>1, <3>2
    <2> QED BY <1>1, <2>2 DEF Reconcile, TypeOK, WorkType
  <1>2. CASE GetKeys(n)
    <2> DEFINE keys == SigstoreKeys(n, obj.spec)
               failed == MarkInlineKeysFailed(PreProcess(obj))
               marked == MarkInlineKeysOk(PreProcess(obj))
    <2>1. keys \in Vals \cup Bads
      BY <1>0, KeysType DEF Objects
    <2>2. failed \in Statuses /\ marked \in Statuses
      BY <1>0, PreProcessType, ConditionTypes
    <2>3. \/ Goto(n, "updateStatus", [w EXCEPT !.err = TRUE, !.conds = failed])
          \/ Goto(n, "updateStatus", [w EXCEPT !.err = TRUE, !.conds = marked])
          \/ keys \notin Bads /\ Goto(n, "readConfigMap", [w EXCEPT !.keys = keys, !.conds = marked])
      <3>1. keys # "badKeys" /\ keys # "badLog" => keys \notin Bads
        BY SpecsAssumption
      <3> QED BY <1>2, <3>1, ZenonT(30) DEF GetKeys, w, obj
    <2> HIDE DEF keys, failed, marked
    <2>4. /\ [w EXCEPT !.err = TRUE, !.conds = failed] \in Locals
          /\ [w EXCEPT !.err = TRUE, !.conds = marked] \in Locals
          /\ keys \notin Bads => [w EXCEPT !.keys = keys, !.conds = marked] \in Locals
      BY <1>0, <2>1, <2>2, LocalUpdates, Zenon
    <2>5. WorkType'
      BY <2>3, <2>4, GotoType
    <2> QED BY <1>2, <2>5 DEF GetKeys, TypeOK, WorkType
  <1>3. CASE ReadConfigMap(n)
    <2> DEFINE req == Request(n, Head(cmLog), w.keys)
    <2>1. req \in Requests
      BY <1>0, LogTypes, RequestShape DEF Locals, Writes
    <2>2. MarkCMUpdatedOK(w.conds) \in Statuses
      BY <1>0, ConditionTypes
    <2> HIDE DEF req
    <2>3. [w EXCEPT !.conds = MarkCMUpdatedOK(@)] \in Locals /\ [w EXCEPT !.req = req] \in Locals
      BY <1>0, <2>1, <2>2, LocalUpdates, Zenon
    <2>4. WorkType'
      BY <1>3, <2>3, GotoType DEF ReadConfigMap, w, req
    <2> QED BY <1>3, <2>4 DEF ReadConfigMap, TypeOK, WorkType
  <1>4. CASE FinalizeKind(n)
    <2> DEFINE req == RemoveRequest(n, Head(cmLog))
    <2>1. req \in Requests
      BY LogTypes, RemoveRequestShape DEF Writes
    <2> HIDE DEF req
    <2>2. [w EXCEPT !.req = req] \in Locals
      BY <1>0, <2>1, LocalUpdates, Zenon
    <2>3. WorkType'
      BY <1>4, <2>2, GotoType DEF FinalizeKind, w, req
    <2> QED BY <1>4, <2>3 DEF FinalizeKind, TypeOK, WorkType
  <1>5. ASSUME NEW r \in Replies, SetFinalizer(n, r)
        PROVE  TypeOK'
    <2>1. TrsType'
      <3>1. CASE UNCHANGED trs
        BY <3>1 DEF TrsType, TypeOK
      <3>2. CASE Store(n, [obj EXCEPT !.fin = TRUE])
        BY <1>0, <3>2, StoreType, ObjectUpdates, Zenon
      <3> QED BY <1>5, <3>1, <3>2 DEF SetFinalizer, w, obj
    <2>2. WorkType' /\ queue' \subseteq Names
      <3>1. CASE Finish(n, TRUE)
        BY <3>1, FinishType, ZenonT(30)
      <3>2. CASE /\ Goto(n, "reconcileKind", [w EXCEPT !.obj = [obj EXCEPT !.fin = TRUE, !.rv = @ + 1]])
                 /\ UNCHANGED queue
        <4>1. [w EXCEPT !.obj = [obj EXCEPT !.fin = TRUE, !.rv = @ + 1]] \in Locals
          BY <1>0, ObjectUpdates, LocalUpdates, Zenon
        <4> QED BY <3>2, <4>1, GotoType DEF TypeOK
      <3> QED BY <1>5, <3>1, <3>2, Zenon DEF SetFinalizer, w, obj
    <2>3. env' \in Nat
      BY <1>5, ReplyType DEF SetFinalizer
    <2> QED BY <1>5, <2>1, <2>2, <2>3 DEF SetFinalizer, TypeOK, TrsType, WorkType
  <1>6. ASSUME NEW r \in Replies, WriteConfigMap(n, r)
        PROVE  TypeOK'
    <2>1. CmLogType'
      BY <1>0, <1>6, ServeType DEF WriteConfigMap, w
    <2>2. WorkType'
      <3> DEFINE ok == Accepts(Cm, w.req) /\ r = "ok"
                 conds == IF ok THEN MarkCMUpdatedOK(w.conds) ELSE MarkCMUpdateFailed(w.conds)
      <3>1. conds \in Statuses
        BY <1>0, ConditionTypes
      <3>2. Goto(n, "updateStatus", [w EXCEPT !.err = ~ok, !.conds = conds])
        BY <1>6, ZenonT(30) DEF WriteConfigMap, w
      <3>3. (~ok) \in BOOLEAN
        OBVIOUS
      <3> HIDE DEF ok, conds
      <3>4. [w EXCEPT !.err = ~ok, !.conds = conds] \in Locals
        BY <1>0, <3>1, <3>3, LocalUpdates, Zenon
      <3> QED BY <3>2, <3>4, GotoType
    <2>3. env' \in Nat
      BY <1>6, ReplyType DEF WriteConfigMap
    <2> QED BY <1>6, <2>1, <2>2, <2>3 DEF WriteConfigMap, TypeOK, CmLogType, WorkType
  <1>7. ASSUME NEW r \in Replies, UpdateStatus(n, r)
        PROVE  TypeOK'
    <2> DEFINE desired == [TrustRoot(n) EXCEPT !.conds = w.conds, !.obs = obj.gen]
    <2>1. TrsType'
      <3>1. CASE UNCHANGED trs
        BY <3>1 DEF TrsType, TypeOK
      <3>2. CASE Store(n, desired)
        <4>1. obj.gen \in Nat
          BY <1>0 DEF Objects
        <4> QED BY <1>0, <3>2, <4>1, ObjectUpdates, LogTypes, StoreType, Zenon
      <3> QED BY <1>7, <3>1, <3>2 DEF UpdateStatus, w, obj
    <2>2. WorkType' /\ queue' \subseteq Names
      BY <1>7, FinishType DEF UpdateStatus
    <2>3. env' \in Nat
      BY <1>7, ReplyType DEF UpdateStatus
    <2> QED BY <1>7, <2>1, <2>2, <2>3 DEF UpdateStatus, TypeOK, TrsType, WorkType
  <1>8. ASSUME NEW r \in Replies, RemoveEntry(n, r)
        PROVE  TypeOK'
    <2>1. CmLogType'
      BY <1>0, <1>8, ServeType DEF RemoveEntry, w
    <2>2. WorkType' /\ queue' \subseteq Names
      <3>1. CASE Finish(n, TRUE)
        BY <3>1, FinishType, ZenonT(30)
      <3>2. CASE Goto(n, "clearFinalizer", w) /\ UNCHANGED queue
        BY <1>0, <3>2, GotoType DEF TypeOK
      <3> QED BY <1>8, <3>1, <3>2, Zenon DEF RemoveEntry, w
    <2>3. env' \in Nat
      BY <1>8, ReplyType DEF RemoveEntry
    <2> QED BY <1>8, <2>1, <2>2, <2>3 DEF RemoveEntry, TypeOK, CmLogType, WorkType
  <1>9. ASSUME NEW r \in Replies, ClearFinalizer(n, r)
        PROVE  TypeOK'
    <2>1. TrsType'
      <3>1. CASE UNCHANGED trs
        BY <3>1 DEF TrsType, TypeOK
      <3>2. CASE Store(n, Gone)
        BY <3>2, StoreType, GoneType
      <3> QED BY <1>9, <3>1, <3>2 DEF ClearFinalizer
    <2>2. WorkType' /\ queue' \subseteq Names
      BY <1>9, FinishType DEF ClearFinalizer
    <2>3. env' \in Nat
      BY <1>9, ReplyType DEF ClearFinalizer
    <2> QED BY <1>9, <2>1, <2>2, <2>3 DEF ClearFinalizer, TypeOK, TrsType, WorkType
  <1> QED BY <1>1, <1>2, <1>3, <1>4, <1>5, <1>6, <1>7, <1>8, <1>9, Zenon DEF Worker

\* Every variable of the TrustRoot reconciler keeps its type; only usable keys get
\* into a request or into the ConfigMap (TypeOK of TrustRootSync).
THEOREM TypeCorrect == Spec => []TypeOK
  <1>1. Init => TypeOK
    <2> SUFFICES ASSUME Init PROVE TypeOK
      OBVIOUS
    <2>1. TrsType
      <3>1. PICK spec \in [Names -> Specs] :
              trs = [n \in Names |-> <<IF n \in queue THEN NewTrustRoot(spec[n]) ELSE Gone>>]
        BY DEF Init
      <3>2. \A n \in Names : (IF n \in queue THEN NewTrustRoot(spec[n]) ELSE Gone) \in Objects
        BY NewTrustRootType, GoneType
      <3> QED BY <3>1, <3>2, SingletonLog DEF TrsType
    <2>2. CmLogType
      <3>1. PICK cm \in ConfigMaps : cmLog = <<cm>>
        BY ConfigMapTypes, Zenon DEF Init
      <3> QED BY <3>1, SingletonLog DEF CmLogType
    <2>3. WorkType
      BY NoWorkType DEF Init, WorkType, Labels
    <2> QED BY <2>1, <2>2, <2>3 DEF Init, TypeOK, TrsType, CmLogType, WorkType
  <1>2. TypeOK /\ [Next]_vars => TypeOK'
    <2>1. TypeOK /\ UNCHANGED vars => TypeOK'
      BY DEF TypeOK, vars
    <2>2. TypeOK /\ Next => TypeOK'
      BY EnvironmentType, DeliverType, WorkerType, Zenon DEF Next
    <2> QED BY <2>1, <2>2
  <1> QED BY <1>1, <1>2, PTL DEF Spec
-----------------------------------------------------------------------------
(* The inductive invariant.                                                 *)

LEMMA LogFacts ==
  ASSUME TypeOK, NEW n \in Names
  PROVE  /\ Len(trs[n]) \in Nat \ {0} /\ DOMAIN trs[n] = 1..Len(trs[n])
         /\ TrustRoot(n) = trs[n][Len(trs[n])] /\ Head(trs[n]) = trs[n][1]
         /\ \A i \in DOMAIN trs[n] : trs[n][i] \in Objects /\ trs[n][i].rv \in Nat
         /\ 1 \in DOMAIN trs[n] /\ Len(trs[n]) \in DOMAIN trs[n]
  <1>1. trs[n] \in Seq(Objects) /\ trs[n] # <<>>
    BY DEF TypeOK
  <1>2. /\ Len(trs[n]) \in Nat \ {0} /\ DOMAIN trs[n] = 1..Len(trs[n])
        /\ Head(trs[n]) = trs[n][1]
    BY <1>1, LatestType
  <1>3. \A i \in DOMAIN trs[n] : trs[n][i] \in Objects
    BY <1>1, <1>2
  <1>4. 1 \in DOMAIN trs[n] /\ Len(trs[n]) \in DOMAIN trs[n]
    BY <1>2
  <1>5. \A o \in Objects : o.rv \in Nat
    BY DEF Objects
  <1> QED BY <1>2, <1>3, <1>4, <1>5 DEF TrustRoot, Latest

\* A TrustRoot with an active version has the finalizer.
LEMMA Held ==
  ASSUME TypeOK, NEW n \in Names, LogInv(n), NEW i \in DOMAIN trs[n], Active(trs[n][i])
  PROVE  TrustRoot(n).exists /\ TrustRoot(n).fin
  <1> DEFINE log == trs[n]
             last == Len(log)
  <1>1. last \in Nat \ {0} /\ DOMAIN log = 1..last /\ TrustRoot(n) = log[last] /\ last \in DOMAIN log
    BY LogFacts
  <1>2. CASE i = last
    BY <1>1, <1>2 DEF Active
  <1>3. CASE i < last
    BY <1>1, <1>3 DEF LogInv
  <1> QED BY <1>1, <1>2, <1>3

\* Steps that leave a TrustRoot and its worker alone.
LEMMA Frame ==
  ASSUME NEW n \in Names, RootInv(n), trs'[n] = trs[n], pc'[n] = pc[n], work'[n] = work[n]
  PROVE  RootInv(n)'
  <1>1. LogInv(n)'
    BY SMTT(30) DEF RootInv, LogInv
  <1>2. WorkInv(n)'
    BY DEF RootInv, WorkInv, InReconcileKind, InFinalizeKind, TrustRoot
  <1>3. RequestInv(n)'
    BY DEF RootInv, RequestInv
  <1> QED BY <1>1, <1>2, <1>3 DEF RootInv

\* When the worker is done only the log matters.
LEMMA IdleInv ==
  ASSUME NEW n \in Names, pc'[n] = "idle", LogInv(n)'
  PROVE  RootInv(n)'
  BY DEF RootInv, WorkInv, RequestInv, InReconcileKind, InFinalizeKind

\* The server stores a version that keeps the finalizer of active versions.
LEMMA StoreInv ==
  ASSUME TypeOK, NEW n \in Names, LogInv(n), NEW obj \in Objects, Store(n, obj),
         (\E i \in DOMAIN trs[n] : Active(trs[n][i])) => obj.exists /\ obj.fin
  PROVE  /\ LogInv(n)'
         /\ TrustRoot(n)'.exists = obj.exists /\ TrustRoot(n)'.fin = obj.fin
         /\ trs'[n][1] = trs[n][1]
         /\ \A m \in Names \ {n} : trs'[m] = trs[m]
  <1> DEFINE log == trs[n]
             last == Len(log)
             e == [obj EXCEPT !.rv = TrustRoot(n).rv + 1]
             new == Append(log, e)
  <1>1. last \in Nat \ {0} /\ DOMAIN log = 1..last /\ TrustRoot(n) = log[last] /\ last \in DOMAIN log
    BY LogFacts
  <1>2. TrustRoot(n).rv \in Nat /\ \A i \in DOMAIN log : log[i].rv \in Nat
    BY LogFacts, LogTypes
  <1>3. e \in Objects /\ e.rv = TrustRoot(n).rv + 1 /\ e.exists = obj.exists /\ e.fin = obj.fin
    <2>1. TrustRoot(n).rv + 1 \in Nat
      BY <1>2
    <2> HIDE DEF TrustRoot
    <2> QED BY <2>1, ObjectUpdates, Zenon
  <1> HIDE DEF e
  <1>4. /\ Latest(new) = e /\ \A i \in 1..last : new[i] = log[i]
        /\ new[last + 1] = e /\ DOMAIN new = 1..(last + 1)
    BY <1>3, LogTypes, AppendLog
  <1>5. trs'[n] = new /\ (\A m \in Names \ {n} : trs'[m] = trs[m]) /\ TrustRoot(n)' = e
    <2>1. trs' = [trs EXCEPT ![n] = new]
      BY DEF Store, e
    <2> HIDE DEF new
    <2> QED BY <1>4, <2>1 DEF TypeOK, TrustRoot
  <1>6. \A i \in DOMAIN log : log[i].rv <= TrustRoot(n).rv
    <2>1. \A i \in DOMAIN log : i = last \/ i < last
      BY <1>1, SMTT(30)
    <2> QED BY <1>1, <1>2, <2>1 DEF LogInv
  <1> HIDE DEF new
  <1>7. LogInv(n)'
    <2>1. ASSUME NEW i \in 1..(last + 1), NEW j \in 1..(last + 1), i < j
          PROVE  new[i].rv < new[j].rv /\ (Active(new[i]) => new[j].exists /\ new[j].fin)
      <3>1. i \in DOMAIN log /\ new[i] = log[i]
        BY <1>1, <1>4, <2>1
      <3>2. CASE j = last + 1
        BY <1>2, <1>3, <1>4, <1>6, <3>1, <3>2
      <3>3. CASE j # last + 1
        <4>1. j \in DOMAIN log /\ new[j] = log[j]
          BY <1>1, <1>4, <3>3
        <4> QED BY <2>1, <3>1, <4>1 DEF LogInv
      <3> QED BY <3>2, <3>3
    <2> QED BY <1>4, <1>5, <2>1 DEF LogInv
  <1>8. trs'[n][1] = trs[n][1]
    BY <1>1, <1>4, <1>5
  <1> QED BY <1>3, <1>5, <1>7, <1>8

\* The same while the worker of the TrustRoot, if any, stands still.
LEMMA StoreKeepsInv ==
  ASSUME TypeOK, NEW n \in Names, RootInv(n),
         NEW obj \in Objects, Store(n, obj), pc' = pc, work' = work,
         TrustRoot(n).exists /\ TrustRoot(n).fin => obj.exists /\ obj.fin,
         NEW m \in Names, RootInv(m)
  PROVE  RootInv(m)'
  <1>1. (\E i \in DOMAIN trs[n] : Active(trs[n][i])) => obj.exists /\ obj.fin
    BY Held DEF RootInv
  <1>2. /\ LogInv(n)' /\ TrustRoot(n)'.exists = obj.exists /\ TrustRoot(n)'.fin = obj.fin
        /\ trs'[n][1] = trs[n][1] /\ \A k \in Names \ {n} : trs'[k] = trs[k]
    BY <1>1, StoreInv DEF RootInv
  <1>3. CASE m = n
    <2>1. WorkInv(n)'
      BY <1>2, ZenonT(30) DEF RootInv, WorkInv, InReconcileKind, InFinalizeKind
    <2>2. RequestInv(n)'
      BY DEF RootInv, RequestInv
    <2> QED BY <1>2, <1>3, <2>1, <2>2 DEF RootInv
  <1>4. CASE m # n
    BY <1>2, <1>4, Frame
  <1> QED BY <1>3, <1>4

LEMMA EnvironmentInv ==
  ASSUME TypeOK, Environment, Consistent, NEW m \in Names
  PROVE  RootInv(m)'
  <1>0. \A n \in Names : RootInv(n)
    BY DEF Consistent
  <1>1. ASSUME NEW n \in Names, CreateTrustRoot(n)
        PROVE  RootInv(m)'
    <2>1. PICK spec \in Specs : Store(n, NewTrustRoot(spec))
      BY <1>1 DEF CreateTrustRoot
    <2> QED BY <1>0, <1>1, <2>1, StoreKeepsInv, NewTrustRootType, Zenon DEF CreateTrustRoot
  <1>2. ASSUME NEW n \in Names, EditTrustRoot(n)
        PROVE  RootInv(m)'
    <2>1. PICK spec \in Specs : Store(n, [TrustRoot(n) EXCEPT !.gen = @ + 1, !.spec = spec])
      BY <1>2 DEF EditTrustRoot
    <2> DEFINE new == [TrustRoot(n) EXCEPT !.gen = @ + 1, !.spec = spec]
    <2>2. new \in Objects /\ new.exists = TrustRoot(n).exists /\ new.fin = TrustRoot(n).fin
      BY LogTypes, ObjectUpdates, Zenon
    <2>3. pc' = pc /\ work' = work
      BY <1>2 DEF EditTrustRoot
    <2> HIDE DEF new
    <2>4. Store(n, new)
      BY <2>1 DEF new
    <2> QED BY <1>0, <2>2, <2>3, <2>4, StoreKeepsInv
  <1>3. ASSUME NEW n \in Names, DeleteTrustRoot(n)
        PROVE  RootInv(m)'
    <2> DEFINE new == IF TrustRoot(n).fin THEN [TrustRoot(n) EXCEPT !.del = TRUE] ELSE Gone
    <2>1. new \in Objects /\ (TrustRoot(n).exists /\ TrustRoot(n).fin => new.exists /\ new.fin)
      BY LogTypes, ObjectUpdates, GoneType, Zenon
    <2>2. Store(n, new) /\ pc' = pc /\ work' = work
      BY <1>3 DEF DeleteTrustRoot
    <2> HIDE DEF new
    <2> QED BY <1>0, <2>1, <2>2, StoreKeepsInv
  <1>4. ASSUME NEW n \in Names, ChangeRemote(n)
        PROVE  RootInv(m)'
    BY <1>0, <1>4, Frame DEF ChangeRemote
  <1>5. CASE DeleteConfigMap
    BY <1>0, <1>5, Frame DEF DeleteConfigMap
  <1>6. CASE Restart
    <2>1. trs'[m] = <<TrustRoot(m)>> /\ pc'[m] = "idle"
      BY <1>6 DEF Restart
    <2>2. LogInv(m)'
      BY <2>1, LogTypes, SingletonLog DEF LogInv
    <2> QED BY <2>1, <2>2, IdleInv
  <1> QED BY <1>1, <1>2, <1>3, <1>4, <1>5, <1>6, Zenon DEF Environment

LEMMA DeliverInv ==
  ASSUME TypeOK, DeliverConfigMap \/ Resync \/ \E n \in Names : DeliverTrustRoot(n),
         NEW m \in Names, RootInv(m)
  PROVE  RootInv(m)'
  <1>1. CASE DeliverConfigMap \/ Resync
    BY <1>1, Frame DEF DeliverConfigMap, Resync
  <1>2. ASSUME NEW n \in Names, DeliverTrustRoot(n), m # n
        PROVE  RootInv(m)'
    BY <1>2, Frame DEF DeliverTrustRoot, TypeOK
  <1>3. ASSUME DeliverTrustRoot(m)
        PROVE  RootInv(m)'
    <2> DEFINE log == trs[m]
               new == trs'[m]
               last == Len(log)
    <2>1. last \in Nat /\ last > 1 /\ DOMAIN log = 1..last /\ \A i \in DOMAIN log : log[i].rv \in Nat
      BY <1>3, LogFacts DEF DeliverTrustRoot
    <2>2. new = Tail(log) /\ pc' = pc /\ work' = work
      BY <1>3 DEF DeliverTrustRoot, TypeOK
    <2>3. log \in Seq(Objects) /\ TrustRoot(m) = Latest(log) /\ TrustRoot(m)' = Latest(new)
      BY LogTypes DEF TrustRoot
    <2> HIDE DEF log, new
    <2>4. /\ DOMAIN new = 1..(last - 1) /\ TrustRoot(m)' = TrustRoot(m)
          /\ \A i \in DOMAIN new : new[i] = log[i + 1]
      BY <2>1, <2>2, <2>3, TailLog
    <2>5. \A i \in DOMAIN new : i + 1 \in DOMAIN log
      BY <2>1, <2>4
    <2> HIDE DEF last
    <2>6. LogInv(m)'
      <3>1. \A i, j \in DOMAIN new : i < j => i + 1 < j + 1
        BY <2>1, <2>4
      <3> QED BY <2>4, <2>5, <3>1 DEF RootInv, LogInv, log, new
    <2>7. WorkInv(m)'
      <3>1. new[1] = log[2] /\ 1 \in DOMAIN log /\ 2 \in DOMAIN log /\ log[1].rv < log[2].rv
        BY <2>1, <2>4 DEF RootInv, LogInv, log
      <3>2. work[m].obj.rv \in Nat
        BY LogTypes DEF Objects
      <3>3. InFinalizeKind(m) => work[m].obj.rv <= log[1].rv
        BY DEF RootInv, WorkInv, log
      <3>4. InFinalizeKind(m) => /\ work[m].obj.rv <= new[1].rv
                                 /\ work[m].obj.rv = new[1].rv => work[m].obj = new[1]
        BY <2>1, <3>1, <3>2, <3>3
      <3> QED BY <2>2, <2>4, <3>4, ZenonT(30)
              DEF RootInv, WorkInv, InReconcileKind, InFinalizeKind, new
    <2>8. RequestInv(m)'
      BY <2>2 DEF RootInv, RequestInv
    <2> QED BY <2>6, <2>7, <2>8 DEF RootInv
  <1> QED BY <1>1, <1>2, <1>3
\* A worker that finalizes and whose precondition on the resourceVersion is met
\* sees the only version there is.
LEMMA Fresh ==
  ASSUME TypeOK, NEW n \in Names, LogInv(n), WorkInv(n),
         InFinalizeKind(n), TrustRoot(n).rv = work[n].obj.rv
  PROVE  DOMAIN trs[n] = {1} /\ trs[n][1] = work[n].obj
  <1> DEFINE last == Len(trs[n])
  <1>1. /\ last \in Nat \ {0} /\ DOMAIN trs[n] = 1..last /\ TrustRoot(n) = trs[n][last]
        /\ \A i \in DOMAIN trs[n] : trs[n][i].rv \in Nat
        /\ 1 \in DOMAIN trs[n] /\ last \in DOMAIN trs[n]
    BY LogFacts
  <1>2. work[n].obj.rv <= trs[n][1].rv /\ (work[n].obj.rv = trs[n][1].rv => work[n].obj = trs[n][1])
    BY SMTT(30) DEF WorkInv
  <1>3. last = 1
    <2>1. last > 1 => trs[n][1].rv < trs[n][last].rv
      BY <1>1 DEF LogInv
    <2>2. work[n].obj.rv = trs[n][last].rv
      BY <1>1
    <2>3. trs[n][1].rv \in Nat /\ trs[n][last].rv \in Nat
      BY <1>1
    <2>4. ~(last > 1)
      BY <1>2, <2>1, <2>2, <2>3
    <2>5. last \in Nat \ {0}
      BY <1>1
    <2> HIDE DEF last
    <2> QED BY <2>4, <2>5
  <1> QED BY <1>1, <1>2, <1>3, SMTT(30)

LEMMA WorkerOthers ==
  ASSUME TypeOK, NEW n \in Names, Worker(n), NEW m \in Names \ {n}
  PROVE  trs'[m] = trs[m] /\ pc'[m] = pc[m] /\ work'[m] = work[m]
  <1> DEFINE Others == trs'[m] = trs[m] /\ pc'[m] = pc[m] /\ work'[m] = work[m]
  <1>1. CASE Reconcile(n)
    BY <1>1 DEF Reconcile, Goto, TypeOK
  <1>2. CASE GetKeys(n)
    <2>1. PICK label, locals : Goto(n, label, locals)
      BY <1>2, ZenonT(30) DEF GetKeys
    <2>2. trs' = trs
      BY <1>2 DEF GetKeys
    <2> QED BY <2>1, <2>2 DEF Goto, TypeOK
  <1>3. CASE ReadConfigMap(n)
    BY <1>3 DEF ReadConfigMap, Goto, TypeOK
  <1>4. CASE FinalizeKind(n)
    BY <1>4 DEF FinalizeKind, Goto, TypeOK
  <1>5. ASSUME NEW r \in Replies, SetFinalizer(n, r)
        PROVE  Others
    BY <1>5 DEF SetFinalizer, Goto, Finish, Store, TypeOK
  <1>6. ASSUME NEW r \in Replies, WriteConfigMap(n, r)
        PROVE  Others
    BY <1>6 DEF WriteConfigMap, Goto, TypeOK
  <1>7. ASSUME NEW r \in Replies, UpdateStatus(n, r)
        PROVE  Others
    BY <1>7, ZenonT(30) DEF UpdateStatus, Finish, Store, TypeOK
  <1>8. ASSUME NEW r \in Replies, RemoveEntry(n, r)
        PROVE  Others
    BY <1>8 DEF RemoveEntry, Goto, Finish, TypeOK
  <1>9. ASSUME NEW r \in Replies, ClearFinalizer(n, r)
        PROVE  Others
    BY <1>9 DEF ClearFinalizer, Finish, Store, TypeOK
  <1> QED BY <1>1, <1>2, <1>3, <1>4, <1>5, <1>6, <1>7, <1>8, <1>9, Zenon DEF Worker

LEMMA WorkerInv ==
  ASSUME TypeOK, NEW n \in Names, RootInv(n), Worker(n)
  PROVE  RootInv(n)'
  <1> DEFINE obj == work[n].obj
             log == trs[n]
  <1>0. obj \in Objects /\ obj.rv \in Nat /\ work[n] \in Locals /\ LogInv(n) /\ WorkInv(n) /\ RequestInv(n)
    BY LogTypes DEF Objects, RootInv
  \* A step within ReconcileKind or within FinalizeKind that changes no TrustRoot.
  <1>a. ASSUME UNCHANGED trs, work'[n].obj = obj, RequestInv(n)', pc'[n] # "setFinalizer",
               InReconcileKind(n)' => InReconcileKind(n), InFinalizeKind(n)' => InFinalizeKind(n)
        PROVE  RootInv(n)'
    <2>1. LogInv(n)' /\ TrustRoot(n)' = TrustRoot(n)
      BY <1>0, <1>a, SMTT(30) DEF LogInv, TrustRoot
    <2>2. WorkInv(n)'
      BY <1>0, <1>a, <2>1, ZenonT(30) DEF WorkInv
    <2> QED BY <1>a, <2>1, <2>2 DEF RootInv
  <1>1. CASE Reconcile(n)
    <2>1. CASE UNCHANGED <<pc, work>>
      BY <1>1, <2>1, Frame DEF Reconcile
    <2>2. CASE ~UNCHANGED <<pc, work>>
      <3>1. /\ trs' = trs /\ work'[n].obj = Head(log) /\ Head(log).exists
            /\ pc'[n] = IF Head(log).del THEN "finalizeKind" ELSE IF Head(log).fin THEN "reconcileKind"
                        ELSE "setFinalizer"
        BY <1>1, <2>2, NoWorkType, SMTT(30) DEF Reconcile, Goto, Locals, TypeOK
      <3>2. Head(log) = log[1] /\ 1 \in DOMAIN log /\ log[1].rv \in Nat
        BY LogFacts
      <3>3. pc'[n] = "reconcileKind" => TrustRoot(n).exists /\ TrustRoot(n).fin
        BY <1>0, <3>1, <3>2, Held DEF Active
      <3>4. TrustRoot(n)' = TrustRoot(n) /\ LogInv(n)'
        BY <1>0, <3>1, Zenon DEF TrustRoot, LogInv
      <3>5. log[1].rv <= log[1].rv
        BY <3>2
      <3> HIDE DEF log
      <3>6. WorkInv(n)'
        <4>1. trs'[n] = log /\ work'[n].obj = log[1]
          BY <3>1, <3>2 DEF log
        <4>2. CASE pc'[n] = "reconcileKind"
          BY <3>3, <3>4, <4>2 DEF WorkInv, InReconcileKind, InFinalizeKind
        <4>3. CASE pc'[n] # "reconcileKind"
          BY <3>1, <3>2, <3>5, <4>1, <4>3, SMTT(30) DEF WorkInv, InReconcileKind, InFinalizeKind
        <4> QED BY <4>2, <4>3
      <3>7. RequestInv(n)'
        BY <3>1 DEF RequestInv
      <3> QED BY <3>4, <3>6, <3>7 DEF RootInv
    <2> QED BY <2>1, <2>2
  <1>2. CASE GetKeys(n)
    <2> DEFINE keys == SigstoreKeys(n, obj.spec)
    <2>1. trs' = trs /\ pc[n] = "reconcileKind"
      BY <1>2 DEF GetKeys
    <2>2. \/ \E conds : Goto(n, "updateStatus", [work[n] EXCEPT !.err = TRUE, !.conds = conds])
          \/ /\ keys # "badKeys" /\ keys # "badLog"
             /\ \E conds : Goto(n, "readConfigMap", [work[n] EXCEPT !.keys = keys, !.conds = conds])
      BY <1>2, ZenonT(30) DEF GetKeys
    <2>3. keys # "badKeys" /\ keys # "badLog" => keys \in Vals
      BY <1>0, KeysType, SpecsAssumption DEF Objects
    <2> HIDE DEF keys
    <2>4. work'[n].obj = obj /\ pc'[n] \in {"updateStatus", "readConfigMap"}
          /\ (pc'[n] = "readConfigMap" => work'[n].keys \in Vals)
      <3>1. \A conds : /\ [work[n] EXCEPT !.err = TRUE, !.conds = conds].obj = obj
                       /\ [work[n] EXCEPT !.keys = keys, !.conds = conds].obj = obj
                       /\ [work[n] EXCEPT !.keys = keys, !.conds = conds].keys = keys
        BY <1>0, Zenon DEF Locals
      <3>2. \A label, locals : Goto(n, label, locals) => pc'[n] = label /\ work'[n] = locals
        BY DEF Goto, TypeOK
      <3> QED BY <2>2, <2>3, <3>1, <3>2, ZenonT(60)
    <2>5. RequestInv(n)'
      BY <2>4 DEF RequestInv
    <2> QED BY <1>a, <2>1, <2>4, <2>5 DEF InReconcileKind, InFinalizeKind
  <1>3. CASE ReadConfigMap(n)
    <2> DEFINE req == Request(n, Head(cmLog), work[n].keys)
    <2>1. trs' = trs /\ pc[n] = "readConfigMap"
      BY <1>3 DEF ReadConfigMap
    <2>2. work[n].keys \in Vals
      BY <1>0, <2>1 DEF RequestInv
    <2>3. req.op # "none" => OnlyOwnEntry(req, n) /\ req.value[n] \in Vals
      BY <2>2, RequestShape, LogTypes DEF Writes
    <2>4. \/ Goto(n, "updateStatus", [work[n] EXCEPT !.conds = MarkCMUpdatedOK(@)])
          \/ req.op # "none" /\ Goto(n, "writeConfigMap", [work[n] EXCEPT !.req = req])
      BY <1>3 DEF ReadConfigMap
    <2> HIDE DEF req
    <2>5. /\ work'[n].obj = obj /\ pc'[n] \in {"updateStatus", "writeConfigMap"}
          /\ pc'[n] = "writeConfigMap" => req.op # "none" /\ work'[n].req = req
      BY <1>0, <2>4 DEF Goto, TypeOK, Locals
    <2>6. RequestInv(n)'
      BY <2>3, <2>5 DEF RequestInv
    <2> QED BY <1>a, <2>1, <2>5, <2>6 DEF InReconcileKind, InFinalizeKind
  <1>4. CASE FinalizeKind(n)
    <2> DEFINE req == RemoveRequest(n, Head(cmLog))
    <2>1. trs' = trs /\ pc[n] = "finalizeKind"
      BY <1>4 DEF FinalizeKind
    <2>2. req.op # "none" => OnlyOwnEntry(req, n) /\ req.value[n] = None
      BY RemoveRequestShape, LogTypes DEF Writes
    <2>3. Goto(n, IF req.op = "none" THEN "clearFinalizer" ELSE "removeEntry", [work[n] EXCEPT !.req = req])
      BY <1>4 DEF FinalizeKind
    <2> HIDE DEF req
    <2>4. /\ work'[n].obj = obj /\ work'[n].req = req /\ pc'[n] \in {"clearFinalizer", "removeEntry"}
          /\ pc'[n] = "removeEntry" => req.op # "none"
      BY <1>0, <2>3 DEF Goto, TypeOK, Locals
    <2>5. RequestInv(n)'
      BY <2>2, <2>4 DEF RequestInv
    <2> QED BY <1>a, <2>1, <2>4, <2>5 DEF InReconcileKind, InFinalizeKind
  <1>5. ASSUME NEW r \in Replies, SetFinalizer(n, r)
        PROVE  RootInv(n)'
    <2> DEFINE new == [obj EXCEPT !.fin = TRUE]
    <2>1. pc[n] = "setFinalizer" /\ obj.exists
      BY <1>0, <1>5 DEF SetFinalizer, WorkInv
    <2>2. \/ UNCHANGED trs /\ Finish(n, TRUE)
          \/ /\ Store(n, new)
             /\ \/ Finish(n, TRUE)
                \/ \E locals : Goto(n, "reconcileKind", locals)
      BY <1>5, ZenonT(30) DEF SetFinalizer, Replies
    <2>3. new \in Objects /\ new.exists /\ new.fin
      BY <1>0, <2>1, ObjectUpdates, Zenon
    <2> HIDE DEF new
    <2>4. CASE UNCHANGED trs /\ Finish(n, TRUE)
      BY <1>0, <2>4, FinishType, IdleInv, ZenonT(30) DEF LogInv
    <2>5. CASE Store(n, new)
      <3>1. LogInv(n)' /\ TrustRoot(n)'.exists /\ TrustRoot(n)'.fin
        BY <1>0, <2>3, <2>5, StoreInv
      <3>2. CASE Finish(n, TRUE)
        BY <3>1, <3>2, FinishType, IdleInv, ZenonT(30)
      <3>3. CASE \E locals : Goto(n, "reconcileKind", locals)
        <4>1. pc'[n] = "reconcileKind"
          BY <3>3 DEF Goto, TypeOK
        <4> QED BY <3>1, <4>1 DEF RootInv, WorkInv, RequestInv, InReconcileKind, InFinalizeKind
      <3> QED BY <2>2, <2>4, <3>2, <3>3, ZenonT(60)
    <2> QED BY <2>2, <2>4, <2>5
  <1>6. ASSUME NEW r \in Replies, WriteConfigMap(n, r)
        PROVE  RootInv(n)'
    <2>1. trs' = trs /\ pc[n] = "writeConfigMap" /\ pc'[n] = "updateStatus" /\ work'[n].obj = obj
      BY <1>0, <1>6, SMTT(30) DEF WriteConfigMap, Goto, Locals, TypeOK
    <2>2. RequestInv(n)'
      BY <2>1 DEF RequestInv
    <2> QED BY <1>a, <2>1, <2>2 DEF InReconcileKind, InFinalizeKind
  <1>7. ASSUME NEW r \in Replies, UpdateStatus(n, r)
        PROVE  RootInv(n)'
    <2> DEFINE new == [TrustRoot(n) EXCEPT !.conds = work[n].conds, !.obs = obj.gen]
    <2>1. pc[n] = "updateStatus" /\ pc'[n] = "idle"
      BY <1>7, FinishType DEF UpdateStatus
    <2>2. TrustRoot(n).exists /\ TrustRoot(n).fin
      BY <1>0, <2>1 DEF WorkInv, InReconcileKind
    <2>3. new \in Objects /\ new.exists /\ new.fin
      <3>1. work[n].conds \in Statuses /\ obj.gen \in Nat
        <4> HIDE DEF obj
        <4>1. work[n].conds \in Statuses
          BY <1>0 DEF Locals
        <4>2. obj.gen \in Nat
          BY <1>0 DEF Objects
        <4> QED BY <4>1, <4>2
      <3>2. TrustRoot(n) \in Objects
        BY LogTypes
      <3>3. new \in Objects /\ new.exists = TrustRoot(n).exists /\ new.fin = TrustRoot(n).fin
        BY <3>1, <3>2, ObjectUpdates, ZenonT(60)
      <3> QED BY <2>2, <3>3, Zenon
    <2>4. UNCHANGED trs \/ Store(n, new)
      BY <1>7 DEF UpdateStatus
    <2> HIDE DEF new
    <2>5. LogInv(n)'
      <3>1. CASE UNCHANGED trs
        BY <1>0, <3>1 DEF LogInv
      <3>2. CASE Store(n, new)
        BY <1>0, <2>3, <3>2, StoreInv
      <3> QED BY <2>4, <3>1, <3>2
    <2> QED BY <2>1, <2>5, IdleInv
  <1>8. ASSUME NEW r \in Replies, RemoveEntry(n, r)
        PROVE  RootInv(n)'
    <2>1. trs' = trs /\ pc[n] = "removeEntry"
      BY <1>8 DEF RemoveEntry
    <2>2. CASE Finish(n, TRUE)
      BY <1>0, <2>1, <2>2, FinishType, IdleInv, ZenonT(30) DEF LogInv
    <2>3. CASE Goto(n, "clearFinalizer", work[n])
      <3>1. pc'[n] = "clearFinalizer" /\ work'[n] = work[n]
        BY <2>3 DEF Goto, TypeOK
      <3>2. RequestInv(n)'
        BY <3>1 DEF RequestInv
      <3> QED BY <1>a, <2>1, <3>1, <3>2 DEF InReconcileKind, InFinalizeKind
    <2> QED BY <1>8, <2>2, <2>3 DEF RemoveEntry
  <1>9. ASSUME NEW r \in Replies, ClearFinalizer(n, r)
        PROVE  RootInv(n)'
    <2>1. pc[n] = "clearFinalizer" /\ pc'[n] = "idle"
      BY <1>9, FinishType DEF ClearFinalizer
    <2>2. CASE UNCHANGED trs
      BY <1>0, <2>1, <2>2, IdleInv DEF LogInv
    <2>3. CASE Store(n, Gone) /\ TrustRoot(n).rv = obj.rv
      <3>1. DOMAIN log = {1} /\ log[1] = obj /\ obj.del
        BY <1>0, <2>1, <2>3, Fresh, ZenonT(30) DEF WorkInv, InFinalizeKind
      <3>2. ~\E i \in DOMAIN log : Active(log[i])
        BY <3>1 DEF Active
      <3>3. LogInv(n)'
        BY <1>0, <2>3, <3>2, GoneType, StoreInv
      <3> QED BY <2>1, <3>3, IdleInv
    <2> QED BY <1>9, <2>2, <2>3 DEF ClearFinalizer
  <1> QED BY <1>1, <1>2, <1>3, <1>4, <1>5, <1>6, <1>7, <1>8, <1>9, Zenon DEF Worker
LEMMA NextInv ==
  ASSUME TypeOK, Consistent, Next
  PROVE  Consistent'
  <1> SUFFICES ASSUME NEW m \in Names PROVE RootInv(m)'
    BY DEF Consistent
  <1>1. \A n \in Names : RootInv(n)
    BY DEF Consistent
  <1>2. CASE Environment
    BY <1>2, EnvironmentInv
  <1>3. CASE DeliverConfigMap \/ Resync \/ \E n \in Names : DeliverTrustRoot(n)
    BY <1>1, <1>3, DeliverInv
  <1>4. ASSUME NEW n \in Names, Worker(n)
        PROVE  RootInv(m)'
    <2>1. CASE m = n
      BY <1>1, <1>4, <2>1, WorkerInv
    <2>2. CASE m # n
      BY <1>1, <1>4, <2>2, WorkerOthers, Frame
    <2> QED BY <2>1, <2>2
  <1> QED BY <1>2, <1>3, <1>4, Zenon DEF Next

LEMMA InitInv == Init => Consistent
  <1> SUFFICES ASSUME Init, NEW n \in Names PROVE RootInv(n)
    BY DEF Consistent
  <1>1. pc[n] = "idle" /\ \E e : trs[n] = <<e>>
    BY DEF Init
  <1>2. LogInv(n)
    BY <1>1, SMTT(30) DEF LogInv
  <1> QED BY <1>1, <1>2 DEF RootInv, WorkInv, RequestInv, InReconcileKind, InFinalizeKind

\* The finalizer a worker relies on is there at the server, and a pending request
\* touches no entry but its own unless it replaces the whole of /data, whatever
\* the lag of the listers and the pattern of edits, faults and restarts.
THEOREM Consistency == Spec => []Consistent
  <1>1. TypeOK /\ Consistent /\ [Next]_vars => Consistent'
    <2>1. ASSUME Consistent, UNCHANGED vars PROVE Consistent'
      <3> SUFFICES ASSUME NEW n \in Names PROVE RootInv(n)'
        BY DEF Consistent
      <3> QED BY <2>1, Frame DEF vars, Consistent
    <2> QED BY <2>1, NextInv
  <1> QED BY <1>1, InitInv, TypeCorrect, PTL DEF Spec

-----------------------------------------------------------------------------
(* The entries.                                                             *)

\* What a pending request does to the ConfigMap, however it changed meanwhile.
LEMMA ServeEffect ==
  ASSUME TypeOK, NEW n \in Names, RequestInv(n), pc[n] \in {"writeConfigMap", "removeEntry"},
         NEW applied, Serve(work[n].req, applied)
  PROVE  /\ \A m \in Names \ {n} : \/ Cm'.data[m] = Cm.data[m]
                                   \/ Cm'.data[m] = None /\ work[n].req.path = DataPath
         /\ Cm'.data[n] \in {Cm.data[n], work[n].req.value[n]}
  <1> DEFINE req == work[n].req
             new == Apply(Cm, req)
  <1>1. req \in Requests /\ Cm \in ConfigMaps /\ OnlyOwnEntry(req, n) /\ n \in Keys
    BY LogTypes, NamesAssumption, SMTT(30) DEF RequestInv
  <1>2. /\ \A m \in Keys \ {n} : new.data[m] = Cm.data[m] \/ (new.data[m] = None /\ req.path = DataPath)
        /\ new.data[n] \in {Cm.data[n], req.value[n]}
    BY <1>1, ApplyEntries
  <1>3. Cm' = Cm \/ Cm' = new
    BY <1>1, ServeType
  <1> HIDE DEF new, req
  <1> QED BY <1>2, <1>3, NamesAssumption DEF req

\* The step that changes an entry, and what it changes it to.
EntryStep(n) ==
  \/ Cm'.data[n] = Cm.data[n]
  \/ ~Cm'.exists /\ Cm'.data[n] = None
  \/ \E m \in Names \ {n} : /\ pc[m] \in {"writeConfigMap", "removeEntry"}
                            /\ work[m].req.path = DataPath /\ Cm'.data[n] = None
  \/ pc[n] = "writeConfigMap" /\ Cm'.data[n] \in Vals
  \/ pc[n] = "removeEntry" /\ work[n].obj.del /\ Cm'.data[n] = None

LEMMA EveryEntryStep ==
  ASSUME TypeOK, Consistent, [Next]_vars, NEW n \in Names
  PROVE  EntryStep(n)
  <1>0. \A m \in Names : LogInv(m) /\ WorkInv(m) /\ RequestInv(m)
    BY DEF Consistent, RootInv
  <1>1. CASE UNCHANGED cmLog
    BY <1>1 DEF Cm, EntryStep
  <1>2. CASE Restart \/ DeliverConfigMap
    <2>1. CASE Restart
      BY <2>1, LogTypes, SingletonLog DEF Restart, Cm, EntryStep
    <2>2. CASE DeliverConfigMap
      BY <2>2, TailLog DEF DeliverConfigMap, Cm, TypeOK, EntryStep
    <2> QED BY <1>2, <2>1, <2>2
  <1>3. CASE DeleteConfigMap
    <2>1. Cm' = NoConfigMap
      BY <1>3, StoreConfigMapType, ConfigMapTypes DEF DeleteConfigMap
    <2> QED BY <2>1, NamesAssumption DEF NoConfigMap, EmptyData, EntryStep
  <1>4. ASSUME NEW m \in Names, NEW r \in Replies, WriteConfigMap(m, r) \/ RemoveEntry(m, r)
        PROVE  EntryStep(n)
    <2>1. /\ pc[m] \in {"writeConfigMap", "removeEntry"}
          /\ \E applied : Serve(work[m].req, applied)
      BY <1>4, Zenon DEF WriteConfigMap, RemoveEntry
    <2>2. /\ \A k \in Names \ {m} : \/ Cm'.data[k] = Cm.data[k]
                                    \/ Cm'.data[k] = None /\ work[m].req.path = DataPath
          /\ Cm'.data[m] \in {Cm.data[m], work[m].req.value[m]}
      BY <1>0, <2>1, ServeEffect, Zenon
    <2>3. CASE m # n
      <3>1. Cm'.data[n] = Cm.data[n] \/ (Cm'.data[n] = None /\ work[m].req.path = DataPath)
        BY <2>2, <2>3
      <3>2. m \in Names \ {n}
        BY <2>3
      <3> QED BY <2>1, <3>1, <3>2 DEF EntryStep
    <2>4. CASE m = n
      <3>1. pc[n] = "writeConfigMap" => work[n].req.value[n] \in Vals
        BY <1>0 DEF RequestInv
      <3>2. pc[n] = "removeEntry" => work[n].req.value[n] = None /\ work[n].obj.del
        BY <1>0 DEF RequestInv, WorkInv, InFinalizeKind
      <3> QED BY <2>1, <2>2, <2>4, <3>1, <3>2 DEF EntryStep
    <2> QED BY <2>3, <2>4
  <1>5. \/ UNCHANGED cmLog \/ Restart \/ DeliverConfigMap \/ DeleteConfigMap
        \/ \E m \in Names, r \in Replies : WriteConfigMap(m, r) \/ RemoveEntry(m, r)
    <2>1. CASE UNCHANGED vars
      BY <2>1 DEF vars
    <2>2. CASE Environment
      BY <2>2, Zenon DEF Environment, CreateTrustRoot, EditTrustRoot, DeleteTrustRoot, ChangeRemote
    <2>3. CASE DeliverConfigMap \/ Resync \/ \E m \in Names : DeliverTrustRoot(m)
      BY <2>3, Zenon DEF Resync, DeliverTrustRoot
    <2>4. ASSUME NEW m \in Names, Worker(m)
          PROVE  UNCHANGED cmLog \/ \E r \in Replies : WriteConfigMap(m, r) \/ RemoveEntry(m, r)
      BY <2>4, ZenonT(30) DEF Worker, Reconcile, GetKeys, ReadConfigMap, FinalizeKind, SetFinalizer,
                              UpdateStatus, ClearFinalizer
    <2> QED BY <2>1, <2>2, <2>3, <2>4, Zenon DEF Next
  <1> QED BY <1>1, <1>2, <1>3, <1>4, <1>5, Zenon

\* No late Create or Patch, however long fetching the keys took, brings back the
\* entry of a TrustRoot that was deleted (NoResurrection of TrustRootSync).
THEOREM EntriesAreNotResurrected == Spec => NoResurrection
  <1> DEFINE A == \A n \in Names : Cm.data[n] = None /\ Cm'.data[n] # None
                                     => TrustRoot(n).exists /\ TrustRoot(n).fin
  <1>1. TypeOK /\ Consistent /\ [Next]_vars => [A]_vars
    <2> SUFFICES ASSUME TypeOK, Consistent, [Next]_vars, NEW n \in Names,
                        Cm.data[n] = None, Cm'.data[n] # None
                 PROVE  TrustRoot(n).exists /\ TrustRoot(n).fin
      OBVIOUS
    <2>1. pc[n] = "writeConfigMap"
      BY EveryEntryStep DEF EntryStep
    <2> QED BY <2>1 DEF Consistent, RootInv, WorkInv, InReconcileKind
  <1> QED BY <1>1, TypeCorrect, Consistency, PTL DEF Spec, NoResurrection

\* A TrustRoot whose keys can no longer be had keeps the entry it has: the three
\* reasons EntryKept of TrustRootSync lists are the only ones.
THEOREM EntriesAreKept == Spec => EntryKept
  <1> DEFINE A == \A n \in Names : Cm.data[n] # None /\ Cm'.data[n] = None =>
                    \/ pc[n] = "removeEntry" /\ work[n].obj.del
                    \/ ~Cm'.exists
                    \/ \E m \in Names \ {n} : pc[m] \in {"writeConfigMap", "removeEntry"} /\ work[m].req.path = DataPath
  <1>1. TypeOK /\ Consistent /\ [Next]_vars => [A]_vars
    <2> SUFFICES ASSUME TypeOK, Consistent, [Next]_vars PROVE A
      OBVIOUS
    <2> SUFFICES ASSUME NEW n \in Names, Cm.data[n] # None, Cm'.data[n] = None
                 PROVE  \/ pc[n] = "removeEntry" /\ work[n].obj.del
                        \/ ~Cm'.exists
                        \/ \E m \in Names \ {n} : /\ pc[m] \in {"writeConfigMap", "removeEntry"}
                                                  /\ work[m].req.path = DataPath
      OBVIOUS
    <2>1. EntryStep(n)
      BY EveryEntryStep
    <2>2. None \notin Vals
      BY SpecsAssumption
    <2> QED BY <2>1, <2>2, Zenon DEF EntryStep
  <1> QED BY <1>1, TypeCorrect, Consistency, PTL DEF Spec, EntryKept
=============================================================================
