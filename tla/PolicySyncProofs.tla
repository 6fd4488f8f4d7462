-------------------------- MODULE PolicySyncProofs --------------------------
(* Proofs about PolicySync, for every set of CIPs and every bound.          *)
EXTENDS PolicySync, TLAPS

-----------------------------------------------------------------------------
(* Logs.                                                                    *)

LEMMA LatestType ==
  ASSUME NEW S, NEW s \in Seq(S), s # <<>>
  PROVE  Len(s) \in Nat \ {0} /\ Latest(s) \in S /\ s[1] \in S /\ Head(s) = s[1]
         /\ DOMAIN s = 1..Len(s)
  BY DEF Latest

LEMMA AppendLog ==
  ASSUME NEW S, NEW s \in Seq(S), s # <<>>, NEW e \in S
  PROVE  /\ Append(s, e) \in Seq(S) /\ Append(s, e) # <<>>
         /\ Latest(Append(s, e)) = e
         /\ Len(Append(s, e)) = Len(s) + 1
         /\ \A i \in 1..Len(s) : Append(s, e)[i] = s[i]
         /\ Append(s, e)[Len(s) + 1] = e
         /\ DOMAIN Append(s, e) = 1..(Len(s) + 1)
  BY DEF Latest

LEMMA TailLog ==
  ASSUME NEW S, NEW s \in Seq(S), Len(s) > 1
  PROVE  /\ Tail(s) \in Seq(S) /\ Tail(s) # <<>>
         /\ Latest(Tail(s)) = Latest(s)
         /\ Len(Tail(s)) = Len(s) - 1
         /\ \A i \in 1..(Len(s) - 1) : Tail(s)[i] = s[i + 1]
         /\ DOMAIN Tail(s) = 1..(Len(s) - 1)
  <1>1. Len(s) \in Nat /\ Tail(s) \in Seq(S) /\ Len(Tail(s)) = Len(s) - 1
    OBVIOUS
  <1>2. \A i \in 1..(Len(s) - 1) : Tail(s)[i] = s[i + 1]
    OBVIOUS
  <1> DEFINE t == Tail(s)
  <1> HIDE DEF t
  <1>3. t \in Seq(S) /\ Len(t) = Len(s) - 1
    BY <1>1 DEF t
  <1>5. t # <<>> /\ DOMAIN t = 1..(Len(s) - 1)
    BY <1>3
  <1>4. Latest(Tail(s)) = Latest(s)
    BY <1>1, <1>2 DEF Latest
  <1> QED BY <1>1, <1>2, <1>4, <1>5 DEF t

LEMMA SingletonLog ==
  ASSUME NEW S, NEW e \in S
  PROVE  /\ <<e>> \in Seq(S) /\ <<e>> # <<>>
         /\ Latest(<<e>>) = e /\ Len(<<e>>) = 1 /\ <<e>>[1] = e /\ DOMAIN <<e>> = 1..1
  BY DEF Latest

-----------------------------------------------------------------------------
(* Requests.                                                                *)

LEMMA EmptyDataType == EmptyData \in Data
  BY DEF EmptyData, Data

LEMMA NoPatchType == NoPatch \in Requests
  BY EmptyDataType DEF NoPatch, Requests, Ops

LEMMA JSONPatchType ==
  ASSUME NEW n \in Keys, NEW before \in Data, NEW after \in Data
  PROVE  JSONPatch(before, after, n) \in Requests
  BY NoPatchType DEF JSONPatch, Requests, Ops

LEMMA ApplyType ==
  ASSUME NEW cm \in ConfigMaps, NEW req \in Requests
  PROVE  Apply(cm, req) \in ConfigMaps
  <1>1. cm.data \in Data /\ req.value \in Data /\ req.path \in Keys \cup {DataPath}
    BY DEF ConfigMaps, Requests
  <1>2. CASE req.path = DataPath
    BY <1>1, <1>2 DEF Apply, ConfigMapOf, ConfigMaps
  <1>3. CASE req.path # DataPath
    <2>1. [cm.data EXCEPT ![req.path] = req.value[req.path]] \in Data
      BY <1>1, <1>3 DEF Data
    <2> QED BY <2>1, <1>3 DEF Apply, ConfigMapOf, ConfigMaps
  <1> QED BY <1>2, <1>3

\* Whatever ConfigMap a request reaches, the other entries stay or are dropped.
LEMMA ApplyOwnEntry ==
  ASSUME NEW n \in Keys, NEW cm \in ConfigMaps, NEW req \in Requests, OnlyOwnEntry(req, n)
  PROVE  /\ \A k \in Keys \ {n} : Apply(cm, req).data[k] \in {cm.data[k], None}
         /\ Apply(cm, req).data[n] \in {cm.data[n], req.value[n]}
  BY PathAssumption DEF Apply, ConfigMapOf, ConfigMaps, Requests, Data, OnlyOwnEntry

LEMMA JSONPatchOwnEntry ==
  ASSUME NEW n \in Keys, NEW before \in Data, NEW after \in Data,
         \A k \in Keys \ {n} : after[k] = before[k]
  PROVE  /\ OnlyOwnEntry(JSONPatch(before, after, n), n)
         /\ JSONPatch(before, after, n).value[n] \in {after[n], None}
  <1>1. CASE before = after
    BY <1>1 DEF JSONPatch, NoPatch, EmptyData, OnlyOwnEntry
  <1>2. CASE before # after
    <2> DEFINE req == JSONPatch(before, after, n)
    <2>1. req.value = after /\ req.path = (IF before = EmptyData \/ after = EmptyData THEN DataPath ELSE n)
      BY <1>2 DEF JSONPatch
    <2>2. req.path = DataPath => \A k \in Keys \ {n} : after[k] = None
      BY <2>1, PathAssumption, Zenon DEF EmptyData
    <2> QED BY <2>1, <2>2 DEF OnlyOwnEntry
  <1> QED BY <1>1, <1>2

LEMMA CreatePatchOwnEntry ==
  ASSUME NEW n \in Keys, NEW seen \in Data, NEW e \in [rv : Nat, val : Vals \cup {None}]
  PROVE  /\ CreatePatch(n, seen, e) \in Requests
         /\ OnlyOwnEntry(CreatePatch(n, seen, e), n)
         /\ CreatePatch(n, seen, e).value[n] \in {e, None}
  <1> DEFINE after == [seen EXCEPT ![n] = e]
  <1>1. after \in Data
    BY DEF Data
  <1>2. after[n] = e /\ \A k \in Keys \ {n} : after[k] = seen[k]
    BY DEF Data
  <1> HIDE DEF after
  <1>3. /\ OnlyOwnEntry(JSONPatch(seen, after, n), n)
        /\ JSONPatch(seen, after, n).value[n] \in {e, None}
        /\ JSONPatch(seen, after, n) \in Requests
    BY <1>1, <1>2, JSONPatchOwnEntry, JSONPatchType
  <1> QED BY <1>3 DEF CreatePatch, after

LEMMA CreateRemovePatchOwnEntry ==
  ASSUME NEW n \in Keys, NEW seen \in Data
  PROVE  /\ CreateRemovePatch(n, seen) \in Requests
         /\ OnlyOwnEntry(CreateRemovePatch(n, seen), n)
         /\ CreateRemovePatch(n, seen).value[n] = None
  <1> DEFINE after == [seen EXCEPT ![n] = None]
  <1>1. after \in Data
    BY DEF Data
  <1>2. after[n] = None /\ \A k \in Keys \ {n} : after[k] = seen[k]
    BY DEF Data
  <1> HIDE DEF after
  <1>3. /\ OnlyOwnEntry(JSONPatch(seen, after, n), n)
        /\ JSONPatch(seen, after, n).value[n] \in {None}
        /\ JSONPatch(seen, after, n) \in Requests
    BY <1>1, <1>2, JSONPatchOwnEntry, JSONPatchType
  <1> QED BY <1>3 DEF CreateRemovePatch, after

LEMMA NewConfigMapOwnEntry ==
  ASSUME NEW n \in Keys, NEW e \in [rv : Nat, val : Vals \cup {None}]
  PROVE  /\ NewConfigMap(n, e) \in Requests
         /\ OnlyOwnEntry(NewConfigMap(n, e), n)
         /\ NewConfigMap(n, e).value[n] = e
  <1>1. [EmptyData EXCEPT ![n] = e] \in Data
    BY EmptyDataType DEF Data
  <1> QED BY <1>1 DEF NewConfigMap, Requests, Ops, EmptyData, OnlyOwnEntry, Data

-----------------------------------------------------------------------------
(* Types.                                                                   *)

CipsType == cips \in [Names -> Seq(Objects)] /\ \A n \in Names : cips[n] # <<>>
CmLogType == cmLog \in Seq(ConfigMaps) /\ cmLog # <<>>
WorkType == pc \in [Names -> Labels] /\ work \in [Names -> Locals]

LEMMA TypeParts ==
  TypeOK <=> /\ CipsType /\ CmLogType /\ WorkType
             /\ src \in [Names -> Vals \cup Bads] /\ queue \subseteq Names /\ env \in Nat
  BY SMTT(30) DEF TypeOK, CipsType, CmLogType, WorkType

LEMMA UnknownType == Unknown \in [Conditions -> {"Unknown", "True", "False"}]
  BY DEF Unknown

LEMMA GoneType == \A rv \in Nat : Gone(rv) \in Objects
  BY UnknownType DEF Gone, Objects

LEMMA NewCIPType == NewCIP \in Objects
  <1>1. \A o \in Objects : [o EXCEPT !.exists = TRUE, !.gen = 1] \in Objects
    BY Zenon DEF Objects
  <1> QED BY <1>1, GoneType, Zenon DEF NewCIP

LEMMA NoWorkType == NoWork \in Locals
  BY GoneType, NoPatchType, UnknownType DEF NoWork, Locals

LEMMA ConfigMapTypes == NoConfigMap \in ConfigMaps /\ \A d \in Data : ConfigMapOf(d) \in ConfigMaps
  BY EmptyDataType DEF NoConfigMap, ConfigMapOf, ConfigMaps

LEMMA LogTypes ==
  ASSUME TypeOK, NEW n \in Names
  PROVE  /\ cips[n] \in Seq(Objects) /\ cips[n] # <<>>
         /\ Cip(n) \in Objects /\ Head(cips[n]) \in Objects /\ Cip(n).rv \in Nat
         /\ Cm \in ConfigMaps /\ Head(cmLog) \in ConfigMaps
         /\ work[n] \in Locals
  <1>1. cips[n] \in Seq(Objects) /\ cips[n] # <<>> /\ cmLog \in Seq(ConfigMaps) /\ cmLog # <<>>
        /\ work[n] \in Locals
    BY DEF TypeOK
  <1>2. Cip(n) \in Objects /\ Head(cips[n]) \in Objects
    BY <1>1, LatestType DEF Cip
  <1>3. Cm \in ConfigMaps /\ Head(cmLog) \in ConfigMaps
    BY <1>1, LatestType DEF Cm
  <1> QED BY <1>1, <1>2, <1>3, SMTT(30) DEF Objects

LEMMA StoreType ==
  ASSUME TypeOK, NEW n \in Names, NEW obj \in Objects, Store(n, obj)
  PROVE  CipsType'
  <1> DEFINE e == [obj EXCEPT !.rv = Cip(n).rv + 1]
  <1>1. e \in Objects
    <2>1. Cip(n).rv + 1 \in Nat
      BY LogTypes
    <2> HIDE DEF Cip
    <2> QED BY <2>1 DEF Objects
  <1>2. Append(cips[n], e) \in Seq(Objects) /\ Append(cips[n], e) # <<>>
    BY <1>1, LogTypes, AppendLog
  <1> QED BY <1>2, Zenon DEF Store, CipsType, TypeOK

LEMMA StoreConfigMapType ==
  ASSUME TypeOK, NEW cm \in ConfigMaps, StoreConfigMap(cm)
  PROVE  CmLogType'
  BY AppendLog DEF StoreConfigMap, CmLogType, TypeOK

LEMMA GotoType ==
  ASSUME TypeOK, NEW n \in Names, NEW label \in Labels, NEW locals \in Locals,
         Goto(n, label, locals)
  PROVE  WorkType'
  BY DEF Goto, WorkType, TypeOK

LEMMA FinishType ==
  ASSUME TypeOK, NEW n \in Names, NEW err, Finish(n, err)
  PROVE  WorkType' /\ queue' \subseteq Names
  BY NoWorkType DEF Finish, WorkType, TypeOK, Labels

LEMMA ServeType ==
  ASSUME TypeOK, NEW n \in Names, NEW req \in Requests, NEW applied, Serve(req, applied)
  PROVE  CmLogType'
  <1>1. Apply(Cm, req) \in ConfigMaps
    BY LogTypes, ApplyType
  <1>2. CASE UNCHANGED cmLog
    BY <1>2 DEF CmLogType, TypeOK
  <1>3. CASE StoreConfigMap(Apply(Cm, req))
    BY <1>1, <1>3, StoreConfigMapType
  <1> QED BY <1>2, <1>3 DEF Serve

LEMMA ReplyType ==
  ASSUME TypeOK, NEW r, NEW accepted, Reply(r, accepted)
  PROVE  env' \in Nat
  BY DEF Reply, EnvStep, TypeOK

\* The updates of a CIP's fields that the actions make.
LEMMA ObjectUpdates ==
  ASSUME NEW o \in Objects
  PROVE  /\ [o EXCEPT !.gen = @ + 1] \in Objects
         /\ [o EXCEPT !.del = TRUE] \in Objects
         /\ [o EXCEPT !.fin = TRUE] \in Objects
         /\ [o EXCEPT !.fin = TRUE, !.rv = @ + 1] \in Objects
  <1>1. [o EXCEPT !.gen = @ + 1] \in Objects
    <2>1. o.gen + 1 \in Nat
      BY DEF Objects
    <2>2. \A g \in Nat : [o EXCEPT !.gen = g] \in Objects
      BY DEF Objects
    <2> QED BY <2>1, <2>2
  <1>2. [o EXCEPT !.del = TRUE] \in Objects
    BY Zenon DEF Objects
  <1>3. [o EXCEPT !.fin = TRUE] \in Objects
    BY Zenon DEF Objects
  <1>4. [o EXCEPT !.fin = TRUE, !.rv = @ + 1] \in Objects
    <2>1. o.rv + 1 \in Nat
      BY DEF Objects
    <2>2. \A g \in Nat : [o EXCEPT !.fin = TRUE, !.rv = g] \in Objects
      BY Zenon DEF Objects
    <2> QED BY <2>1, <2>2, Zenon
  <1> QED BY <1>1, <1>2, <1>3, <1>4

LEMMA RelistType ==
  ASSUME TypeOK, Relist, env' \in Nat
  PROVE  TypeOK'
  <1>1. CipsType'
    <2>1. \A n \in Names : <<Cip(n)>> \in Seq(Objects) /\ <<Cip(n)>> # <<>>
      BY LogTypes, SingletonLog
    <2> QED BY <2>1 DEF Relist, CipsType
  <1>2. CmLogType'
    <2>1. Cm \in ConfigMaps
      BY LatestType DEF Cm, TypeOK
    <2> QED BY <2>1, SingletonLog DEF Relist, CmLogType
  <1>3. WorkType'
    BY NoWorkType DEF Relist, WorkType, Labels
  <1> QED BY <1>1, <1>2, <1>3 DEF Relist, TypeOK, CipsType, CmLogType, WorkType

LEMMA EnvironmentType ==
  ASSUME TypeOK, Environment
  PROVE  TypeOK'
  <1>1. ASSUME NEW n \in Names, CreateCIP(n)
        PROVE  TypeOK'
    <2>1. CipsType'
      BY <1>1, StoreType, NewCIPType DEF CreateCIP
    <2> QED BY <1>1, <2>1, TypeParts DEF CreateCIP, EnvStep, TypeOK, CipsType
  <1>2. ASSUME NEW n \in Names, EditCIP(n)
        PROVE  TypeOK'
    <2>1. CipsType'
      BY <1>2, StoreType, ObjectUpdates, LogTypes, Zenon DEF EditCIP
    <2> QED BY <1>2, <2>1 DEF EditCIP, EnvStep, TypeOK, CipsType
  <1>3. ASSUME NEW n \in Names, DeleteCIP(n)
        PROVE  TypeOK'
    <2>1. (IF Cip(n).fin THEN [Cip(n) EXCEPT !.del = TRUE] ELSE Gone(0)) \in Objects
      BY LogTypes, ObjectUpdates, GoneType, Zenon
    <2>2. CipsType'
      BY <1>3, <2>1, StoreType DEF DeleteCIP
    <2> QED BY <1>3, <2>2, SMTT(30) DEF DeleteCIP, EnvStep, TypeOK, CipsType
  <1>4. ASSUME NEW n \in Names, ChangeSource(n)
        PROVE  TypeOK'
    BY <1>4 DEF ChangeSource, EnvStep, TypeOK
  <1>5. CASE DeleteConfigMap
    <2>1. CmLogType'
      BY <1>5, StoreConfigMapType, ConfigMapTypes DEF DeleteConfigMap
    <2> QED BY <1>5, <2>1 DEF DeleteConfigMap, EnvStep, TypeOK, CmLogType
  <1>6. CASE Restart
    <2>1. env' \in Nat
      BY <1>6 DEF Restart, EnvStep, TypeOK
    <2> QED BY <1>6, <2>1, RelistType DEF Restart
  <1>7. CASE GlobalResync
    BY <1>7 DEF GlobalResync, EnvStep, TypeOK
  <1> QED BY <1>1, <1>2, <1>3, <1>4, <1>5, <1>6, <1>7 DEF Environment

LEMMA DeliverType ==
  ASSUME TypeOK, DeliverConfigMap \/ \E n \in Names : DeliverCIP(n)
  PROVE  TypeOK'
  <1>1. CASE DeliverConfigMap
    <2>1. CmLogType'
      BY <1>1, TailLog DEF DeliverConfigMap, CmLogType, TypeOK
    <2> QED BY <1>1, <2>1 DEF DeliverConfigMap, TypeOK, CmLogType
  <1>2. ASSUME NEW n \in Names, DeliverCIP(n)
        PROVE  TypeOK'
    <2>1. Tail(cips[n]) \in Seq(Objects) /\ Tail(cips[n]) # <<>>
      BY <1>2, TailLog, LogTypes DEF DeliverCIP
    <2> QED BY <1>2, <2>1 DEF DeliverCIP, TypeOK
  <1> QED BY <1>1, <1>2

LEMMA EntryType ==
  ASSUME NEW obj \in Objects, NEW v \in Vals
  PROVE  Entry(obj, v) \in [rv : Nat, val : Vals \cup {None}] /\ Entry(obj, v).rv = obj.rv
  BY DEF Entry, Objects

\* The request of ReconcileKind, whatever the lister shows it.
LEMMA RequestShape ==
  ASSUME TypeOK, NEW n \in Names
  PROVE  /\ Request(n) \in Requests
         /\ OnlyOwnEntry(Request(n), n)
         /\ Request(n).value[n] # None => Request(n).value[n].rv = work[n].obj.rv
  <1> DEFINE seen == Head(cmLog)
             entry == Entry(work[n].obj, src[n])
  <1>1. n \in Keys
    BY NamesAssumption
  <1>2. seen.data \in Data
    BY LogTypes DEF ConfigMaps
  <1>3. src[n] \in Vals => /\ entry \in [rv : Nat, val : Vals \cup {None}]
                           /\ entry.rv = work[n].obj.rv
    BY LogTypes, EntryType DEF Locals
  <1> HIDE DEF seen, entry
  <1>4. CASE src[n] \in Vals /\ seen.exists
    <2>1. Request(n) = CreatePatch(n, seen.data, entry)
      BY <1>4 DEF Request, seen, entry
    <2> QED BY <1>1, <1>2, <1>3, <1>4, <2>1, CreatePatchOwnEntry
  <1>5. CASE src[n] \in Vals /\ ~seen.exists
    <2>1. Request(n) = NewConfigMap(n, entry)
      BY <1>5 DEF Request, seen, entry
    <2> QED BY <1>1, <1>3, <1>5, <2>1, NewConfigMapOwnEntry
  <1>6. CASE src[n] \notin Vals /\ seen.exists
    <2>1. Request(n) = CreateRemovePatch(n, seen.data)
      BY <1>6 DEF Request, seen
    <2> QED BY <1>1, <1>2, <2>1, CreateRemovePatchOwnEntry
  <1>7. CASE src[n] \notin Vals /\ ~seen.exists
    <2>1. Request(n) = NoPatch
      BY <1>7 DEF Request, seen
    <2> QED BY <1>1, <2>1, NoPatchType DEF NoPatch, EmptyData, OnlyOwnEntry
  <1> QED BY <1>4, <1>5, <1>6, <1>7

LEMMA WorkerType ==
  ASSUME TypeOK, NEW n \in Names, Worker(n)
  PROVE  TypeOK'
  <1> DEFINE w == work[n]
             obj == w.obj
  <1>0. w \in Locals /\ obj \in Objects /\ w.req \in Requests
    BY LogTypes DEF Locals
  <1> USE DEF Labels
  <1> HIDE DEF w, obj
  <1>1. CASE Reconcile(n)
    <2>1. [NoWork EXCEPT !.obj = Head(cips[n])] \in Locals
      BY LogTypes, NoWorkType DEF Locals
    <2>2. WorkType'
      <3>1. CASE UNCHANGED <<pc, work>>
        BY <3>1 DEF WorkType, TypeOK
      <3>2. CASE ~UNCHANGED <<pc, work>>
        BY <1>1, <2>1, <3>2, GotoType DEF Reconcile
      <3> QED BY <3>1, <3>2
    <2> QED BY <1>1, <2>2 DEF Reconcile, TypeOK, WorkType
  <1>2. CASE ReconcileKind(n)
    <2>1. Request(n) \in Requests
      BY RequestShape
    <2>2. Marked(n, obj.conds) \in [Conditions -> {"Unknown", "True", "False"}]
      <3>1. obj.conds \in [Conditions -> {"Unknown", "True", "False"}]
        BY <1>0 DEF Objects
      <3> QED BY <3>1 DEF Marked, Conditions
    <2>3. [w EXCEPT !.req = Request(n), !.err = src[n] \notin Vals, !.conds = Marked(n, obj.conds)]
            \in Locals
      BY <1>0, <2>1, <2>2, Zenon DEF Locals
    <2>4. WorkType'
      BY <1>2, <2>3, GotoType DEF ReconcileKind, w, obj
    <2> QED BY <1>2, <2>4 DEF ReconcileKind, TypeOK, WorkType
  <1>3. CASE FinalizeKind(n)
    <2> DEFINE req == IF Head(cmLog).exists THEN CreateRemovePatch(n, Head(cmLog).data) ELSE NoPatch
    <2>1. req \in Requests
      BY LogTypes, NoPatchType, CreateRemovePatchOwnEntry, NamesAssumption DEF ConfigMaps
    <2> HIDE DEF req
    <2>2. [w EXCEPT !.req = req] \in Locals
      BY <1>0, <2>1 DEF Locals
    <2>3. WorkType'
      BY <1>3, <2>2, GotoType DEF FinalizeKind, w, req
    <2> QED BY <1>3, <2>3 DEF FinalizeKind, TypeOK, WorkType
  <1>4. ASSUME NEW r \in Replies, SetFinalizer(n, r)
        PROVE  TypeOK'
    <2>1. CipsType'
      <3>1. CASE UNCHANGED cips
        BY <3>1 DEF CipsType, TypeOK
      <3>2. CASE Store(n, [obj EXCEPT !.fin = TRUE])
        BY <1>0, <3>2, StoreType, ObjectUpdates, Zenon
      <3> QED BY <1>4, <3>1, <3>2 DEF SetFinalizer, w, obj
    <2>2. WorkType' /\ queue' \subseteq Names
      <3>1. CASE Finish(n, TRUE)
        BY <3>1, FinishType, ZenonT(30)
      <3>2. CASE /\ Goto(n, "reconcileKind", [w EXCEPT !.obj = [obj EXCEPT !.fin = TRUE, !.rv = @ + 1]])
                 /\ UNCHANGED queue
        <4>1. [w EXCEPT !.obj = [obj EXCEPT !.fin = TRUE, !.rv = @ + 1]] \in Locals
          BY <1>0, ObjectUpdates, Zenon DEF Locals
        <4> QED BY <3>2, <4>1, GotoType DEF TypeOK
      <3> QED BY <1>4, <3>1, <3>2, Zenon DEF SetFinalizer, w, obj
    <2>3. env' \in Nat
      BY <1>4, ReplyType DEF SetFinalizer
    <2> QED BY <1>4, <2>1, <2>2, <2>3 DEF SetFinalizer, TypeOK, CipsType, WorkType
  <1>5. ASSUME NEW r \in Replies, WriteConfigMap(n, r)
        PROVE  TypeOK'
    <2>1. CmLogType'
      BY <1>0, <1>5, ServeType DEF WriteConfigMap, w
    <2>2. WorkType'
      <3> DEFINE ok == Accepts(Cm, w.req) /\ r = "ok"
                 marked == [w EXCEPT !.err = ~ok,
                                     !.conds["ConfigMapUpdated"] = IF ok THEN "True" ELSE "False"]
      <3>1. marked \in Locals
        <4>1. \A b \in BOOLEAN, v \in {"True", "False"} :
                [w EXCEPT !.err = b, !.conds["ConfigMapUpdated"] = v] \in Locals
          BY <1>0, Zenon DEF Locals, Conditions
        <4> QED BY <4>1, Zenon
      <3>2. (IF w.err THEN w ELSE marked) \in Locals
        BY <1>0, <3>1
      <3> QED BY <1>5, <3>2, GotoType, SMTT(30) DEF WriteConfigMap, w
    <2>3. env' \in Nat
      BY <1>5, ReplyType DEF WriteConfigMap
    <2> QED BY <1>5, <2>1, <2>2, <2>3 DEF WriteConfigMap, TypeOK, CmLogType, WorkType
  <1>6. ASSUME NEW r \in Replies, UpdateStatus(n, r)
        PROVE  TypeOK'
    <2> DEFINE desired == [Cip(n) EXCEPT !.conds = w.conds, !.obs = obj.gen]
    <2>1. CipsType'
      <3>1. CASE UNCHANGED cips
        BY <3>1 DEF CipsType, TypeOK
      <3>2. CASE Store(n, desired)
        <4>1. w.conds \in [Conditions -> {"Unknown", "True", "False"}] /\ obj.gen \in Nat
          BY <1>0 DEF Locals, Objects
        <4>2. \A o \in Objects : [o EXCEPT !.conds = w.conds, !.obs = obj.gen] \in Objects
          BY <4>1, Zenon DEF Objects
        <4> QED BY <3>2, <4>2, LogTypes, StoreType, Zenon
      <3> QED BY <1>6, <3>1, <3>2 DEF UpdateStatus, w, obj
    <2>2. WorkType' /\ queue' \subseteq Names
      BY <1>6, FinishType DEF UpdateStatus
    <2>3. env' \in Nat
      BY <1>6, ReplyType DEF UpdateStatus
    <2> QED BY <1>6, <2>1, <2>2, <2>3 DEF UpdateStatus, TypeOK, CipsType, WorkType
  <1>7. ASSUME NEW r \in Replies, RemoveEntry(n, r)
        PROVE  TypeOK'
    <2>1. CmLogType'
      BY <1>0, <1>7, ServeType DEF RemoveEntry, w
    <2>2. WorkType' /\ queue' \subseteq Names
      <3>1. CASE Finish(n, TRUE)
        BY <3>1, FinishType, Zenon
      <3>2. CASE Goto(n, "clearFinalizer", w) /\ UNCHANGED queue
        BY <1>0, <3>2, GotoType DEF TypeOK
      <3> QED BY <1>7, <3>1, <3>2, Zenon DEF RemoveEntry, w
    <2>3. env' \in Nat
      BY <1>7, ReplyType DEF RemoveEntry
    <2> QED BY <1>7, <2>1, <2>2, <2>3 DEF RemoveEntry, TypeOK, CmLogType, WorkType
  <1>8. ASSUME NEW r \in Replies, ClearFinalizer(n, r)
        PROVE  TypeOK'
    <2>1. CipsType'
      <3>1. CASE UNCHANGED cips
        BY <3>1 DEF CipsType, TypeOK
      <3>2. CASE Store(n, Gone(0))
        BY <3>2, StoreType, GoneType
      <3> QED BY <1>8, <3>1, <3>2 DEF ClearFinalizer
    <2>2. WorkType' /\ queue' \subseteq Names
      BY <1>8, FinishType DEF ClearFinalizer
    <2>3. env' \in Nat
      BY <1>8, ReplyType DEF ClearFinalizer
    <2> QED BY <1>8, <2>1, <2>2, <2>3 DEF ClearFinalizer, TypeOK, CipsType, WorkType
  <1> QED BY <1>1, <1>2, <1>3, <1>4, <1>5, <1>6, <1>7, <1>8 DEF Worker

\* Every variable of the reconciler keeps its type, and the listers are never
\* without a version (TypeOK of PolicySync).
THEOREM TypeCorrect == Spec => []TypeOK
  <1>1. Init => TypeOK
    <2> SUFFICES ASSUME Init PROVE TypeOK
      OBVIOUS
    <2>1. CipsType
      <3>1. \A n \in Names : (IF n \in queue THEN NewCIP ELSE Gone(0)) \in Objects
        BY NewCIPType, GoneType
      <3> QED BY <3>1, SingletonLog DEF Init, CipsType
    <2>2. CmLogType
      <3> DEFINE d == [k \in Keys |-> IF k \in Names THEN None ELSE ExampleEntry]
      <3>1. d \in Data
        BY DEF Data, ExampleEntry
      <3>2. ConfigMapOf(d) \in ConfigMaps /\ ConfigMapOf(EmptyData) \in ConfigMaps
        BY <3>1, ConfigMapTypes, EmptyDataType
      <3> HIDE DEF d
      <3>3. cmLog \in {<<NoConfigMap>>, <<ConfigMapOf(EmptyData)>>, <<ConfigMapOf(d)>>}
        BY DEF Init, d
      <3> QED BY <3>2, <3>3, ConfigMapTypes, SingletonLog, ZenonT(30) DEF CmLogType
    <2>3. WorkType
      BY NoWorkType DEF Init, WorkType, Labels
    <2> QED BY <2>1, <2>2, <2>3 DEF Init, TypeOK, CipsType, CmLogType, WorkType
  <1>2. TypeOK /\ [Next]_vars => TypeOK'
    <2>1. TypeOK /\ UNCHANGED vars => TypeOK'
      BY DEF TypeOK, vars
    <2>2. ASSUME TypeOK, NEW n \in Names, Panic(n) PROVE TypeOK'
      <3>1. env' \in Nat
        BY <2>2 DEF Panic, TypeOK
      <3> QED BY <2>2, <3>1, RelistType DEF Panic
    <2> QED BY <2>1, <2>2, EnvironmentType, DeliverType, WorkerType DEF Next
  <1> QED BY <1>1, <1>2, PTL DEF Spec

-----------------------------------------------------------------------------
(* The inductive invariant.                                                 *)

CIPInv(n) == LogInv(n) /\ WorkInv(n) /\ RequestInv(n) /\ EntryInv(n)

LEMMA LogFacts ==
  ASSUME TypeOK, NEW n \in Names
  PROVE  /\ Len(cips[n]) \in Nat \ {0} /\ DOMAIN cips[n] = 1..Len(cips[n])
         /\ Cip(n) = cips[n][Len(cips[n])] /\ Head(cips[n]) = cips[n][1]
         /\ \A i \in DOMAIN cips[n] : cips[n][i] \in Objects /\ cips[n][i].rv \in Nat
  <1>1. cips[n] \in Seq(Objects) /\ cips[n] # <<>>
    BY DEF TypeOK
  <1>2. /\ Len(cips[n]) \in Nat \ {0} /\ DOMAIN cips[n] = 1..Len(cips[n])
        /\ Head(cips[n]) = cips[n][1]
    BY <1>1, LatestType
  <1>3. \A i \in DOMAIN cips[n] : cips[n][i] \in Objects
    BY <1>1, <1>2
  <1> QED BY <1>2, <1>3 DEF Cip, Latest, Objects

\* A CIP with an active version, or whose worker reconciles it, has the finalizer.
LEMMA Held ==
  ASSUME TypeOK, NEW n \in Names, LogInv(n), WorkInv(n)
  PROVE  /\ (\E i \in DOMAIN cips[n] : Active(cips[n][i])) => Cip(n).exists /\ Cip(n).fin
         /\ InReconcileKind(n) => Cip(n).exists /\ Cip(n).fin
  <1> DEFINE log == cips[n]
             last == Len(log)
  <1>1. last \in Nat \ {0} /\ DOMAIN log = 1..last /\ Cip(n) = log[last]
    BY LogFacts
  <1>2. last \in DOMAIN log
    BY <1>1
  <1>3. ASSUME NEW i \in DOMAIN log, Active(log[i])
        PROVE  Cip(n).exists /\ Cip(n).fin
    <2>1. CASE i = last
      BY <1>1, <1>3, <2>1 DEF Active
    <2>2. CASE i < last
      BY <1>1, <1>2, <1>3, <2>2 DEF LogInv
    <2> QED BY <1>1, <2>1, <2>2
  <1>4. InReconcileKind(n) => Cip(n).exists /\ Cip(n).fin
    BY <1>1, <1>2 DEF WorkInv
  <1> QED BY <1>3, <1>4

\* Steps of other workers: a CIP loses its entry at worst.
LEMMA Frame ==
  ASSUME TypeOK, NEW n \in Names, CIPInv(n),
         cips'[n] = cips[n], pc'[n] = pc[n], work'[n] = work[n],
         Cm'.data[n] \in {Cm.data[n], None}
  PROVE  CIPInv(n)'
  <1>1. LogInv(n)'
    BY SMTT(30) DEF CIPInv, LogInv
  <1>2. WorkInv(n)'
    BY DEF CIPInv, WorkInv, InReconcileKind, InFinalizeKind, Cip
  <1>3. RequestInv(n)'
    BY DEF CIPInv, RequestInv
  <1>4. EntryInv(n)'
    BY DEF CIPInv, EntryInv, InReconcileKind, Cip
  <1> QED BY <1>1, <1>2, <1>3, <1>4 DEF CIPInv

\* The server stores a version that keeps the finalizer of active versions.
LEMMA StoreInv ==
  ASSUME TypeOK, NEW n \in Names, LogInv(n), EntryInv(n),
         NEW obj \in Objects, Store(n, obj), cmLog' = cmLog,
         (\E i \in DOMAIN cips[n] : Active(cips[n][i])) => obj.exists /\ obj.fin
  PROVE  /\ LogInv(n)'
         /\ Cm' = Cm
         /\ Cm.data[n] # None =>
              /\ Cm.data[n].rv <= Cip(n)'.rv
              /\ \A i \in DOMAIN cips'[n] : Active(cips'[n][i]) => Cm.data[n].rv <= cips'[n][i].rv
         /\ Cip(n)' = [obj EXCEPT !.rv = Cip(n).rv + 1]
         /\ Len(cips'[n]) = Len(cips[n]) + 1
         /\ DOMAIN cips'[n] = 1..(Len(cips[n]) + 1)
         /\ cips'[n][Len(cips[n]) + 1] = Cip(n)'
         /\ \A i \in DOMAIN cips[n] : cips'[n][i] = cips[n][i] /\ cips[n][i].rv <= Cip(n).rv
         /\ \A m \in Names \ {n} : cips'[m] = cips[m]
  <1> DEFINE log == cips[n]
             last == Len(log)
             e == [obj EXCEPT !.rv = Cip(n).rv + 1]
             new == Append(log, e)
  <1>1. last \in Nat \ {0} /\ DOMAIN log = 1..last /\ Cip(n) = log[last] /\ last \in DOMAIN log
    BY LogFacts
  <1>2. Cip(n).rv \in Nat /\ \A i \in DOMAIN log : log[i].rv \in Nat
    BY LogFacts, LogTypes
  <1>3. e \in Objects /\ e.rv = Cip(n).rv + 1 /\ e.exists = obj.exists /\ e.fin = obj.fin
    <2>1. \A r \in Nat : LET f == [obj EXCEPT !.rv = r]
                          IN f \in Objects /\ f.rv = r /\ f.exists = obj.exists /\ f.fin = obj.fin
      BY DEF Objects
    <2> HIDE DEF Cip
    <2> QED BY <1>2, <2>1
  <1> HIDE DEF e
  <1>4. /\ Latest(new) = e /\ Len(new) = last + 1 /\ \A i \in 1..last : new[i] = log[i]
        /\ new[last + 1] = e /\ DOMAIN new = 1..(last + 1)
    BY <1>3, LogTypes, AppendLog
  <1>5. cips'[n] = new /\ (\A m \in Names \ {n} : cips'[m] = cips[m]) /\ Cip(n)' = e
    <2>1. cips' = [cips EXCEPT ![n] = new]
      BY DEF Store, e
    <2> HIDE DEF new
    <2> QED BY <1>4, <2>1 DEF TypeOK, Cip
  <1>6. \A i \in DOMAIN log : log[i].rv <= Cip(n).rv
    <2>1. \A i \in DOMAIN log : i = last \/ i < last
      BY <1>1, SMTT(30)
    <2> QED BY <1>1, <1>2, <2>1 DEF LogInv
  <1> HIDE DEF new
  <1>7. LogInv(n)'
    <2>1. ASSUME NEW i \in 1..(last + 1), NEW j \in 1..(last + 1), i < j
          PROVE  new[i].rv < new[j].rv /\ (Active(new[i]) => new[j].exists /\ new[j].fin)
      <3>1. i \in DOMAIN log /\ new[i] = log[i]
        BY <1>1, <1>4, <2>1
      <3>2. CASE j = last + 1
        BY <1>2, <1>3, <1>4, <1>6, <3>1, <3>2
      <3>3. CASE j # last + 1
        <4>1. j \in DOMAIN log /\ new[j] = log[j]
          BY <1>1, <1>4, <3>3
        <4> QED BY <2>1, <3>1, <4>1 DEF LogInv
      <3> QED BY <3>2, <3>3
    <2> QED BY <1>4, <1>5, <2>1 DEF LogInv
  <1>8. Cm' = Cm
    BY DEF Cm
  <1>9. Cm.data[n] # None =>
          /\ Cm.data[n].rv <= e.rv
          /\ \A i \in 1..(last + 1) : Active(new[i]) => Cm.data[n].rv <= new[i].rv
    <2>1. Cm.data[n] # None => Cm.data[n].rv \in Nat
      <3>1. Cm.data \in Data /\ n \in Keys
        BY LogTypes, NamesAssumption DEF ConfigMaps
      <3> QED BY <3>1 DEF Data
    <2>2. Cm.data[n] # None => Cm.data[n].rv <= e.rv
      BY <1>2, <1>3, <2>1 DEF EntryInv
    <2>3. \A i \in 1..(last + 1) : i = last + 1 \/ (i \in DOMAIN log /\ new[i] = log[i])
      BY <1>1, <1>4
    <2> QED BY <1>4, <2>2, <2>3 DEF EntryInv
  <1> QED BY <1>1, <1>4, <1>5, <1>6, <1>7, <1>8, <1>9 DEF e

\* The same while the worker of the CIP, if any, stands still.
LEMMA StoreKeepsInv ==
  ASSUME TypeOK, NEW n \in Names, CIPInv(n),
         NEW obj \in Objects, Store(n, obj), cmLog' = cmLog, pc' = pc, work' = work,
         Cip(n).exists /\ Cip(n).fin => obj.exists /\ obj.fin
  PROVE  CIPInv(n)'
  <1> DEFINE last == Len(cips[n])
             e == Cip(n)'
  <1>1. last \in Nat \ {0} /\ DOMAIN cips[n] = 1..last /\ work[n].obj.rv \in Nat /\ Cip(n).rv \in Nat
    BY LogFacts, LogTypes DEF Locals, Objects
  <1>2. /\ (\E i \in DOMAIN cips[n] : Active(cips[n][i])) => obj.exists /\ obj.fin
        /\ InReconcileKind(n) => obj.exists /\ obj.fin
    BY Held DEF CIPInv
  <1>3. /\ LogInv(n)'
        /\ Cm' = Cm
        /\ Cm.data[n] # None =>
             /\ Cm.data[n].rv <= e.rv
             /\ \A i \in DOMAIN cips'[n] : Active(cips'[n][i]) => Cm.data[n].rv <= cips'[n][i].rv
        /\ e = [obj EXCEPT !.rv = Cip(n).rv + 1]
        /\ DOMAIN cips'[n] = 1..(last + 1)
        /\ cips'[n][last + 1] = e
        /\ \A i \in DOMAIN cips[n] : cips'[n][i] = cips[n][i] /\ cips[n][i].rv <= Cip(n).rv
    BY <1>2, StoreInv DEF CIPInv
  <1>4. e.rv = Cip(n).rv + 1 /\ e.exists = obj.exists /\ e.fin = obj.fin
    <2>1. \A r \in Nat : LET f == [obj EXCEPT !.rv = r]
                          IN f.rv = r /\ f.exists = obj.exists /\ f.fin = obj.fin
      BY DEF Objects
    <2> HIDE DEF Cip, e
    <2> QED BY <1>1, <1>3, <2>1
  <1> HIDE DEF e
  <1>5. WorkInv(n)'
    <2>1. cips'[n][1] = cips[n][1]
      BY <1>1, <1>3
    <2>2. InReconcileKind(n) =>
            /\ work[n].obj.rv <= e.rv
            /\ \A i \in 1..(last + 1) : IF cips'[n][i].rv >= work[n].obj.rv
                                          THEN cips'[n][i].exists /\ cips'[n][i].fin
                                          ELSE ~Active(cips'[n][i])
      <3>1. \A i \in 1..(last + 1) : i = last + 1 \/ (i \in DOMAIN cips[n] /\ cips'[n][i] = cips[n][i])
        BY <1>1, <1>3
      <3>2. InReconcileKind(n) => work[n].obj.rv <= e.rv
        BY <1>1, <1>4 DEF CIPInv, WorkInv
      <3> QED BY <1>1, <1>2, <1>3, <1>4, <3>1, <3>2, ZenonT(60) DEF CIPInv, WorkInv
    <2> QED BY <1>3, <2>1, <2>2 DEF CIPInv, WorkInv, InReconcileKind, InFinalizeKind, e
  <1>6. RequestInv(n)'
    BY DEF CIPInv, RequestInv
  <1>7. EntryInv(n)'
    BY <1>3 DEF CIPInv, EntryInv, InReconcileKind, e
  <1> QED BY <1>3, <1>5, <1>6, <1>7 DEF CIPInv

LEMMA StoreOthers ==
  ASSUME TypeOK, NEW n \in Names, NEW obj, Store(n, obj), NEW m \in Names \ {n}
  PROVE  cips'[m] = cips[m]
  BY DEF Store, TypeOK

LEMMA RelistInv ==
  ASSUME TypeOK, Relist, NEW m \in Names, CIPInv(m)
  PROVE  CIPInv(m)'
  <1>1. /\ cips'[m] = <<Cip(m)>> /\ DOMAIN cips'[m] = 1..1 /\ cips'[m][1] = Cip(m)
        /\ Cip(m)' = Cip(m)
    <2>1. cips'[m] = <<Cip(m)>>
      BY DEF Relist
    <2> QED BY <2>1, SingletonLog, LogTypes DEF Cip
  <1>2. Cm' = Cm
    BY LogTypes, SingletonLog DEF Relist, Cm
  <1>3. pc'[m] = "idle"
    BY DEF Relist
  <1>4. LogInv(m)'
    BY <1>1 DEF LogInv
  <1>5. WorkInv(m)' /\ RequestInv(m)'
    BY <1>3 DEF WorkInv, RequestInv, InReconcileKind, InFinalizeKind
  <1>6. EntryInv(m)'
    <2>1. Len(cips[m]) \in DOMAIN cips[m] /\ Cip(m) = cips[m][Len(cips[m])]
      BY LogFacts
    <2>2. Cm.data[m] # None => /\ Cm.data[m].rv <= Cip(m).rv
                               /\ Active(Cip(m)) => Cm.data[m].rv <= Cip(m).rv
      BY <2>1 DEF CIPInv, EntryInv
    <2> QED BY <1>1, <1>2, <1>3, <2>2 DEF EntryInv, InReconcileKind
  <1> QED BY <1>4, <1>5, <1>6 DEF CIPInv

LEMMA EnvironmentInv ==
  ASSUME TypeOK, Environment, NEW m \in Names, CIPInv(m)
  PROVE  CIPInv(m)'
  <1>1. ASSUME NEW n \in Names, CreateCIP(n)
        PROVE  CIPInv(m)'
    <2>1. CASE m = n
      BY <1>1, <2>1, StoreKeepsInv, NewCIPType DEF CreateCIP
    <2>2. CASE m # n
      <3>1. cips'[m] = cips[m]
        BY <1>1, <2>2, StoreOthers DEF CreateCIP
      <3> QED BY <1>1, <3>1, Frame DEF CreateCIP, Cm
    <2> QED BY <2>1, <2>2
  <1>2. ASSUME NEW n \in Names, EditCIP(n)
        PROVE  CIPInv(m)'
    <2> DEFINE new == [Cip(n) EXCEPT !.gen = @ + 1]
    <2>1. CASE m = n
      <3>1. new \in Objects
        BY LogTypes, ObjectUpdates, Zenon
      <3>2. new.exists = Cip(n).exists /\ new.fin = Cip(n).fin
        BY LogTypes DEF Objects
      <3> QED BY <1>2, <2>1, <3>1, <3>2, StoreKeepsInv, ZenonT(30) DEF EditCIP
    <2>2. CASE m # n
      <3>1. cips'[m] = cips[m]
        BY <1>2, <2>2, StoreOthers DEF EditCIP
      <3> QED BY <1>2, <3>1, Frame DEF EditCIP, Cm
    <2> QED BY <2>1, <2>2
  <1>3. ASSUME NEW n \in Names, DeleteCIP(n)
        PROVE  CIPInv(m)'
    <2> DEFINE new == IF Cip(n).fin THEN [Cip(n) EXCEPT !.del = TRUE] ELSE Gone(0)
    <2>1. CASE m = n
      <3>1. new \in Objects
        BY LogTypes, ObjectUpdates, GoneType, Zenon
      <3>2. Cip(n).exists /\ Cip(n).fin => new.exists /\ new.fin
        BY LogTypes DEF Objects
      <3> QED BY <1>3, <2>1, <3>1, <3>2, StoreKeepsInv, Zenon DEF DeleteCIP
    <2>2. CASE m # n
      <3>1. cips'[m] = cips[m]
        BY <1>3, <2>2, StoreOthers DEF DeleteCIP
      <3> QED BY <1>3, <3>1, Frame DEF DeleteCIP, Cm
    <2> QED BY <2>1, <2>2
  <1>4. ASSUME NEW n \in Names, ChangeSource(n)
        PROVE  CIPInv(m)'
    BY <1>4, Frame DEF ChangeSource, Cm
  <1>5. CASE DeleteConfigMap
    <2>1. Cm' = NoConfigMap
      BY <1>5, AppendLog, ConfigMapTypes DEF DeleteConfigMap, StoreConfigMap, Cm, TypeOK
    <2>2. Cm'.data[m] = None
      BY <2>1, NamesAssumption DEF NoConfigMap, EmptyData
    <2> QED BY <1>5, <2>2, Frame DEF DeleteConfigMap
  <1>6. CASE Restart
    BY <1>6, RelistInv DEF Restart
  <1>7. CASE GlobalResync
    BY <1>7, Frame DEF GlobalResync, Cm
  <1> QED BY <1>1, <1>2, <1>3, <1>4, <1>5, <1>6, <1>7 DEF Environment

LEMMA DeliverInv ==
  ASSUME TypeOK, DeliverConfigMap \/ \E n \in Names : DeliverCIP(n), NEW m \in Names, CIPInv(m)
  PROVE  CIPInv(m)'
  <1>1. CASE DeliverConfigMap
    <2>1. Cm' = Cm
      BY <1>1, TailLog DEF DeliverConfigMap, Cm, TypeOK
    <2> QED BY <1>1, <2>1, Frame DEF DeliverConfigMap
  <1>2. ASSUME NEW n \in Names, DeliverCIP(n), m # n
        PROVE  CIPInv(m)'
    BY <1>2, Frame DEF DeliverCIP, Cm, TypeOK
  <1>3. ASSUME DeliverCIP(m)
        PROVE  CIPInv(m)'
    <2> DEFINE log == cips[m]
               new == cips'[m]
               last == Len(log)
    <2>1. last \in Nat /\ last > 1 /\ DOMAIN log = 1..last /\ \A i \in DOMAIN log : log[i].rv \in Nat
      BY <1>3, LogFacts DEF DeliverCIP
    <2>2. new = Tail(log)
      BY <1>3 DEF DeliverCIP, TypeOK
    <2>0. log \in Seq(Objects) /\ Cip(m) = Latest(log) /\ Cip(m)' = Latest(new)
      BY LogTypes DEF Cip
    <2> HIDE DEF log, new
    <2>3. /\ DOMAIN new = 1..(last - 1) /\ Cip(m)' = Cip(m)
          /\ \A i \in DOMAIN new : new[i] = log[i + 1]
      BY <2>0, <2>1, <2>2, TailLog
    <2> USE DEF log, new
    <2>4. Cm' = Cm /\ pc' = pc /\ work' = work
      BY <1>3 DEF DeliverCIP, Cm
    <2>5. \A i \in DOMAIN new : i + 1 \in DOMAIN log
      BY <2>1, <2>3
    <2> HIDE DEF log, new, last
    <2>6. LogInv(m)'
      <3>1. \A i, j \in DOMAIN new : i < j => i + 1 < j + 1
        BY <2>1, <2>3
      <3> QED BY <2>3, <2>5, <3>1 DEF CIPInv, LogInv, log, new
    <2>7. WorkInv(m)'
      <3>1. new[1] = log[2] /\ 1 \in DOMAIN log /\ 2 \in DOMAIN log /\ log[1].rv < log[2].rv
        BY <2>1, <2>3 DEF CIPInv, LogInv, log, last
      <3>2. work[m].obj.rv \in Nat
        BY LogTypes DEF Locals, Objects
      <3>3. pc[m] = "setFinalizer" \/ InFinalizeKind(m) => work[m].obj.rv < new[1].rv
        BY <2>1, <3>1, <3>2 DEF CIPInv, WorkInv, log
      <3>4. pc[m] = "setFinalizer" \/ InFinalizeKind(m) =>
              /\ work[m].obj.rv <= new[1].rv
              /\ work[m].obj.rv = new[1].rv => work[m].obj = new[1]
        BY <2>1, <3>1, <3>2, <3>3
      <3> QED BY <2>3, <2>4, <2>5, <3>4, ZenonT(30)
              DEF CIPInv, WorkInv, InReconcileKind, InFinalizeKind, log, new
    <2>8. RequestInv(m)'
      BY <2>4 DEF CIPInv, RequestInv
    <2>9. EntryInv(m)'
      BY <2>3, <2>4, <2>5, SMTT(30) DEF CIPInv, EntryInv, InReconcileKind, log, new
    <2> QED BY <2>6, <2>7, <2>8, <2>9, ZenonT(30) DEF CIPInv
  <1> QED BY <1>1, <1>2, <1>3

\* What a pending request does to the ConfigMap, however it changed meanwhile.
LEMMA ServeEffect ==
  ASSUME TypeOK, NEW n \in Names, RequestInv(n), pc[n] \in {"writeConfigMap", "removeEntry"},
         NEW applied, Serve(work[n].req, applied)
  PROVE  /\ \A m \in Names \ {n} : Cm'.data[m] \in {Cm.data[m], None}
         /\ Cm'.data[n] \in {Cm.data[n], work[n].req.value[n]}
  <1> DEFINE req == work[n].req
             new == Apply(Cm, req)
  <1>1. req \in Requests /\ Cm \in ConfigMaps /\ OnlyOwnEntry(req, n)
    BY LogTypes, SMTT(30) DEF Locals, RequestInv
  <1>2. /\ \A m \in Names \ {n} : new.data[m] \in {Cm.data[m], None}
        /\ new.data[n] \in {Cm.data[n], req.value[n]}
    BY <1>1, ApplyOwnEntry, NamesAssumption
  <1>3. new \in ConfigMaps
    BY <1>1, ApplyType
  <1> HIDE DEF req, new
  <1>4. Cm' = Cm \/ Cm' = new
    <2>1. CASE cmLog' = cmLog
      BY <2>1 DEF Cm
    <2>2. CASE StoreConfigMap(new)
      BY <1>3, <2>2, AppendLog, SMTT(30) DEF StoreConfigMap, Cm, TypeOK
    <2> QED BY <2>1, <2>2 DEF Serve, req, new
  <1> QED BY <1>2, <1>4 DEF req

\* The worker of n leaves other CIPs alone, but may drop their entries.
LEMMA WorkerOthers ==
  ASSUME TypeOK, NEW n \in Names, RequestInv(n), Worker(n), NEW m \in Names \ {n}
  PROVE  /\ cips'[m] = cips[m] /\ pc'[m] = pc[m] /\ work'[m] = work[m]
         /\ Cm'.data[m] \in {Cm.data[m], None}
  <1>1. CASE Reconcile(n)
    BY <1>1 DEF Reconcile, Goto, Cm, TypeOK
  <1>2. CASE ReconcileKind(n)
    BY <1>2 DEF ReconcileKind, Goto, Cm, TypeOK
  <1>3. CASE FinalizeKind(n)
    BY <1>3 DEF FinalizeKind, Goto, Cm, TypeOK
  <1>4. ASSUME NEW r \in Replies, SetFinalizer(n, r)
        PROVE  /\ cips'[m] = cips[m] /\ pc'[m] = pc[m] /\ work'[m] = work[m] /\ Cm' = Cm
    BY <1>4 DEF SetFinalizer, Goto, Finish, Store, Cm, TypeOK
  <1>5. ASSUME NEW r \in Replies, WriteConfigMap(n, r)
        PROVE  /\ cips'[m] = cips[m] /\ pc'[m] = pc[m] /\ work'[m] = work[m]
               /\ Cm'.data[m] \in {Cm.data[m], None}
    <2>1. Cm'.data[m] \in {Cm.data[m], None}
      BY <1>5, ServeEffect, Zenon DEF WriteConfigMap, TypeOK
    <2> QED BY <1>5, <2>1 DEF WriteConfigMap, Goto, TypeOK
  <1>6. ASSUME NEW r \in Replies, UpdateStatus(n, r)
        PROVE  /\ cips'[m] = cips[m] /\ pc'[m] = pc[m] /\ work'[m] = work[m] /\ Cm' = Cm
    BY <1>6, Zenon DEF UpdateStatus, Finish, Store, Cm, TypeOK
  <1>7. ASSUME NEW r \in Replies, RemoveEntry(n, r)
        PROVE  /\ cips'[m] = cips[m] /\ pc'[m] = pc[m] /\ work'[m] = work[m]
               /\ Cm'.data[m] \in {Cm.data[m], None}
    <2>1. Cm'.data[m] \in {Cm.data[m], None}
      BY <1>7, ServeEffect, ZenonT(30) DEF RemoveEntry, TypeOK
    <2> QED BY <1>7, <2>1 DEF RemoveEntry, Goto, Finish, TypeOK
  <1>8. ASSUME NEW r \in Replies, ClearFinalizer(n, r)
        PROVE  /\ cips'[m] = cips[m] /\ pc'[m] = pc[m] /\ work'[m] = work[m] /\ Cm' = Cm
    BY <1>8 DEF ClearFinalizer, Finish, Store, Cm, TypeOK
  <1> QED BY <1>1, <1>2, <1>3, <1>4, <1>5, <1>6, <1>7, <1>8 DEF Worker

\* When the worker is done only the log and the entry matter.
LEMMA IdleInv ==
  ASSUME NEW n \in Names, pc'[n] = "idle", LogInv(n)',
         Cm'.data[n] # None =>
           /\ Cm'.data[n].rv <= Cip(n)'.rv
           /\ \A i \in DOMAIN cips'[n] : Active(cips'[n][i]) => Cm'.data[n].rv <= cips'[n][i].rv
  PROVE  CIPInv(n)'
  <1>1. WorkInv(n)' /\ RequestInv(n)'
    BY DEF WorkInv, RequestInv, InReconcileKind, InFinalizeKind
  <1>2. EntryInv(n)'
    BY DEF EntryInv, InReconcileKind
  <1> QED BY <1>1, <1>2 DEF CIPInv

\* A worker whose precondition on the resourceVersion is met sees the only
\* version there is.
LEMMA Fresh ==
  ASSUME TypeOK, NEW n \in Names, LogInv(n), WorkInv(n),
         pc[n] = "setFinalizer" \/ InFinalizeKind(n), Cip(n).rv = work[n].obj.rv
  PROVE  Len(cips[n]) = 1 /\ DOMAIN cips[n] = {1} /\ cips[n][1] = work[n].obj /\ Cip(n) = work[n].obj
  <1> DEFINE last == Len(cips[n])
  <1>1. /\ last \in Nat \ {0} /\ DOMAIN cips[n] = 1..last /\ Cip(n) = cips[n][last]
        /\ \A i \in DOMAIN cips[n] : cips[n][i].rv \in Nat
    BY LogFacts
  <1>2. 1 \in DOMAIN cips[n] /\ last \in DOMAIN cips[n]
    BY <1>1, SMTT(30)
  <1>3. work[n].obj.rv <= cips[n][1].rv /\ (work[n].obj.rv = cips[n][1].rv => work[n].obj = cips[n][1])
    BY SMTT(30) DEF WorkInv
  <1>4. last = 1
    <2>1. last > 1 => cips[n][1].rv < cips[n][last].rv
      BY <1>1, <1>2 DEF LogInv
    <2>2. work[n].obj.rv = cips[n][last].rv
      BY <1>1
    <2>3. cips[n][1].rv \in Nat /\ cips[n][last].rv \in Nat
      BY <1>1, <1>2
    <2>4. ~(last > 1)
      BY <1>3, <2>1, <2>2, <2>3
    <2>5. last \in Nat \ {0}
      BY <1>1
    <2> HIDE DEF last
    <2> QED BY <2>4, <2>5
  <1> QED BY <1>1, <1>3, <1>4, SMTT(30)

LEMMA WorkerInv ==
  ASSUME TypeOK, NEW n \in Names, CIPInv(n), Worker(n)
  PROVE  CIPInv(n)'
  <1> DEFINE obj == work[n].obj
             log == cips[n]
  <1>0. obj \in Objects /\ obj.rv \in Nat /\ Cip(n).rv \in Nat
    BY LogTypes DEF Locals, Objects
  <1>1. CASE Reconcile(n)
    <2>1. Cm' = Cm /\ cips' = cips
      BY <1>1 DEF Reconcile, Cm, TypeOK
    <2>2. CASE UNCHANGED <<pc, work>>
      BY <2>1, <2>2, Frame
    <2>3. CASE ~UNCHANGED <<pc, work>>
      <3>1. /\ work'[n].obj = Head(log) /\ Head(log).exists
            /\ pc'[n] = IF Head(log).del THEN "finalizeKind" ELSE IF Head(log).fin THEN "reconcileKind"
                        ELSE "setFinalizer"
        BY <1>1, <2>3, NoWorkType, SMTT(30) DEF Reconcile, Goto, Locals, TypeOK
      <3>2. /\ Len(log) \in Nat \ {0} /\ DOMAIN log = 1..Len(log) /\ Head(log) = log[1]
            /\ Cip(n) = log[Len(log)] /\ \A i \in DOMAIN log : log[i].rv \in Nat
        BY LogFacts, SMTT(30)
      <3>3. \A i \in DOMAIN log : /\ log[1].rv <= log[i].rv
                                  /\ Active(log[1]) => log[i].exists /\ log[i].fin
        <4> SUFFICES ASSUME NEW i \in DOMAIN log
                     PROVE  log[1].rv <= log[i].rv /\ (Active(log[1]) => log[i].exists /\ log[i].fin)
          OBVIOUS
        <4>0. 1 \in DOMAIN log /\ log[1].rv \in Nat /\ log[i].rv \in Nat /\ (i = 1 \/ 1 < i)
          <5> HIDE DEF log
          <5>1. Len(log) \in Nat \ {0} /\ DOMAIN log = 1..Len(log)
            BY <3>2
          <5>2. 1 \in DOMAIN log /\ (i = 1 \/ 1 < i)
            BY <5>1, SMTT(30)
          <5> QED BY <3>2, <5>2
        <4> HIDE DEF log
        <4>1. CASE i = 1
          BY <4>0, <4>1 DEF Active
        <4>2. CASE i # 1
          <5>1. log[1].rv < log[i].rv /\ (Active(log[1]) => log[i].exists /\ log[i].fin)
            BY <4>0, <4>2, SMTT(30) DEF CIPInv, LogInv, log
          <5> QED BY <4>0, <5>1, SMTT(30)
        <4> QED BY <4>1, <4>2, SMTT(30)
      <3>4. log[1].rv <= Cip(n).rv
        BY <3>2, <3>3
      <3>5. WorkInv(n)'
        <4>1. Cip(n)' = Cip(n)
          BY <2>1, Zenon DEF Cip
        <4>2. pc'[n] = "reconcileKind" => Active(log[1])
          BY <3>1, <3>2, SMTT(30) DEF Active
        <4>3. cips'[n] = log /\ work'[n].obj = log[1]
          BY <2>1, <3>1, <3>2, SMTT(30)
        <4>4. \A i \in DOMAIN log : pc'[n] = "reconcileKind" =>
                IF log[i].rv >= log[1].rv THEN log[i].exists /\ log[i].fin ELSE ~Active(log[i])
          <5> HIDE DEF log
          <5> QED BY <3>2, <3>3, <4>2
        <4>5. log[1].rv <= log[1].rv
          <5>1. log[1].rv \in Nat
            BY <3>2, SMTT(30)
          <5> HIDE DEF log
          <5> QED BY <5>1
        <4> HIDE DEF log, Cip
        <4>6. CASE pc'[n] = "reconcileKind"
          BY <3>4, <4>1, <4>3, <4>4, <4>6, SMTT(30) DEF WorkInv, InReconcileKind, InFinalizeKind
        <4>7. CASE pc'[n] # "reconcileKind"
          BY <3>1, <3>2, <4>3, <4>5, <4>7, SMTT(30) DEF WorkInv, InReconcileKind, InFinalizeKind
        <4> QED BY <4>6, <4>7
      <3>6. LogInv(n)' /\ RequestInv(n)'
        BY <2>1, <3>1, ZenonT(30) DEF CIPInv, LogInv, RequestInv
      <3>7. EntryInv(n)'
        <4>1. pc'[n] = "reconcileKind" => 1 \in DOMAIN log /\ Active(log[1])
          BY <3>1, <3>2 DEF Active
        <4> QED BY <2>1, <3>1, <3>2, <4>1, ZenonT(30) DEF CIPInv, EntryInv, InReconcileKind, Cip
      <3> QED BY <3>5, <3>6, <3>7 DEF CIPInv
    <2> QED BY <2>2, <2>3
  <1>2. CASE ReconcileKind(n)
    <2>1. Cm' = Cm /\ cips' = cips /\ Cip(n)' = Cip(n)
      BY <1>2 DEF ReconcileKind, Cm, Cip
    <2>2. /\ work'[n].obj = obj /\ work'[n].req = Request(n)
          /\ pc[n] = "reconcileKind" /\ pc'[n] \in {"writeConfigMap", "updateStatus"}
      BY <1>2, LogTypes, SMTT(30) DEF ReconcileKind, Goto, Locals, TypeOK
    <2>3. RequestInv(n)'
      BY <2>2, RequestShape, SMTT(30) DEF RequestInv
    <2>4. LogInv(n)'
      BY <2>1, SMTT(30) DEF CIPInv, LogInv
    <2>5. WorkInv(n)'
      BY <2>1, <2>2, ZenonT(30) DEF CIPInv, WorkInv, InReconcileKind, InFinalizeKind
    <2>6. EntryInv(n)'
      BY <2>1, <2>2 DEF CIPInv, EntryInv, InReconcileKind
    <2> QED BY <2>3, <2>4, <2>5, <2>6 DEF CIPInv
  <1>3. CASE FinalizeKind(n)
    <2> DEFINE req == IF Head(cmLog).exists THEN CreateRemovePatch(n, Head(cmLog).data) ELSE NoPatch
    <2>1. Cm' = Cm /\ cips' = cips /\ Cip(n)' = Cip(n)
      BY <1>3 DEF FinalizeKind, Cm, Cip
    <2>2. /\ work'[n].obj = obj /\ work'[n].req = req
          /\ pc[n] = "finalizeKind" /\ pc'[n] \in {"removeEntry", "clearFinalizer"}
      BY <1>3, LogTypes, SMTT(30) DEF FinalizeKind, Goto, Locals, TypeOK
    <2>3. OnlyOwnEntry(req, n) /\ req.value[n] = None
      <3>1. n \in Keys /\ Head(cmLog).data \in Data
        BY LogTypes, NamesAssumption DEF ConfigMaps
      <3>2. OnlyOwnEntry(NoPatch, n) /\ NoPatch.value[n] = None
        BY <3>1, SMTT(30) DEF NoPatch, EmptyData, OnlyOwnEntry
      <3> QED BY <3>1, <3>2, CreateRemovePatchOwnEntry
    <2> HIDE DEF req
    <2>4. RequestInv(n)'
      BY <2>2, <2>3, ZenonT(30) DEF RequestInv
    <2>5. LogInv(n)'
      BY <2>1 DEF CIPInv, LogInv
    <2>6. WorkInv(n)'
      BY <2>1, <2>2, ZenonT(30) DEF CIPInv, WorkInv, InReconcileKind, InFinalizeKind
    <2>7. EntryInv(n)'
      BY <2>1, <2>2 DEF CIPInv, EntryInv, InReconcileKind
    <2> QED BY <2>4, <2>5, <2>6, <2>7 DEF CIPInv
  <1>4. ASSUME NEW r \in Replies, SetFinalizer(n, r)
        PROVE  CIPInv(n)'
    <2> DEFINE new == [obj EXCEPT !.fin = TRUE]
               mine == [obj EXCEPT !.fin = TRUE, !.rv = @ + 1]
    <2>1. pc[n] = "setFinalizer" /\ cmLog' = cmLog /\ obj.exists /\ ~obj.del /\ ~obj.fin
      BY <1>4 DEF SetFinalizer, CIPInv, WorkInv
    <2>2. CASE UNCHANGED cips /\ Finish(n, TRUE)
      <3>1. pc'[n] = "idle" /\ LogInv(n)' /\ Cm' = Cm /\ Cip(n)' = Cip(n)
        BY <2>1, <2>2 DEF Finish, CIPInv, LogInv, Cm, Cip, TypeOK
      <3> QED BY <2>2, <3>1, IdleInv, Zenon DEF CIPInv, EntryInv
    <2>3. CASE Store(n, new) /\ Cip(n).rv = obj.rv
      <3>1. Len(log) = 1 /\ DOMAIN log = {1} /\ log[1] = obj
        BY <2>1, <2>3, Fresh DEF CIPInv
      <3>2. new \in Objects /\ new.exists /\ new.fin
        BY <1>0, <2>1, ObjectUpdates, Zenon DEF Objects
      <3>3. /\ LogInv(n)' /\ Cm' = Cm
            /\ Cm.data[n] # None =>
                 /\ Cm.data[n].rv <= Cip(n)'.rv
                 /\ \A i \in DOMAIN cips'[n] : Active(cips'[n][i]) => Cm.data[n].rv <= cips'[n][i].rv
            /\ Cip(n)' = [new EXCEPT !.rv = Cip(n).rv + 1]
            /\ DOMAIN cips'[n] = 1..(Len(log) + 1) /\ cips'[n][Len(log) + 1] = Cip(n)'
            /\ \A i \in DOMAIN log : cips'[n][i] = log[i]
        BY <2>1, <2>3, <3>2, StoreInv, Zenon DEF CIPInv
      <3>6. cips'[n][1] = obj /\ cips'[n][2] = Cip(n)' /\ \A i \in DOMAIN cips'[n] : i = 1 \/ i = 2
        BY <3>1, <3>3
      <3>4. CASE Finish(n, TRUE)
        <4>1. pc'[n] = "idle"
          BY <3>4 DEF Finish, TypeOK
        <4> QED BY <3>3, <4>1, IdleInv, Zenon
      <3>5. CASE Goto(n, "reconcileKind", [work[n] EXCEPT !.obj = mine])
        <4>1. work'[n].obj = mine /\ pc'[n] = "reconcileKind"
          BY <3>5, LogTypes DEF Goto, Locals, TypeOK
        <4>2. mine.rv = obj.rv + 1
          BY <1>0 DEF Objects
        <4>3. Cip(n)'.rv = obj.rv + 1 /\ Cip(n)'.exists /\ Cip(n)'.fin
          <5>1. \A x \in Nat : LET f == [new EXCEPT !.rv = x] IN f.rv = x /\ f.exists /\ f.fin
            BY <3>2, SMTT(30) DEF Objects
          <5> HIDE DEF new
          <5> QED BY <1>0, <2>3, <3>3, <5>1
        <4> HIDE DEF mine
        <4>4. WorkInv(n)'
          <5>1. ~(obj.rv >= obj.rv + 1) /\ ~Active(obj) /\ obj.rv + 1 <= obj.rv + 1
            BY <1>0, <2>1, SMTT(30) DEF Active
          <5>2. \A i \in DOMAIN cips'[n] : IF cips'[n][i].rv >= obj.rv + 1
                                            THEN cips'[n][i].exists /\ cips'[n][i].fin
                                            ELSE ~Active(cips'[n][i])
            BY <3>6, <4>3, <5>1, SMTT(30)
          <5> QED BY <4>1, <4>2, <4>3, <5>1, <5>2, SMTT(30)
                  DEF WorkInv, InReconcileKind, InFinalizeKind
        <4>5. RequestInv(n)'
          BY <4>1 DEF RequestInv
        <4>6. EntryInv(n)'
          BY <3>3, <4>1, <4>2, <4>3 DEF EntryInv
        <4> QED BY <3>3, <4>4, <4>5, <4>6 DEF CIPInv
      <3> QED BY <1>4, <3>4, <3>5, Zenon DEF SetFinalizer
    <2> QED BY <1>4, <2>2, <2>3, ZenonT(30) DEF SetFinalizer, Replies
  <1>5. ASSUME NEW r \in Replies, WriteConfigMap(n, r)
        PROVE  CIPInv(n)'
    <2>1. /\ pc[n] = "writeConfigMap" /\ pc'[n] = "updateStatus" /\ cips' = cips
          /\ work'[n].obj = obj
      BY <1>5, LogTypes, SMTT(30) DEF WriteConfigMap, Goto, Locals, TypeOK
    <2>2. Cm'.data[n] \in {Cm.data[n], work[n].req.value[n]}
      BY <1>5, <2>1, ServeEffect, ZenonT(30) DEF WriteConfigMap, CIPInv, TypeOK
    <2>3. Cip(n)' = Cip(n) /\ LogInv(n)' /\ RequestInv(n)'
      BY <2>1 DEF Cip, CIPInv, LogInv, RequestInv
    <2>4. WorkInv(n)'
      BY <2>1, <2>3, Zenon DEF CIPInv, WorkInv, InReconcileKind, InFinalizeKind
    <2>5. EntryInv(n)'
      <3> DEFINE Bound(e) == /\ e.rv <= Cip(n).rv /\ e.rv <= obj.rv
                             /\ \A i \in DOMAIN log : Active(log[i]) => e.rv <= log[i].rv
      <3>1. Cm.data[n] # None => Bound(Cm.data[n])
        BY <2>1, Zenon DEF CIPInv, EntryInv, InReconcileKind
      <3>2. ASSUME Cm'.data[n] # Cm.data[n], Cm'.data[n] # None
            PROVE  Bound(Cm'.data[n])
        <4>1. Cm'.data[n].rv = obj.rv
          BY <2>1, <2>2, <3>2, ZenonT(30) DEF CIPInv, RequestInv
        <4>2. obj.rv <= Cip(n).rv /\ \A i \in DOMAIN log : Active(log[i]) => log[i].rv >= obj.rv
          BY <2>1, ZenonT(30) DEF CIPInv, WorkInv, InReconcileKind
        <4>3. \A i \in DOMAIN log : log[i].rv \in Nat
          BY LogFacts
        <4>4. \A i \in DOMAIN log : Active(log[i]) => obj.rv <= log[i].rv
          BY <1>0, <4>2, <4>3
        <4>5. obj.rv <= obj.rv
          BY <1>0
        <4> QED BY <4>1, <4>2, <4>4, <4>5, Zenon
      <3>3. Cm'.data[n] # None => Bound(Cm'.data[n])
        BY <3>1, <3>2, Zenon
      <3> QED BY <2>1, <2>3, <3>3, Zenon DEF EntryInv
    <2> QED BY <2>3, <2>4, <2>5 DEF CIPInv
  <1>6. ASSUME NEW r \in Replies, UpdateStatus(n, r)
        PROVE  CIPInv(n)'
    <2> DEFINE new == [Cip(n) EXCEPT !.conds = work[n].conds, !.obs = obj.gen]
    <2>1. pc[n] = "updateStatus" /\ pc'[n] = "idle" /\ cmLog' = cmLog
      BY <1>6, SMTT(30) DEF UpdateStatus, Finish, TypeOK
    <2>2. CASE UNCHANGED cips
      <3>1. LogInv(n)' /\ Cm' = Cm /\ Cip(n)' = Cip(n)
        BY <2>1, <2>2, SMTT(30) DEF CIPInv, LogInv, Cm, Cip
      <3> QED BY <2>1, <2>2, <3>1, IdleInv, ZenonT(30) DEF CIPInv, EntryInv
    <2>3. CASE Store(n, new)
      <3>1. Cip(n).exists /\ Cip(n).fin
        BY <2>1, Held, SMTT(30) DEF CIPInv, InReconcileKind
      <3>2. new \in Objects /\ new.exists /\ new.fin
        <4>1. work[n].conds \in [Conditions -> {"Unknown", "True", "False"}] /\ obj.gen \in Nat
          BY LogTypes, Zenon DEF Locals, Objects
        <4>2. \A o \in Objects : LET f == [o EXCEPT !.conds = work[n].conds, !.obs = obj.gen]
                                  IN f \in Objects /\ f.exists = o.exists /\ f.fin = o.fin
          BY <4>1, Zenon DEF Objects
        <4> HIDE DEF Cip
        <4> QED BY <3>1, <4>2, LogTypes, ZenonT(30)
      <3>3. /\ LogInv(n)' /\ Cm' = Cm
            /\ Cm.data[n] # None =>
                 /\ Cm.data[n].rv <= Cip(n)'.rv
                 /\ \A i \in DOMAIN cips'[n] : Active(cips'[n][i]) => Cm.data[n].rv <= cips'[n][i].rv
        BY <2>1, <2>3, <3>2, StoreInv, ZenonT(30) DEF CIPInv
      <3> QED BY <2>1, <3>3, IdleInv, ZenonT(30)
    <2> QED BY <1>6, <2>2, <2>3 DEF UpdateStatus
  <1>7. ASSUME NEW r \in Replies, RemoveEntry(n, r)
        PROVE  CIPInv(n)'
    <2>1. pc[n] = "removeEntry" /\ pc'[n] \in {"clearFinalizer", "idle"} /\ cips' = cips
      BY <1>7 DEF RemoveEntry, Goto, Finish, TypeOK
    <2>2. pc'[n] = "clearFinalizer" => work'[n] = work[n]
      BY <1>7 DEF RemoveEntry, Goto, Finish, TypeOK
    <2>3. Cm'.data[n] \in {Cm.data[n], None}
      BY <1>7, <2>1, ServeEffect, Zenon DEF RemoveEntry, CIPInv, RequestInv, TypeOK
    <2>4. Cip(n)' = Cip(n) /\ LogInv(n)'
      BY <2>1, ZenonT(30) DEF Cip, CIPInv, LogInv
    <2>5. RequestInv(n)' /\ WorkInv(n)'
      BY <2>1, <2>2, <2>4, ZenonT(30)
      DEF CIPInv, RequestInv, WorkInv, InReconcileKind, InFinalizeKind
    <2>6. EntryInv(n)'
      BY <2>1, <2>3, <2>4, ZenonT(30) DEF CIPInv, EntryInv, InReconcileKind
    <2> QED BY <2>4, <2>5, <2>6 DEF CIPInv
  <1>8. ASSUME NEW r \in Replies, ClearFinalizer(n, r)
        PROVE  CIPInv(n)'
    <2>1. pc[n] = "clearFinalizer" /\ pc'[n] = "idle" /\ cmLog' = cmLog
      BY <1>8, ZenonT(30) DEF ClearFinalizer, Finish, TypeOK
    <2>2. CASE UNCHANGED cips
      <3>1. LogInv(n)' /\ Cm' = Cm /\ Cip(n)' = Cip(n)
        BY <2>1, <2>2, ZenonT(30) DEF CIPInv, LogInv, Cm, Cip
      <3> QED BY <2>1, <2>2, <3>1, IdleInv, ZenonT(30) DEF CIPInv, EntryInv
    <2>3. CASE Store(n, Gone(0)) /\ Cip(n).rv = obj.rv
      <3>1. DOMAIN log = {1} /\ log[1] = obj /\ obj.del
        BY <2>1, <2>3, Fresh, ZenonT(30) DEF CIPInv, WorkInv, InFinalizeKind
      <3>2. ~\E i \in DOMAIN log : Active(log[i])
        BY <3>1 DEF Active
      <3>3. /\ LogInv(n)' /\ Cm' = Cm
            /\ Cm.data[n] # None =>
                 /\ Cm.data[n].rv <= Cip(n)'.rv
                 /\ \A i \in DOMAIN cips'[n] : Active(cips'[n][i]) => Cm.data[n].rv <= cips'[n][i].rv
        BY <2>1, <2>3, <3>2, GoneType, StoreInv, ZenonT(30) DEF CIPInv
      <3> QED BY <2>1, <3>3, IdleInv, ZenonT(30)
    <2> QED BY <1>8, <2>2, <2>3, ZenonT(30) DEF ClearFinalizer
  <1> QED BY <1>1, <1>2, <1>3, <1>4, <1>5, <1>6, <1>7, <1>8, SMTT(30) DEF Worker

LEMMA NextInv ==
  ASSUME TypeOK, Consistent, Next
  PROVE  Consistent'
  <1> SUFFICES ASSUME NEW m \in Names PROVE CIPInv(m)'
    BY DEF Consistent, CIPInv
  <1>1. \A n \in Names : CIPInv(n)
    BY DEF Consistent, CIPInv
  <1>2. CASE Environment
    BY <1>1, <1>2, EnvironmentInv
  <1>3. CASE DeliverConfigMap \/ \E n \in Names : DeliverCIP(n)
    BY <1>1, <1>3, DeliverInv
  <1>4. ASSUME NEW n \in Names, Worker(n)
        PROVE  CIPInv(m)'
    <2>1. CASE m = n
      BY <1>1, <1>4, <2>1, WorkerInv
    <2>2. CASE m # n
      <3>1. /\ cips'[m] = cips[m] /\ pc'[m] = pc[m] /\ work'[m] = work[m]
            /\ Cm'.data[m] \in {Cm.data[m], None}
        BY <1>1, <1>4, <2>2, WorkerOthers DEF CIPInv
      <3> QED BY <1>1, <3>1, Frame, Zenon
    <2> QED BY <2>1, <2>2
  <1>5. ASSUME NEW n \in Names, Panic(n)
        PROVE  CIPInv(m)'
    BY <1>1, <1>5, RelistInv DEF Panic
  <1> QED BY <1>2, <1>3, <1>4, <1>5 DEF Next

LEMMA InitInv == Init => Consistent
  <1> SUFFICES ASSUME Init, NEW n \in Names PROVE CIPInv(n)
    BY DEF Consistent, CIPInv
  <1>1. pc[n] = "idle" /\ cips[n] = <<IF n \in queue THEN NewCIP ELSE Gone(0)>>
    BY DEF Init
  <1>2. LogInv(n)
    BY <1>1, SMTT(30) DEF LogInv
  <1>3. WorkInv(n) /\ RequestInv(n)
    BY <1>1 DEF WorkInv, RequestInv, InReconcileKind, InFinalizeKind
  <1>4. EntryInv(n)
    <2> DEFINE d == [k \in Keys |-> IF k \in Names THEN None ELSE ExampleEntry]
    <2>1. Cm \in {NoConfigMap, ConfigMapOf(EmptyData), ConfigMapOf(d)}
      <3>1. cmLog \in {<<NoConfigMap>>, <<ConfigMapOf(EmptyData)>>, <<ConfigMapOf(d)>>}
        BY DEF Init
      <3> HIDE DEF d
      <3>2. \A x : Latest(<<x>>) = x
        BY DEF Latest
      <3> QED BY <3>1, <3>2 DEF Cm
    <2>2. Cm.data[n] = None
      BY <2>1, NamesAssumption DEF NoConfigMap, ConfigMapOf, EmptyData
    <2> QED BY <2>2 DEF EntryInv
  <1> QED BY <1>2, <1>3, <1>4 DEF CIPInv

\* The invariant Consistent of PolicySync, for every number of CIPs and workers,
\* every lag of the informers and every pattern of edits, faults and restarts.
THEOREM Consistency == Spec => []Consistent
  <1>1. TypeOK /\ Consistent /\ [Next]_vars => Consistent'
    <2>1. ASSUME TypeOK, Consistent, UNCHANGED vars PROVE Consistent'
      <3>1. cips' = cips /\ cmLog' = cmLog /\ pc' = pc /\ work' = work
        BY <2>1 DEF vars
      <3>2. \A n \in Names : CIPInv(n)'
        <4> SUFFICES ASSUME NEW n \in Names PROVE CIPInv(n)'
          OBVIOUS
        <4>1. CIPInv(n)
          BY <2>1 DEF Consistent, CIPInv
        <4>2. Cm' = Cm
          BY <3>1 DEF Cm
        <4> QED BY <2>1, <3>1, <4>1, <4>2, Frame
      <3> QED BY <3>2 DEF Consistent, CIPInv
    <2> QED BY <2>1, NextInv
  <1> QED BY <1>1, InitInv, TypeCorrect, PTL DEF Spec

\* While ReconcileKind works on a CIP the server's CIP exists and carries the
\* finalizer.
THEOREM FinalizerIsHeld == Spec => []FinalizerHeld
  <1>1. TypeOK /\ Consistent => FinalizerHeld
    BY Held, SMTT(30) DEF Consistent, FinalizerHeld, InReconcileKind
  <1> QED BY <1>1, TypeCorrect, Consistency, PTL

\* What any step does to the entry of a CIP: it stays, or is dropped, or is
\* written by the CIP's own worker, from its own copy.
LEMMA EntryStep ==
  ASSUME TypeOK, Consistent, [Next]_vars, NEW n \in Names
  PROVE  \/ Cm'.data[n] \in {Cm.data[n], None}
         \/ pc[n] = "writeConfigMap" /\ Cm'.data[n].rv = work[n].obj.rv
  <1>0. LogInv(n) /\ WorkInv(n) /\ RequestInv(n)
    BY DEF Consistent
  <1>1. CASE UNCHANGED vars
    BY <1>1 DEF vars, Cm
  <1>2. CASE Environment
    <2>1. CASE Restart
      BY <2>1, LogTypes, SingletonLog DEF Restart, Relist, Cm
    <2>2. CASE DeleteConfigMap
      <3>1. Cm' = NoConfigMap
        BY <2>2, AppendLog, ConfigMapTypes DEF DeleteConfigMap, StoreConfigMap, Cm, TypeOK
      <3> QED BY <3>1, NamesAssumption DEF NoConfigMap, EmptyData
    <2>3. CASE UNCHANGED cmLog
      BY <2>3, SMTT(30) DEF Cm
    <2> QED BY <1>2, <2>1, <2>2, <2>3, ZenonT(30)
            DEF Environment, CreateCIP, EditCIP, DeleteCIP, ChangeSource, GlobalResync
  <1>3. CASE DeliverConfigMap
    BY <1>3, TailLog DEF DeliverConfigMap, Cm, TypeOK
  <1>4. ASSUME NEW m \in Names, DeliverCIP(m)
        PROVE  Cm' = Cm
    BY <1>4 DEF DeliverCIP, Cm
  <1>5. ASSUME NEW m \in Names, Worker(m), m # n
        PROVE  Cm'.data[n] \in {Cm.data[n], None}
    BY <1>5, WorkerOthers, SMTT(30) DEF Consistent
  <1>6. CASE Worker(n)
    <2>1. CASE UNCHANGED cmLog
      BY <2>1 DEF Cm
    <2>2. ASSUME NEW r \in Replies, WriteConfigMap(n, r)
          PROVE  \/ Cm'.data[n] \in {Cm.data[n], None}
                 \/ pc[n] = "writeConfigMap" /\ Cm'.data[n].rv = work[n].obj.rv
      <3>1. pc[n] = "writeConfigMap" /\ Cm'.data[n] \in {Cm.data[n], work[n].req.value[n]}
        BY <1>0, <2>2, ServeEffect, SMTT(30) DEF WriteConfigMap
      <3> QED BY <1>0, <3>1 DEF RequestInv
    <2>3. ASSUME NEW r \in Replies, RemoveEntry(n, r)
          PROVE  Cm'.data[n] \in {Cm.data[n], None}
      <3>1. pc[n] = "removeEntry" /\ Cm'.data[n] \in {Cm.data[n], work[n].req.value[n]}
        BY <1>0, <2>3, ServeEffect DEF RemoveEntry
      <3> QED BY <1>0, <3>1, SMTT(30) DEF RequestInv
    <2> QED BY <1>6, <2>1, <2>2, <2>3, ZenonT(30)
            DEF Worker, Reconcile, ReconcileKind, FinalizeKind, SetFinalizer, UpdateStatus, ClearFinalizer
  <1>7. ASSUME NEW m \in Names, Panic(m)
        PROVE  Cm' = Cm
    BY <1>7, LogTypes, SingletonLog DEF Panic, Relist, Cm
  <1> QED BY <1>1, <1>2, <1>3, <1>4, <1>5, <1>6, <1>7 DEF Next

\* No late Create or Patch brings back the entry of a CIP that was deleted.
THEOREM EntriesAreNotResurrected == Spec => NoResurrection
  <1> DEFINE A == \A n \in Names : Cm.data[n] = None /\ Cm'.data[n] # None => Cip(n).exists /\ Cip(n).fin
  <1>1. TypeOK /\ Consistent /\ [Next]_vars => [A]_vars
    <2> SUFFICES ASSUME TypeOK, Consistent, [Next]_vars, NEW n \in Names,
                        Cm.data[n] = None, Cm'.data[n] # None
                 PROVE  Cip(n).exists /\ Cip(n).fin
      OBVIOUS
    <2>1. pc[n] = "writeConfigMap"
      BY EntryStep
    <2> QED BY <2>1, Held DEF Consistent, InReconcileKind
  <1> QED BY <1>1, TypeCorrect, Consistency, PTL DEF Spec, NoResurrection

\* An entry is never replaced by one from an older version of its CIP.
THEOREM EntriesNeverRegress == Spec => EntryNeverRegresses
  <1> DEFINE A == \A n \in Names : Cm.data[n] # None /\ Cm'.data[n] # None
                                     => Cm'.data[n].rv >= Cm.data[n].rv
  <1>1. TypeOK /\ Consistent /\ [Next]_vars => [A]_vars
    <2> SUFFICES ASSUME TypeOK, Consistent, [Next]_vars, NEW n \in Names,
                        Cm.data[n] # None, Cm'.data[n] # None
                 PROVE  Cm'.data[n].rv >= Cm.data[n].rv
      OBVIOUS
    <2>1. Cm.data[n].rv \in Nat /\ work[n].obj.rv \in Nat
      <3>1. Cm.data \in Data /\ n \in Keys /\ work[n].obj \in Objects
        BY LogTypes, NamesAssumption, SMTT(30) DEF ConfigMaps, Locals
      <3> QED BY <3>1 DEF Data, Objects
    <2>2. CASE Cm'.data[n] = Cm.data[n]
      BY <2>1, <2>2
    <2>3. CASE pc[n] = "writeConfigMap" /\ Cm'.data[n].rv = work[n].obj.rv
      <3>1. Cm.data[n].rv <= work[n].obj.rv
        BY <2>3 DEF Consistent, EntryInv, InReconcileKind
      <3> QED BY <2>1, <2>3, <3>1, SMTT(30)
    <2> QED BY <2>2, <2>3, EntryStep
  <1> QED BY <1>1, TypeCorrect, Consistency, PTL DEF Spec, EntryNeverRegresses

-----------------------------------------------------------------------------
(***************************************************************************)
(* The CIP reconciler implements CompiledPolicies: with the ConfigMap's    *)
(* entries for entry and the finalizers for held, an initial state maps to *)
(* an initial state and every step to a step or a stutter, for every set   *)
(* of CIPs, number of workers, lag of the informers and kind of fault.     *)
(***************************************************************************)

HeldNow(n) == Cip(n).exists /\ Cip(n).fin
KeptEntry(n) == Cm'.data[n] \in {Cm.data[n], None}

\* A step changes one CIP at most and leaves the ConfigMap alone, or drops entries
\* at most, or is the write of one worker, which drops those of others at most.
LEMMA KindsOfStep ==
  ASSUME TypeOK, Consistent, [Next]_vars
  PROVE  \/ Cm' = Cm /\ \A n \in Names : Cip(n)' = Cip(n)
         \/ Cm' = Cm /\ \E m \in Names : \A n \in Names \ {m} : Cip(n)' = Cip(n)
         \/ cips' = cips /\ \A n \in Names : KeptEntry(n)
         \/ cips' = cips /\ \E m \in Names : /\ pc[m] = "writeConfigMap"
                                             /\ \A n \in Names \ {m} : KeptEntry(n)
  <1>1. CASE cips' = cips /\ cmLog' = cmLog
    BY <1>1 DEF Cip, Cm
  <1>2. CASE Relist
    <2>1. Cm' = Cm
      BY <1>2, LatestType, SingletonLog DEF Relist, Cm, TypeOK
    <2>2. \A n \in Names : Cip(n)' = Cip(n)
      BY <1>2, LogTypes, SingletonLog DEF Relist, Cip
    <2> QED BY <2>1, <2>2
  <1>3. CASE DeliverConfigMap
    <2>1. Cm' = Cm /\ cips' = cips
      BY <1>3, TailLog DEF DeliverConfigMap, Cm, TypeOK
    <2> QED BY <2>1 DEF Cip
  <1>4. CASE DeleteConfigMap
    <2>1. Cm' = NoConfigMap /\ cips' = cips
      BY <1>4, AppendLog, ConfigMapTypes DEF DeleteConfigMap, StoreConfigMap, Cm, TypeOK
    <2>2. \A n \in Names : KeptEntry(n)
      BY <2>1, NamesAssumption DEF NoConfigMap, EmptyData, KeptEntry
    <2> QED BY <2>1, <2>2
  <1>5. ASSUME NEW m \in Names, DeliverCIP(m) \/ CreateCIP(m) \/ EditCIP(m) \/ DeleteCIP(m)
        PROVE  Cm' = Cm /\ \A n \in Names \ {m} : Cip(n)' = Cip(n)
    BY <1>5, Zenon DEF DeliverCIP, CreateCIP, EditCIP, DeleteCIP, Store, Cm, Cip, TypeOK
  <1>6. ASSUME NEW m \in Names, NEW r \in Replies,
               SetFinalizer(m, r) \/ UpdateStatus(m, r) \/ ClearFinalizer(m, r)
        PROVE  Cm' = Cm /\ \A n \in Names \ {m} : Cip(n)' = Cip(n)
    <2>1. Worker(m) /\ RequestInv(m)
      BY <1>6, Zenon DEF Worker, Consistent
    <2>2. \A n \in Names \ {m} : cips'[n] = cips[n]
      BY <2>1, WorkerOthers, Zenon
    <2> QED BY <1>6, <2>2, Zenon DEF SetFinalizer, UpdateStatus, ClearFinalizer, Cm, Cip
  <1>7. ASSUME NEW m \in Names, NEW r \in Replies, WriteConfigMap(m, r)
        PROVE  /\ cips' = cips /\ pc[m] = "writeConfigMap"
               /\ \A n \in Names \ {m} : KeptEntry(n)
    <2>1. Worker(m) /\ RequestInv(m)
      BY <1>7, Zenon DEF Worker, Consistent
    <2>2. \A n \in Names \ {m} : KeptEntry(n)
      BY <2>1, WorkerOthers, Zenon DEF KeptEntry
    <2> QED BY <1>7, <2>2, Zenon DEF WriteConfigMap
  <1>8. ASSUME NEW m \in Names, NEW r \in Replies, RemoveEntry(m, r)
        PROVE  cips' = cips /\ \A n \in Names : KeptEntry(n)
    <2>1. Worker(m) /\ RequestInv(m)
      BY <1>8, Zenon DEF Worker, Consistent
    <2>2. \A n \in Names \ {m} : KeptEntry(n)
      BY <2>1, WorkerOthers, Zenon DEF KeptEntry
    <2>3. pc[m] = "removeEntry" /\ Cm'.data[m] \in {Cm.data[m], work[m].req.value[m]}
      BY <1>8, <2>1, ServeEffect DEF RemoveEntry
    <2>4. KeptEntry(m)
      BY <2>1, <2>3, SMTT(30) DEF RequestInv, KeptEntry
    <2> QED BY <1>8, <2>2, <2>4, Zenon DEF RemoveEntry
  <1>9. CASE Environment
    BY <1>1, <1>2, <1>4, <1>5, <1>9, ZenonT(30) DEF Environment, ChangeSource, GlobalResync, Restart
  <1>10. ASSUME NEW m \in Names, Worker(m)
         PROVE  \/ cips' = cips /\ cmLog' = cmLog
                \/ \E r \in Replies : \/ SetFinalizer(m, r) \/ UpdateStatus(m, r) \/ ClearFinalizer(m, r)
                                      \/ WriteConfigMap(m, r) \/ RemoveEntry(m, r)
    BY <1>10, ZenonT(30) DEF Worker, Reconcile, ReconcileKind, FinalizeKind
  <1>11. CASE UNCHANGED vars
    BY <1>1, <1>11 DEF vars
  <1>12. ASSUME NEW m \in Names, Panic(m) PROVE Relist
    BY <1>12 DEF Panic
  <1> QED
    BY <1>1, <1>2, <1>3, <1>5, <1>6, <1>7, <1>8, <1>9, <1>10, <1>11, <1>12, ZenonT(60) DEF Next

-----------------------------------------------------------------------------
(* The refinement mapping.                                                  *)

entryBar == [n \in Names |-> Cm.data[n]]
heldBar == [n \in Names |-> Cip(n).exists /\ Cip(n).fin]

LEMMA InitPromised == Init => Promise!Init
  <1> SUFFICES ASSUME Init PROVE Promise!Init
    OBVIOUS
  <1>1. \A n \in Names : Cip(n).exists /\ Cip(n).fin <=> FALSE
    <2> SUFFICES ASSUME NEW n \in Names PROVE ~Cip(n).fin
      OBVIOUS
    <2>1. cips[n] = <<NewCIP>> \/ cips[n] = <<Gone(0)>>
      BY DEF Init
    <2>2. \A x : Latest(<<x>>) = x
      BY DEF Latest
    <2>3. Cip(n) = NewCIP \/ Cip(n) = Gone(0)
      BY <2>1, <2>2, Zenon DEF Cip
    <2>4. Gone(0).fin = FALSE /\ Gone(1).fin = FALSE
      BY DEF Gone
    <2>5. NewCIP.fin = Gone(1).fin
      BY GoneType DEF NewCIP, Objects
    <2> QED BY <2>3, <2>4, <2>5, Zenon
  <1>2. \A n \in Names : Cm.data[n] = None
    <2> DEFINE d == [k \in Keys |-> IF k \in Names THEN None ELSE ExampleEntry]
    <2>1. Cm \in {NoConfigMap, ConfigMapOf(EmptyData), ConfigMapOf(d)}
      <3>1. cmLog \in {<<NoConfigMap>>, <<ConfigMapOf(EmptyData)>>, <<ConfigMapOf(d)>>}
        BY DEF Init
      <3> HIDE DEF d
      <3>2. \A x : Latest(<<x>>) = x
        BY DEF Latest
      <3> QED BY <3>1, <3>2 DEF Cm
    <2> QED BY <2>1, NamesAssumption DEF NoConfigMap, ConfigMapOf, EmptyData
  <1> QED BY <1>1, <1>2, Zenon DEF Promise!Init

\* A step that changes the CIP of m alone takes or releases its finalizer, or is
\* no step of CompiledPolicies.
LEMMA CIPStepPromised ==
  ASSUME TypeOK, NEW m \in Names, Cm' = Cm, \A n \in Names \ {m} : Cip(n)' = Cip(n)
  PROVE  [Promise!Next]_<<entryBar, heldBar>>
  <1>1. entryBar' = entryBar
    BY DEF entryBar
  <1>2. CASE HeldNow(m)' <=> HeldNow(m)
    <2>1. \A n \in Names : HeldNow(n)' <=> HeldNow(n)
      BY <1>2, Zenon DEF HeldNow
    <2>2. heldBar' = heldBar
      BY <2>1, Zenon DEF heldBar, HeldNow
    <2> QED BY <1>1, <2>2
  <1>3. CASE ~HeldNow(m) /\ HeldNow(m)'
    <2>1. heldBar' = [heldBar EXCEPT ![m] = TRUE]
      <3>1. HeldNow(m)' = TRUE
        BY <1>3, Zenon DEF HeldNow
      <3>2. heldBar = [n \in Names |-> HeldNow(n)] /\ heldBar' = [n \in Names |-> HeldNow(n)']
        BY Zenon DEF heldBar, HeldNow
      <3>3. \A n \in Names \ {m} : HeldNow(n)' = HeldNow(n)
        BY Zenon DEF HeldNow
      <3> QED BY <3>1, <3>2, <3>3
    <2>2. ~heldBar[m]
      BY <1>3, Zenon DEF heldBar, HeldNow
    <2>3. Promise!Hold(m)
      BY <1>1, <2>1, <2>2, Zenon DEF Promise!Hold, entryBar, heldBar
    <2> QED BY <2>3, Zenon DEF Promise!Next
  <1>4. CASE HeldNow(m) /\ ~HeldNow(m)'
    <2>1. heldBar' = [heldBar EXCEPT ![m] = FALSE]
      <3>1. HeldNow(m)' = FALSE
        BY <1>4, Zenon DEF HeldNow
      <3>2. heldBar = [n \in Names |-> HeldNow(n)] /\ heldBar' = [n \in Names |-> HeldNow(n)']
        BY Zenon DEF heldBar, HeldNow
      <3>3. \A n \in Names \ {m} : HeldNow(n)' = HeldNow(n)
        BY Zenon DEF HeldNow
      <3> QED BY <3>1, <3>2, <3>3
    <2>2. heldBar[m]
      BY <1>4, Zenon DEF heldBar, HeldNow
    <2>3. Promise!Release(m)
      BY <1>1, <2>1, <2>2, Zenon DEF Promise!Release, entryBar, heldBar
    <2> QED BY <2>3, Zenon DEF Promise!Next
  <1> QED BY <1>2, <1>3, <1>4, Zenon

LEMMA StepPromised ==
  ASSUME TypeOK, Consistent, [Next]_vars
  PROVE  [Promise!Next]_<<entryBar, heldBar>>
  <1>1. CASE Cm' = Cm /\ \A n \in Names : Cip(n)' = Cip(n)
    BY <1>1, Zenon DEF entryBar, heldBar
  <1>2. ASSUME Cm' = Cm, NEW m \in Names, \A n \in Names \ {m} : Cip(n)' = Cip(n)
        PROVE  [Promise!Next]_<<entryBar, heldBar>>
    BY <1>2, CIPStepPromised
  <1>3. CASE cips' = cips /\ \A n \in Names : KeptEntry(n)
    <2>1. heldBar' = heldBar
      BY <1>3, Zenon DEF heldBar, Cip
    <2>2. \A n \in Names : Promise!Kept(n)
      BY <1>3, Zenon DEF Promise!Kept, KeptEntry
    <2>3. Promise!Drop
      BY <2>1, <2>2, Zenon DEF Promise!Drop, heldBar
    <2> QED BY <2>3, Zenon DEF Promise!Next
  <1>4. ASSUME cips' = cips, NEW m \in Names, pc[m] = "writeConfigMap",
               \A n \in Names \ {m} : KeptEntry(n), ~KeptEntry(m)
        PROVE  [Promise!Next]_<<entryBar, heldBar>>
    <2>1. heldBar' = heldBar
      BY <1>4, Zenon DEF heldBar, Cip
    <2>2. Cip(m).exists /\ Cip(m).fin
      BY <1>4, Held DEF Consistent, InReconcileKind
    <2>3. \A n \in Names \ {m} : Promise!Kept(n)
      BY <1>4, Zenon DEF Promise!Kept, KeptEntry
    <2>4. Cm'.data[m] # None /\ Cm'.data[m].rv = work[m].obj.rv
      BY <1>4, EntryStep DEF KeptEntry
    <2>5. Cm.data[m] # None => Cm'.data[m].rv >= Cm.data[m].rv
      <3> SUFFICES ASSUME Cm.data[m] # None PROVE Cm'.data[m].rv >= Cm.data[m].rv
        OBVIOUS
      <3>1. Cm.data \in Data /\ m \in Keys /\ work[m].obj \in Objects
        BY LogTypes, NamesAssumption, SMTT(30) DEF ConfigMaps, Locals
      <3>2. Cm.data[m].rv \in Nat /\ work[m].obj.rv \in Nat
        BY <3>1 DEF Data, Objects
      <3>3. Cm.data[m].rv <= work[m].obj.rv
        BY <1>4 DEF Consistent, EntryInv, InReconcileKind
      <3> QED BY <2>4, <3>2, <3>3, SMTT(30)
    <2>6. Promise!Write(m)
      BY <2>1, <2>2, <2>3, <2>4, <2>5, Zenon DEF Promise!Write, heldBar
    <2> QED BY <2>6, Zenon DEF Promise!Next
  <1> QED BY <1>1, <1>2, <1>3, <1>4, KindsOfStep, Zenon

\* The reconciler implements CompiledPolicies: an entry is written one at a time,
\* while the finalizer holds its CIP, and never from an older version.
THEOREM PromiseIsKept == Spec => KeepsPromise
  <1>1. TypeOK /\ Consistent /\ [Next]_vars => [Promise!Next]_<<entryBar, heldBar>>
    BY StepPromised
  <1> QED BY <1>1, InitPromised, TypeCorrect, Consistency, PTL
          DEF Spec, KeepsPromise, Promise!Spec, entryBar, heldBar

-----------------------------------------------------------------------------
(* The removal of an entry.                                                 *)

\* An accepted removal leaves no entry of its CIP.
LEMMA RemovedIsGone ==
  ASSUME TypeOK, NEW n \in Names, RequestInv(n), pc[n] = "removeEntry",
         work[n].req.op # "none", Serve(work[n].req, TRUE)
  PROVE  Cm'.data[n] = None
  <1> DEFINE req == work[n].req
             new == Apply(Cm, req)
  <1>1. req \in Requests /\ Cm \in ConfigMaps /\ req.path \in {n, DataPath} /\ req.value[n] = None
    BY LogTypes, SMTT(30) DEF Locals, RequestInv, OnlyOwnEntry
  <1>2. new.data[n] = None
    <2>1. new = ConfigMapOf(IF req.path = DataPath THEN req.value
                            ELSE [Cm.data EXCEPT ![req.path] = req.value[req.path]])
      BY Zenon DEF Apply
    <2>2. n \in Keys /\ Cm.data \in Data
      BY <1>1, NamesAssumption DEF ConfigMaps
    <2> HIDE DEF new, req
    <2> QED BY <1>1, <2>1, <2>2 DEF ConfigMapOf, Data
  <1>3. new \in ConfigMaps
    BY <1>1, ApplyType
  <1> HIDE DEF req, new
  <1>4. Cm' = new
    <2>1. CASE new # Cm
      <3>1. StoreConfigMap(new)
        BY <2>1, Zenon DEF Serve, req, new
      <3> QED BY <1>3, <3>1, AppendLog, SMTT(30) DEF StoreConfigMap, Cm, TypeOK
    <2>2. CASE new = Cm
      BY <2>2, Zenon DEF Serve, Cm, req, new
    <2> QED BY <2>1, <2>2
  <1> QED BY <1>2, <1>4

LEMMA RemovalStep ==
  ASSUME TypeOK, Consistent, RemovalHolds, [Next]_vars
  PROVE  RemovalHolds'
  <1> SUFFICES ASSUME NEW n \in Names, pc'[n] = "clearFinalizer", work'[n].req.op # "none"
               PROVE  Cm'.data[n] = None
    BY DEF RemovalHolds
  <1>1. CASE pc'[n] = pc[n] /\ work'[n] = work[n]
    <2>1. Cm.data[n] = None
      BY <1>1 DEF RemovalHolds
    <2> QED BY <1>1, <2>1, EntryStep
  <1>2. CASE Relist
    BY <1>2 DEF Relist
  <1>3. CASE Worker(n)
    <2>1. pc \in [Names -> Labels] /\ work \in [Names -> Locals]
      BY DEF TypeOK
    <2>2. CASE FinalizeKind(n)
      BY <2>1, <2>2 DEF FinalizeKind, Goto, Locals
    <2>3. ASSUME NEW r \in Replies, RemoveEntry(n, r) PROVE Cm'.data[n] = None
      <3>1. /\ pc[n] = "removeEntry" /\ Accepts(Cm, work[n].req) /\ r = "ok"
            /\ Goto(n, "clearFinalizer", work[n])
        BY <2>1, <2>3 DEF RemoveEntry, Finish
      <3>2. Serve(work[n].req, TRUE)
        BY <2>3, <3>1 DEF RemoveEntry, Serve
      <3>3. work'[n] = work[n]
        BY <2>1, <3>1, Zenon DEF Goto
      <3> QED BY <3>1, <3>2, <3>3, RemovedIsGone, ZenonT(60) DEF Consistent
    <2>4. CASE Reconcile(n) \/ ReconcileKind(n)
      <3>1. CASE Reconcile(n) /\ ~Head(cips[n]).exists
        BY <1>1, <3>1, Zenon DEF Reconcile
      <3>2. CASE ReconcileKind(n) \/ (Reconcile(n) /\ Head(cips[n]).exists)
        BY <2>1, <3>2 DEF Reconcile, ReconcileKind, Goto
      <3> QED BY <2>4, <3>1, <3>2
    <2>5. ASSUME NEW r \in Replies,
                 SetFinalizer(n, r) \/ WriteConfigMap(n, r) \/ UpdateStatus(n, r) \/ ClearFinalizer(n, r)
          PROVE  pc'[n] # "clearFinalizer"
      BY <2>1, <2>5 DEF SetFinalizer, WriteConfigMap, UpdateStatus, ClearFinalizer, Finish, Goto
    <2> QED BY <1>3, <2>2, <2>3, <2>4, <2>5, Zenon DEF Worker
  <1>4. ASSUME NEW m \in Names \ {n}, Worker(m) PROVE pc'[n] = pc[n] /\ work'[n] = work[n]
    BY <1>4, WorkerOthers DEF Consistent
  <1>5. CASE UNCHANGED <<pc, work>>
    BY <1>1, <1>5
  <1>6. CASE Environment
    BY <1>2, <1>5, <1>6, ZenonT(30)
       DEF Environment, CreateCIP, EditCIP, DeleteCIP, ChangeSource, DeleteConfigMap, GlobalResync, Restart
  <1>7. CASE UNCHANGED vars
    BY <1>5, <1>7 DEF vars
  <1> QED
    BY <1>1, <1>2, <1>3, <1>4, <1>5, <1>6, <1>7, ZenonT(30) DEF Next, DeliverCIP, DeliverConfigMap, Panic

\* Once FinalizeKind's removal was accepted, the entry stays away until the
\* finalizer is cleared.
THEOREM RemovalIsHeld == Spec => []RemovalHolds
  <1>1. Init => RemovalHolds
    BY DEF Init, RemovalHolds
  <1>2. TypeOK /\ Consistent /\ RemovalHolds /\ [Next]_vars => RemovalHolds'
    BY RemovalStep
  <1> QED BY <1>1, <1>2, TypeCorrect, Consistency, PTL DEF Spec
=============================================================================
