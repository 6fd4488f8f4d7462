--------------------------- MODULE ConfigMapPatch ---------------------------
(***************************************************************************)
(* The ConfigMap requests of the reconcilers                               *)
(* (pkg/reconciler/*/resources/configmap.go) and what the API server does  *)
(* with them.                                                              *)
(*                                                                         *)
(* The Data of a ConfigMap is a function from Keys to entries, None where  *)
(* the key is missing.  Data is serialised with omitempty, so the path     *)
(* /data itself is missing exactly when no key has an entry.               *)
(*                                                                         *)
(* A request carries the Data its sender wants to see (value); only the    *)
(* part its path names reaches the server.                                 *)
(***************************************************************************)
CONSTANTS Keys,     \* the keys a ConfigMap's Data can have
          None,     \* no entry
          DataPath  \* the path /data, as opposed to /data/<key>

ASSUME PathAssumption == DataPath \notin Keys

EmptyData == [k \in Keys |-> None]

Ops == {"none", "create", "add", "replace", "remove"}

\* No request: len(patchBytes) = 0.
NoPatch == [op |-> "none", path |-> DataPath, value |-> EmptyData]

\* resources.NewConfigMap, sent with Create.
NewConfigMap(name, entry) ==
  [op |-> "create", path |-> DataPath, value |-> [EmptyData EXCEPT ![name] = entry]]

\* duck.CreatePatch (knative): the JSON patch between two ConfigMaps whose Data
\* differ in at most the entry of name.
JSONPatch(before, after, name) ==
  IF before = after
    THEN NoPatch
    ELSE [op    |-> IF before[name] = None THEN "add"
                    ELSE IF after[name] = None THEN "remove" ELSE "replace",
          path  |-> IF before = EmptyData \/ after = EmptyData THEN DataPath ELSE name,
          value |-> after]

\* Mutant of CreatePatch: the Data seen is sent back whole.
CreatePatchWhole(name, seen, entry) ==
  [op |-> "add", path |-> DataPath, value |-> [seen EXCEPT ![name] = entry]]

\* resources.CreatePatch: add or update the entry of name in the Data seen.
CreatePatch(name, seen, entry) == JSONPatch(seen, [seen EXCEPT ![name] = entry], name)

\* resources.CreateRemovePatch: remove the entry of name from the Data seen.
CreateRemovePatch(name, seen) == JSONPatch(seen, [seen EXCEPT ![name] = None], name)

\* The ConfigMap as the API server stores it.
NoConfigMap == [exists |-> FALSE, data |-> EmptyData]
ConfigMapOf(data) == [exists |-> TRUE, data |-> data]

\* The API server accepts a request: Create needs the name to be free, a patch
\* needs the object, and RFC 6902 needs the parent of what it adds and the
\* target of what it replaces or removes.
Accepts(cm, req) ==
  IF req.op = "create"
    THEN ~cm.exists
    ELSE /\ cm.exists
         /\ \/ req.op = "none"
            \/ req.op = "add" /\ (req.path = DataPath \/ cm.data # EmptyData)
            \/ /\ req.op \in {"replace", "remove"}
               /\ IF req.path = DataPath THEN cm.data # EmptyData ELSE cm.data[req.path] # None

\* The ConfigMap after the server applied an accepted request.
Apply(cm, req) ==
  IF req.op = "none" THEN cm
  ELSE ConfigMapOf(IF req.path = DataPath THEN req.value
                   ELSE [cm.data EXCEPT ![req.path] = req.value[req.path]])
=============================================================================
