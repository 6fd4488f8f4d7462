-------------------------- MODULE CompiledPolicies --------------------------
(***************************************************************************)
(* What the CIP reconciler promises to the reader of config-image-policies,*)
(* without listers, queues, workers or patches: an entry is written only   *)
(* while its CIP is held by the finalizer, one entry at a time, and never  *)
(* from an older version of the CIP; any entries may be dropped meanwhile. *)
(***************************************************************************)
EXTENDS Naturals

CONSTANTS Names, None

VARIABLES entry,   \* the entry of each CIP, with its resourceVersion rv, or None
          held     \* whether the CIP exists and carries the finalizer

Init == held = [n \in Names |-> FALSE] /\ entry = [n \in Names |-> None]

Kept(n) == entry'[n] \in {entry[n], None}

\* setFinalizerIfFinalizer and clearFinalizer.
Hold(n) == ~held[n] /\ held' = [held EXCEPT ![n] = TRUE] /\ UNCHANGED entry
Release(n) == held[n] /\ held' = [held EXCEPT ![n] = FALSE] /\ UNCHANGED entry

\* A patch of ReconcileKind, which may replace the whole of /data.
Write(n) ==
  /\ held[n] /\ entry'[n] # None
  /\ entry[n] # None => entry'[n].rv >= entry[n].rv
  /\ \A m \in Names \ {n} : Kept(m)
  /\ UNCHANGED held

\* removeCIPEntry, and whoever deletes the ConfigMap.
Drop == (\A n \in Names : Kept(n)) /\ UNCHANGED held

Next == Drop \/ \E n \in Names : Hold(n) \/ Release(n) \/ Write(n)

Spec == Init /\ [][Next]_<<entry, held>>
=============================================================================
