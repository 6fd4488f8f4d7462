----------------------------- MODULE MCMaterial -----------------------------
(***************************************************************************)
(* What a check is made from, on small sets: the authority, the keys of a  *)
(* TrustRoot and the public trusted root.  No step of one of the three     *)
(* reads or writes a variable of another, so a behaviour follows one of    *)
(* them (part) and leaves the others in an initial state: their steps need *)
(* no interleaving.                                                        *)
(***************************************************************************)
EXTENDS MCTrustRootKeys, MCAuthorityPipeline, TrustedRoot

VARIABLE part   \* the component a behaviour follows

materialVars == <<part, vars, keysVars, rootVars>>

NoTrustRoot == [repository |-> Null, remote |-> Null, keys |-> Null]

MaterialInit ==
  /\ \/ part = "authority" /\ spec = NoTrustRoot /\ content = LegacyRepo
     \/ part = "keys" /\ sent = Blank
     \/ part = "root" /\ sent = Blank /\ spec = NoTrustRoot /\ content = LegacyRepo
  /\ Init /\ KeysInit /\ RootInit

MaterialNext ==
  /\ UNCHANGED part
  /\ \/ part = "authority" /\ Next /\ UNCHANGED <<keysVars, rootVars>>
     \/ part = "keys" /\ KeysNext /\ UNCHANGED <<vars, rootVars>>
     \/ part = "root" /\ RootNext /\ UNCHANGED <<vars, keysVars>>

\* The fairness of TrustedRoot, the only one of the three with a property of liveness.
MaterialSpec ==
  MaterialInit /\ [][MaterialNext]_materialVars /\ \A c \in Callers : WF_rootVars(OwnSteps(c))
=============================================================================
