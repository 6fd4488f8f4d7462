---------------------------- MODULE MCPolicySync ----------------------------
(***************************************************************************)
(* PolicySync with two names, started in two ways.  One of them has a CIP, *)
(* or gets one, and the environment takes its steps; or both CIPs are      *)
(* found by a controller that starts, and the environment is at rest.      *)
(***************************************************************************)
EXTENDS PolicySync

CONSTANTS a, b, v   \* the two names, and a value that the references inline to

\* Only a may have a CIP.
Alone == Init /\ b \notin queue /\ src[b] = v

\* Both have one, there is no ConfigMap, and the environment has taken all its steps.
Startup ==
  /\ queue = Names /\ cips = [n \in Names |-> <<NewCIP>>]
  /\ cmLog = <<NoConfigMap>>
  /\ src = [n \in Names |-> v]
  /\ pc = [n \in Names |-> "idle"] /\ work = [n \in Names |-> NoWork]
  /\ env = MaxEnv

MCInit == Alone \/ Startup

\* Where b has no CIP it gets none.
MCNext == Next /\ (~Cip(b).exists => cips'[b] = cips[b] /\ src'[b] = src[b])

MCSpec == MCInit /\ [][MCNext]_vars /\ Fairness
=============================================================================
