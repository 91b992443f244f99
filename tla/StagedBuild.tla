----------------------------- MODULE StagedBuild -----------------------------
(***************************************************************************)
(* What the compiler promises of one build, whatever its data structures:  *)
(* units go through three stages, one at a time and never back, and a      *)
(* stage starts only when the stage before it has been left by every unit  *)
(* that has to be there.                                                   *)
(*   0 known or unknown   1 prepared   2 analysed   3 generated            *)
(* (compiler/src/pipeline/pipeline.hpp: engage preparer, analyzer and      *)
(* generator, with a wait between them.)                                   *)
(***************************************************************************)
EXTENDS Naturals

CONSTANTS
  Units,     \* every file that may become a compilation unit
  Required   \* the units of the source directory

VARIABLES
  level,     \* level[u]: the last stage unit u has completed
  outcome    \* "running", or how the compiler ended

vars == <<level, outcome>>

Ends == {"success", "failure", "exit", "crash", "hang"}

Init ==
  /\ level = [u \in Units |-> 0]
  /\ outcome = "running"

To(u, n) ==
  /\ level[u] = n - 1
  /\ level' = [level EXCEPT ![u] = n]
  /\ UNCHANGED outcome

Prepare(u) == (\A v \in Units : level[v] < 2) /\ To(u, 1)

Analyse(u) == (\A v \in Required : level[v] >= 1) /\ To(u, 2)

Generate(u) == (\A v \in Units : level[v] # 1) /\ (\A v \in Required : level[v] >= 2) /\ To(u, 3)

\* A build succeeds when nothing is left halfway.
Succeed ==
  /\ \A v \in Units : level[v] # 1
  /\ \A v \in Required : level[v] >= 2
  /\ outcome' = "success"

Stop ==
  /\ outcome = "running"
  /\ UNCHANGED level
  /\ \/ Succeed
     \/ \E e \in Ends \ {"success"} : outcome' = e

Next ==
  \/ outcome = "running" /\ \E u \in Units : Prepare(u) \/ Analyse(u) \/ Generate(u)
  \/ Stop

Spec == Init /\ [][Next]_vars

=============================================================================
