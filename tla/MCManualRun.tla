---------------------------- MODULE MCManualRun ----------------------------
(* Instances of ManualRun for TLC. *)
EXTENDS ManualRun

CONSTANTS r1, r2, s1, v1

\* A stop request and the timeout against two runs, and a browser that watches
\* two runs, of which the first prints a line.
Stopped == [HasTimeout |-> TRUE, clients |-> {s1}, lines |-> [r \in Runs |-> 0]]
Viewed == [HasTimeout |-> FALSE, clients |-> {v1}, lines |-> [r \in Runs |-> IF r = r1 THEN 1 ELSE 0]]
BothScenes == {Stopped, Viewed}
=============================================================================
