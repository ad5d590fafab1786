------------------------- MODULE MCDownloadMonitor -------------------------
(* Small instances of DownloadMonitor for TLC. *)
EXTENDS DownloadMonitor

CONSTANTS s1, s2

Sizes == [t \in Tracks |-> IF t = 1 THEN 2 ELSE 1]
OwnedByFirst == [s \in Siblings |-> 1]

\* Two tracks against the fallback threshold, and one whose release has two
\* siblings against MaxDuration alone, with cancellations that are refused.
Bounded == [StallDuration |-> 2, MaxDuration |-> 2, FallbackAfter |-> 3, CleanupMayFail |-> FALSE]
Patient == [StallDuration |-> 1, MaxDuration |-> 3, FallbackAfter |-> 0, CleanupMayFail |-> TRUE]
BothConfigs == {Bounded, Patient}

MCInit == /\ Init
          /\ cfg = Bounded => sibling[s2] = "none"
          /\ cfg = Patient => ~ hasID[2]

MCSpec == MCInit /\ [][Next]_vars /\ WF_vars(Monitor)
=============================================================================
