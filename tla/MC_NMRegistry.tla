---------------------------- MODULE MC_NMRegistry ----------------------------
(* Constants of NMRegistry for TLC.                                        *)
EXTENDS NMRegistry

\* The code's timing: monitor period and HEARTBEAT_INTERVAL 5 s, grace 60 s,
\* HEARTBEAT_TIMEOUT 15 s.
MCUnit == 5
MCInterval == 5
MCGrace == 60
MCTimeout == 15

\* s1 alone, started and restarted.
MCRunsOne == [s \in {"s1"} |-> 2]

\* A coarser clock: one Tick is three monitor periods (15 s).
MCUnitCoarse == 15

\* s1 is started and restarted; s2 is started once.
MCRunsTwo == [s \in {"s1", "s2"} |-> IF s = "s1" THEN 2 ELSE 1]
=============================================================================
