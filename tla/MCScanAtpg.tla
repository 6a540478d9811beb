---- MODULE MCScanAtpg ----
(* ScanAtpg for TLC; each .cfg picks a fault model and an operating mode.      *)
EXTENDS ScanAtpg

CONSTANTS p1, p2, p3

\* p1 drives a reset active; applied, it becomes p2.
HoldReset == [p \in Patterns |-> IF p = p1 THEN p2 ELSE p]
HoldNothing == [p \in Patterns |-> p]
====
