---------------------------- MODULE MCEngineAudit ----------------------------
(* Small instances of EngineAudit for TLC.                                   *)
EXTENDS EngineAudit, TLC

CONSTANTS a, b

\* Job j fires at every multiple of its period, on the wall clock.
Period(j) == IF j = a THEN 2 ELSE 3
Every(j, w) == (w \div Period(j) + 1) * Period(j)

Symmetry == Permutations(Run)
=============================================================================
