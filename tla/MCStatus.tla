------------------------------ MODULE MCStatus ------------------------------
(* Small instances of Status, and with it of EngineAudit, for TLC.  Each job *)
(* fires at every multiple of its period, on the wall clock.                 *)
EXTENDS Status, TLC

CONSTANTS a, b

Period(j) == IF j = a THEN 1 ELSE 3
Every(j, w) == (w \div Period(j) + 1) * Period(j)
Limits == [j \in Job |-> 1]
Symmetry == Permutations(Run)
=============================================================================
