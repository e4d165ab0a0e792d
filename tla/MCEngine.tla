------------------------------ MODULE MCEngine ------------------------------
(* Small instances of Engine and its abstraction for TLC.  Each job fires at *)
(* every multiple of its period, on the wall clock.                          *)
EXTENDS EngineAbstraction, TLC

CONSTANTS a, b, c

Multiple(period, w) == (w \div period + 1) * period

\* Every instant is a slot of a: its runs easily last into the next one.
Dense(j, w) == Multiple(IF j = a THEN 1 ELSE 3, w)

\* Slots with instants between them at which a job may be late.
Sparse(j, w) == Multiple(IF j = a THEN 2 ELSE 3, w)

Symmetry == Permutations(Run)
=============================================================================
