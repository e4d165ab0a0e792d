------------------------------- MODULE Daemon -------------------------------
(***************************************************************************)
(* What the daemon promises, without schedules, ticks, stores or launches: *)
(* a phase and the set of runs under way.  A run begins only while the     *)
(* daemon is on and only if no other run of its job is under way; a daemon *)
(* told to quit begins none, and goes off when the last has ended.  Engine *)
(* is shown to implement this (EngineAbstraction).                         *)
(***************************************************************************)
CONSTANTS Job, Run

VARIABLES
    phase,   \* "off", "on" or "draining"
    runs     \* the runs under way: pairs of an identity and a job

vars == <<phase, runs>>

Init == phase = "off" /\ runs = {}

Boot == phase = "off" /\ phase' = "on" /\ UNCHANGED runs

Begin(r, j) ==
    /\ phase = "on"
    /\ \A p \in runs : p[1] # r /\ p[2] # j
    /\ runs' = runs \cup {<<r, j>>}
    /\ UNCHANGED phase

End(p) ==
    /\ p \in runs
    /\ runs' = runs \ {p}
    /\ UNCHANGED phase

ToldToQuit == phase = "on" /\ phase' = "draining" /\ UNCHANGED runs

Halt == phase = "draining" /\ runs = {} /\ phase' = "off" /\ UNCHANGED runs

Die == phase # "off" /\ phase' = "off" /\ runs' = {}

Next ==
    \/ Boot \/ ToldToQuit \/ Halt \/ Die
    \/ \E r \in Run, j \in Job : Begin(r, j)
    \/ \E p \in Run \X Job : End(p)

Spec == Init /\ [][Next]_vars

\* Every run ends and a drained daemon goes off.
FairSpec ==
    /\ Spec
    /\ WF_vars(Halt)
    /\ \A p \in Run \X Job : WF_vars(End(p))
=============================================================================
