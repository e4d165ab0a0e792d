----------------------------- MODULE EngineAudit -----------------------------
(***************************************************************************)
(* Engine with history variables, to say what holds from one lifetime of   *)
(* the daemon to the next: which slots were ever launched, and when a      *)
(* command of each job last started.  They are updated beside the engine's *)
(* steps and constrain none of them.                                       *)
(***************************************************************************)
EXTENDS Engine

\* Schedule.Next returns the first fire time after an instant (ports.go:12-15),
\* so for a later instant it returns none that is earlier.
ASSUME FirstAssumption ==
    \A j \in Job : \A v, w \in Wall : v <= w => NextSlot(j, v) <= NextSlot(j, w)

VARIABLES
    served,      \* job -> the slots it was launched for
    lastStart    \* job -> when a command of it last started, NoTime if never

auditVars == <<vars, served, lastStart>>

AuditInit ==
    /\ Init
    /\ served = [j \in Job |-> {latest[j]} \ {NoTime}]
    /\ lastStart = latest

\* launch(cur') starts in this step, for the slot last'[cur'].
Launching == step = "none" /\ step' = "set"

StartsCommand(j) ==
    \E r \in Run : jobOf[r] = j /\ stage[r] = "ready" /\ stage'[r] = "exec"

AuditNext ==
    /\ Next
    /\ served' = IF Launching
                 THEN [served EXCEPT ![cur'] = @ \cup {last'[cur']}]
                 ELSE served
    /\ lastStart' = [j \in Job |-> IF StartsCommand(j) THEN clock ELSE lastStart[j]]

AuditSpec == AuditInit /\ [][AuditNext]_auditVars

-----------------------------------------------------------------------------
\* While no daemon crashes, no record is lost and the clock is not set back, a
\* slot is launched at most once for ever: a restart's catch-up pass never
\* repeats a slot an earlier daemon served (its run started at or after it).
SlotServedOnce ==
    [][Launching /\ cur' \notin NeverFires
          /\ faults \cap {"crash", "record", "clock"} = {}
       => last'[cur'] \notin served[cur']]_auditVars

\* When the catch-up pass is over, no catch_up_once job with a history has a
\* slot before this start of the daemon that its commands all started before:
\* it has just been launched, or nothing was missed.  Crashes and lost records
\* do not matter; a history that cannot be read or a clock set back does.
CaughtUp ==
    [][CatchUpDone /\ faults \cap {"read", "clock"} = {} =>
          \A j \in CatchUp \ NeverFires :
              latest[j] # NoTime =>
                  \/ last[j] # ZeroTime
                  \/ ~ (NextIn(j, lastStart[j], LocalOffset) < now)]_auditVars

\* policy.go:14-15: Grace is how late a fire may be and still count as "on
\* time".  So a tick that skips a job passes over no slot within its grace.
OnTimeSlotKept ==
    [][\A j \in Job :
          SkipLate(j) /\ now > Grace =>
              now < NextIn(j, now - Grace - 1, LocalOffset)]_auditVars

\* policy.go:28: "if the previous run is still active, skip", where the
\* previous run may be a command an earlier daemon started and left behind.
NoLaunchBesideOrphan ==
    [][Launching => cur' \notin orphans]_auditVars
=============================================================================
