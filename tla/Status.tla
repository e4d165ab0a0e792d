------------------------------- MODULE Status -------------------------------
(***************************************************************************)
(* `cronhub status`, a process of its own that reads the daemon's store    *)
(* while the daemon runs (cmd/cronhub/main.go, mustJobStatus): first the   *)
(* whole running table, then the clock, then job by job the latest history *)
(* row, without a transaction around them.  A render that cannot list the  *)
(* running table shows nothing; a job whose history cannot be read (the    *)
(* fault "read") is shown as one that has never run.                       *)
(***************************************************************************)
EXTENDS EngineAudit

CONSTANT Limit   \* job -> its timeout, or the ceiling if it has none

VARIABLES
    at,      \* "idle", "listed" or "rows"
    since,   \* runningSince
    readAt,  \* its now
    unshown, \* the jobs it has still to show
    shown,   \* the dashboard: job -> its state and last run
    begun    \* history: lastStart when the running table was read

readerVars == <<at, since, readAt, unshown, shown, begun>>

Blank == [j \in Job |-> [state |-> "none", last |-> NoTime]]

StatusInit ==
    /\ AuditInit
    /\ at = "idle" /\ readAt = NoTime /\ unshown = {}
    /\ since = [j \in Job |-> NoTime]
    /\ begun = [j \in Job |-> NoTime]
    /\ shown = Blank

ListRunning ==
    /\ at = "idle"
    /\ at' = "listed"
    /\ since' = marks
    /\ begun' = lastStart
    /\ shown' = Blank
    /\ UNCHANGED <<readAt, unshown>>

ReadClock ==
    /\ at = "listed"
    /\ at' = "rows"
    /\ readAt' = clock
    /\ unshown' = Job
    /\ UNCHANGED <<since, shown, begun>>

\* Idle, running, or running for longer than it may: the daemon that left the
\* row has probably died.
State(j) ==
    IF since[j] = NoTime THEN "idle"
    ELSE IF readAt - since[j] > Limit[j] THEN "unknown" ELSE "running"

\* What the last-run column may say: the latest record, or "never".
LastRun(j) == {latest[j]} \cup (IF "read" \in faults THEN {NoTime} ELSE {})

Show(j) ==
    /\ at = "rows" /\ j \in unshown
    /\ unshown' = unshown \ {j}
    /\ \E t \in LastRun(j) :
          shown' = [shown EXCEPT ![j] = [state |-> State(j), last |-> t]]
    /\ UNCHANGED <<at, since, readAt, begun>>

Rendered ==
    /\ at = "rows" /\ unshown = {}
    /\ at' = "idle"
    /\ readAt' = NoTime
    /\ since' = [j \in Job |-> NoTime]
    /\ begun' = [j \in Job |-> NoTime]
    /\ UNCHANGED <<unshown, shown>>

ReaderStep ==
    \/ ListRunning \/ ReadClock \/ Rendered
    \/ \E j \in Job : Show(j)

StatusNext ==
    \/ AuditNext /\ UNCHANGED readerVars
    \/ ReaderStep /\ UNCHANGED auditVars

StatusSpec == StatusInit /\ [][StatusNext]_<<auditVars, readerVars>>

-----------------------------------------------------------------------------
\* A job shown as idle is shown with its latest run: the engine records before
\* it clears, and status reads the running table before the history, so no run
\* falls between the two reads.  Crashes do not matter (their row stays), nor
\* does a clock that is set back (the history keeps its latest row); lost rows
\* and records do.  Where reading the history may fail the job may be shown as one
\* that has never run (main.go:293-294), but not with an older run.
IdleShowsLastRun ==
    faults \cap {"mark", "record"} = {} =>
        \A j \in Job :
            at = "rows" /\ shown[j].state = "idle" =>
                \/ shown[j].last >= begun[j]
                \/ "read" \in faults /\ shown[j].last = NoTime
=============================================================================
