------------------------------- MODULE Engine -------------------------------
(***************************************************************************)
(* The scheduling engine of cronhub (internal/core/engine.go) with the     *)
(* parts it drives: the trigger and overlap policies, the store's run      *)
(* history and running table, and one goroutine per launched run.          *)
(*                                                                         *)
(* Three kinds of actor interleave.  The loop (Engine.Run) loads the jobs, *)
(* makes the catch-up pass, then serves ticks until it is told to quit.    *)
(* Each launched run is a goroutine that executes the command, records it, *)
(* notifies, and unwinds its deferred calls.  The environment moves the    *)
(* clock, fires the ticker, asks the daemon to quit, and crashes it.       *)
(*                                                                         *)
(* Instants are integers (UTC).  A schedule is a function of the wall      *)
(* clock: robfig/cron's Next evaluates it in the zone of the time it is    *)
(* given, so NextIn takes the offset of that zone.                         *)
(***************************************************************************)
EXTENDS Integers, FiniteSets

CONSTANTS
    Job,            \* the jobs LoadJobs returns, their schedules all parsable
    NoJob,          \* not a job
    Run,            \* identities for goroutines that exist at the same time
    CatchUp,        \* the jobs with on_missed = "catch_up_once"
    NeverFires,     \* the jobs whose schedule matches no instant (30 February)
    NextSlot(_, _), \* NextSlot(j, w): the first slot of j after wall time w
    Grace,          \* SkipMissed.Grace
    LocalOffset,    \* local zone of the daemon minus UTC
    MaxTime,        \* bound on the clock
    SetBack,        \* bound: the instants at which the clock may be set back
    FaultProfiles,  \* sets of faults; a behaviour meets those of one of them
    Quits           \* how the daemon may be told to quit

Time == 0 .. MaxTime
NoTime == -1
ZeroTime == -(Grace + 1)   \* time.Time{}: too far back to be in anyone's grace

\* The wall times the engine ever asks a schedule about.
Wall == Time \cup {t + LocalOffset : t \in Time}

ASSUME NamesAssumption ==
    /\ NoJob \notin Job
    /\ CatchUp \subseteq Job
    /\ NeverFires \subseteq Job
    /\ \A f \in FaultProfiles :
          f \subseteq {"read", "mark", "record", "clear", "clock", "crash"}
    /\ Quits \subseteq {"stop", "cancel"}

ASSUME NumbersAssumption ==
    /\ Grace \in Nat
    /\ MaxTime \in Nat
    /\ LocalOffset \in Int

\* ports.Schedule: the next fire time is strictly after the instant given.
ASSUME ScheduleAssumption ==
    \A j \in Job : \A w \in Wall : NextSlot(j, w) \in Int /\ NextSlot(j, w) > w

\* Schedule.Next on an instant t presented in the zone with offset off.
\* robfig/cron gives up after five years and returns the zero time.
NextIn(j, t, off) ==
    IF j \in NeverFires THEN ZeroTime ELSE NextSlot(j, t + off) - off

VARIABLES
    clock,     \* the machine's clock
    faults,    \* what may go wrong in this behaviour; it never changes
    orphans,   \* jobs with a process left behind by a daemon that died
    \* the store, which survives the daemon
    marks,     \* table running: job -> started_at, NoTime if it has no row
    latest,    \* table runs: job -> its greatest started, NoTime if none
    \* the loop
    pc,        \* where Engine.Run is
    now,       \* its local now
    todo,      \* the jobs the current pass has still to visit
    cur,       \* the job being launched
    step,      \* how far launch has got with it
    next,      \* scheduled.next
    last,      \* scheduled.last
    tick,      \* what the ticker's channel holds, NoTime if empty
    asked,     \* the quit requests made so far
    \* shared by the loop and the goroutines
    running,   \* Engine.running
    wg,        \* the counter of Engine.wg
    \* the goroutines
    stage,     \* what each is about to do
    jobOf,     \* the job it runs
    started    \* RunResult.Started

store == <<marks, latest>>
loop  == <<pc, now, todo, cur, step, next, last>>
gos   == <<stage, jobOf, started>>
world == <<clock, faults, orphans>>
vars  == <<world, store, loop, tick, asked, running, wg, gos>>

\* What a step of the loop, of a goroutine, of the environment leaves alone.
offLoop == <<world, store, tick, asked, running, wg, gos>>
offRun  == <<world, loop, tick, asked>>
daemon  == <<loop, asked, running, wg, gos>>

Stages == {"free", "ready", "exec", "record", "notify", "clear", "unset", "done"}

\* Goroutines whose job still counts as running, and those not yet waited for.
Live == {r \in Run : stage[r] \notin {"free", "done"}}
Unfinished == {r \in Run : stage[r] # "free"}

-----------------------------------------------------------------------------
\* The database is new, or a daemon before has started every job at instant 0.
Init ==
    /\ clock = 0
    /\ faults \in FaultProfiles
    /\ orphans = {}
    /\ marks = [j \in Job |-> NoTime]
    /\ latest \in {[j \in Job |-> NoTime], [j \in Job |-> 0]}
    /\ pc = "down"
    /\ now = NoTime /\ todo = {} /\ cur = NoJob /\ step = "none"
    /\ next = [j \in Job |-> ZeroTime]
    /\ last = [j \in Job |-> ZeroTime]
    /\ tick = NoTime /\ asked = {} /\ running = {} /\ wg = 0
    /\ stage = [r \in Run |-> "free"]
    /\ jobOf = [r \in Run |-> NoJob]
    /\ started = [r \in Run |-> NoTime]

\* Engine.Run up to the catch-up pass: load the jobs, schedule each from now.
\* The pass skips the jobs that are not in CatchUp without a further effect.
Start ==
    /\ pc = "down"
    /\ pc' = "catchup"
    /\ now' = clock
    /\ todo' = CatchUp
    /\ next' = [j \in Job |-> NextIn(j, clock, LocalOffset)]
    /\ UNCHANGED <<offLoop, cur, step, last>>

\* Mutant: launch returns before doing anything.
LaunchLost(j) == cur' = j /\ step' = "none"

\* launch(job) begins: the steps SetRunning, MarkRunning, Spawn follow.
Launch(j) == cur' = j /\ step' = "set"

-----------------------------------------------------------------------------
\* The catch-up pass.

InCatchUp(j) ==
    /\ pc = "catchup" /\ step = "none"
    /\ j \in todo
    /\ todo' = todo \ {j}

\* Mutant: the slot of the last run itself counts as missed.
MissedAtInclusive(j) == NextIn(j, latest[j] - 1, 0)

\* ReadHistory returns instants in UTC, so Next works in UTC here.
MissedAt(j) == NextIn(j, latest[j], 0)

\* Nothing recorded, or nothing missed, or the history cannot be read.
NothingMissed(j) ==
    /\ InCatchUp(j)
    /\ \/ "read" \in faults
       \/ latest[j] = NoTime
       \/ latest[j] # NoTime /\ ~ (MissedAt(j) < now)
    /\ UNCHANGED <<offLoop, pc, now, cur, step, next, last>>

Missed(j) ==
    /\ InCatchUp(j)
    /\ latest[j] # NoTime
    /\ MissedAt(j) < now
    /\ last' = [last EXCEPT ![j] = MissedAt(j)]
    /\ Launch(j)
    /\ UNCHANGED <<offLoop, pc, now, next>>

CatchUpDone ==
    /\ pc = "catchup" /\ step = "none" /\ todo = {}
    /\ pc' = "select"
    /\ UNCHANGED <<offLoop, now, todo, cur, step, next, last>>

-----------------------------------------------------------------------------
\* The select loop.  When several cases are ready Go takes one at random.

ReceiveTick ==
    /\ pc = "select" /\ tick # NoTime
    /\ pc' = "tick"
    /\ now' = tick
    /\ tick' = NoTime
    /\ todo' = Job
    /\ UNCHANGED <<world, store, cur, step, next, last, asked,
                   running, wg, gos>>

\* <-e.stop or <-ctx.Done(): both go on to wg.Wait.
ReceiveQuit ==
    /\ pc = "select" /\ asked # {}
    /\ pc' = "drain"
    /\ UNCHANGED <<offLoop, now, todo, cur, step, next, last>>

\* Mutant: Run returns without wg.Wait.
NoneAwaited == TRUE

AllDone == wg = 0

\* wg.Wait returns, Run returns, main closes the store.
Drained ==
    /\ pc = "drain" /\ AllDone
    /\ pc' = "closed"
    /\ UNCHANGED <<offLoop, now, todo, cur, step, next, last>>

InTick(j) ==
    /\ pc = "tick" /\ step = "none"
    /\ j \in todo
    /\ todo' = todo \ {j}

Due(j) == ~ (now < next[j])
Late(j) == now - next[j] > Grace      \* SkipMissed.Decide = TriggerSkip

\* Mutant: s.next stays where it was.
AdvancedNever(j) == next
Advanced(j) == [next EXCEPT ![j] = NextIn(j, now, LocalOffset)]

\* Mutant: the overlap check looks at the running table instead of the map.
IsRunningInStore(j) == marks[j] # NoTime

IsRunning(j) == j \in running

NotDue(j) ==
    /\ InTick(j)
    /\ ~ Due(j)
    /\ UNCHANGED <<offLoop, pc, now, cur, step, next, last>>

SkipLate(j) ==
    /\ InTick(j)
    /\ Due(j) /\ Late(j)
    /\ next' = Advanced(j)
    /\ UNCHANGED <<offLoop, pc, now, cur, step, last>>

\* NoOverlap.OnOverlap: skip while the previous run is active.
SkipOverlap(j) ==
    /\ InTick(j)
    /\ Due(j) /\ ~ Late(j)
    /\ IsRunning(j)
    /\ next' = Advanced(j)
    /\ UNCHANGED <<offLoop, pc, now, cur, step, last>>

Fire(j) ==
    /\ InTick(j)
    /\ Due(j) /\ ~ Late(j)
    /\ ~ IsRunning(j)
    /\ next' = Advanced(j)
    /\ last' = [last EXCEPT ![j] = next[j]]
    /\ Launch(j)
    /\ UNCHANGED <<offLoop, pc, now>>

TickDone ==
    /\ pc = "tick" /\ step = "none" /\ todo = {}
    /\ pc' = "select"
    /\ UNCHANGED <<offLoop, now, todo, cur, step, next, last>>

-----------------------------------------------------------------------------
\* launch, as far as the loop executes it.

SetRunning ==
    /\ step = "set"
    /\ running' = running \cup {cur}
    /\ step' = "mark"
    /\ UNCHANGED <<world, store, pc, now, todo, cur, next, last,
                   tick, asked, wg, gos>>

\* Best-effort: a failed upsert does not stop the run.
MarkRunning ==
    /\ step = "mark"
    /\ marks' \in {[marks EXCEPT ![cur] = clock]}
                  \cup (IF "mark" \in faults THEN {marks} ELSE {})
    /\ step' = "spawn"
    /\ UNCHANGED <<world, latest, pc, now, todo, cur, next, last,
                   tick, asked, running, wg, gos>>

Spawn(r) ==
    /\ step = "spawn"
    /\ stage[r] = "free"
    /\ wg' = wg + 1
    /\ stage' = [stage EXCEPT ![r] = "ready"]
    /\ jobOf' = [jobOf EXCEPT ![r] = cur]
    /\ cur' = NoJob
    /\ step' = "none"
    /\ UNCHANGED <<world, store, pc, now, todo, next, last, tick,
                   asked, running, started>>

-----------------------------------------------------------------------------
\* The goroutine of one run: Executor.Run, RecordRun, the notifications, then
\* the deferred calls, last one first.

Goto(r, from, to) ==
    /\ stage[r] = from
    /\ stage' = [stage EXCEPT ![r] = to]

ExecStart(r) ==
    /\ Goto(r, "ready", "exec")
    /\ started' = [started EXCEPT ![r] = clock]
    /\ UNCHANGED <<offRun, store, running, wg, jobOf>>

\* Mutant: the row goes as soon as the command has completed.
ExecDoneCleared(r) ==
    /\ Goto(r, "exec", "record")
    /\ marks' = [marks EXCEPT ![jobOf[r]] = NoTime]
    /\ UNCHANGED <<offRun, latest, running, wg, jobOf, started>>

ExecDone(r) ==
    /\ Goto(r, "exec", "record")
    /\ UNCHANGED <<offRun, store, running, wg, jobOf, started>>

\* Mutant: the record is stamped with the completion of the run.
RecordedAtEnd(r) == [latest EXCEPT ![jobOf[r]] = IF clock > @ THEN clock ELSE @]

\* The history is only ever read for its latest row, so it is kept as that.
Recorded(r) ==
    [latest EXCEPT ![jobOf[r]] = IF started[r] > @ THEN started[r] ELSE @]

\* Mutant: the goroutine returns when the record fails, ClearRunning not being
\* deferred.
RecordRunReturns(r) ==
    /\ \/ Goto(r, "record", "notify") /\ latest' = Recorded(r)
       \/ "record" \in faults /\ Goto(r, "record", "unset") /\ UNCHANGED latest
    /\ UNCHANGED <<offRun, marks, running, wg, jobOf, started>>

RecordRun(r) ==
    /\ Goto(r, "record", "notify")
    /\ latest' \in {Recorded(r)}
                   \cup (IF "record" \in faults THEN {latest} ELSE {})
    /\ UNCHANGED <<offRun, marks, running, wg, jobOf, started>>

\* Every notifier of the job is called and its error dropped.
NotifyAll(r) ==
    /\ Goto(r, "notify", "clear")
    /\ UNCHANGED <<offRun, store, running, wg, jobOf, started>>

\* Mutant: the row is not deleted.
UnmarkedNot(r) == marks

Unmarked(r) == [marks EXCEPT ![jobOf[r]] = NoTime]

ClearRunning(r) ==
    /\ Goto(r, "clear", "unset")
    /\ marks' \in {Unmarked(r)}
                  \cup (IF "clear" \in faults THEN {marks} ELSE {})
    /\ UNCHANGED <<offRun, latest, running, wg, jobOf, started>>

UnsetRunning(r) ==
    /\ Goto(r, "unset", "done")
    /\ running' = running \ {jobOf[r]}
    /\ UNCHANGED <<offRun, store, wg, jobOf, started>>

\* Mutant: the deferred wg.Done is missing.
KeptOne == wg

OneLess == wg - 1

WgDone(r) ==
    /\ Goto(r, "done", "free")
    /\ wg' = OneLess
    /\ jobOf' = [jobOf EXCEPT ![r] = NoJob]
    /\ started' = [started EXCEPT ![r] = NoTime]
    /\ UNCHANGED <<offRun, store, running>>

-----------------------------------------------------------------------------
\* The environment.

Up == pc \in {"catchup", "select", "tick", "drain"}

\* Stop (the signal handler closes e.stop) or the context is cancelled.
Quit(k) ==
    /\ Up
    /\ k \notin asked
    /\ asked' = asked \cup {k}
    /\ UNCHANGED <<world, store, loop, tick, running, wg, gos>>

\* The process is gone; only the store and the clock remain.
Gone ==
    /\ pc' = "down"
    /\ now' = NoTime /\ todo' = {} /\ cur' = NoJob /\ step' = "none"
    /\ next' = [j \in Job |-> ZeroTime]
    /\ last' = [j \in Job |-> ZeroTime]
    /\ tick' = NoTime /\ asked' = {} /\ running' = {} /\ wg' = 0
    /\ stage' = [r \in Run |-> "free"]
    /\ jobOf' = [r \in Run |-> NoJob]
    /\ started' = [r \in Run |-> NoTime]
    /\ UNCHANGED <<clock, faults, store>>

Exit ==
    /\ pc = "closed"
    /\ Gone
    /\ UNCHANGED orphans

\* The daemon dies; the processes of its running commands do not.
Crash ==
    /\ "crash" \in faults
    /\ Up
    /\ Gone
    /\ orphans' = orphans \cup {jobOf[r] : r \in {x \in Run : stage[x] = "exec"}}

OrphanExit(j) ==
    /\ j \in orphans
    /\ orphans' = orphans \ {j}
    /\ UNCHANGED <<daemon, clock, faults, store, tick>>

\* time.Ticker: a channel of capacity one, a tick that finds it full is lost.
TickerFire ==
    /\ pc \in {"select", "tick"}
    /\ tick = NoTime
    /\ tick' = clock
    /\ UNCHANGED <<daemon, world, store>>

\* Time passes, whether or not the machine is awake to see it.
Advance ==
    /\ clock < MaxTime
    /\ clock' = clock + 1
    /\ UNCHANGED <<daemon, orphans, faults, store, tick>>

\* The clock is set back.
StepBack ==
    /\ "clock" \in faults
    /\ clock \in SetBack \ {0}
    /\ clock' = clock - 1
    /\ UNCHANGED <<daemon, orphans, faults, store, tick>>

-----------------------------------------------------------------------------
LoopStep ==
    \/ CatchUpDone \/ ReceiveTick \/ ReceiveQuit \/ Drained \/ TickDone
    \/ SetRunning \/ MarkRunning
    \/ \E r \in Run : Spawn(r)
    \/ \E j \in Job : \/ NothingMissed(j) \/ Missed(j)
                      \/ NotDue(j) \/ SkipLate(j) \/ SkipOverlap(j) \/ Fire(j)

RunStep(r) ==
    \/ ExecStart(r) \/ ExecDone(r) \/ RecordRun(r) \/ NotifyAll(r)
    \/ ClearRunning(r) \/ UnsetRunning(r) \/ WgDone(r)

Environment ==
    \/ Start \/ Exit \/ Crash \/ TickerFire \/ Advance \/ StepBack
    \/ \E k \in Quits : Quit(k)
    \/ \E j \in Job : OrphanExit(j)

Next ==
    \/ LoopStep
    \/ \E r \in Run : RunStep(r)
    \/ Environment

Spec == Init /\ [][Next]_vars

\* The loop and the ticker run, every command ends, and the random choice of
\* select does not refuse a ready quit for ever.
Fairness ==
    /\ WF_vars(LoopStep)
    /\ SF_vars(ReceiveQuit)
    /\ WF_vars(TickerFire)
    /\ \A r \in Run : WF_vars(RunStep(r))

FairSpec == Spec /\ Fairness

-----------------------------------------------------------------------------
\* Every variable keeps its type (fields of Engine and scheduled, the rows of
\* the store, the stage of each goroutine).
TypeOK ==
    /\ clock \in Time
    /\ faults \in FaultProfiles
    /\ orphans \subseteq Job
    /\ marks \in [Job -> Time \cup {NoTime}]
    /\ latest \in [Job -> Time \cup {NoTime}]
    /\ pc \in {"down", "catchup", "select", "tick", "drain", "closed"}
    /\ now \in Time \cup {NoTime}
    /\ todo \subseteq Job
    /\ cur \in Job \cup {NoJob}
    /\ step \in {"none", "set", "mark", "spawn"}
    /\ next \in [Job -> Int]
    /\ last \in [Job -> Int]
    /\ tick \in Time \cup {NoTime}
    /\ asked \subseteq Quits
    /\ running \subseteq Job
    /\ wg \in Int
    /\ stage \in [Run -> Stages]
    /\ jobOf \in [Run -> Job \cup {NoJob}]
    /\ started \in [Run -> Time \cup {NoTime}]
    /\ IF step = "none" THEN cur = NoJob ELSE cur \in Job
    /\ pc \in {"catchup", "tick"} => now \in Time
    /\ \A r \in Run : stage[r] # "free" => jobOf[r] \in Job
    /\ pc \in {"down", "select", "drain", "closed"} => step = "none"

\* A daemon never has two goroutines executing the same job: launch sets the
\* running flag before the goroutine exists, and only its own goroutine, with
\* all its other work done, takes it away.
AtMostOneRun ==
    \A r1, r2 \in Live : jobOf[r1] = jobOf[r2] => r1 = r2

\* While a run is between launch and ClearRunning the running table has its
\* row, so no deferred clear of an earlier run may hit a later run's row.
\* Only a failed MarkRunning excuses a missing row.
MarkerCoversRun ==
    "mark" \notin faults =>
        \A r \in Run : stage[r] \in {"ready", "exec", "record", "notify", "clear"}
                          => marks[jobOf[r]] # NoTime

\* A row of the running table stands for a launch under way or a run not yet
\* cleared, unless the daemon crashed or a clear failed.
MarkerExplained ==
    faults \cap {"crash", "clear"} = {} =>
        \A j \in Job : marks[j] # NoTime =>
            \/ cur = j /\ step = "spawn"
            \/ \E r \in Run :
                  /\ jobOf[r] = j
                  /\ stage[r] \in {"ready", "exec", "record", "notify", "clear"}

\* Run returns, and main closes the store, only when no goroutine is left that
\* could still use it: Add comes before go, and Done is the last deferred call.
CleanClose == pc = "closed" => Unfinished = {} /\ running = {}

\* The slots a daemon launches a job for strictly increase, whatever the clock
\* does and wherever they come from (the catch-up pass or a tick): no slot is
\* launched twice in one lifetime.
SlotsAdvance ==
    [][step = "none" /\ step' = "set" /\ cur' \notin NeverFires
          => last'[cur'] > last[cur']]_vars

\* A quit request is honoured: the daemon ends up down (or has crashed).
StopCompletes == Up /\ asked # {} ~> pc \in {"closed", "down"}

\* A slot that has come due is decided: it does not stay pending while the
\* daemon runs, unless the clock is set back before it.
DueSlotDecided ==
    \A j \in Job \ NeverFires : \A s \in Time :
        (pc \in {"select", "tick"} /\ next[j] = s /\ s <= clock)
            ~> (next[j] # s \/ s > clock \/ asked # {} \/ pc = "down")

\* A run that gets as far as its command does not leave its job marked as
\* running for ever: the row goes, even one an earlier, crashed daemon left.
MarkerCleared ==
    \A r \in Run : \A j \in Job :
        (stage[r] = "exec" /\ jobOf[r] = j) ~> (marks[j] = NoTime \/ pc = "down")
=============================================================================
