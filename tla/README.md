# A verification project for cronhub

cronhub is a job scheduler in Go: a daemon reads `cronhub.toml`, launches shell
commands at the times their schedules name, keeps a history of the runs in
SQLite, and other commands (`status`, `history`, `add`, `edit`, `remove`) look at
that database or change that file while the daemon runs. This directory models
the program's control in TLA+, model-checks it with TLC on small instances, and
proves results about it with TLAPS for every instance. Paths such as
`engine.go:85` are short for `src/internal/core/engine.go:85` and so on; `main.go`
is `src/cmd/cronhub/main.go`. `PROJECT.json` gives for each definition the lines it
translates.

## 1. Inventory

| component | source | state | operations | talks to |
|---|---|---|---|---|
| engine | `core/engine.go`, `policy/policy.go` | per job `next`, `last`; the `running` map; `wg`; `stop` | `Run` (load, catch-up pass, ticks, drain), `launch`, `Stop` | store, executor, notifiers, schedule; one goroutine per run |
| store | `store/sqlite.go` | tables `jobs`, `runs`, `running` | `SaveJob`, `LoadJobs`, `RecordRun`, `ReadHistory`, `MarkRunning`, `ClearRunning`, `ListRunning` | the daemon and every command, each with its own connection |
| executor | `executor/*.go` | one process group per run, two buffers | `Run`, `killProcessTree` | the operating system |
| configuration | `config/config.go` | the text of `cronhub.toml` | `Load`, `LoadConfig`: defaults under job fields, validity checks | main, engine (through the jobs table) |
| config commands | `config/edit.go`, `config/init.go` | the text and its `.bak` | `AddJob`, `RemoveJob`, `UpdateJob`, `Init` | each other, through the file |
| wiring | `main.go` | none of its own | `buildEngine`, `mustRun`, signal handling | all |
| status | `main.go:230` | the dashboard it prints | `mustJobStatus` | reads the store beside the daemon |
| history, list | `main.go` | none | reading, filtering, numbering | store, configuration |
| schedule | `schedule/*.go` | none | `Parse`, `Next` (human phrases and cron fields) | engine, main |
| crontab import | `crontab/crontab.go` | none | crontab lines to jobs with names | configuration |
| notifiers | `notifier/*.go` | none | `Notify`: log, webhook with a filter | engine's goroutines |
| service | `service/service.go` | none | install, uninstall, start | an external service manager |

What is hard, and what makes each component correct:

* **Engine.** The loop checks the running map, sets it, marks the database and
  spawns, while goroutines of earlier runs record, notify and unwind their deferred
  calls in reverse order. It must never run a job beside itself, must keep the
  row of a run as long as the run may be shown, must not return while a goroutine
  can still use the store, must launch no slot twice, must decide every due slot,
  and must end when told to. Slots come from two sources, the catch-up pass and
  the ticks, over many restarts and crashes. Store calls fail and are passed over.
  Ticks are old when they are received; the clock jumps and is set back.
* **Store.** Each call is atomic, no sequence of calls is. Instants change their
  zone on the way through the table, notify lists become text, and rows of earlier
  configurations stay.
* **Executor.** The timeout, a cancellation and the command's end race; members
  of the group fork and exit while it is killed; `cmd.Wait` waits for whoever
  holds the output pipe. The call must return, return whole output, leave nobody of
  the group behind when it cut the run short, and call nothing a success that is not.
* **Configuration and its commands.** Several processes read, truncate and write
  one file with no lock, and may be killed between two steps. The file must stay
  loadable, untouched jobs must keep their meaning, and what a killed command was
  rewriting must survive in the backup.
* **Wiring.** What the engine runs must be what the file says, whatever is in the
  jobs table.
* **Status.** It reads running table, clock and history one after the other, and
  must not lose a run that moves from one table to the other in between.
* **History.** The list and the drill-down by number read the table twice, each with
  a window, a filter and a cut; runs are recorded in between. A number must not lead to
  an older run than the one the list showed, and a filter must not hide what fits.
* **Notifiers.** They run in the goroutine of the run, after the record and before the
  row is cleared, one after the other; a webhook may hang. Their own idea of success
  must agree with the one in the history.
* **Schedule.** A phrase is translated to cron text that a second parser reads. Each
  phrase must be due at the instants its words name, no documented phrase may be refused,
  and nothing translated may be refused by the second parser.
* **Import.** A crontab becomes a file that config and schedule read: what import lets
  through must start the daemon.

`PROJECT.json` lists the hazards at their lines with the properties that cover them.

## 2. Modules

| module | what it is |
|---|---|
| `Engine` | the loop, the goroutines, the store's `runs` and `running` tables, the ticker, the clock, quits and crashes |
| `Daemon` | the abstract promise: a phase and a set of runs, no job beside itself, none begun after a quit, off only when all have ended |
| `EngineAbstraction` | `Engine` implements `Daemon` (a refinement mapping) |
| `EngineAudit` | history variables beside `Engine`: slots served and command starts, over the daemon's lifetimes |
| `Status` | `cronhub status` as a second process, beside `EngineAudit` |
| `Executor` | one call of `Executor.Run` with the processes of its command |
| `ConfigFile` | operators: what loading, adding, rewriting make of a text |
| `ConfigEdit` | the commands that change the file, step by step, each a process |
| `JobSync` | `ConfigEdit` and a daemon: from the file through the jobs table to the engine, over restarts |
| `Schedule` | operators: phrase to cron expression, choice of parser, cron expression to instants |
| `Crontab` | `import-crontab`: the line loop, the rendering, over `Schedule` and `ConfigFile` |
| `Timetable` | `Crontab` and a job followed through its due times, beside what the words mean |
| `Report` | the tail of a run (record, notifiers, clear) and `cronhub history` as a second process |
| `EngineProofs`, `DaemonProofs` | the theorems about `Engine`, and its refinement of `Daemon` |
| `StatusProofs` | the theorems about `EngineAudit` and `Status` |
| `ExecutorProofs`, `ConfigEditProofs`, `JobSyncProofs`, `ReportProofs`, `TimetableProofs` | the theorems about these modules |
| `MCEngine`, `MCEngineAudit`, `MCStatus`, `MCDeploy`, `MCTimetable`, `MCReport` | the small instances |

**Engine.** An instant is an integer (UTC). A schedule is a function of the *wall*
clock, the constant `NextSlot(j, w)`, assumed only to return something later than
`w` (`ports.go:14`); `NextIn(j, t, off)` evaluates it in the zone with offset `off`, as
robfig/cron does with the zone of the time it is given. `pc` is the position of `Run`:
`down`, `catchup`, `select`, `tick`, `drain`, `closed`. `todo` is the part of `for _, s :=
range scheds` still to visit; the model visits jobs in any order. A launch in hand is
(`cur`, `step`): `SetRunning`, `MarkRunning`, `Spawn` are steps of their own because
goroutines run between them. A goroutine is an identity in `Run` with a `stage`; its
steps are `ExecStart`, `ExecDone`, `RecordRun`, `NotifyAll`, then the deferred
`ClearRunning`, `UnsetRunning`, `WgDone`. `marks` and `latest` are the tables: of the
history the engine and `status` only ever read the greatest `started`. The ticker is
a channel of capacity one that holds the instant it fired. The faults are failed
store calls (`read`, `mark`, `record`, `clear`), a clock that is set back (`clock`), and
the death of the process (`crash`), which leaves running commands behind as
`orphans`. Each behaviour meets the faults of one of `FaultProfiles`, so that
one run asks every property under the faults it is meant to stand.

**Executor.** `alive`, `group` and `holders` are the processes of the command, those
in its process group and those with the output pipe open. A descendant may leave
the group or have its output redirected. `SelectCtx` kills whoever is in the group
at that moment; `Reap` and `SelectDone` are the two ways out of the select. `copy` is the work of
os/exec's goroutines that fill the buffers, which ends when nobody holds the pipe or when reading it
fails. `WaitReturns` gives what `cmd.Wait` returns (`done`): the shell's exit, or an error that is no
`ExitError`, when the wait fails or when the copying has and the shell exited with 0. `err` says what
`RunResult.Err` stands for: the start failed, such a wait error (`executor.go:57-58`), or the context's end.
A wait is taken to fail only once the shell is gone (`ECHILD`: somebody else has reaped it).

**ConfigFile.** A text is a decoded record; an optional field is a set of at most one
value. `policy` stands for `on_overlap`, `on_missed`, `timeout` and `timezone`, which every
function here treats alike. Comments are one bit: there or not. `Cuts` are the texts a
reader may find while a long one is written in parts: the encoder of `writeFile` has a
buffer of 4096 bytes and flushes it into the file whenever it is full.

**ConfigEdit.** A command is the sequence of its reads, truncations and writes (`pc`
`exists`, `read`, `stat`, `decode`, `copy`, `clearBak`, `writeBak`, `truncate`, `write`). A
write over a text that has appeared meanwhile may leave garbage (`Over`). `WritePart` is a
flush of a text of at least `LongJobs` jobs. `Kill` ends a process between any two steps.
`Scenes` names the groups of processes that run together (`crew`), with the commands
and the first texts of each group, so that one run covers a single process with every
command, two that add and create at once, and one beside a daemon. Three history
variables are there for the properties: `intact` is the last text written whole, `torn`
the commands killed between truncation and write, and `misled` says that an `add`
appended to a text other than the one it had checked, or that a command took for the
file what a killed one had left.

**JobSync.** `buildEngine`'s load, checks and upserts and `Engine.Run`'s load, with
the commands of `ConfigEdit` and an editor changing the file, and starts being cut short,
at any point. A notifier name is the sequence of its parts between commas,
because the table keeps a list as text joined by commas.

**Status.** `ListRunning`, `ReadClock`, then `Show` per job, interleaved with every
step of the engine. With the fault `read` a job's history may not be readable, and `Show` then
says that it has never run (`main.go:293-294`).

**Schedule.** A text is decoded: its form (`word`, `each`, `count`, `at`, `cron`, `@`) and what it
carries; case, spaces, plurals and suffixes are left out. `Translate` is `human.go`'s
`translate`, `Parse` is `AutoParser`'s choice with the field bounds of robfig/cron, and
`NextAfter` is that library's `Next` (external) on a calendar of 365-day years.

**Crontab, Timetable.** A crontab line is what `parseEntry` finds it to be: blank, an
assignment, `@reboot`, an entry with or without a command. `ReadLine`, `EndOfCrontab`
and `ReadFails` are `Parse` and `RenderTOML`; `FollowImported` and `FollowPhrase` start a
daemon on the result, or on a phrase the user wrote, and `Fire` is the engine's
`next = Next(next)` for the job followed. `MeantDay`, `MeantTods`, `Documented` are written
from the README's words and not from the code, and are what the properties compare with.

**Report.** A goroutine's `pc` is `executing`, `notify` or `posting`; `RecordRun` takes one
of the three kinds of result (an error of any kind, exit 0, another exit),
`Passed`, `Post`, `Answered`, `TimeOut` are the loop over the notify list. `ListRuns` and `ShowRun`
are the two commands of a user who lists and then drills down. `lost` keeps the records that could not be
written, and `died` the runs whose daemon died, so that the webhooks can be held to both. Runs of one job may
overlap: two daemons on one database do not know of each other.

## 3. Runs

| run | shows | instance |
|---|---|---|
| `engine_safety` | `TypeOK`, `AtMostOneRun`, `MarkerCoversRun`, `MarkerExplained`, `CleanClose`, `SlotsAdvance`, `ImplementsDaemon` | 2 jobs, 2 goroutines, instants 0..3, zone UTC+1, four fault profiles, `Stop` |
| `engine_live` | `StopCompletes`, `DueSlotDecided`, `MarkerCleared`, `ImplementsFairDaemon` | 3 jobs (one never fires), 2 goroutines, instants 0..3, crashes |
| `audit_status` | `SlotServedOnce`, `CaughtUp`, `IdleShowsLastRun` | 1 job with catch-up, 1 goroutine, instants 0..3, four fault profiles, a status process |
| `executor` | `OutputComplete`, `CutLeavesNone`, `SuccessIsReal`, `CtxEndsRunOrEscapee` | a shell and 3 descendants, reads and waits that fail |
| `deploy` | `QuiescentLoads`, `Recoverable`, `NamesUnlessRaced`, `AddLeavesRest`, `OthersKept`, `ConfiguredJobsLoaded`, `NoStaleDefinition` | three groups: one process with 9 commands on 3 jobs, two that add and create, one beside a daemon on 6 versions of a file |
| `timetable` | `ImportStarts`, `NeverInternalError`, `RejectedIsUndocumented`, `FiresAsMeant`, `IntervalGap` | phrases of every form, crontabs of up to 3 lines, 4 starts |
| `report` | `NotifiedIsRecorded`, `AlertsMatchHistory`, `FailedFills`, `ShownIsNotOlder`, `TailEnds` | 2 goroutines, 3 runs, 3 notifiers, limits 0..2, a history command |
| `caught_up_zone` | violates `CaughtUp` | as `audit_status`, zone UTC+1 |
| `on_time_slot` | violates `OnTimeSlotKept` | 1 job |
| `orphan_overlap` | violates `NoLaunchBesideOrphan` | 1 job, crashes |
| `removed_job` | violates `RemovedNotLoaded` | a daemon and an editor |
| `zone_honoured` | violates `ZoneHonoured` | a crontab of a `CRON_TZ` line and an entry |

*Bounds and why they are enough.* `MaxTime` bounds the clock. Initially the database is
new, or a daemon before has started every job at instant 0; so a daemon that starts
at 2 or 3 has a slot to catch up. In `engine_safety` one job has a slot at every
instant and the other at every third, so a run outlasts its next slot, a tick is a slot
old, a catch-up run is still going at the next slot, and a daemon dies and is
followed by another that finds its rows; a violation of the properties there needs
two runs of a job, or one run and a restart. Two goroutines are the two jobs' runs,
or a run that is unwinding (its flag already gone) and its successor. `SetBack` bounds
*when* the clock may be set back (here from 1 to 0, again and again); without it
the same situations recur under shifted clocks in numbers that do not fit. In
`audit_status` slots are at every instant, so a daemon serves a slot, goes down, and the
next one finds one missed. Its only goroutine is free again before the next launch of
the job spawns; the program could begin the next run between `UnsetRunning` and
`WgDone` of the one before, which `engine_safety` has. In `engine_live` the slots are
further apart, and a job that never fires stands beside the two that do. In `executor`
three descendants allow a member, an escapee and a grandchild without the pipe
at once. The daemon is told to quit by `Stop`, as `main.go` does; a cancelled context leads to the
same steps (`engine.go:99-103`) and is in the proofs, which hold for both together.

In `deploy` a single process carries out commands one after the other without end, on a
commented file of three jobs under a `[defaults]` table or on none; `MaxJobs` stops `add`
from growing the file, and `MaxTorn` allows one kind of command to be killed before its
write. `LongJobs` = 3 makes the rewrite of the file of three jobs a long one; after
`remove` it is short again. The two adders have the same name to add, which is what
their race needs. Beside the daemon the versions change a field, drop a job,
reorder, declare a notifier with a comma in its name and an empty default list, and one
does not load and one has a schedule that does not parse; the daemon's
starts are cut between any two upserts. In `timetable` the times are those at which the
hour is moved or refused (12am, 12:30pm, 0:59, 13am, 13pm, 24:00, 23:60), the counts 0, 1, the
greatest and one more, a divisor and two that do not divide; the starts are at the turn
of a day, a month and a year and on a weekend, and a job is followed for `MaxFires` =
64 times or `Horizon` = 400 days, so an interval passes its turn and a yearly job fires.
One line begins with the five words of a phrase (`every day at 9:30 am`).
Three lines are enough for an assignment before or after two entries, or a name
that an earlier entry's number has. In `report` a `Window` of 2 stands for the 10 of `main.go:381`,
so that three runs are more than `--failed` reads with a limit of 1, and `ReadDefault` of 3 for
the 20 of `sqlite.go:177`; three runs and two goroutines let runs be recorded
out of the order they began in, and during a drill-down. Symmetry (permutations of `Run`) is
used in `engine_safety` only.

*Deadlock* is checked except where the system stops by design (a returned
`Executor.Run`, an import that is done) or by a bound (the file holds `MaxJobs` and the only
commands are adds; `MaxRuns`, `MaxFires` are reached).

*Fairness.* `FairSpec` of `Engine` has weak fairness of the loop (a goroutine the Go
scheduler runs), of the ticker, and of each run's goroutine (which assumes that
every command ends; a job may have no timeout, and then cronhub promises nothing
either), and strong fairness of `ReceiveQuit`: `select` chooses at random among the
ready cases, so a quit that is ready again and again is taken in the end. Neither
the clock, nor quits, crashes and restarts are fair. `Executor`'s has only the
steps of `Run` and of its goroutine, and of the copying once nobody holds the pipe: no process has to exit by itself. `Report`'s has the
goroutine's own steps (with the end of its command, as in `Engine`) and the timeout of a
request, which `webhook.go`'s client has; an answer never has to come. `ConfigEdit`, `JobSync` and
`Timetable` have safety properties only.

*Conditions in the properties.* A property names the faults it does not stand, for
example `MarkerCoversRun` a failed `MarkRunning`. In the same run other profiles
leave these faults out, so no property is checked only where it is vacuous.
`Recoverable` is for `remove` and `edit`: `add` and `init` make no backup (`edit.go:62`) and lose
the file when killed before their write. `QuiescentLoads`, `AddLeavesRest` and `OthersKept` are for
commands run one at a time; `NamesUnlessRaced` is for two at once. `ConfiguredJobsLoaded`
is for jobs whose notify list the text column gives back (`Plain`), job by job; so is the part of
`NoStaleDefinition` about lists. `IdleShowsLastRun` lets a job be shown as one that has never run where reading
the history may fail. `CutLeavesNone` is for runs that their context's end cut short: a run that ends by
a failed wait, like one that ends by its shell's exit, kills nobody. `OutputComplete` leaves out who holds the pipe
when reading it has failed.
`ImportStarts` leaves out name comments, unknown zones and fields that only the cron parser
refuses. `FiresAsMeant` covers the forms for which the documents say a meaning; intervals have
`IntervalGap`.

## 4. What the code does otherwise than it says

Shown by a run:

* `caught_up_zone`: history comes back in UTC (`sqlite.go:196`), so the catch-up pass
  evaluates schedules in UTC and the ticks in local time. A missed slot is then not caught up.
* `on_time_slot`: `next` is advanced past *every* slot up to now (`engine.go:110`) and
  only the oldest is judged, so after a pause a slot still within the grace is skipped too.
* `orphan_overlap`: commands outlive a daemon that dies, and the next daemon launches beside them.
* `removed_job`: a removed or renamed job stays in the jobs table and is run after the restart.
* `zone_honoured`: the field `timezone` is validated, stored, loaded and never used (README.md:272);
  every schedule is evaluated in local time, also that of a crontab with a `CRON_TZ`.

Seen while modelling; the models have the behaviour and a property exempts it by name:

* A descendant that leaves the group with the pipe open keeps `Run`, its job and a shutdown
  waiting (`ports.go:52-53`: `Run` blocks until the context is cancelled or the timeout elapses); `CtxEndsRunOrEscapee` exempts it.
* Two adds at once both pass the duplicate check (`edit.go:43`), and then the file has a name twice
  and no longer loads (README.md:143-144); `NamesUnlessRaced` exempts it.
* `remove` or `edit` of a file beyond 4096 bytes, killed while it writes, may leave a shorter
  file that still loads. A daemon that starts then misses jobs without a word, and the
  next `remove` or `edit` backs the short file up over the good backup; `Recoverable` exempts that second step.
* `remove` of the last job leaves a file that `LoadConfig` refuses (`config.go:99`); `QuiescentLoads` exempts it.
* `init` and `import-crontab` look for the file and write it later (`init.go:61`): what appears between
  the two is lost.
* `writeFile` drops an empty notify list (`edit.go:186`, omitempty), so `notify = []` falls back to the
  defaults after a rewrite (README.md:152); modelled by `Written`. Where `OthersKept` speaks, of a process alone
  with the file, no text and no command of the instance has such a list (`FullAlone`).
* A job whose history `status` cannot read is shown as "never" run, without a word of the error (`main.go:294`);
  `IdleShowsLastRun` exempts it.
* A command whose shell exits with 0 while reading its output has failed, or whose wait fails, is recorded as a failure,
  and members of its group may go on: nobody is killed (`executor.go:57-58`).
* A notifier name with a comma and an empty list do not survive the jobs table (`sqlite.go:119,157`;
  README.md:337): `Joined` and `Split`, exempted by `Plain`.
* A name in the notify list of a stale row that is declared no longer is passed over without a word.
* `every 40 minutes` is due at minutes 0 and 40, then 20 minutes later (`human.go:187`); `IntervalGap` says exactly when.
* `13am` and `0pm` are accepted as 13:00 and 12:00; the meaning covers hours 1 to 12 only.
* A later `CRON_TZ` line applies to every entry of the crontab, also to those above it.
* A day of week 7 is imported and then refused by the cron parser, and a line of prose with six words or more
  is imported as an entry; either stops the daemon and `list`. `ImportStarts` exempts fields the parser refuses.
* `--limit 0` reads the default number of rows and shows none of them; `history --failed` misses failures
  behind ten times the limit of successes (`FailedFills` says exactly when).
* A catch-up pass also runs a job whose slot was skipped while the daemon was *up* (`engine.go:70-71`
  speaks of slots missed while it was down).
* A schedule such as 30 February parses and never fires; it is due and late at every tick (`NeverFires`).
* A webhook whose URL does not make a request never alerts and nobody is told (`urlOk`).
* `add` neither validates the optional fields nor makes a backup.
* Two daemons on one database know nothing of each other: both launch every job.

Seen and left out of the models:

* A negative timeout is accepted, means "none" to the executor and "always exceeded" to `status` (`main.go:281`).
* A negative `--limit` reads everything and then slices at it, which panics (`main.go:407`).
* Ordinals such as `1stnd` are accepted; a cron text with a `TZ=` prefix begins with a letter and goes to
  the human parser, which refuses it; a `# name:` inside a command truncates the command on import.
* `synchronous=NORMAL` (`sqlite.go:39`) may lose committed rows in a power failure.

## 5. What is proved

*`EngineProofs` and `DaemonProofs`*, for any jobs, schedules, zone, bounds, faults and
number of goroutines, from `NamesAssumption`, `NumbersAssumption` and
`ScheduleAssumption` of `Engine`:

* `TypeCorrect`: `Spec => []TypeOK`. `TypeOK` is inductive by itself once it says which
  steps of a launch can be under way where; the lemma `NextInType` gives the type
  of what a schedule returns.
* `NoOverlap`: `Spec => []AtMostOneRun`. This is not inductive: nothing in it says why
  `Spawn` finds no live goroutine of the job. `IInv` adds that a live goroutine's job
  is in the running map and not the one being launched (`RunningCovers`), that launch
  takes an idle job and keeps it claimed (`LaunchClaims`), and that the
  catch-up pass, which does not look at the map, may do without: a job it has still
  to visit is not running, since each is visited once and the daemon begins with
  none (`CatchUpFresh`). The argument uses no property of schedule, clock or
  store, so it covers every fault.
* `SlotsOnlyAdvance`: `Spec => SlotsAdvance`. The invariant is `SlotsOrdered`: the last
  slot of a job lies before its next one, during the catch-up pass the next one also
  lies after the pass, and a job still to visit has no last slot. It rests on
  `NextInLater` (a schedule answers with something later). The clock does not
  enter, so it may be set at will.
* `RowCoversRun`: `Spec => []MarkerCoversRun`, from `IInv` and `RowsKept`, which adds the
  row of the launch in hand. Clearing a row spares the others because no other live
  run, and no launch in hand, has the job (`AtMostOneRun`, `RunningCovers`).
* `ClosesClean`: `Spec => []CleanClose`, from `Counted`: `wg` is the cardinality of the
  unfinished goroutines, and whatever the running map holds has a live goroutine or is
  being launched.
* `RowExplained`: `Spec => []MarkerExplained`, which is inductive relative to `Counted` (an
  exit leaves no row without its run).
* `EngineImplementsDaemon`: `Spec => ImplementsDaemon`. `NextMaps` maps each action to one
  of `Daemon` or to a stutter: `Spawn` begins a run, `UnsetRunning` ends it, `ReceiveQuit`,
  `Drained`, `Crash` change the phase, all else is invisible. It needs `IInv` for
  `Spawn` and `Counted` for `Drained` and `Exit`.

*`StatusProofs`*, for any jobs, schedules, zone, bounds and faults, and any number of daemon lifetimes and
looks at the dashboard, from the assumptions of `Engine` and, for `CaughtUp`, from `FirstAssumption` of `EngineAudit`
(the first slot after a later instant is not an earlier one: `ports.go:12-15`). What is used of `Engine` is `EngineInv`,
the conjunction of the invariants above.

* `AuditSlotServedOnce`: `AuditSpec => SlotServedOnce`. `ServedInv` relates the slots served, in all lifetimes, to the tables and to
  what is under way: a slot served is not after the last start in the history, or is the launch in hand, or has a goroutine that
  began at or after it and has still to record (`Accounted`), and it lies before the job's next slot. `ClockInv` says that no
  start and no tick lies after the clock. A launch from the catch-up pass or a tick is then of a slot after those (`LaunchIsNew`).
* `AuditCaughtUp`: `LocalSlotsInUTC => (AuditSpec => CaughtUp)`. `CaughtInv` says of the jobs the pass has visited and not
  launched that the history shows nothing missed; `NextInMonotone` carries this from the start the history shows to a later one whose
  record was lost. The hypothesis is that a slot is never earlier in local time than in UTC (`InUTC`: so it is at offset 0); without it
  the property fails, as `caught_up_zone` shows.
* `StatusIdleShowsLastRun`: `StatusSpec => []IdleShowsLastRun`. `LastStartInHistory`: the last start of a job is in the
  history, or a row of the running table is left for it. `ReaderInv` says the same of what `status` has read
  before: a run that was not in the rows it listed is in the history it reads afterwards, because the history only grows (`LatestGrows`), unless
that reading fails.

*`ExecutorProofs`*, for any set of descendants, from `ProcessesAssumption`:
`SpecOutputComplete`, `SpecCutLeavesNone`, `SpecSuccessIsReal`. The invariant `RunInv` relates the processes
to each other (`ProcessesInv`: members of the group and holders of the pipe are alive, the
shell is in its group until it has a status), says what `cmd.Wait` and the copying have seen when they are over
(`WaitInv`), and what `Run` knows at each place (`StagesInv`: after the kill nobody of the
group is left and so nobody can fork into it). The race of exit, timeout and
cancellation is settled there and not by the order of the select's cases.

*`ConfigEditProofs`*, for any commands, groups of processes, texts and bounds, with the daemon and the
editor of `JobSync` beside them, from `ScenesAssumption` (commands are of the five kinds, and no
text at the start, written by `import-crontab` or left by the editor has a name twice):

* `SpecNamesUnlessRaced`: `SyncSpec => []NamesUnlessRaced`. First, what each function of `config`
  does to the names of one text: `AppendedDistinct`, `WithoutDistinct`, `UpdatedDistinct`, `WrittenDistinct`,
  `CutDistinct` (a file cut short), `OverDistinct` (a write over another). Then `NamesInv`: until an add has been raced, the
  file and every text about to be written have each name once, and an add between its check and its
  read has not found its name in what it checked.
* `SpecAddLeavesRest`: `SyncSpec => AddLeavesRest`. `AloneInv`: while one process has the file, what it has checked is
  what it reads, the file is the last complete text except during a write, and what add holds is that text with one entry more.
* `SpecRecoverable`: `Recoverable` for a process that is alone with the file. `BackupInv` says where
  the last complete text is at each step: in the file until the backup has been written, and from then on in the backup.

* `SpecQuiescentLoads`: `SoundAlone => (SyncSpec => []QuiescentLoads)`. The hypothesis says of the texts and commands that
  a process alone with the file begins with that `LoadConfig` accepts their fields; the instance of `deploy` has it as an
  ASSUME. `HandInv` follows the command from the text it has read to the one it writes: what it holds is the
  last complete text, appended to or changed, and what is in the file during a write is a part (`Cuts`) of that, so that the write makes it whole
  (`WriteIsBuf`). `UsableInv` says that this text is one `LoadConfig` accepts, and stays one with the fields of any command;
  `AppendedUsable` and `ChangedUsable` are the lemmas about one command on one text, on the *set* of its entries
  (`AppendedEntries`, `WithoutEntries`, `UpdatedEntries`, `WrittenEntries`). The distinct names come from `AloneInv`.
* `SpecOthersKept`: `FullAlone => (SyncSpec => OthersKept)`. `ChangedKeeps` compares what a text resolves to before and after one
  command; it needs that no list is set to be empty (`Full`), since `writeFile` drops such a list. `FullInv` says that the
  commands never bring one about: `Appended` and `Written` leave out an empty list they are given. The hypothesis is again an ASSUME of the instance.

*`JobSyncProofs`*, for any texts, commands, groups of processes and interrupted starts, with no
assumption on a constant: `SpecConfiguredJobsLoaded`, `SpecNoStaleDefinition`. `SyncInv` says that the jobs of a start have distinct
names (`ConfInv`, from `UniqueNames` in `Loads`) and that each is still to be saved or has its
row, joined, and no other row of its name (`RowsInv`). That an
upsert spares the rows of the others needs the distinct names; that a plain list comes
back is `SplitJoined`. Nothing in the proof knows what the commands of `ConfigEdit` do to the file: the daemon does
not look at it again.

*`ReportProofs`*, for any list, webhooks, limits and window, any number of goroutines, and runs that
overlap, from `NumbersAssumption` and `NotifyAssumption`: `SpecNotifiedIsRecorded`, `SpecAlertsMatchHistory`,
`SpecShownIsNotOlder`, `SpecFailedFills`. `TailInv` says that a run has one goroutine and one row (`DatesInv`), that a row says of
the run what its result does (`RecordedInv`), and that the requests sent are those the part of the
list already passed calls for (`PostsInv`); a failed record puts the row into `lost` instead of the table, and the invariants speak of both. For the drill-down, `SeenInv` says that the rows listed
are still in the table and such as the flags let through. The rows the list had
down to the N-th therefore still stand above any row older than the N-th; `RankMonotone` and `ShownUpward` (rows
above one that is shown are shown, if the filter lets them through) turn that into `NthNotOlder`.

*`TimetableProofs`*, for any phrases, crontabs and instants of start, from `PhrasesAssumption` (the forms of a phrase and
what each carries, any numbers among it), `LinesAssumption` (a good schedule is one that parses, and no line counts, for lack of words),
`NumberedAssumption` (the numbers are distinct names) and `StartsAssumption` (a start is a second of a day):

* `SpecNeverInternalError`, `SpecRejectedIsUndocumented`. Facts about `Translate`: whatever it returns lies in the fields' bounds
  (`TranslateInBounds`), and for every documented phrase it returns something
  (`DocumentedTranslates`, through `MeantIsInDay`: a documented time is still in the day once the hour has been
  moved). The second needs in addition that a file of which one schedule does not parse starts nothing.
* `SpecImportStarts`, for crontabs of any length. `FoundInv` says that there is one entry for each line that is a job, made of such a
  line and called by its own number. The entries
  then have distinct names, and as many jobs are resolved as there are entries (`OneJobEach`); what a shortcut is
  normalized to always parses (`NormalizedParses`).
* `SpecIntervalGap`, for every N and unit. The gap is N units or the rest of the cycle only from an instant at which the job was due, so
  `SpacedInv` says that the last one was, once the job has fired: it is on the grid of its field (`OnGrid`). `Soonest` finds the
  next instant of an expression that is due every day, field by field, `AfterStep` the next value of a `*/N` field, and
  `CountStep` puts them together for the three units (`SecondsStep`, `MinutesStep`, `HoursStep`).
* `SpecFiresAsMeant`, for every word, shortcut and documented phrase, written or imported. The inductive invariant `MeaningInv` is that
  every expression of the schedule followed says what was written (`SaysWhat`: it has the days that `MeantDay` names
  and the times of `MeantTods`), which is what `WordSays` and `AtSays` show of the translation. For an imported job it
  needs `InOrder`: the entry of the i-th line has as its number how many of the lines up to it are jobs. `NextIsNext` says of any expression
  with a value in each field that `NextAfter` is an instant it is due at, with none between; this is
  about the model of robfig/cron, which is external.

Only model-checked: all liveness, with the fair refinement (fairness and ENABLED are beyond the prover), and
`Recoverable` where processes run at once (in the instance, two that add and create). `CaughtUp` is violated
where local time is not UTC (`caught_up_zone`), and its theorem leaves such zones out.

## 6. Not modelled

The service wrapper (an external manager), `executor_windows.go` (`taskkill` is an
external program), the layout of `list`, `status` and `history`, `$EDITOR` in `edit`, SQLite's own
concurrency (each call is atomic or fails), the migration of old databases, and
power loss. Texts are decoded: splitting a crontab line, a phrase or TOML into its parts
is left out, and with it unknown keys. Calendars have no leap years and no daylight-saving
changes. Two daemons on one database meet in `Report`'s tables only, not as two `Engine`s.

## 7. Plan

Done: `Engine`, `Daemon` with the refinement, `EngineAudit`, `Status`, `Executor`,
`ConfigFile`, `ConfigEdit`, `JobSync`, `Schedule`, `Crontab`, `Timetable`, `Report`, and the theorems of section 5.

What would come next:

1. Two `Engine`s over one store: which rows one's `ClearRunning` takes from the other.
2. Proofs: `Recoverable` for two processes that rewrite, under the interleavings it stands.
3. Leap years and daylight saving in `Schedule`.
