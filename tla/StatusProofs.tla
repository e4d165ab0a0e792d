---------------------------- MODULE StatusProofs ----------------------------
(***************************************************************************)
(* Proofs about EngineAudit and Status for every value of their constants: *)
(* what holds from one lifetime of the daemon to the next, through the     *)
(* tables, and what another process may conclude from them.                *)
(***************************************************************************)
EXTENDS Status, EngineProofs

-----------------------------------------------------------------------------
\* The history variables and the status process constrain no step of the engine,
\* so what is proved of Spec holds here too.
LEMMA AuditEngine == AuditSpec => Spec
<1>1. AuditInit => Init
  BY DEF AuditInit
<1>2. [AuditNext]_auditVars => [Next]_vars
  BY DEF AuditNext, auditVars
<1> QED
  BY <1>1, <1>2, PTL DEF AuditSpec, Spec

LEMMA StatusAudit == StatusSpec => AuditSpec
<1>1. StatusInit => AuditInit
  BY DEF StatusInit
<1>2. [StatusNext]_<<auditVars, readerVars>> => [AuditNext]_auditVars
  BY DEF StatusNext
<1> QED
  BY <1>1, <1>2, PTL DEF AuditSpec, StatusSpec

\* The inductive invariants of Engine, of every behaviour of EngineAudit.
EngineInv == IInv /\ SInv /\ RowsKept /\ Counted

LEMMA AuditEngineInv == AuditSpec => []EngineInv
<1>1. Init => EngineInv
  BY InitIInv, InitSInv, FS_EmptySet
     DEF Init, EngineInv, RowsKept, Uncleared, Counted, Unfinished, Live
<1>2. EngineInv /\ [Next]_vars => EngineInv'
  BY NextIInv, NextSInv, NextRowsKept, NextCounted DEF EngineInv
<1> QED
  BY AuditEngine, <1>1, <1>2, PTL DEF Spec

-----------------------------------------------------------------------------
\* What a step does to the history variables.

\* Only ExecStart starts a command.
LEMMA OnlyExecStart ==
    ASSUME TypeOK, [Next]_vars, NEW r \in Run, stage[r] = "ready", stage'[r] = "exec"
    PROVE  ExecStart(r)
<1> USE DEF TypeOK, world, offLoop, offRun, daemon, store, loop, gos
<1>1. ~ LoopStep
  BY DEF LoopStep, CatchUpDone, ReceiveTick, ReceiveQuit, Drained, TickDone, SetRunning,
     MarkRunning, Spawn, NothingMissed, Missed, NotDue, SkipLate, SkipOverlap, Fire
<1>2. ~ Environment
  BY DEF Environment, Start, Exit, Crash, Gone, TickerFire, Advance, StepBack, Quit, OrphanExit
<1>3. ASSUME NEW x \in Run, RunStep(x) PROVE ExecStart(r)
  BY <1>3 DEF RunStep, ExecStart, ExecDone, RecordRun, NotifyAll, ClearRunning,
     UnsetRunning, WgDone, Goto
<1> QED
  BY <1>1, <1>2, <1>3 DEF Next, vars

AuditTypeOK ==
    /\ served \in [Job -> SUBSET Int]
    /\ lastStart \in [Job -> Time \cup {NoTime}]

LEMMA LastStartStep ==
    ASSUME TypeOK, AuditTypeOK, [AuditNext]_auditVars
    PROVE  /\ \A r \in Run : ExecStart(r) =>
                 lastStart' = [lastStart EXCEPT ![jobOf[r]] = clock]
           /\ (\A r \in Run : ~ ExecStart(r)) => lastStart' = lastStart
<1>1. [Next]_vars
  BY DEF AuditNext, auditVars
<1>2. ASSUME NEW r \in Run, ExecStart(r)
      PROVE  lastStart' = [lastStart EXCEPT ![jobOf[r]] = clock]
  <2>1. /\ stage[r] = "ready" /\ stage'[r] = "exec"
        /\ \A x \in Run : x # r => stage'[x] = stage[x]
    BY <1>2 DEF ExecStart, Goto, TypeOK
  <2>2. lastStart' = [j \in Job |-> IF StartsCommand(j) THEN clock ELSE lastStart[j]]
    BY <2>1 DEF AuditNext, auditVars, vars, gos
  <2>3. \A j \in Job : StartsCommand(j) <=> j = jobOf[r]
    BY <2>1 DEF StartsCommand
  <2> QED
    BY <2>2, <2>3 DEF AuditTypeOK
<1>3. ASSUME \A r \in Run : ~ ExecStart(r)
      PROVE  lastStart' = lastStart
  <2>1. \A j \in Job : ~ StartsCommand(j)
    BY <1>1, <1>3, OnlyExecStart DEF StartsCommand
  <2> QED
    BY <2>1 DEF AuditNext, auditVars, AuditTypeOK
<1> QED
  BY <1>2, <1>3

\* Only the catch-up pass and a tick launch.
LEMMA OnlyMissedOrFire ==
    ASSUME [Next]_vars, Launching
    PROVE  \E j \in Job : (Missed(j) \/ Fire(j)) /\ cur' = j
<1> USE DEF world, offLoop, offRun, daemon, store, loop, gos
<1>1. PICK j \in Job : Missed(j) \/ Fire(j)
  BY DEF Launching, Next, LoopStep, RunStep, Environment, vars, Start, Exit, Crash, Gone,
     TickerFire, Advance, StepBack, Quit, OrphanExit, CatchUpDone, ReceiveTick, ReceiveQuit,
     Drained, TickDone, SetRunning, MarkRunning, Spawn, NothingMissed, NotDue, SkipLate,
     SkipOverlap, ExecStart, ExecDone, RecordRun, NotifyAll, ClearRunning, UnsetRunning, WgDone
<1> QED
  BY <1>1 DEF Missed, Fire, Launch

LEMMA ServedStep ==
    ASSUME AuditTypeOK, [AuditNext]_auditVars
    PROVE  /\ Launching => served' = [served EXCEPT ![cur'] = @ \cup {last'[cur']}]
           /\ ~ Launching => served' = served
<1>1. UNCHANGED auditVars => ~ Launching
  BY DEF auditVars, vars, loop, Launching
<1> QED
  BY <1>1 DEF AuditNext, auditVars

LEMMA NextAuditTypeOK == TypeOK /\ AuditTypeOK /\ [AuditNext]_auditVars => AuditTypeOK'
<1> SUFFICES ASSUME TypeOK, AuditTypeOK, [AuditNext]_auditVars PROVE AuditTypeOK'
  OBVIOUS
<1>1. lastStart' \in [Job -> Time \cup {NoTime}]
  <2>1. clock \in Time
    BY DEF TypeOK
  <2> QED
    BY <2>1 DEF AuditNext, auditVars, AuditTypeOK
<1>2. served' \in [Job -> SUBSET Int]
  <2>1. [Next]_vars
    BY DEF AuditNext, auditVars
  <2>2. TypeOK'
    BY <2>1, NextTypeOK
  <2>3. Launching => cur' \in Job /\ last'[cur'] \in Int
    BY <2>2 DEF TypeOK, Launching
  <2> QED
    BY <2>3, ServedStep DEF AuditTypeOK
<1> QED
  BY <1>1, <1>2 DEF AuditTypeOK

LEMMA AuditTyped == AuditSpec => [](TypeOK /\ AuditTypeOK)
<1>1. AuditInit => TypeOK /\ AuditTypeOK
  <2> SUFFICES ASSUME AuditInit PROVE TypeOK /\ AuditTypeOK
    OBVIOUS
  <2>1. TypeOK
    BY InitTypeOK DEF AuditInit
  <2>2. Time \subseteq Int
    BY DEF Time
  <2> QED
    BY <2>1, <2>2 DEF AuditInit, TypeOK, AuditTypeOK
<1>2. TypeOK /\ AuditTypeOK /\ [AuditNext]_auditVars => (TypeOK /\ AuditTypeOK)'
  <2>1. [AuditNext]_auditVars => [Next]_vars
    BY DEF AuditNext, auditVars
  <2> QED
    BY <2>1, NextTypeOK, NextAuditTypeOK
<1> QED
  BY <1>1, <1>2, PTL DEF AuditSpec

-----------------------------------------------------------------------------
\* A run whose command has started and that is not yet in the history is its
\* job's last start; once it is recorded, and whenever the job has no row in
\* the running table, the history has a run as late as the last start.
LastStartInHistory ==
    /\ \A r \in Run : stage[r] \in {"exec", "record"} => started[r] = lastStart[jobOf[r]]
    /\ faults \cap {"mark", "record"} = {} =>
          /\ \A r \in Run : stage[r] \in {"notify", "clear"} =>
                lastStart[jobOf[r]] <= latest[jobOf[r]]
          /\ \A j \in Job : marks[j] = NoTime => lastStart[j] <= latest[j]

\* The history never loses its latest run.
LEMMA LatestGrows ==
    ASSUME TypeOK, [Next]_vars, NEW j \in Job
    PROVE  latest[j] <= latest'[j]
<1> USE DEF TypeOK, world, offLoop, offRun, daemon, store, loop, gos
<1>i. latest[j] \in Int
  BY DEF Time, NoTime
<1>1. ASSUME latest' = latest PROVE latest[j] <= latest'[j]
  BY <1>i, <1>1
<1>2. LoopStep \/ Environment => latest' = latest
  BY DEF LoopStep, CatchUpDone, ReceiveTick, ReceiveQuit, Drained, TickDone, SetRunning,
     MarkRunning, Spawn, NothingMissed, Missed, NotDue, SkipLate, SkipOverlap, Fire,
     Environment, Start, Exit, Crash, Gone, TickerFire, Advance, StepBack, Quit, OrphanExit
<1>3. ASSUME NEW r \in Run, ExecStart(r) \/ ExecDone(r) \/ NotifyAll(r) \/ ClearRunning(r)
                               \/ UnsetRunning(r) \/ WgDone(r)
      PROVE  latest' = latest
  BY <1>3 DEF ExecStart, ExecDone, NotifyAll, ClearRunning, UnsetRunning, WgDone
<1>4. ASSUME NEW r \in Run, RecordRun(r) PROVE latest[j] <= latest'[j]
  <2>1. latest' = Recorded(r) \/ latest' = latest
    BY <1>4 DEF RecordRun
  <2>2. jobOf[r] \in Job /\ started[r] \in Int
    BY <1>4 DEF RecordRun, Goto, Time, NoTime
  <2> QED
    BY <1>i, <2>1, <2>2 DEF Recorded
<1> QED
  BY <1>1, <1>2, <1>3, <1>4 DEF Next, RunStep, vars

LEMMA NextLastStart ==
    EngineInv /\ AuditTypeOK /\ LastStartInHistory /\ [AuditNext]_auditVars
        => LastStartInHistory'
<1> SUFFICES ASSUME EngineInv, AuditTypeOK, LastStartInHistory, [AuditNext]_auditVars
             PROVE  LastStartInHistory'
  OBVIOUS
<1>n. [Next]_vars
  BY DEF AuditNext, auditVars
<1>0. TypeOK /\ TypeOK' /\ AuditTypeOK' /\ RunningCovers /\ AtMostOneRun
  BY <1>n, NextTypeOK, NextAuditTypeOK DEF EngineInv, IInv
<1>f. faults' = faults
  BY <1>n, FaultsFixed
<1>t. Time \subseteq Int /\ NoTime \in Int /\ NoTime \notin Time
  BY DEF Time, NoTime
<1>g. \A j \in Job : latest[j] \in Int /\ latest'[j] \in Int /\ latest[j] <= latest'[j]
  BY <1>0, <1>n, <1>t, LatestGrows DEF TypeOK
<1>l. \A j \in Job : lastStart[j] \in Int
  BY <1>t DEF AuditTypeOK
<1> USE <1>0, <1>f DEF TypeOK, LastStartInHistory
<1> USE DEF world, offLoop, offRun, daemon, store, loop, gos
<1>1. ASSUME NEW r \in Run, ExecStart(r) PROVE LastStartInHistory'
  <2>1. /\ lastStart' = [lastStart EXCEPT ![jobOf[r]] = clock]
        /\ started' = [started EXCEPT ![r] = clock]
        /\ stage' = [stage EXCEPT ![r] = "exec"] /\ stage[r] = "ready"
        /\ jobOf' = jobOf /\ marks' = marks /\ latest' = latest
    BY <1>1, LastStartStep DEF ExecStart, Goto
  <2>2. jobOf[r] \in Job
    BY <2>1
  <2>3. \A x \in Run : x # r /\ stage[x] \in {"exec", "record", "notify", "clear"}
                          => jobOf[x] # jobOf[r] /\ jobOf[x] \in Job
    BY <2>1 DEF AtMostOneRun, Live
  <2>4. "mark" \notin faults => marks[jobOf[r]] # NoTime
    BY <2>1 DEF EngineInv, RowsKept, Uncleared
  <2>5. \A j \in Job : j # jobOf[r] => lastStart'[j] = lastStart[j]
    BY <2>1 DEF AuditTypeOK
  <2>6. lastStart'[jobOf[r]] = clock
    BY <2>1, <2>2 DEF AuditTypeOK
  <2>7. \A x \in Run : stage'[x] \in {"exec", "record"} => started'[x] = lastStart'[jobOf'[x]]
    BY <2>1, <2>3, <2>5, <2>6
  <2>8. ASSUME faults \cap {"mark", "record"} = {}
        PROVE  /\ \A x \in Run : stage'[x] \in {"notify", "clear"} =>
                     lastStart'[jobOf'[x]] <= latest'[jobOf'[x]]
               /\ \A j \in Job : marks'[j] = NoTime => lastStart'[j] <= latest'[j]
    BY <2>1, <2>3, <2>4, <2>5, <2>8
  <2> QED
    BY <2>7, <2>8
<1>2. ASSUME \A r \in Run : ~ ExecStart(r)
      PROVE  LastStartInHistory'
  <2>0. lastStart' = lastStart
    BY <1>2, LastStartStep
  <2>1. ASSUME /\ \A r \in Run : stage'[r] \in {"exec", "record", "notify", "clear"} =>
                     stage'[r] = stage[r] /\ jobOf'[r] = jobOf[r] /\ started'[r] = started[r]
               /\ \A j \in Job : marks'[j] = NoTime => marks[j] = NoTime
        PROVE  LastStartInHistory'
    <3>1. \A r \in Run : stage'[r] \in {"notify", "clear"} => jobOf[r] \in Job
      BY <2>1
    <3> QED
      BY <1>g, <1>l, <2>0, <2>1, <3>1
  <2>2. ASSUME LoopStep PROVE LastStartInHistory'
    <3>1. CASE MarkRunning
      BY <1>t, <2>1, <3>1 DEF MarkRunning
    <3>2. ASSUME NEW r \in Run, Spawn(r) PROVE LastStartInHistory'
      BY <2>1, <3>2 DEF Spawn
    <3> QED
      BY <2>1, <2>2, <3>1, <3>2 DEF LoopStep, CatchUpDone, ReceiveTick, ReceiveQuit, Drained,
         TickDone, SetRunning, NothingMissed, Missed, NotDue, SkipLate, SkipOverlap, Fire
  <2>3. CASE Environment
    BY <2>1, <2>3 DEF Environment, Start, Exit, Crash, Gone, TickerFire, Advance, StepBack,
       Quit, OrphanExit
  <2>4. ASSUME NEW r \in Run, ExecDone(r) PROVE LastStartInHistory'
    BY <2>0, <2>4 DEF ExecDone, Goto
  <2>5. ASSUME NEW r \in Run, RecordRun(r) PROVE LastStartInHistory'
    <3>1. /\ stage[r] = "record" /\ stage' = [stage EXCEPT ![r] = "notify"]
          /\ jobOf' = jobOf /\ started' = started /\ marks' = marks /\ jobOf[r] \in Job
      BY <2>5 DEF RecordRun, Goto
    <3>2. "record" \notin faults => lastStart[jobOf[r]] <= latest'[jobOf[r]]
      <4>1. "record" \notin faults => latest' = Recorded(r)
        BY <2>5 DEF RecordRun
      <4>2. started[r] = lastStart[jobOf[r]] /\ started[r] \in Int
        BY <1>l, <3>1
      <4> QED
        BY <1>g, <3>1, <4>1, <4>2 DEF Recorded
    <3>3. \A x \in Run : stage'[x] \in {"notify", "clear"} /\ x # r =>
             stage[x] \in {"notify", "clear"} /\ jobOf[x] \in Job
      BY <3>1
    <3>4. faults \cap {"mark", "record"} = {} =>
             /\ \A x \in Run : stage'[x] \in {"notify", "clear"} =>
                   lastStart'[jobOf'[x]] <= latest'[jobOf'[x]]
             /\ \A j \in Job : marks'[j] = NoTime => lastStart'[j] <= latest'[j]
      BY <1>g, <1>l, <2>0, <3>1, <3>2, <3>3
    <3> QED
      BY <2>0, <3>1, <3>4
  <2>6. ASSUME NEW r \in Run, NotifyAll(r) PROVE LastStartInHistory'
    BY <2>0, <2>6 DEF NotifyAll, Goto
  <2>7. ASSUME NEW r \in Run, ClearRunning(r) PROVE LastStartInHistory'
    <3>1. /\ stage[r] = "clear" /\ stage' = [stage EXCEPT ![r] = "unset"] /\ jobOf[r] \in Job
          /\ jobOf' = jobOf /\ started' = started /\ latest' = latest
          /\ \A j \in Job : j # jobOf[r] => marks'[j] = marks[j]
      BY <2>7 DEF ClearRunning, Unmarked, Goto
    <3> QED
      BY <2>0, <3>1
  <2>8. ASSUME NEW r \in Run, UnsetRunning(r) \/ WgDone(r) PROVE LastStartInHistory'
    BY <2>1, <2>8 DEF UnsetRunning, WgDone, Goto
  <2>9. CASE UNCHANGED vars
    BY <2>1, <2>9 DEF vars
  <2> QED
    BY <1>n, <1>2, <2>2, <2>3, <2>4, <2>5, <2>6, <2>7, <2>8, <2>9 DEF Next, RunStep
<1> QED
  BY <1>1, <1>2

LEMMA AuditLastStart == AuditSpec => []LastStartInHistory
<1>1. AuditInit => LastStartInHistory
  <2> SUFFICES ASSUME AuditInit PROVE LastStartInHistory
    OBVIOUS
  <2>1. \A j \in Job : latest[j] \in Int /\ lastStart[j] = latest[j]
    BY InitTypeOK DEF AuditInit, TypeOK, Time, NoTime
  <2> QED
    BY <2>1 DEF AuditInit, Init, LastStartInHistory
<1> QED
  BY <1>1, AuditEngineInv, AuditTyped, NextLastStart, PTL DEF AuditSpec

-----------------------------------------------------------------------------
\* What `cronhub status` may conclude from a job that had no row when it read the
\* running table: the history has had the job's last start since then, and shows
\* it unless it cannot be read.
ReaderInv ==
    /\ shown \in [Job -> [state : {"none", "idle", "unknown", "running"},
                          last : Time \cup {NoTime}]]
    /\ faults \cap {"mark", "record"} = {} =>
          \A j \in Job :
             at \in {"listed", "rows"} =>
                /\ since[j] = NoTime => begun[j] <= latest[j]
                /\ shown[j].state = "idle" =>
                      \/ begun[j] <= shown[j].last
                      \/ "read" \in faults /\ shown[j].last = NoTime

\* begun is read from lastStart, whole.
BegunTyped == begun \in [Job -> Time \cup {NoTime}]

LEMMA NextReader ==
    /\ TypeOK /\ AuditTypeOK /\ LastStartInHistory /\ BegunTyped /\ ReaderInv
    /\ [StatusNext]_<<auditVars, readerVars>>
    => ReaderInv' /\ BegunTyped'
<1> SUFFICES ASSUME TypeOK, AuditTypeOK, LastStartInHistory, BegunTyped, ReaderInv,
                    [StatusNext]_<<auditVars, readerVars>>
             PROVE  ReaderInv' /\ BegunTyped'
  OBVIOUS
<1>t. Time \subseteq Int /\ NoTime \in Int
  BY DEF Time, NoTime
<1>i. \A j \in Job : latest[j] \in Int /\ begun[j] \in Int
  BY <1>t DEF TypeOK, BegunTyped
<1> USE DEF readerVars, ReaderInv, BegunTyped
<1>1. CASE [AuditNext]_auditVars /\ UNCHANGED readerVars
  <2>1. [Next]_vars
    BY <1>1 DEF AuditNext, auditVars
  <2>2. faults' = faults
    BY <2>1, FaultsFixed
  <2>3. \A j \in Job : latest[j] <= latest'[j]
    BY <2>1, LatestGrows
  <2>4. \A j \in Job : latest'[j] \in Int
    BY <2>1, <1>t, NextTypeOK DEF TypeOK
  <2> QED
    BY <1>1, <1>i, <2>2, <2>3, <2>4
<1>2. ASSUME ReaderStep, UNCHANGED auditVars PROVE ReaderInv' /\ BegunTyped'
  <2>0. faults' = faults /\ latest' = latest
    BY <1>2 DEF auditVars, vars, world, store
  <2>1. CASE ListRunning
    <3>1. shown' = Blank /\ since' = marks /\ begun' = lastStart /\ at' = "listed"
      BY <2>1 DEF ListRunning
    <3>2. \A j \in Job : shown'[j].state # "idle"
      BY <3>1 DEF Blank
    <3>3. shown' \in [Job -> [state : {"none", "idle", "unknown", "running"},
                              last : Time \cup {NoTime}]]
      BY <3>1 DEF Blank
    <3> QED
      BY <2>0, <3>1, <3>2, <3>3 DEF LastStartInHistory, AuditTypeOK
  <2>2. CASE ReadClock
    BY <2>0, <2>2 DEF ReadClock
  <2>3. ASSUME NEW j \in Job, Show(j) PROVE ReaderInv' /\ BegunTyped'
    <3>1. PICK t \in LastRun(j) :
             /\ at = "rows" /\ at' = at /\ since' = since /\ begun' = begun
             /\ shown' = [shown EXCEPT ![j] = [state |-> State(j), last |-> t]]
      BY <2>3 DEF Show
    <3>2. State(j) \in {"idle", "unknown", "running"} /\ (State(j) = "idle" => since[j] = NoTime)
      BY DEF State
    <3>3. /\ t \in Time \cup {NoTime}
          /\ t = latest[j] \/ ("read" \in faults /\ t = NoTime)
      BY DEF LastRun, TypeOK
    <3>4. [state |-> State(j), last |-> t]
             \in [state : {"none", "idle", "unknown", "running"}, last : Time \cup {NoTime}]
      BY <3>2, <3>3
    <3>5. shown'[j] = [state |-> State(j), last |-> t]
      BY <3>1
    <3>6. \A x \in Job : x # j => shown'[x] = shown[x]
      BY <3>1
    <3>7. shown'[j].state = State(j) /\ shown'[j].last = t
      BY <3>5
    <3>8. shown' \in [Job -> [state : {"none", "idle", "unknown", "running"},
                              last : Time \cup {NoTime}]]
      BY <3>1, <3>4
    <3> QED
      BY <2>0, <3>1, <3>2, <3>3, <3>6, <3>7, <3>8
  <2>4. CASE Rendered
    <3>1. begun' \in [Job -> Time \cup {NoTime}]
      BY <2>4 DEF Rendered
    <3> QED
      BY <2>4, <3>1 DEF Rendered
  <2> QED
    BY <1>2, <2>1, <2>2, <2>3, <2>4 DEF ReaderStep
<1> QED
  BY <1>1, <1>2 DEF StatusNext

\* A job that status shows as idle is shown with a run at least as late as the
\* last one that had started when status began to read, whatever runs end, start
\* and crash between its reads; the one other thing it may say, if the history
\* cannot be read, is that the job has never run (engine.go:137-160,
\* main.go:236-304).
THEOREM StatusIdleShowsLastRun == StatusSpec => []IdleShowsLastRun
<1>1. StatusInit => ReaderInv /\ BegunTyped
  BY DEF StatusInit, ReaderInv, BegunTyped, Blank
<1>2. ReaderInv /\ BegunTyped => IdleShowsLastRun
  <2> SUFFICES ASSUME ReaderInv, BegunTyped PROVE IdleShowsLastRun
    OBVIOUS
  <2>1. \A j \in Job : begun[j] \in Int /\ shown[j].last \in Int
    BY DEF ReaderInv, BegunTyped, Time, NoTime
  <2>2. \A j \in Job : begun[j] <= shown[j].last => shown[j].last >= begun[j]
    BY <2>1
  <2> QED
    BY <2>2 DEF ReaderInv, IdleShowsLastRun
<1> QED
  BY <1>1, <1>2, StatusAudit, AuditTyped, AuditLastStart, NextReader, PTL DEF StatusSpec

-----------------------------------------------------------------------------
\* Unless the clock is set back, no instant the daemon or the history knows of
\* lies ahead of it, and no recorded run began after the job's last start.
ClockInv ==
    "clock" \notin faults =>
        /\ now <= clock /\ tick <= clock
        /\ \A r \in Run : started[r] <= clock
        /\ \A j \in Job : latest[j] <= lastStart[j] /\ lastStart[j] <= clock

LEMMA NextClock ==
    TypeOK /\ AuditTypeOK /\ LastStartInHistory /\ ClockInv /\ [AuditNext]_auditVars
        => ClockInv'
<1> SUFFICES ASSUME TypeOK, AuditTypeOK, LastStartInHistory, ClockInv,
                    [AuditNext]_auditVars
             PROVE  ClockInv'
  OBVIOUS
<1>n. [Next]_vars
  BY DEF AuditNext, auditVars
<1> SUFFICES ASSUME "clock" \notin faults PROVE ClockInv'
  BY <1>n, FaultsFixed DEF ClockInv
<1>0. TypeOK' /\ AuditTypeOK'
  BY <1>n, NextTypeOK, NextAuditTypeOK
<1>t. Time \subseteq Int /\ NoTime \in Int /\ \A t \in Time : NoTime <= t
  BY NumbersAssumption DEF Time, NoTime
<1>i. /\ clock \in Time /\ clock \in Int /\ now \in Int /\ tick \in Int
      /\ \A r \in Run : started[r] \in Int
      /\ \A j \in Job : latest[j] \in Int /\ lastStart[j] \in Int
  BY <1>t DEF TypeOK, AuditTypeOK
<1> USE <1>i DEF ClockInv
<1> USE DEF world, offLoop, offRun, daemon, store, loop, gos
<1>1. ASSUME NEW r \in Run, ExecStart(r) PROVE ClockInv'
  <2>1. /\ lastStart' = [lastStart EXCEPT ![jobOf[r]] = clock]
        /\ started' = [started EXCEPT ![r] = clock]
        /\ clock' = clock /\ now' = now /\ tick' = tick /\ latest' = latest
    BY <1>1, LastStartStep DEF ExecStart
  <2>2. \A x \in Run : started'[x] <= clock
    BY <2>1 DEF TypeOK
  <2>3. \A j \in Job : lastStart'[j] \in {lastStart[j], clock}
    BY <2>1 DEF AuditTypeOK
  <2>4. \A j \in Job : latest[j] <= lastStart'[j] /\ lastStart'[j] <= clock
    BY <2>3
  <2> QED
    BY <2>1, <2>2, <2>4
<1>2. ASSUME \A r \in Run : ~ ExecStart(r) PROVE ClockInv'
  <2>0. lastStart' = lastStart
    BY <1>2, LastStartStep
  <2>1. CASE LoopStep
    BY <2>0, <2>1, <1>t DEF LoopStep, CatchUpDone, ReceiveTick, ReceiveQuit, Drained,
       TickDone, SetRunning, MarkRunning, Spawn, NothingMissed, Missed, InCatchUp, NotDue,
       SkipLate, SkipOverlap, Fire
  <2>2. CASE Start \/ TickerFire
    BY <2>0, <2>2 DEF Start, TickerFire
  <2>3. CASE Exit \/ Crash
    BY <2>0, <2>3, <1>t DEF Exit, Crash, Gone
  <2>4. CASE Advance
    BY <2>0, <2>4 DEF Advance
  <2>5. ~ StepBack
    BY DEF StepBack
  <2>6. ASSUME \/ \E k \in Quits : Quit(k)
               \/ \E j \in Job : OrphanExit(j)
        PROVE  ClockInv'
    BY <2>0, <2>6 DEF Quit, OrphanExit
  <2>7. ASSUME NEW r \in Run, ExecDone(r) \/ NotifyAll(r) \/ ClearRunning(r) \/ UnsetRunning(r)
        PROVE  ClockInv'
    BY <2>0, <2>7 DEF ExecDone, NotifyAll, ClearRunning, UnsetRunning
  <2>8. ASSUME NEW r \in Run, RecordRun(r) PROVE ClockInv'
    <3>1. /\ clock' = clock /\ now' = now /\ tick' = tick /\ started' = started
          /\ latest' \in {Recorded(r), latest}
          /\ jobOf[r] \in Job /\ started[r] = lastStart[jobOf[r]]
      BY <2>8 DEF RecordRun, Goto, TypeOK, LastStartInHistory
    <3>2. \A j \in Job : latest'[j] \in {latest[j], lastStart[j]}
      BY <3>1 DEF Recorded, TypeOK
    <3>3. \A j \in Job : latest'[j] <= lastStart[j]
      BY <3>2
    <3> QED
      BY <2>0, <3>1, <3>3
  <2>9. ASSUME NEW r \in Run, WgDone(r) PROVE ClockInv'
    <3>1. \A x \in Run : started'[x] \in {started[x], NoTime}
      BY <2>9 DEF WgDone, TypeOK
    <3>2. clock' = clock /\ now' = now /\ tick' = tick /\ latest' = latest
      BY <2>9 DEF WgDone
    <3> QED
      BY <2>0, <3>1, <3>2, <1>t
  <2>10. CASE UNCHANGED vars
    BY <2>0, <2>10 DEF vars
  <2> QED
    BY <1>n, <1>2, <2>1, <2>2, <2>3, <2>4, <2>5, <2>6, <2>7, <2>8, <2>9, <2>10
       DEF Next, RunStep, Environment
<1> QED
  BY <1>1, <1>2

LEMMA AuditClock == AuditSpec => []ClockInv
<1>1. AuditInit => ClockInv
  <2> SUFFICES ASSUME AuditInit PROVE ClockInv
    OBVIOUS
  <2>1. \A j \in Job : latest[j] \in {NoTime, 0} /\ lastStart[j] = latest[j]
    BY DEF AuditInit, Init
  <2> QED
    BY <2>1 DEF AuditInit, Init, ClockInv, NoTime
<1> QED
  BY <1>1, AuditTyped, AuditLastStart, NextClock, PTL DEF AuditSpec

-----------------------------------------------------------------------------
\* A slot a job was launched for is covered by the history, or its run is still
\* on the way to it and its start, past or to come, is not before the slot.
Accounted(j, s) ==
    \/ s <= latest[j]
    \/ cur = j /\ s <= clock
    \/ \E r \in Run :
          /\ jobOf[r] = j
          /\ \/ stage[r] = "ready" /\ s <= clock
             \/ stage[r] \in {"exec", "record"} /\ s <= started[r]

\* All of them lie before the job's next slot; a job the catch-up pass has
\* still to visit has no launch of this lifetime, so the history covers them.
ServedInv ==
    faults \cap {"crash", "record", "clock"} = {} =>
        \A j \in Job \ NeverFires : \A s \in served[j] :
            /\ Accounted(j, s)
            /\ pc # "down" => s < next[j]
            /\ pc = "catchup" /\ j \in todo => s <= latest[j]

\* A launch takes a slot its job was never launched for.
LEMMA LaunchIsNew ==
    ASSUME EngineInv, ServedInv, [Next]_vars, Launching,
           faults \cap {"crash", "record", "clock"} = {}, cur' \notin NeverFires
    PROVE  last'[cur'] \notin served[cur']
<1>1. PICK j \in Job : (Missed(j) \/ Fire(j)) /\ cur' = j
  BY OnlyMissedOrFire
<1>2. TypeOK
  BY DEF EngineInv, IInv
<1>3. j \in Job \ NeverFires
  BY <1>1
<1>4. CASE Missed(j)
  <2>1. /\ pc = "catchup" /\ j \in todo /\ latest[j] \in Time
        /\ last' = [last EXCEPT ![j] = MissedAt(j)]
    BY <1>2, <1>4 DEF Missed, InCatchUp, TypeOK
  <2>2. MissedAt(j) > latest[j] /\ MissedAt(j) \in Int /\ latest[j] \in Int
    BY <1>3, <2>1, NextInLater, NextInType DEF MissedAt, Time
  <2>3. last'[j] = MissedAt(j)
    BY <1>2, <2>1 DEF TypeOK
  <2>4. \A s \in served[j] : s <= latest[j]
    BY <1>3, <2>1 DEF ServedInv
  <2>5. MissedAt(j) \notin served[j]
    BY <2>2, <2>4
  <2> QED
    BY <1>1, <2>3, <2>5
<1>5. CASE Fire(j)
  <2>1. last'[j] = next[j] /\ pc = "tick" /\ next[j] \in Int
    BY <1>2, <1>5 DEF Fire, InTick, TypeOK
  <2>2. \A s \in served[j] : s < next[j]
    BY <1>3, <2>1 DEF ServedInv
  <2> QED
    BY <1>1, <2>1, <2>2
<1> QED
  BY <1>1, <1>4, <1>5

LEMMA NextServed ==
    EngineInv /\ AuditTypeOK /\ ClockInv /\ ServedInv /\ [AuditNext]_auditVars => ServedInv'
<1> SUFFICES ASSUME EngineInv, AuditTypeOK, ClockInv, ServedInv, [AuditNext]_auditVars
             PROVE  ServedInv'
  OBVIOUS
<1>n. [Next]_vars
  BY DEF AuditNext, auditVars
<1>f. faults' = faults
  BY <1>n, FaultsFixed
<1> SUFFICES ASSUME faults \cap {"crash", "record", "clock"} = {} PROVE ServedInv'
  BY <1>f DEF ServedInv
<1>0. TypeOK /\ TypeOK' /\ AuditTypeOK' /\ SlotsOrdered
  BY <1>n, NextTypeOK, NextAuditTypeOK DEF EngineInv, IInv, SInv
<1>t. Time \subseteq Int /\ NoTime \in Int
  BY DEF Time, NoTime
<1>c. /\ clock \in Time /\ now <= clock
      /\ \A j \in Job : latest[j] <= clock
  <2>1. \A j \in Job : latest[j] \in Int /\ lastStart[j] \in Int
    BY <1>0, <1>t DEF TypeOK, AuditTypeOK
  <2>2. clock \in Time /\ clock \in Int
    BY <1>0, <1>t DEF TypeOK
  <2> QED
    BY <2>1, <2>2 DEF ClockInv
<1>i. /\ clock \in Int /\ clock' \in Int /\ now \in Int
      /\ \A r \in Run : started[r] \in Int
      /\ \A j \in Job : /\ latest[j] \in Int /\ latest'[j] \in Int /\ latest[j] <= latest'[j]
                        /\ next[j] \in Int /\ next'[j] \in Int
                        /\ \A s \in served[j] : s \in Int
  BY <1>0, <1>n, <1>t, LatestGrows DEF TypeOK, AuditTypeOK
<1>s. ASSUME NEW j \in Job \ NeverFires, NEW s \in served[j]
      PROVE  /\ s \in Int /\ Accounted(j, s)
             /\ pc # "down" => s < next[j]
             /\ pc = "catchup" /\ j \in todo => s <= latest[j]
  BY <1>i DEF ServedInv
\* A goroutine-free daemon with no launch in hand has all its slots in the history.
<1>q. ASSUME Unfinished = {}, cur = NoJob, NEW j \in Job \ NeverFires, NEW s \in served[j]
      PROVE  s <= latest[j]
  BY <1>q, <1>s, NamesAssumption DEF Accounted, Unfinished
\* The other slots stay where they were.
<1>k. ASSUME clock <= clock',
             NEW j \in Job \ NeverFires, NEW s \in served[j], cur' = cur \/ cur # j,
             \A r \in Run : stage[r] \in {"ready", "exec", "record"} /\ jobOf[r] = j =>
                stage'[r] = stage[r] /\ jobOf'[r] = jobOf[r] /\ started'[r] = started[r]
      PROVE  Accounted(j, s)'
  BY <1>i, <1>k, <1>s DEF Accounted
<1> USE DEF world, offLoop, offRun, daemon, store, loop, gos
<1>l. CASE Launching
  <2>1. PICK i \in Job : (Missed(i) \/ Fire(i)) /\ cur' = i
    BY <1>n, <1>l, OnlyMissedOrFire
  <2>2. served' = [served EXCEPT ![i] = @ \cup {last'[i]}]
    BY <1>l, <2>1, ServedStep
  <2>3. cur = NoJob /\ clock' = clock /\ stage' = stage /\ jobOf' = jobOf /\ started' = started
        /\ pc' = pc /\ pc \in {"catchup", "tick"} /\ todo' = todo \ {i} /\ latest' = latest
    BY <1>0, <2>1 DEF Missed, Fire, InCatchUp, InTick, TypeOK
  <2>4. \A x \in Job : x # i => served'[x] = served[x] /\ next'[x] = next[x]
    BY <1>0, <2>1, <2>2 DEF Missed, Fire, Advanced, AuditTypeOK, TypeOK
  <2>5. served'[i] = served[i] \cup {last'[i]}
    BY <2>2 DEF AuditTypeOK
  <2>6. i \notin NeverFires => last'[i] <= clock /\ last'[i] < next'[i] /\ next[i] <= next'[i]
    <3> SUFFICES ASSUME i \in Job \ NeverFires
                 PROVE  last'[i] <= clock /\ last'[i] < next'[i] /\ next[i] <= next'[i]
      OBVIOUS
    <3>1. CASE Missed(i)
      <4>1. MissedAt(i) \in Int
        BY <1>0, <3>1, NextInType DEF Missed, MissedAt, TypeOK
      <4>2. /\ last'[i] = MissedAt(i) /\ MissedAt(i) < now /\ next' = next
            /\ pc = "catchup"
        BY <1>0, <3>1 DEF Missed, InCatchUp, TypeOK
      <4>3. now < next[i]
        BY <1>0, <4>2 DEF SlotsOrdered
      <4> QED
        BY <1>c, <1>i, <4>1, <4>2, <4>3
    <3>2. CASE Fire(i)
      <4>1. /\ last'[i] = next[i] /\ ~ (now < next[i]) /\ now \in Time
            /\ next'[i] = NextIn(i, now, LocalOffset)
        BY <1>0, <3>2 DEF Fire, Advanced, Due, InTick, TypeOK
      <4>2. next'[i] > now
        BY <4>1, NextInLater
      <4> QED
        BY <1>c, <1>i, <4>1, <4>2
    <3> QED
      BY <2>1, <3>1, <3>2
  <2>7. ASSUME NEW j \in Job \ NeverFires, NEW s \in served'[j]
        PROVE  /\ Accounted(j, s)'
               /\ pc' # "down" => s < next'[j]
               /\ pc' = "catchup" /\ j \in todo' => s <= latest'[j]
    <3>1. CASE s \in served[j]
      <4>1. Accounted(j, s)'
        BY <1>i, <1>k, <2>3, <3>1, NamesAssumption
      <4>2. next[j] <= next'[j]
        BY <1>i, <2>4, <2>6
      <4> QED
        BY <1>i, <1>s, <2>3, <3>1, <4>1, <4>2
    <3>2. CASE s \notin served[j]
      <4>1. j = i /\ s = last'[i]
        BY <2>4, <2>5, <2>7, <3>2
      <4> QED
        BY <2>1, <2>3, <2>6, <4>1 DEF Accounted
    <3> QED
      BY <3>1, <3>2
  <2> QED
    BY <2>7 DEF ServedInv
<1>m. CASE ~ Launching
  <2>0. served' = served
    BY <1>m, ServedStep
  <2>k. ASSUME clock <= clock', cur' = cur, next' = next,
               \A r \in Run : stage[r] \in {"ready", "exec", "record"} =>
                  stage'[r] = stage[r] /\ jobOf'[r] = jobOf[r] /\ started'[r] = started[r],
               pc' # "down" => pc # "down",
               pc' = "catchup" => pc = "catchup" /\ todo' \subseteq todo
        PROVE  ServedInv'
    <3> SUFFICES ASSUME NEW j \in Job \ NeverFires, NEW s \in served[j]
                 PROVE  /\ Accounted(j, s)'
                        /\ pc' # "down" => s < next'[j]
                        /\ pc' = "catchup" /\ j \in todo' => s <= latest'[j]
      BY <2>0 DEF ServedInv
    <3> QED
      BY <1>i, <1>k, <1>s, <2>k
  <2>1. CASE Start \/ Exit
    <3>1. Unfinished = {} /\ cur = NoJob /\ cur' = NoJob /\ pc \in {"down", "closed"}
      BY <1>0, <2>1 DEF Start, Exit, Gone, EngineInv, Counted, TypeOK
    <3>2. ASSUME NEW j \in Job \ NeverFires, NEW s \in served[j]
          PROVE  s <= latest'[j] /\ (pc' # "down" => s < next'[j])
      <4>1. s <= latest[j]
        BY <1>q, <3>1
      <4>2. CASE Start
        <5>1. next'[j] = NextIn(j, clock, LocalOffset)
          BY <4>2 DEF Start
        <5>2. next'[j] > clock
          BY <1>c, <5>1, NextInLater
        <5> QED
          BY <1>c, <1>i, <1>s, <4>1, <5>2
      <4>3. CASE Exit
        BY <1>i, <1>s, <4>1, <4>3 DEF Exit, Gone
      <4> QED
        BY <2>1, <4>2, <4>3
    <3> QED
      BY <2>0, <3>2 DEF ServedInv, Accounted
  <2>2. ~ Crash /\ ~ StepBack
    BY DEF Crash, StepBack
  <2>3. CASE TickerFire \/ Advance
    BY <1>i, <2>3, <2>k DEF TickerFire, Advance
  <2>4. ASSUME \/ \E x \in Quits : Quit(x)
               \/ \E j \in Job : OrphanExit(j)
        PROVE  ServedInv'
    BY <1>i, <2>4, <2>k DEF Quit, OrphanExit
  <2>5. ASSUME \/ CatchUpDone \/ ReceiveTick \/ ReceiveQuit \/ Drained \/ TickDone
               \/ SetRunning \/ MarkRunning
               \/ \E j \in Job : NothingMissed(j) \/ NotDue(j)
        PROVE  ServedInv'
    BY <1>i, <2>5, <2>k DEF CatchUpDone, ReceiveTick, ReceiveQuit, Drained, TickDone,
       SetRunning, MarkRunning, NothingMissed, InCatchUp, NotDue, InTick
  <2>6. ASSUME NEW i \in Job, SkipLate(i) \/ SkipOverlap(i) PROVE ServedInv'
    <3>1. /\ clock' = clock /\ cur' = cur /\ stage' = stage /\ jobOf' = jobOf
          /\ started' = started /\ pc' = pc /\ pc = "tick"
          /\ ~ (now < next[i]) /\ now \in Time /\ next' = Advanced(i)
      BY <1>0, <2>6 DEF SkipLate, SkipOverlap, InTick, Due, TypeOK
    <3>2. i \notin NeverFires => next'[i] > now
      <4>1. next'[i] = NextIn(i, now, LocalOffset)
        BY <1>0, <3>1 DEF Advanced, TypeOK
      <4> QED
        BY <3>1, <4>1, NextInLater
    <3>3. \A x \in Job : x # i => next'[x] = next[x]
      BY <1>0, <3>1 DEF Advanced, TypeOK
    <3>4. \A j \in Job \ NeverFires : next[j] <= next'[j]
      BY <1>i, <3>1, <3>2, <3>3
    <3>5. ASSUME NEW j \in Job \ NeverFires, NEW s \in served[j]
          PROVE  Accounted(j, s)' /\ s < next'[j]
      BY <1>i, <1>k, <1>s, <3>1, <3>4
    <3> QED
      BY <2>0, <3>1, <3>5 DEF ServedInv
  <2>7. ASSUME NEW i \in Job, Missed(i) \/ Fire(i) PROVE FALSE
    BY <1>m, <2>7 DEF Missed, Fire, InCatchUp, InTick, Launch, Launching
  <2>8. ASSUME NEW r \in Run, Spawn(r) PROVE ServedInv'
    <3>1. /\ stage[r] = "free" /\ stage'[r] = "ready" /\ jobOf'[r] = cur /\ clock' = clock
          /\ next' = next /\ pc' = pc /\ todo' = todo
      BY <1>0, <2>8 DEF Spawn, TypeOK
    <3>2. \A x \in Run : x # r => /\ stage'[x] = stage[x] /\ jobOf'[x] = jobOf[x]
                                  /\ started'[x] = started[x]
      BY <1>0, <2>8 DEF Spawn, TypeOK
    <3>3. ASSUME NEW j \in Job \ NeverFires, NEW s \in served[j] PROVE Accounted(j, s)'
      <4>1. CASE cur = j /\ s <= clock
        BY <3>1, <4>1 DEF Accounted
      <4>2. CASE s <= latest[j]
        BY <1>i, <1>s, <4>2 DEF Accounted
      <4>3. CASE \E x \in Run : /\ jobOf[x] = j
                                /\ \/ stage[x] = "ready" /\ s <= clock
                                   \/ stage[x] \in {"exec", "record"} /\ s <= started[x]
        BY <3>1, <3>2, <4>3 DEF Accounted
      <4> QED
        BY <1>s, <4>1, <4>2, <4>3 DEF Accounted
    <3> QED
      BY <1>i, <1>s, <2>0, <3>1, <3>3 DEF ServedInv
  <2>9. ASSUME NEW r \in Run, ExecStart(r) \/ ExecDone(r) \/ RecordRun(r) PROVE ServedInv'
    <3>1. /\ clock' = clock /\ cur' = cur /\ jobOf' = jobOf /\ next' = next /\ pc' = pc
          /\ todo' = todo /\ jobOf[r] \in Job
      BY <1>0, <2>9 DEF ExecStart, ExecDone, RecordRun, Goto, TypeOK
    <3>2. \A x \in Run : x # r => stage'[x] = stage[x] /\ started'[x] = started[x]
      BY <1>0, <2>9 DEF ExecStart, ExecDone, RecordRun, Goto, TypeOK
    <3>3. \/ stage[r] = "ready" /\ stage'[r] = "exec" /\ started'[r] = clock
          \/ stage[r] = "exec" /\ stage'[r] = "record" /\ started'[r] = started[r]
          \/ stage[r] = "record" /\ started[r] <= latest'[jobOf[r]]
      <4>1. CASE ExecStart(r)
        BY <1>0, <4>1 DEF ExecStart, Goto, TypeOK
      <4>2. CASE ExecDone(r)
        BY <1>0, <4>2 DEF ExecDone, Goto, TypeOK
      <4>3. CASE RecordRun(r)
        <5>1. stage[r] = "record" /\ latest' = Recorded(r)
          BY <4>3 DEF RecordRun, Goto
        <5> QED
          BY <1>0, <1>i, <3>1, <5>1 DEF Recorded, TypeOK
      <4> QED
        BY <2>9, <4>1, <4>2, <4>3
    <3>4. ASSUME NEW j \in Job \ NeverFires, NEW s \in served[j] PROVE Accounted(j, s)'
      <4>1. CASE s <= latest[j] \/ (cur = j /\ s <= clock)
        BY <1>i, <1>s, <3>1, <4>1 DEF Accounted
      <4>2. ASSUME NEW x \in Run, jobOf[x] = j,
                   \/ stage[x] = "ready" /\ s <= clock
                   \/ stage[x] \in {"exec", "record"} /\ s <= started[x]
            PROVE  Accounted(j, s)'
        <5>1. CASE x # r
          BY <3>1, <3>2, <4>2, <5>1 DEF Accounted
        <5>2. CASE x = r /\ stage[r] = "record"
          <6>1. s <= latest'[j]
            BY <1>i, <1>s, <3>1, <3>3, <4>2, <5>2
          <6> QED
            BY <6>1 DEF Accounted
        <5>3. CASE x = r /\ stage[r] # "record"
          <6>1. stage'[r] \in {"exec", "record"} /\ s <= started'[r] /\ jobOf'[r] = j
            BY <3>1, <3>3, <4>2, <5>3
          <6> QED
            BY <6>1 DEF Accounted
        <5> QED
          BY <5>1, <5>2, <5>3
      <4> QED
        BY <1>s, <4>1, <4>2 DEF Accounted
    <3> QED
      BY <1>i, <1>s, <2>0, <3>1, <3>4 DEF ServedInv
  <2>10. ASSUME NEW r \in Run, NotifyAll(r) \/ ClearRunning(r) \/ UnsetRunning(r) \/ WgDone(r)
         PROVE  ServedInv'
    <3>1. /\ clock' = clock /\ cur' = cur /\ next' = next /\ pc' = pc /\ todo' = todo
          /\ \A x \in Run : x # r => /\ stage'[x] = stage[x] /\ jobOf'[x] = jobOf[x]
                                     /\ started'[x] = started[x]
          /\ stage[r] \notin {"ready", "exec", "record"}
      BY <1>0, <2>10 DEF NotifyAll, ClearRunning, UnsetRunning, WgDone, Goto, TypeOK
    <3> QED
      BY <1>i, <2>k, <3>1
  <2>11. CASE UNCHANGED vars
    BY <1>i, <2>11, <2>k DEF vars
  <2> QED
    BY <1>n, <2>1, <2>2, <2>3, <2>4, <2>5, <2>6, <2>7, <2>8, <2>9, <2>10, <2>11
       DEF Next, LoopStep, RunStep, Environment
<1> QED
  BY <1>l, <1>m

\* While no daemon crashes, no record is lost and the clock is not set back, no
\* slot is launched twice, in however many lifetimes of the daemon and whatever
\* the zone: a run starts at or after its slot, is recorded before the daemon is
\* down, and the next catch-up pass asks for a slot after the record
\* (engine.go:74-91, 109-127).
THEOREM AuditSlotServedOnce == AuditSpec => SlotServedOnce
<1>1. AuditInit => ServedInv
  <2> SUFFICES ASSUME AuditInit PROVE ServedInv
    OBVIOUS
  <2>1. /\ pc = "down"
        /\ \A j \in Job : served[j] \subseteq {latest[j]} /\ latest[j] \in {NoTime, 0}
    BY DEF AuditInit, Init
  <2>2. \A j \in Job : latest[j] <= latest[j]
    BY <2>1 DEF NoTime
  <2> QED
    BY <2>1, <2>2 DEF ServedInv, Accounted
<1>2. EngineInv /\ ServedInv /\ [AuditNext]_auditVars =>
        [Launching /\ cur' \notin NeverFires
             /\ faults \cap {"crash", "record", "clock"} = {}
           => last'[cur'] \notin served[cur']]_auditVars
  BY LaunchIsNew DEF AuditNext
<1> QED
  BY <1>1, <1>2, AuditEngineInv, AuditTyped, AuditClock, NextServed, PTL
     DEF AuditSpec, SlotServedOnce

-----------------------------------------------------------------------------
\* The later the instant asked about, the later the slot.
LEMMA NextInMonotone ==
    ASSUME NEW j \in Job \ NeverFires, NEW t \in Time, NEW u \in Time, t <= u
    PROVE  NextIn(j, t, 0) <= NextIn(j, u, 0)
<1>1. t + 0 \in Wall /\ u + 0 \in Wall /\ t + 0 <= u + 0
  BY DEF Wall, Time
<1>2. NextSlot(j, t + 0) <= NextSlot(j, u + 0)
  BY <1>1, FirstAssumption
<1>3. NextSlot(j, t + 0) \in Int /\ NextSlot(j, u + 0) \in Int
  BY <1>1, ScheduleAssumption
<1> QED
  BY <1>2, <1>3 DEF NextIn

\* During the catch-up pass a job without a slot of this lifetime neither runs nor
\* is being launched, so its history is what the pass found, or will find; and
\* if the pass has visited it, it had missed nothing.
CaughtInv ==
    pc = "catchup" =>
        \A j \in Job \ NeverFires : last[j] = ZeroTime =>
            /\ j \notin running /\ j # cur
            /\ "read" \notin faults /\ j \in CatchUp \ todo /\ latest[j] # NoTime
                  => ~ (MissedAt(j) < now)

LEMMA NextCaught == EngineInv /\ CaughtInv /\ [Next]_vars => CaughtInv'
<1> SUFFICES ASSUME EngineInv, CaughtInv, [Next]_vars PROVE CaughtInv'
  OBVIOUS
<1>0. TypeOK /\ TypeOK' /\ RunningCovers /\ CatchUpFresh
  BY NextTypeOK DEF EngineInv, IInv
<1>f. faults' = faults
  BY FaultsFixed
<1> SUFFICES ASSUME pc' = "catchup", NEW j \in Job \ NeverFires, last'[j] = ZeroTime
             PROVE  /\ j \notin running' /\ j # cur'
                    /\ "read" \notin faults /\ j \in CatchUp \ todo' /\ latest'[j] # NoTime
                          => ~ (MissedAt(j)' < now')
  BY <1>f DEF CaughtInv
<1> DEFINE Goal == /\ j \notin running' /\ j # cur'
                   /\ "read" \notin faults /\ j \in CatchUp \ todo' /\ latest'[j] # NoTime
                         => ~ (MissedAt(j)' < now')
<1>h. ASSUME pc = "catchup", last[j] = ZeroTime
      PROVE  /\ j \notin running /\ j # cur
             /\ "read" \notin faults /\ j \in CatchUp \ todo /\ latest[j] # NoTime
                   => ~ (MissedAt(j) < now)
  BY <1>h DEF CaughtInv
<1>k. ASSUME pc = "catchup", last[j] = ZeroTime, running' \subseteq running,
             cur' = cur \/ cur' = NoJob, todo' = todo, latest'[j] = latest[j], now' = now
      PROVE  Goal
  BY <1>h, <1>k, NamesAssumption DEF MissedAt, NextIn
<1> USE DEF world, offLoop, offRun, daemon, store, loop, gos
<1>1. CASE Start
  BY <1>0, <1>1, NamesAssumption DEF Start, CatchUpFresh, TypeOK
<1>2. ASSUME Exit \/ Crash \/ CatchUpDone \/ ReceiveTick \/ ReceiveQuit \/ Drained \/ TickDone
      PROVE  FALSE
  BY <1>2 DEF Exit, Crash, Gone, CatchUpDone, ReceiveTick, ReceiveQuit, Drained, TickDone
<1>3. ASSUME \/ TickerFire \/ Advance \/ StepBack \/ MarkRunning
             \/ \E k \in Quits : Quit(k)
             \/ \E i \in Job : OrphanExit(i)
             \/ \E r \in Run : Spawn(r)
      PROVE  Goal
  BY <1>3, <1>k DEF TickerFire, Advance, StepBack, MarkRunning, Quit, OrphanExit, Spawn
<1>4. CASE SetRunning
  BY <1>h, <1>4 DEF SetRunning, MissedAt, NextIn
<1>5. ASSUME NEW i \in Job, NothingMissed(i) PROVE Goal
  <2>1. /\ pc = "catchup" /\ last' = last /\ running' = running /\ cur' = cur
        /\ latest' = latest /\ now' = now /\ todo' = todo \ {i}
        /\ \/ "read" \in faults
           \/ latest[i] = NoTime
           \/ ~ (MissedAt(i) < now)
    BY <1>5 DEF NothingMissed, InCatchUp
  <2> QED
    BY <1>h, <2>1 DEF MissedAt, NextIn
<1>6. ASSUME NEW i \in Job, Missed(i) PROVE Goal
  <2>1. /\ pc = "catchup" /\ running' = running /\ cur' = i /\ i \in todo
        /\ latest' = latest /\ now' = now /\ todo' = todo \ {i} /\ latest[i] \in Time
        /\ last' = [last EXCEPT ![i] = MissedAt(i)]
    BY <1>0, <1>6 DEF Missed, InCatchUp, Launch, TypeOK
  <2>2. i # j
    <3> SUFFICES ASSUME i = j PROVE FALSE
      OBVIOUS
    <3>1. MissedAt(j) > latest[j] /\ MissedAt(j) \in Int /\ latest[j] \in Nat
      BY <2>1, NextInLater, NextInType DEF MissedAt, Time
    <3>2. last'[j] = MissedAt(j)
      BY <1>0, <2>1 DEF TypeOK
    <3> QED
      BY <3>1, <3>2, NumbersAssumption DEF ZeroTime
  <2>3. last[j] = ZeroTime
    BY <1>0, <2>1, <2>2 DEF TypeOK
  <2> QED
    BY <1>h, <2>1, <2>2, <2>3 DEF MissedAt, NextIn
<1>7. ASSUME NEW i \in Job, NotDue(i) \/ SkipLate(i) \/ SkipOverlap(i) \/ Fire(i) PROVE FALSE
  BY <1>7 DEF NotDue, SkipLate, SkipOverlap, Fire, InTick
<1>8. ASSUME NEW r \in Run, RunStep(r) PROVE Goal
  <2>1. /\ pc = "catchup" /\ last' = last /\ cur' = cur /\ todo' = todo /\ now' = now
        /\ running' \subseteq running
    BY <1>8 DEF RunStep, ExecStart, ExecDone, RecordRun, NotifyAll, ClearRunning,
       UnsetRunning, WgDone
  <2>2. latest'[j] = latest[j]
    <3>1. CASE RecordRun(r)
      <4>1. jobOf[r] \in running /\ jobOf[r] \in Job
        BY <1>0, <3>1 DEF RecordRun, Goto, RunningCovers, Live, TypeOK
      <4>2. jobOf[r] # j
        BY <1>h, <2>1, <4>1
      <4> QED
        BY <1>0, <3>1, <4>1, <4>2 DEF RecordRun, Recorded, TypeOK
    <3> QED
      BY <1>8, <3>1 DEF RunStep, ExecStart, ExecDone, NotifyAll, ClearRunning,
         UnsetRunning, WgDone
  <2> QED
    BY <1>k, <2>1, <2>2
<1>9. CASE UNCHANGED vars
  BY <1>9, <1>k DEF vars
<1> QED
  BY <1>1, <1>2, <1>3, <1>4, <1>5, <1>6, <1>7, <1>8, <1>9 DEF Next, LoopStep, Environment

\* Every slot a catch-up job has on the local clock is one on the clock of UTC too,
\* in which the catch-up pass looks for it: always if local time is UTC, else only
\* for schedules such as "every hour" in a zone whole hours away.
LocalSlotsInUTC ==
    \A j \in CatchUp \ NeverFires : \A t \in Time :
        NextIn(j, t, 0) <= NextIn(j, t, LocalOffset)

LEMMA InUTC == LocalOffset = 0 => LocalSlotsInUTC
<1> SUFFICES ASSUME LocalOffset = 0, NEW j \in CatchUp \ NeverFires, NEW t \in Time
             PROVE  NextIn(j, t, 0) <= NextIn(j, t, LocalOffset)
  BY DEF LocalSlotsInUTC
<1>1. NextIn(j, t, 0) \in Int
  BY NamesAssumption, NextInType
<1> QED
  BY <1>1

\* Where local slots are slots in UTC too, the catch-up pass leaves no job behind:
\* each with a history is launched, or has no slot between its last start and the
\* start of the daemon.  The runs may have crashed before they were recorded
\* (engine.go:74-91).
THEOREM AuditCaughtUp == LocalSlotsInUTC => (AuditSpec => CaughtUp)
<1> SUFFICES ASSUME LocalSlotsInUTC PROVE AuditSpec => CaughtUp
  OBVIOUS
<1>1. AuditInit => CaughtInv
  BY DEF AuditInit, Init, CaughtInv
<1>2. EngineInv /\ CaughtInv /\ [AuditNext]_auditVars => CaughtInv'
  BY NextCaught DEF AuditNext, auditVars
<1>3. ASSUME TypeOK, AuditTypeOK, ClockInv, CaughtInv, CatchUpDone,
             faults \cap {"read", "clock"} = {},
             NEW j \in CatchUp \ NeverFires, latest[j] # NoTime, last[j] = ZeroTime
      PROVE  ~ (NextIn(j, lastStart[j], LocalOffset) < now)
  <2>1. j \in Job \ NeverFires
    BY NamesAssumption
  <2>2. ~ (MissedAt(j) < now)
    BY <1>3, <2>1 DEF CatchUpDone, CaughtInv
  <2>3. latest[j] \in Time /\ lastStart[j] \in Time /\ latest[j] <= lastStart[j]
    <3>1. latest[j] \in Time /\ latest[j] <= lastStart[j]
      BY <1>3, <2>1 DEF TypeOK, ClockInv
    <3>2. lastStart[j] \in Time \cup {NoTime}
      BY <1>3, <2>1 DEF AuditTypeOK
    <3> QED
      BY <3>1, <3>2 DEF Time, NoTime
  <2>4. MissedAt(j) <= NextIn(j, lastStart[j], 0)
    BY <2>1, <2>3, NextInMonotone DEF MissedAt
  <2>5. NextIn(j, lastStart[j], 0) <= NextIn(j, lastStart[j], LocalOffset)
    BY <2>3 DEF LocalSlotsInUTC
  <2>6. /\ MissedAt(j) \in Int /\ NextIn(j, lastStart[j], 0) \in Int
        /\ NextIn(j, lastStart[j], LocalOffset) \in Int
    BY <2>1, <2>3, NextInType DEF MissedAt
  <2>7. now \in Int
    BY <1>3 DEF TypeOK, Time, NoTime
  <2> QED
    BY <2>2, <2>4, <2>5, <2>6, <2>7
<1>4. TypeOK /\ AuditTypeOK /\ ClockInv /\ CaughtInv =>
        [CatchUpDone /\ faults \cap {"read", "clock"} = {} =>
           \A j \in CatchUp \ NeverFires :
               latest[j] # NoTime =>
                   \/ last[j] # ZeroTime
                   \/ ~ (NextIn(j, lastStart[j], LocalOffset) < now)]_auditVars
  BY <1>3
<1> QED
  BY <1>1, <1>2, <1>4, AuditEngineInv, AuditTyped, AuditClock, PTL DEF AuditSpec, CaughtUp
=============================================================================
