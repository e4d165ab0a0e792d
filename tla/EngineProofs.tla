---------------------------- MODULE EngineProofs ----------------------------
(***************************************************************************)
(* Proofs about Engine for every value of its constants.  IInv is the      *)
(* inductive strengthening of AtMostOneRun: it ties the running map to the *)
(* live goroutines and to the launch the loop has in hand.                 *)
(***************************************************************************)
EXTENDS Engine, TLAPS, FiniteSetTheorems

-----------------------------------------------------------------------------
\* What the engine reads from a schedule is an instant (Schedule.Next returns a
\* time for every time it is given).
LEMMA NextInType ==
    ASSUME NEW j \in Job, NEW t \in Time, NEW off \in {0, LocalOffset}
    PROVE  NextIn(j, t, off) \in Int
<1>1. t + off \in Wall
  <2>1. CASE off = 0
    BY <2>1, NumbersAssumption DEF Wall, Time
  <2>2. CASE off = LocalOffset
    BY <2>2 DEF Wall
  <2> QED
    BY <2>1, <2>2
<1>2. NextSlot(j, t + off) \in Int
  BY <1>1, ScheduleAssumption
<1>3. off \in Int /\ ZeroTime \in Int
  BY NumbersAssumption DEF ZeroTime
<1> QED
  BY <1>2, <1>3 DEF NextIn

-----------------------------------------------------------------------------
\* Type correctness: TypeOK is inductive by itself.
LEMMA InitTypeOK == Init => TypeOK
<1> SUFFICES ASSUME Init PROVE TypeOK
  OBVIOUS
<1>1. ZeroTime \in Int /\ clock \in Time
  BY NumbersAssumption DEF Init, ZeroTime, Time
<1> QED
  BY <1>1 DEF Init, TypeOK, Stages, NoTime

LEMMA NextTypeOK == TypeOK /\ [Next]_vars => TypeOK'
<1> SUFFICES ASSUME TypeOK, [Next]_vars PROVE TypeOK'
  OBVIOUS
<1> USE DEF TypeOK, world, offLoop, offRun, daemon, store, loop, gos
<1>1. CASE Start
  <2>1. [j \in Job |-> NextIn(j, clock, LocalOffset)] \in [Job -> Int]
    BY NextInType
  <2> QED
    BY <1>1, <2>1, NamesAssumption DEF Start
<1>2. CASE Exit
  BY <1>2, NumbersAssumption DEF Exit, Gone, Stages, ZeroTime
<1>3. CASE Crash
  <2>1. {jobOf[r] : r \in {x \in Run : stage[x] = "exec"}} \subseteq Job
    OBVIOUS
  <2> QED
    BY <1>3, <2>1, NumbersAssumption DEF Crash, Gone, Stages, ZeroTime
<1>4. CASE TickerFire
  BY <1>4 DEF TickerFire
<1>5. CASE Advance
  BY <1>5, NumbersAssumption DEF Advance, Time
<1>6. CASE StepBack
  BY <1>6, NumbersAssumption DEF StepBack, Time
<1>7. ASSUME NEW k \in Quits, Quit(k) PROVE TypeOK'
  BY <1>7 DEF Quit
<1>8. ASSUME NEW j \in Job, OrphanExit(j) PROVE TypeOK'
  BY <1>8 DEF OrphanExit
<1>9. CASE CatchUpDone \/ ReceiveTick \/ ReceiveQuit \/ Drained \/ TickDone
  BY <1>9 DEF CatchUpDone, ReceiveTick, ReceiveQuit, Drained, TickDone
<1>10. CASE SetRunning
  BY <1>10 DEF SetRunning
<1>11. CASE MarkRunning
  <2>1. marks' \in [Job -> Time \cup {NoTime}]
    BY <1>11 DEF MarkRunning
  <2> QED
    BY <1>11, <2>1 DEF MarkRunning
<1>12. ASSUME NEW r \in Run, Spawn(r) PROVE TypeOK'
  BY <1>12 DEF Spawn, Stages
<1>13. ASSUME NEW j \in Job, NothingMissed(j) PROVE TypeOK'
  BY <1>13 DEF NothingMissed, InCatchUp
<1>14. ASSUME NEW j \in Job, Missed(j) PROVE TypeOK'
  <2>1. MissedAt(j) \in Int
    <3>1. latest[j] \in Time
      BY <1>14 DEF Missed
    <3> QED
      BY <3>1, NextInType DEF MissedAt
  <2> QED
    BY <1>14, <2>1 DEF Missed, InCatchUp, Launch
<1>15. ASSUME NEW j \in Job, NotDue(j) PROVE TypeOK'
  BY <1>15 DEF NotDue, InTick
<1>16. ASSUME NEW j \in Job, now \in Time PROVE Advanced(j) \in [Job -> Int]
  BY <1>16, NextInType DEF Advanced
<1>17. ASSUME NEW j \in Job, SkipLate(j) \/ SkipOverlap(j) PROVE TypeOK'
  BY <1>16, <1>17 DEF SkipLate, SkipOverlap, InTick
<1>18. ASSUME NEW j \in Job, Fire(j) PROVE TypeOK'
  BY <1>16, <1>18 DEF Fire, IsRunning, InTick, Launch
<1>19. ASSUME NEW r \in Run, ExecStart(r) \/ ExecDone(r) \/ NotifyAll(r) PROVE TypeOK'
  BY <1>19 DEF ExecStart, ExecDone, NotifyAll, Goto, Stages
<1>20. ASSUME NEW r \in Run, RecordRun(r) PROVE TypeOK'
  <2>1. jobOf[r] \in Job
    BY <1>20 DEF RecordRun, Goto
  <2>2. Recorded(r) \in [Job -> Time \cup {NoTime}]
    BY <2>1 DEF Recorded
  <2> QED
    BY <1>20, <2>2 DEF RecordRun, Goto, Stages
<1>21. ASSUME NEW r \in Run, ClearRunning(r) PROVE TypeOK'
  <2>1. marks' \in [Job -> Time \cup {NoTime}]
    BY <1>21 DEF ClearRunning, Unmarked, Goto
  <2> QED
    BY <1>21, <2>1 DEF ClearRunning, Unmarked, Goto, Stages
<1>22. ASSUME NEW r \in Run, UnsetRunning(r) PROVE TypeOK'
  BY <1>22 DEF UnsetRunning, Goto, Stages
<1>23. ASSUME NEW r \in Run, WgDone(r) PROVE TypeOK'
  BY <1>23 DEF WgDone, OneLess, Goto, Stages
<1>24. CASE UNCHANGED vars
  BY <1>24 DEF vars
<1> QED
  BY <1>1, <1>2, <1>3, <1>4, <1>5, <1>6, <1>7, <1>8, <1>9, <1>10, <1>11, <1>12,
     <1>13, <1>14, <1>15, <1>17, <1>18, <1>19, <1>20, <1>21, <1>22, <1>23, <1>24
     DEF Next, LoopStep, RunStep, Environment

\* The variables keep their types in every behaviour of the engine.
THEOREM TypeCorrect == Spec => []TypeOK
  BY InitTypeOK, NextTypeOK, PTL DEF Spec

-----------------------------------------------------------------------------
\* The running map covers the live goroutines, and none of them runs the job
\* whose launch is in hand.
RunningCovers ==
    \A r \in Live : jobOf[r] \in running /\ (step # "none" => jobOf[r] # cur)

\* launch sets the flag of a job that is not running, and keeps it set.
LaunchClaims ==
    /\ step = "set" => cur \notin running
    /\ step \in {"mark", "spawn"} => cur \in running

\* The catch-up pass does not look at the running map (engine.go:74-91): it
\* need not, since a job it has still to visit cannot be running.
CatchUpFresh ==
    /\ pc = "down" => running = {}
    /\ pc = "catchup" => running \cap todo = {} /\ cur \notin todo

IInv ==
    /\ TypeOK
    /\ RunningCovers
    /\ AtMostOneRun
    /\ LaunchClaims
    /\ CatchUpFresh

LEMMA InitIInv == Init => IInv
<1> SUFFICES ASSUME Init PROVE IInv
  OBVIOUS
<1>1. TypeOK
  BY InitTypeOK
<1>2. Live = {}
  BY DEF Init, Live
<1> QED
  BY <1>1, <1>2 DEF Init, IInv, RunningCovers, AtMostOneRun, LaunchClaims, CatchUpFresh

LEMMA NextIInv == IInv /\ [Next]_vars => IInv'
<1> SUFFICES ASSUME IInv, [Next]_vars PROVE IInv'
  OBVIOUS
<1>0. TypeOK'
  BY NextTypeOK DEF IInv
<1> USE <1>0 DEF IInv, TypeOK
<1> USE DEF RunningCovers, AtMostOneRun, LaunchClaims, CatchUpFresh
<1> USE DEF world, offLoop, offRun, daemon, store, loop, gos
<1>1. CASE Start
  BY <1>1, NamesAssumption DEF Start, Live
<1>2. CASE Exit \/ Crash
  <2>1. Live' = {}
    BY <1>2 DEF Exit, Crash, Gone, Live
  <2> QED
    BY <1>2, <2>1 DEF Exit, Crash, Gone
<1>3. CASE TickerFire \/ Advance \/ StepBack
  BY <1>3 DEF TickerFire, Advance, StepBack, Live
<1>4. ASSUME NEW k \in Quits, Quit(k) PROVE IInv'
  BY <1>4 DEF Quit, Live
<1>5. ASSUME NEW j \in Job, OrphanExit(j) PROVE IInv'
  BY <1>5 DEF OrphanExit, Live
<1>6. CASE CatchUpDone \/ ReceiveTick \/ ReceiveQuit \/ Drained \/ TickDone
  BY <1>6 DEF CatchUpDone, ReceiveTick, ReceiveQuit, Drained, TickDone, Live
<1>7. CASE SetRunning
  BY <1>7 DEF SetRunning, Live
<1>8. CASE MarkRunning
  BY <1>8 DEF MarkRunning, Live
<1>9. ASSUME NEW r \in Run, Spawn(r) PROVE IInv'
  <2>1. Live' = Live \cup {r} /\ r \notin Live
    BY <1>9 DEF Spawn, Live
  <2>2. jobOf'[r] = cur /\ \A x \in Live : jobOf'[x] = jobOf[x]
    BY <1>9, <2>1 DEF Spawn, Live
  <2> QED
    BY <1>9, <2>1, <2>2, NamesAssumption DEF Spawn
<1>10. ASSUME NEW j \in Job, Missed(j) PROVE IInv'
  BY <1>10 DEF Missed, InCatchUp, Launch, Live
<1>11. ASSUME NEW j \in Job, NothingMissed(j) PROVE IInv'
  BY <1>11 DEF NothingMissed, InCatchUp, Live
<1>12. ASSUME NEW j \in Job, NotDue(j) \/ SkipLate(j) \/ SkipOverlap(j) PROVE IInv'
  BY <1>12 DEF NotDue, SkipLate, SkipOverlap, InTick, Live
<1>13. ASSUME NEW j \in Job, Fire(j) PROVE IInv'
  BY <1>13 DEF Fire, IsRunning, InTick, Launch, Live
<1>14. ASSUME NEW r \in Run,
              ExecStart(r) \/ ExecDone(r) \/ RecordRun(r) \/ NotifyAll(r) \/ ClearRunning(r)
       PROVE  IInv'
  <2>1. Live' = Live
    BY <1>14 DEF ExecStart, ExecDone, RecordRun, NotifyAll, ClearRunning, Goto, Live
  <2> QED
    BY <1>14, <2>1 DEF ExecStart, ExecDone, RecordRun, NotifyAll, ClearRunning
<1>15. ASSUME NEW r \in Run, UnsetRunning(r) PROVE IInv'
  <2>1. r \in Live /\ Live' = Live \ {r}
    BY <1>15 DEF UnsetRunning, Goto, Live
  <2>2. \A x \in Live' : jobOf[x] # jobOf[r]
    BY <2>1
  <2> QED
    BY <1>15, <2>1, <2>2 DEF UnsetRunning
<1>16. ASSUME NEW r \in Run, WgDone(r) PROVE IInv'
  <2>1. Live' = Live /\ r \notin Live
    BY <1>16 DEF WgDone, OneLess, Goto, Live
  <2>2. \A x \in Live : jobOf'[x] = jobOf[x]
    BY <1>16, <2>1 DEF WgDone, Live
  <2> QED
    BY <1>16, <2>1, <2>2 DEF WgDone
<1>17. CASE UNCHANGED vars
  BY <1>17 DEF vars, Live
<1> QED
  BY <1>1, <1>2, <1>3, <1>4, <1>5, <1>6, <1>7, <1>8, <1>9, <1>10, <1>11, <1>12,
     <1>13, <1>14, <1>15, <1>16, <1>17 DEF Next, LoopStep, RunStep, Environment

\* A daemon never executes two runs of one job at the same time, whatever the
\* schedules, the clock, the store and the crashes do.
THEOREM NoOverlap == Spec => []AtMostOneRun
<1>1. IInv => AtMostOneRun
  BY DEF IInv
<1> QED
  BY InitIInv, NextIInv, <1>1, PTL DEF Spec

-----------------------------------------------------------------------------
\* A schedule's slots come strictly after the instant asked about, in whatever
\* zone, unless the schedule never fires (Schedule.Next).
LEMMA NextInLater ==
    ASSUME NEW j \in Job \ NeverFires, NEW t \in Time, NEW off \in {0, LocalOffset}
    PROVE  NextIn(j, t, off) > t
<1>1. t + off \in Wall
  <2>1. CASE off = 0
    BY <2>1, NumbersAssumption DEF Wall, Time
  <2>2. CASE off = LocalOffset
    BY <2>2 DEF Wall
  <2> QED
    BY <2>1, <2>2
<1>2. NextSlot(j, t + off) \in Int /\ NextSlot(j, t + off) > t + off
  BY <1>1, ScheduleAssumption
<1>3. off \in Int /\ t \in Int
  BY NumbersAssumption DEF Time
<1> QED
  BY <1>2, <1>3 DEF NextIn

\* The slot launched last lies before the one to come; while the catch-up pass
\* goes on, the one to come also lies after the pass, and a job still to visit
\* has no last slot.
SlotsOrdered ==
    /\ pc = "down" => last = [j \in Job |-> ZeroTime]
    /\ pc # "down" => \A j \in Job \ NeverFires : last[j] < next[j]
    /\ pc = "catchup" =>
          /\ \A j \in Job \ NeverFires : now < next[j]
          /\ \A j \in todo : last[j] = ZeroTime

SInv == TypeOK /\ SlotsOrdered

\* SInv is inductive.
LEMMA InitSInv == Init => SInv
  BY InitTypeOK DEF Init, SInv, SlotsOrdered

LEMMA NextSInv == SInv /\ [Next]_vars => SInv'
<1> SUFFICES ASSUME SInv, [Next]_vars PROVE SlotsOrdered'
  BY NextTypeOK DEF SInv
<1>0. TypeOK /\ TypeOK'
  BY NextTypeOK DEF SInv
<1>z. ZeroTime \in Int /\ \A t \in Time : ZeroTime < t
  BY NumbersAssumption DEF ZeroTime, Time
<1> USE <1>0 DEF SInv, TypeOK, SlotsOrdered
<1> USE DEF world, offLoop, offRun, daemon, store, loop, gos
<1>1. CASE Start
  <2>1. \A j \in Job \ NeverFires : next'[j] > clock
    BY <1>1, NextInLater DEF Start
  <2>2. last' = [j \in Job |-> ZeroTime] /\ now' = clock /\ pc' = "catchup" /\ todo' \subseteq Job
    BY <1>1, NamesAssumption DEF Start
  <2>3. \A j \in Job : last'[j] = ZeroTime
    BY <2>2
  <2>4. clock \in Int /\ ZeroTime < clock
    BY <1>z DEF Time
  <2>5. \A j \in Job \ NeverFires : next'[j] \in Int
    OBVIOUS
  <2>6. \A j \in Job \ NeverFires : last'[j] < next'[j]
    BY <2>1, <2>3, <2>4, <2>5, <1>z
  <2> QED
    BY <2>1, <2>2, <2>3, <2>6
<1>2. CASE Exit \/ Crash
  BY <1>2 DEF Exit, Crash, Gone
<1>3. CASE TickerFire \/ Advance \/ StepBack
  BY <1>3 DEF TickerFire, Advance, StepBack
<1>4. ASSUME NEW k \in Quits, Quit(k) PROVE SlotsOrdered'
  BY <1>4 DEF Quit
<1>5. ASSUME NEW j \in Job, OrphanExit(j) PROVE SlotsOrdered'
  BY <1>5 DEF OrphanExit
<1>6. CASE CatchUpDone \/ ReceiveTick \/ ReceiveQuit \/ Drained \/ TickDone
  BY <1>6 DEF CatchUpDone, ReceiveTick, ReceiveQuit, Drained, TickDone
<1>7. CASE SetRunning \/ MarkRunning
  BY <1>7 DEF SetRunning, MarkRunning
<1>8. ASSUME NEW r \in Run, Spawn(r) PROVE SlotsOrdered'
  BY <1>8 DEF Spawn
<1>9. ASSUME NEW j \in Job, NothingMissed(j) PROVE SlotsOrdered'
  BY <1>9 DEF NothingMissed, InCatchUp
<1>10. ASSUME NEW j \in Job, Missed(j) PROVE SlotsOrdered'
  <2>1. MissedAt(j) \in Int
    <3>1. latest[j] \in Time
      BY <1>10 DEF Missed
    <3> QED
      BY <3>1, NextInType DEF MissedAt
  <2>2. /\ pc = "catchup" /\ pc' = pc /\ todo' = todo \ {j} /\ now' = now /\ next' = next
        /\ last' = [last EXCEPT ![j] = MissedAt(j)] /\ MissedAt(j) < now
    BY <1>10 DEF Missed, InCatchUp
  <2>3. \A x \in Job : x # j => last'[x] = last[x]
    BY <2>2
  <2>4. j \notin NeverFires => last'[j] < next'[j]
    <3>1. last'[j] = MissedAt(j) /\ now \in Int /\ next[j] \in Int
      BY <2>2 DEF Time
    <3> QED
      BY <2>1, <2>2, <3>1
  <2> QED
    BY <2>2, <2>3, <2>4
<1>11. ASSUME NEW j \in Job, NotDue(j) PROVE SlotsOrdered'
  BY <1>11 DEF NotDue, InTick
<1>12. ASSUME NEW j \in Job, InTick(j), Due(j)
       PROVE  /\ Advanced(j) \in [Job -> Int]
              /\ \A x \in Job : x # j => Advanced(j)[x] = next[x]
              /\ j \notin NeverFires => Advanced(j)[j] > now /\ now >= next[j]
  <2>1. now \in Time
    BY <1>12 DEF InTick
  <2>2. NextIn(j, now, LocalOffset) \in Int
    BY <2>1, NextInType
  <2>3. j \notin NeverFires => NextIn(j, now, LocalOffset) > now
    BY <2>1, NextInLater
  <2>4. now \in Int /\ next[j] \in Int
    BY <2>1 DEF Time
  <2> QED
    BY <1>12, <2>2, <2>3, <2>4 DEF Advanced, Due
<1>13. ASSUME NEW j \in Job, SkipLate(j) \/ SkipOverlap(j) PROVE SlotsOrdered'
  <2>1. InTick(j) /\ Due(j) /\ next' = Advanced(j) /\ last' = last /\ pc' = pc
    BY <1>13 DEF SkipLate, SkipOverlap
  <2>2. now \in Int /\ pc = "tick"
    BY <2>1 DEF InTick, Time
  <2> QED
    BY <1>12, <2>1, <2>2
<1>14. ASSUME NEW j \in Job, Fire(j) PROVE SlotsOrdered'
  <2>1. /\ InTick(j) /\ Due(j) /\ next' = Advanced(j) /\ pc' = pc
        /\ last' = [last EXCEPT ![j] = next[j]]
    BY <1>14 DEF Fire
  <2>2. now \in Int /\ pc = "tick"
    BY <2>1 DEF InTick, Time
  <2> QED
    BY <1>12, <2>1, <2>2
<1>15. ASSUME NEW r \in Run, RunStep(r) PROVE SlotsOrdered'
  BY <1>15 DEF RunStep, ExecStart, ExecDone, RecordRun, NotifyAll, ClearRunning, UnsetRunning, WgDone
<1>16. CASE UNCHANGED vars
  BY <1>16 DEF vars
<1> QED
  BY <1>1, <1>2, <1>3, <1>4, <1>5, <1>6, <1>7, <1>8, <1>9, <1>10, <1>11, <1>13,
     <1>14, <1>15, <1>16 DEF Next, LoopStep, Environment

\* A launch takes a slot after every slot its job was launched for before in
\* the daemon's lifetime.
LEMMA LaunchAdvances ==
    ASSUME SInv, [Next]_vars, step = "none", step' = "set", cur' \notin NeverFires
    PROVE  last'[cur'] > last[cur']
<1> USE DEF world, offLoop, offRun, daemon, store, loop, gos
<1> USE DEF SInv, TypeOK
<1>1. PICK j \in Job : Missed(j) \/ Fire(j)
  BY DEF Next, LoopStep, RunStep, Environment, vars, Start, Exit, Crash, Gone, TickerFire,
     Advance, StepBack, Quit, OrphanExit, CatchUpDone, ReceiveTick, ReceiveQuit, Drained,
     TickDone, SetRunning, MarkRunning, Spawn, NothingMissed, NotDue, SkipLate, SkipOverlap,
     ExecStart, ExecDone, RecordRun, NotifyAll, ClearRunning, UnsetRunning, WgDone
<1>2. cur' = j
  BY <1>1 DEF Missed, Fire, Launch
<1>3. CASE Missed(j)
  <2>1. latest[j] \in Time
    BY <1>3 DEF Missed
  <2>2. MissedAt(j) > latest[j] /\ MissedAt(j) \in Int
    BY <1>2, <2>1, NextInLater, NextInType DEF MissedAt
  <2>3. last[j] = ZeroTime
    BY <1>3 DEF Missed, InCatchUp, SlotsOrdered
  <2>4. last'[j] = MissedAt(j)
    BY <1>3 DEF Missed
  <2> QED
    BY <1>2, <2>1, <2>2, <2>3, <2>4, NumbersAssumption DEF ZeroTime, Time
<1>4. CASE Fire(j)
  <2>1. last'[j] = next[j] /\ pc = "tick"
    BY <1>4 DEF Fire, InTick
  <2> QED
    BY <1>2, <2>1 DEF SlotsOrdered
<1> QED
  BY <1>1, <1>3, <1>4

\* In one lifetime of the daemon no slot is launched twice, from the catch-up pass
\* or from a tick, whatever the clock does (engine.go:85-89, 109-127).
THEOREM SlotsOnlyAdvance == Spec => SlotsAdvance
<1>1. SInv /\ [Next]_vars =>
        [step = "none" /\ step' = "set" /\ cur' \notin NeverFires
            => last'[cur'] > last[cur']]_vars
  BY LaunchAdvances
<1> QED
  BY InitSInv, NextSInv, <1>1, PTL DEF Spec, SlotsAdvance

-----------------------------------------------------------------------------
\* A goroutine that still has its ClearRunning to do.
Uncleared(r) == stage[r] \in {"ready", "exec", "record", "notify", "clear"}

\* The rows that MarkerCoversRun speaks of, and the row of the launch in hand.
RowsKept ==
    "mark" \notin faults =>
        /\ \A r \in Run : Uncleared(r) => marks[jobOf[r]] # NoTime
        /\ step = "spawn" => marks[cur] # NoTime

LEMMA NextRowsKept == IInv /\ RowsKept /\ [Next]_vars => RowsKept'
<1> SUFFICES ASSUME IInv, RowsKept, [Next]_vars PROVE RowsKept'
  OBVIOUS
<1>0. TypeOK /\ TypeOK' /\ RunningCovers /\ AtMostOneRun
  BY NextIInv DEF IInv
<1>t. NoTime \notin Time
  BY NumbersAssumption DEF Time, NoTime
<1> USE <1>0 DEF TypeOK, RowsKept, Uncleared
<1> USE DEF world, offLoop, offRun, daemon, store, loop, gos
<1>1. CASE Start
  BY <1>1 DEF Start
<1>2. CASE Exit \/ Crash
  BY <1>2 DEF Exit, Crash, Gone
<1>3. CASE TickerFire \/ Advance \/ StepBack
  BY <1>3 DEF TickerFire, Advance, StepBack
<1>4. ASSUME NEW k \in Quits, Quit(k) PROVE RowsKept'
  BY <1>4 DEF Quit
<1>5. ASSUME NEW j \in Job, OrphanExit(j) PROVE RowsKept'
  BY <1>5 DEF OrphanExit
<1>6. CASE CatchUpDone \/ ReceiveTick \/ ReceiveQuit \/ Drained \/ TickDone \/ SetRunning
  BY <1>6 DEF CatchUpDone, ReceiveTick, ReceiveQuit, Drained, TickDone, SetRunning
<1>7. CASE MarkRunning
  <2>1. "mark" \notin faults => marks' = [marks EXCEPT ![cur] = clock]
    BY <1>7 DEF MarkRunning
  <2>2. faults' = faults /\ cur' = cur /\ stage' = stage /\ jobOf' = jobOf /\ cur \in Job
    BY <1>7 DEF MarkRunning
  <2> QED
    BY <1>t, <2>1, <2>2
<1>8. ASSUME NEW r \in Run, Spawn(r) PROVE RowsKept'
  BY <1>8 DEF Spawn
<1>9. ASSUME NEW j \in Job,
             NothingMissed(j) \/ Missed(j) \/ NotDue(j) \/ SkipLate(j)
                \/ SkipOverlap(j) \/ Fire(j)
      PROVE  RowsKept'
  BY <1>9 DEF NothingMissed, Missed, InCatchUp, NotDue, SkipLate, SkipOverlap, Fire, InTick, Launch
<1>10. ASSUME NEW r \in Run,
              ExecStart(r) \/ ExecDone(r) \/ RecordRun(r) \/ NotifyAll(r) \/ UnsetRunning(r)
       PROVE  RowsKept'
  BY <1>10 DEF ExecStart, ExecDone, RecordRun, NotifyAll, UnsetRunning, Goto
<1>11. ASSUME NEW r \in Run, ClearRunning(r) PROVE RowsKept'
  <2>1. r \in Live /\ \A x \in Run : Uncleared(x) => x \in Live
    BY <1>11 DEF ClearRunning, Goto, Live
  <2>2. \A x \in Run : Uncleared(x) /\ x # r => jobOf[x] # jobOf[r]
    BY <2>1 DEF AtMostOneRun
  <2>3. step # "none" => cur # jobOf[r]
    BY <2>1 DEF RunningCovers
  <2>4. /\ faults' = faults /\ step' = step /\ cur' = cur /\ jobOf' = jobOf
        /\ stage' = [stage EXCEPT ![r] = "unset"]
        /\ \A j \in Job : j # jobOf[r] => marks'[j] = marks[j]
    BY <1>11 DEF ClearRunning, Unmarked, Goto
  <2> QED
    BY <2>2, <2>3, <2>4
<1>12. ASSUME NEW r \in Run, WgDone(r) PROVE RowsKept'
  BY <1>12 DEF WgDone, Goto
<1>13. CASE UNCHANGED vars
  BY <1>13 DEF vars
<1> QED
  BY <1>1, <1>2, <1>3, <1>4, <1>5, <1>6, <1>7, <1>8, <1>9, <1>10, <1>11, <1>12,
     <1>13 DEF Next, LoopStep, RunStep, Environment

\* The row of a run stays until the run itself clears it, so ClearRunning never
\* hits the row of a later run (engine.go:137, 144).
THEOREM RowCoversRun == Spec => []MarkerCoversRun
<1>1. Init => RowsKept
  BY DEF Init, RowsKept, Uncleared
<1>2. RowsKept => MarkerCoversRun
  BY DEF RowsKept, MarkerCoversRun, Uncleared
<1> QED
  BY InitIInv, NextIInv, NextRowsKept, <1>1, <1>2, PTL DEF Spec

-----------------------------------------------------------------------------
\* wg counts the goroutines not yet waited for, a loop that has drained has
\* none, and the running map holds no job but those of live goroutines and of
\* the launch in hand.
Counted ==
    /\ IsFiniteSet(Unfinished)
    /\ wg = Cardinality(Unfinished)
    /\ pc \in {"closed", "down"} => Unfinished = {}
    /\ \A j \in running : (\E r \in Live : jobOf[r] = j) \/ (step \in {"mark", "spawn"} /\ cur = j)

LEMMA NextCounted == IInv /\ Counted /\ [Next]_vars => Counted'
<1> SUFFICES ASSUME IInv, Counted, [Next]_vars PROVE Counted'
  OBVIOUS
<1>0. TypeOK /\ TypeOK' /\ AtMostOneRun /\ RunningCovers
  BY NextIInv DEF IInv
<1> USE <1>0 DEF TypeOK, Counted
<1> USE DEF world, offLoop, offRun, daemon, store, loop, gos
<1>e. IsFiniteSet({}) /\ Cardinality({}) = 0
  BY FS_EmptySet
<1>1. CASE Start
  BY <1>1 DEF Start, Unfinished, Live
<1>2. CASE Exit \/ Crash
  <2>1. Unfinished' = {} /\ wg' = 0 /\ running' = {}
    BY <1>2 DEF Exit, Crash, Gone, Unfinished
  <2> QED
    BY <1>e, <2>1
<1>3. CASE TickerFire \/ Advance \/ StepBack
  BY <1>3 DEF TickerFire, Advance, StepBack, Unfinished, Live
<1>4. ASSUME NEW k \in Quits, Quit(k) PROVE Counted'
  BY <1>4 DEF Quit, Unfinished, Live
<1>5. ASSUME NEW j \in Job, OrphanExit(j) PROVE Counted'
  BY <1>5 DEF OrphanExit, Unfinished, Live
<1>6. CASE CatchUpDone \/ ReceiveTick \/ ReceiveQuit \/ TickDone
  BY <1>6 DEF CatchUpDone, ReceiveTick, ReceiveQuit, TickDone, Unfinished, Live
<1>7. CASE Drained
  <2>1. Unfinished = {}
    BY <1>7, FS_EmptySet DEF Drained, AllDone
  <2> QED
    BY <1>7, <2>1 DEF Drained, Unfinished, Live
<1>8. CASE SetRunning \/ MarkRunning
  BY <1>8 DEF SetRunning, MarkRunning, Unfinished, Live
<1>9. ASSUME NEW r \in Run, Spawn(r) PROVE Counted'
  <2>1. Unfinished' = Unfinished \cup {r} /\ r \notin Unfinished
    BY <1>9 DEF Spawn, Unfinished
  <2>2. IsFiniteSet(Unfinished') /\ Cardinality(Unfinished') = Cardinality(Unfinished) + 1
    BY <2>1, FS_AddElement
  <2>3. \A j \in running' : \E x \in Live' : jobOf'[x] = j
    <3>1. r \in Live' /\ jobOf'[r] = cur
      BY <1>9 DEF Spawn, Live
    <3>2. \A x \in Live : x \in Live' /\ jobOf'[x] = jobOf[x]
      BY <1>9 DEF Spawn, Live
    <3> QED
      BY <1>9, <3>1, <3>2 DEF Spawn
  <2>4. wg' = wg + 1 /\ pc' = pc /\ pc \notin {"closed", "down"}
    BY <1>9 DEF Spawn
  <2> QED
    BY <2>2, <2>3, <2>4
<1>10. ASSUME NEW j \in Job,
              NothingMissed(j) \/ Missed(j) \/ NotDue(j) \/ SkipLate(j)
                 \/ SkipOverlap(j) \/ Fire(j)
       PROVE  Counted'
  BY <1>10 DEF NothingMissed, Missed, InCatchUp, NotDue, SkipLate, SkipOverlap, Fire, InTick,
     Launch, Unfinished, Live
<1>11. ASSUME NEW r \in Run,
              ExecStart(r) \/ ExecDone(r) \/ RecordRun(r) \/ NotifyAll(r) \/ ClearRunning(r)
       PROVE  Counted'
  <2>1. Unfinished' = Unfinished /\ Live' = Live
    BY <1>11 DEF ExecStart, ExecDone, RecordRun, NotifyAll, ClearRunning, Goto, Unfinished, Live
  <2> QED
    BY <1>11, <2>1 DEF ExecStart, ExecDone, RecordRun, NotifyAll, ClearRunning
<1>12. ASSUME NEW r \in Run, UnsetRunning(r) PROVE Counted'
  <2>1. Unfinished' = Unfinished /\ Live' = Live \ {r}
    BY <1>12 DEF UnsetRunning, Goto, Unfinished, Live
  <2> QED
    BY <1>12, <2>1 DEF UnsetRunning
<1>13. ASSUME NEW r \in Run, WgDone(r) PROVE Counted'
  <2>1. r \in Unfinished /\ Unfinished' = Unfinished \ {r}
    BY <1>13 DEF WgDone, Goto, Unfinished
  <2>2. IsFiniteSet(Unfinished') /\ Cardinality(Unfinished') = Cardinality(Unfinished) - 1
    BY <2>1, FS_RemoveElement
  <2>3. Live' = Live /\ \A x \in Live : jobOf'[x] = jobOf[x]
    BY <1>13 DEF WgDone, Goto, Live
  <2>4. pc' = pc /\ wg' = wg - 1 /\ running' = running /\ step' = step /\ cur' = cur
    BY <1>13 DEF WgDone, OneLess
  <2> QED
    BY <2>1, <2>2, <2>3, <2>4
<1>14. CASE UNCHANGED vars
  BY <1>14 DEF vars, Unfinished, Live
<1> QED
  BY <1>1, <1>2, <1>3, <1>4, <1>5, <1>6, <1>7, <1>8, <1>9, <1>10, <1>11, <1>12,
     <1>13, <1>14 DEF Next, LoopStep, RunStep, Environment

\* When Run returns and the store is closed, no goroutine is left that could use
\* it (engine.go:99, 140-142).
THEOREM ClosesClean == Spec => []CleanClose
<1>1. Init => Counted
  BY FS_EmptySet DEF Init, Counted, Unfinished, Live
<1>2. IInv /\ Counted => CleanClose
  BY DEF Counted, CleanClose, IInv, TypeOK, Live, Unfinished
<1> QED
  BY InitIInv, NextIInv, NextCounted, <1>1, <1>2, PTL DEF Spec

-----------------------------------------------------------------------------
\* A behaviour keeps to the faults it started with.
LEMMA FaultsFixed == [Next]_vars => faults' = faults
<1> USE DEF world, offLoop, offRun, daemon, store, loop, gos
<1>1. LoopStep => faults' = faults
  BY DEF LoopStep, CatchUpDone, ReceiveTick, ReceiveQuit, Drained, TickDone, SetRunning,
     MarkRunning, Spawn, NothingMissed, Missed, NotDue, SkipLate, SkipOverlap, Fire
<1>2. ASSUME NEW r \in Run, RunStep(r) PROVE faults' = faults
  BY <1>2 DEF RunStep, ExecStart, ExecDone, RecordRun, NotifyAll, ClearRunning,
     UnsetRunning, WgDone
<1>3. Environment => faults' = faults
  BY DEF Environment, Start, Exit, Crash, Gone, TickerFire, Advance, StepBack, Quit, OrphanExit
<1> QED
  BY <1>1, <1>2, <1>3 DEF Next, vars

LEMMA NextExplained == IInv /\ Counted /\ MarkerExplained /\ [Next]_vars => MarkerExplained'
<1> SUFFICES ASSUME IInv, Counted, MarkerExplained, [Next]_vars PROVE MarkerExplained'
  OBVIOUS
<1>f. faults' = faults
  BY FaultsFixed
<1> SUFFICES ASSUME faults \cap {"crash", "clear"} = {}, NEW j \in Job, marks'[j] # NoTime
             PROVE  \/ cur' = j /\ step' = "spawn"
                    \/ \E r \in Run : jobOf'[r] = j /\ Uncleared(r)'
  BY <1>f DEF MarkerExplained, Uncleared
<1>0. TypeOK /\ TypeOK'
  BY NextTypeOK DEF IInv
<1>h. marks[j] # NoTime =>
        \/ cur = j /\ step = "spawn"
        \/ \E r \in Run : jobOf[r] = j /\ Uncleared(r)
  BY DEF MarkerExplained, Uncleared
<1> USE <1>0, <1>h DEF TypeOK, Uncleared
<1> USE DEF world, offLoop, offRun, daemon, store, loop, gos
<1>1. CASE Start
  BY <1>1 DEF Start
<1>2. CASE Exit
  BY <1>2 DEF Exit, Gone, Counted, Unfinished
<1>3. CASE Crash
  BY <1>3 DEF Crash
<1>4. CASE TickerFire \/ Advance \/ StepBack
  BY <1>4 DEF TickerFire, Advance, StepBack
<1>5. ASSUME NEW k \in Quits, Quit(k)
      PROVE  (cur' = j /\ step' = "spawn") \/ \E r \in Run : jobOf'[r] = j /\ Uncleared(r)'
  BY <1>5 DEF Quit
<1>6. ASSUME NEW i \in Job, OrphanExit(i)
      PROVE  (cur' = j /\ step' = "spawn") \/ \E r \in Run : jobOf'[r] = j /\ Uncleared(r)'
  BY <1>6 DEF OrphanExit
<1>7. CASE CatchUpDone \/ ReceiveTick \/ ReceiveQuit \/ Drained \/ TickDone \/ SetRunning
  BY <1>7 DEF CatchUpDone, ReceiveTick, ReceiveQuit, Drained, TickDone, SetRunning
<1>8. CASE MarkRunning
  BY <1>8 DEF MarkRunning
<1>9. ASSUME NEW r \in Run, Spawn(r)
      PROVE  \E x \in Run : jobOf'[x] = j /\ Uncleared(x)'
  <2>1. marks' = marks /\ stage'[r] = "ready" /\ jobOf'[r] = cur
    BY <1>9 DEF Spawn
  <2>2. \A x \in Run : Uncleared(x) => x # r /\ stage'[x] = stage[x] /\ jobOf'[x] = jobOf[x]
    BY <1>9 DEF Spawn
  <2> QED
    BY <2>1, <2>2
<1>10. ASSUME NEW i \in Job,
              NothingMissed(i) \/ Missed(i) \/ NotDue(i) \/ SkipLate(i)
                 \/ SkipOverlap(i) \/ Fire(i)
       PROVE  (cur' = j /\ step' = "spawn") \/ \E r \in Run : jobOf'[r] = j /\ Uncleared(r)'
  BY <1>10 DEF NothingMissed, Missed, InCatchUp, NotDue, SkipLate, SkipOverlap, Fire, InTick, Launch
<1>11. ASSUME NEW r \in Run, ExecStart(r) \/ ExecDone(r) \/ RecordRun(r) \/ NotifyAll(r)
       PROVE  (cur' = j /\ step' = "spawn") \/ \E x \in Run : jobOf'[x] = j /\ Uncleared(x)'
  <2>1. marks' = marks /\ cur' = cur /\ step' = step /\ jobOf' = jobOf
    BY <1>11 DEF ExecStart, ExecDone, RecordRun, NotifyAll
  <2>2. \A x \in Run : Uncleared(x) => Uncleared(x)'
    BY <1>11 DEF ExecStart, ExecDone, RecordRun, NotifyAll, Goto
  <2> QED
    BY <2>1, <2>2
<1>12. ASSUME NEW r \in Run, ClearRunning(r)
       PROVE  (cur' = j /\ step' = "spawn") \/ \E x \in Run : jobOf'[x] = j /\ Uncleared(x)'
  <2>1. marks' = [marks EXCEPT ![jobOf[r]] = NoTime] /\ jobOf[r] \in Job
    BY <1>12 DEF ClearRunning, Unmarked, Goto
  <2>2. j # jobOf[r] /\ marks[j] # NoTime
    BY <2>1
  <2>3. cur' = cur /\ step' = step /\ jobOf' = jobOf /\ stage' = [stage EXCEPT ![r] = "unset"]
    BY <1>12 DEF ClearRunning, Goto
  <2> QED
    BY <2>2, <2>3
<1>13. ASSUME NEW r \in Run, UnsetRunning(r) \/ WgDone(r)
       PROVE  (cur' = j /\ step' = "spawn") \/ \E x \in Run : jobOf'[x] = j /\ Uncleared(x)'
  <2>1. marks' = marks /\ cur' = cur /\ step' = step /\ ~ Uncleared(r)
    BY <1>13 DEF UnsetRunning, WgDone, Goto
  <2>2. \A x \in Run : x # r => stage'[x] = stage[x] /\ jobOf'[x] = jobOf[x]
    BY <1>13 DEF UnsetRunning, WgDone, Goto
  <2> QED
    BY <2>1, <2>2
<1>14. CASE UNCHANGED vars
  BY <1>14 DEF vars
<1> QED
  BY <1>1, <1>2, <1>3, <1>4, <1>5, <1>6, <1>7, <1>8, <1>9, <1>10, <1>11, <1>12,
     <1>13, <1>14 DEF Next, LoopStep, RunStep, Environment

\* Without crashes and failed clears, every row of the running table stands for
\* a launch in hand or a run with its ClearRunning still to do.
THEOREM RowExplained == Spec => []MarkerExplained
<1>1. Init => Counted /\ MarkerExplained
  BY FS_EmptySet DEF Init, Counted, Unfinished, Live, MarkerExplained
<1> QED
  BY InitIInv, NextIInv, NextCounted, NextExplained, <1>1, PTL DEF Spec
=============================================================================
