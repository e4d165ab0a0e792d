---------------------------- MODULE DaemonProofs ----------------------------
(***************************************************************************)
(* Engine implements Daemon, for every value of the constants.  The        *)
(* refinement mapping needs two invariants: IInv (a launch finds no live   *)
(* run of its job) and Counted (a loop that has drained has no run left).  *)
(***************************************************************************)
EXTENDS EngineAbstraction, EngineProofs

USE DEF AbstractPhase, AbstractRuns, D!vars

\* A new daemon is off and has no runs.
LEMMA InitMaps == Init => D!Init
  BY DEF Init, D!Init, Live

\* Every step of Engine is a step of Daemon, or leaves its state alone.
LEMMA NextMaps == IInv /\ Counted /\ [Next]_vars => [D!Next]_D!vars
<1> SUFFICES ASSUME IInv, Counted, [Next]_vars PROVE [D!Next]_D!vars
  OBVIOUS
<1>0. TypeOK /\ TypeOK' /\ RunningCovers /\ LaunchClaims /\ Counted'
  BY NextTypeOK, NextCounted DEF IInv
<1> USE <1>0 DEF TypeOK
<1> USE DEF world, offLoop, offRun, daemon, store, loop, gos
<1>1. CASE Start
  <2>1. Live' = Live /\ jobOf' = jobOf /\ pc = "down" /\ pc' = "catchup"
    BY <1>1 DEF Start, Live
  <2>2. D!Boot
    BY <2>1 DEF D!Boot
  <2> QED
    BY <2>2 DEF D!Next
<1>2. CASE Exit
  <2>1. Live = {} /\ Live' = {}
    BY <1>2 DEF Exit, Gone, Live, Counted, Unfinished
  <2> QED
    BY <1>2, <2>1 DEF Exit, Gone
<1>3. CASE Crash
  <2>1. Live' = {} /\ pc' = "down" /\ pc \in {"catchup", "select", "tick", "drain"}
    BY <1>3 DEF Crash, Gone, Up, Live
  <2>2. D!Die
    BY <2>1 DEF D!Die
  <2> QED
    BY <2>2 DEF D!Next
<1>4. CASE TickerFire \/ Advance \/ StepBack
  BY <1>4 DEF TickerFire, Advance, StepBack, Live
<1>5. ASSUME NEW k \in Quits, Quit(k) PROVE UNCHANGED D!vars
  BY <1>5 DEF Quit, Live
<1>6. ASSUME NEW j \in Job, OrphanExit(j) PROVE UNCHANGED D!vars
  BY <1>6 DEF OrphanExit, Live
<1>7. CASE CatchUpDone \/ ReceiveTick \/ TickDone
  BY <1>7 DEF CatchUpDone, ReceiveTick, TickDone, Live
<1>8. CASE ReceiveQuit
  <2>1. Live' = Live /\ jobOf' = jobOf /\ pc = "select" /\ pc' = "drain"
    BY <1>8 DEF ReceiveQuit, Live
  <2>2. D!ToldToQuit
    BY <2>1 DEF D!ToldToQuit
  <2> QED
    BY <2>2 DEF D!Next
<1>9. CASE Drained
  <2>1. Live' = Live /\ Live = {} /\ pc = "drain" /\ pc' = "closed"
    BY <1>9 DEF Drained, Live, Counted, Unfinished
  <2>2. D!Halt
    BY <2>1 DEF D!Halt
  <2> QED
    BY <2>2 DEF D!Next
<1>10. CASE SetRunning \/ MarkRunning
  BY <1>10 DEF SetRunning, MarkRunning, Live
<1>11. ASSUME NEW r \in Run, Spawn(r) PROVE D!Next
  <2>1. Live' = Live \cup {r} /\ r \notin Live
    BY <1>11 DEF Spawn, Live
  <2>2. jobOf'[r] = cur /\ \A x \in Live : jobOf'[x] = jobOf[x]
    BY <1>11, <2>1 DEF Spawn, Live
  <2>3. AbstractRuns' = AbstractRuns \cup {<<r, cur>>}
    BY <2>1, <2>2
  <2>4. \A p \in AbstractRuns : p[1] # r /\ p[2] # cur
    BY <1>11, <2>1 DEF RunningCovers, Spawn
  <2>5. pc' = pc /\ pc \in {"catchup", "tick"}
    BY <1>11 DEF Spawn
  <2>6. PICK j \in Job : j = cur
    BY <1>11 DEF Spawn
  <2>7. D!Begin(r, j)
    BY <2>3, <2>4, <2>5, <2>6 DEF D!Begin
  <2> QED
    BY <2>7 DEF D!Next
<1>12. ASSUME NEW j \in Job,
              NothingMissed(j) \/ Missed(j) \/ NotDue(j) \/ SkipLate(j)
                 \/ SkipOverlap(j) \/ Fire(j)
       PROVE  UNCHANGED D!vars
  BY <1>12 DEF NothingMissed, Missed, NotDue, SkipLate, SkipOverlap, Fire, Live
<1>13. ASSUME NEW r \in Run,
              ExecStart(r) \/ ExecDone(r) \/ RecordRun(r) \/ NotifyAll(r) \/ ClearRunning(r)
       PROVE  UNCHANGED D!vars
  <2>1. Live' = Live /\ jobOf' = jobOf /\ pc' = pc
    BY <1>13 DEF ExecStart, ExecDone, RecordRun, NotifyAll, ClearRunning, Goto, Live
  <2> QED
    BY <2>1
<1>14. ASSUME NEW r \in Run, UnsetRunning(r) PROVE D!Next
  <2>1. r \in Live /\ Live' = Live \ {r} /\ jobOf' = jobOf /\ pc' = pc
    BY <1>14 DEF UnsetRunning, Goto, Live
  <2>2. AbstractRuns' = AbstractRuns \ {<<r, jobOf[r]>>} /\ <<r, jobOf[r]>> \in AbstractRuns
    BY <2>1
  <2>3. PICK p \in Run \X Job : p = <<r, jobOf[r]>>
    BY <1>14 DEF UnsetRunning, Goto
  <2>4. D!End(p)
    BY <2>1, <2>2, <2>3 DEF D!End
  <2> QED
    BY <2>4 DEF D!Next
<1>15. ASSUME NEW r \in Run, WgDone(r) PROVE UNCHANGED D!vars
  <2>1. Live' = Live /\ (\A x \in Live : jobOf'[x] = jobOf[x]) /\ pc' = pc
    BY <1>15 DEF WgDone, Goto, Live
  <2> QED
    BY <2>1
<1>16. CASE UNCHANGED vars
  BY <1>16 DEF vars, Live
<1> QED
  BY <1>1, <1>2, <1>3, <1>4, <1>5, <1>6, <1>7, <1>8, <1>9, <1>10, <1>11, <1>12,
     <1>13, <1>14, <1>15, <1>16 DEF Next, LoopStep, RunStep, Environment

\* Engine implements Daemon: launches only while it is on and only of idle jobs,
\* off only when all runs have ended or it has died.
THEOREM EngineImplementsDaemon == Spec => ImplementsDaemon
<1>1. Init => Counted
  BY FS_EmptySet DEF Init, Counted, Unfinished, Live
<1> QED
  BY InitMaps, NextMaps, InitIInv, NextIInv, NextCounted, <1>1, PTL
     DEF Spec, ImplementsDaemon, D!Spec
=============================================================================
