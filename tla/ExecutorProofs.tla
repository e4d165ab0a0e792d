---------------------------- MODULE ExecutorProofs ----------------------------
(***************************************************************************)
(* Proofs about Executor for any number of descendants.  RunInv ties the   *)
(* stages of Run to the processes and to what cmd.Wait has seen of them.   *)
(***************************************************************************)
EXTENDS Executor, TLAPS

\* The identities are used once; a process of the group, or with the pipe open,
\* runs; the shell runs, in its group, until it has a status.
ProcessesInv ==
    /\ fresh \subseteq Proc /\ fresh \cap alive = {}
    /\ group \subseteq alive /\ holders \subseteq alive
    /\ Shell \in alive => Shell \in group /\ status = Pending

\* The copying ends by itself only when nobody holds the pipe; cmd.Wait has
\* returned only when the shell has ended and the copying is over, and reports the
\* shell's success only if the copying has not failed.
WaitInv ==
    /\ copy \in {"open", "eof", "error"} /\ done \in {"none", "exit", "error"}
    /\ copy = "eof" => holders = {}
    /\ done # "none" => status # Pending /\ copy # "open"
    /\ done = "exit" /\ status = 0 => copy # "error"

\* What Run knows at each of its stages.
StagesInv ==
    /\ pc \in {"start", "select", "reap", "returned"}
    /\ pc = "start" => alive = {} /\ status = Pending /\ copy = "open" /\ done = "none"
    /\ pc # "returned" => code = NoCode /\ err = "none"
    /\ pc = "reap" => group = {}
    /\ pc = "returned" =>
          \/ err = "start" /\ status = Pending /\ alive = {} /\ code = NoCode
          \/ err = "ctx" /\ done # "none" /\ group = {} /\ code = NoCode
          \/ err = "wait" /\ done = "error" /\ code = NoCode
          \/ err = "none" /\ done = "exit" /\ code = Reported(status)

RunInv == ProcessesInv /\ WaitInv /\ StagesInv

LEMMA InitRunInv == Init => RunInv
BY ProcessesAssumption
   DEF Init, RunInv, ProcessesInv, WaitInv, StagesInv, NoCode, Pending

LEMMA NextRunInv == RunInv /\ [Next]_vars => RunInv'
<1> SUFFICES ASSUME RunInv, [Next]_vars PROVE RunInv'
  OBVIOUS
<1> USE ProcessesAssumption
    DEF RunInv, ProcessesInv, WaitInv, StagesInv, NoCode, Pending, Signalled,
        procs, vars
<1>1. CASE StartCommand
  BY <1>1 DEF StartCommand
<1>2. CASE StartFails
  BY <1>2 DEF StartFails
<1>3. ASSUME NEW r \in {"exit", "error"}, WaitReturns(r) PROVE RunInv'
  BY <1>3 DEF WaitReturns
<1>4. CASE SelectCtx
  <2>1. alive' = alive \ group /\ group' = {} /\ holders' = holders \ group
    BY <1>4 DEF SelectCtx, Gone, Victims
  <2>2. Shell \notin alive'
    BY <2>1
  <2> QED
    BY <1>4, <2>1, <2>2 DEF SelectCtx
<1>5. CASE Reap
  BY <1>5 DEF Reap, WaitIsOver
<1>6. CASE SelectDone
  BY <1>6 DEF SelectDone, Reported
<1>7. ASSUME NEW why \in {"timeout", "cancelled"}, CtxDone(why) PROVE RunInv'
  BY <1>7 DEF CtxDone
<1>8. ASSUME NEW p \in alive, NEW c \in fresh, NEW leaves \in BOOLEAN,
             NEW keeps \in BOOLEAN, Fork(p, c, leaves, keeps)
      PROVE  RunInv'
  <2>1. /\ c # Shell
        /\ alive' = alive \cup {c} /\ fresh' = fresh \ {c}
        /\ group = {} => group' = {}
        /\ holders = {} => holders' = {}
        /\ group \subseteq group' /\ group' \subseteq group \cup {c}
        /\ holders' \subseteq holders \cup {c}
    BY <1>8 DEF Fork
  <2>2. UNCHANGED <<pc, ctx, status, copy, done, code, err>>
    BY <1>8 DEF Fork
  <2>3. ProcessesInv' /\ WaitInv'
    BY <2>1, <2>2
  <2>4. StagesInv'
    BY <2>1, <2>2
  <2> QED
    BY <2>3, <2>4
<1>9. ASSUME NEW x \in ExitCodes \cup {Signalled}, ShellExits(x) PROVE RunInv'
  <2>1. x # Pending
    BY <1>9
  <2> QED
    BY <1>9, <2>1 DEF ShellExits, Gone
<1>10. ASSUME NEW c \in alive, DescendantExits(c) PROVE RunInv'
  BY <1>10 DEF DescendantExits, Gone
<1>11. ASSUME NEW how \in {"eof", "error"}, CopyEnds(how) PROVE RunInv'
  BY <1>11 DEF CopyEnds
<1>12. CASE UNCHANGED vars
  BY <1>12
<1> HIDE DEF RunInv, ProcessesInv, WaitInv, StagesInv, vars
<1> QED
  BY <1>1, <1>2, <1>3, <1>4, <1>5, <1>6, <1>7, <1>8, <1>9, <1>10, <1>11, <1>12
     DEF Next

LEMMA RunInvariant == Spec => []RunInv
BY InitRunInv, NextRunInv, PTL DEF Spec

-----------------------------------------------------------------------------
\* When Run reads its buffers nothing fills them any more: the shell has ended,
\* and either reading the pipe has failed or nobody can write to it, however the
\* run ended and however many descendants the command had (executor.go:45-53,
\* 64-65).
THEOREM SpecOutputComplete == Spec => []OutputComplete
<1>1. RunInv => OutputComplete
  BY DEF RunInv, ProcessesInv, WaitInv, StagesInv, OutputComplete, Finished
<1> QED
  BY <1>1, RunInvariant, PTL

\* A run that its timeout or the shutdown cut short leaves its process group
\* empty: no fork can slip through between the signal and the return
\* (executor.go:49-53).
THEOREM SpecCutLeavesNone == Spec => []CutLeavesNone
<1>1. RunInv => CutLeavesNone
  BY DEF RunInv, StagesInv, CutLeavesNone, Finished
<1> QED
  BY <1>1, RunInvariant, PTL

\* A run is a success only if the shell itself exited with 0 and all of its output
\* was read: no start, wait or copy that fails is one, nor a run cut short
\* (executor.go:37-62).
THEOREM SpecSuccessIsReal == Spec => []SuccessIsReal
<1>1. RunInv => SuccessIsReal
  BY DEF RunInv, WaitInv, StagesInv, SuccessIsReal, Success, Reported, NoCode, Signalled,
         Pending
<1> QED
  BY <1>1, RunInvariant, PTL
=============================================================================
