------------------------------- MODULE Executor -------------------------------
(***************************************************************************)
(* One call of Executor.Run (internal/executor): a shell command in a      *)
(* process group of its own, its descendants, the goroutine in cmd.Wait,   *)
(* and the select between its result and the end of the context.  Because  *)
(* stdout and stderr are buffers, os/exec copies the pipes into them, and  *)
(* cmd.Wait returns only when the shell has exited and the copying is      *)
(* over: every descendant has closed the pipe, or reading it has failed.   *)
(***************************************************************************)
EXTENDS Integers, FiniteSets

CONSTANTS
    Shell,       \* the process Run starts
    Proc,        \* identities for its descendants (a bound on forks)
    ExitCodes,   \* the codes the shell may exit with
    HasTimeout,  \* job.Timeout > 0
    MayEscape    \* whether a descendant may leave the process group (setsid)

ASSUME ProcessesAssumption ==
    /\ Shell \notin Proc
    /\ ExitCodes \subseteq 0 .. 255

NoCode == -1           \* the initial RunResult.ExitCode
Pending == -2          \* the shell has not exited
Signalled == -3        \* the shell was killed: ExitError.ExitCode() is -1

VARIABLES
    pc,       \* "start", "select", "reap" or "returned"
    ctx,      \* "live", "timeout" or "cancelled"
    alive,    \* the processes that run
    fresh,    \* the identities not yet used
    group,    \* those in the shell's process group
    holders,  \* those with the output pipe open
    status,   \* how the shell ended
    copy,     \* the copying of the output: "open", "eof" or "error"
    done,     \* the channel with cmd.Wait's result: "none" yet, "exit" if it is
              \* nil or an ExitError, "error" if it is any other error
    code,     \* RunResult.ExitCode
    err       \* RunResult.Err: "none", or what failed: "start", "wait" or "ctx"

procs == <<alive, fresh, group, holders, status>>
vars  == <<pc, ctx, procs, copy, done, code, err>>

Init ==
    /\ pc = "start" /\ ctx = "live"
    /\ alive = {} /\ group = {} /\ holders = {} /\ fresh = Proc
    /\ status = Pending
    /\ copy = "open" /\ done = "none"
    /\ code = NoCode /\ err = "none"

\* cmd.Start with Setpgid.
StartCommand ==
    /\ pc = "start"
    /\ pc' = "select"
    /\ alive' = {Shell} /\ group' = {Shell} /\ holders' = {Shell}
    /\ UNCHANGED <<ctx, fresh, status, copy, done, code, err>>

StartFails ==
    /\ pc = "start"
    /\ pc' = "returned"
    /\ err' = "start"
    /\ UNCHANGED <<ctx, procs, copy, done, code>>

-----------------------------------------------------------------------------
\* The processes.

\* A process forks; the child inherits the group and the pipe, unless it leaves
\* the one or has its output redirected.
Fork(p, c, leaves, keeps) ==
    /\ p \in alive /\ c \in fresh
    /\ leaves => MayEscape
    /\ fresh' = fresh \ {c}
    /\ alive' = alive \cup {c}
    /\ group' = IF p \in group /\ ~ leaves THEN group \cup {c} ELSE group
    /\ holders' = IF p \in holders /\ keeps THEN holders \cup {c} ELSE holders
    /\ UNCHANGED <<pc, ctx, status, copy, done, code, err>>

Gone(ps) ==
    /\ alive' = alive \ ps
    /\ group' = group \ ps
    /\ holders' = holders \ ps

ShellExits(x) ==
    /\ Shell \in alive
    /\ Gone({Shell})
    /\ status' = x
    /\ UNCHANGED <<pc, ctx, fresh, copy, done, code, err>>

DescendantExits(c) ==
    /\ c \in alive \ {Shell}
    /\ Gone({c})
    /\ UNCHANGED <<pc, ctx, fresh, status, copy, done, code, err>>

\* os/exec's copying ends when nobody can write to the pipes any more, or when
\* reading them fails, whoever holds them.
CopyEnds(how) ==
    /\ pc \in {"select", "reap"} /\ copy = "open"
    /\ how = "eof" => holders = {}
    /\ copy' = how
    /\ UNCHANGED <<pc, ctx, procs, done, code, err>>

\* The goroutine: done <- cmd.Wait(), when the shell is gone and the copying is
\* over.  The wait itself may fail, its child gone without an exit status (wait4's
\* ECHILD); else the shell's exit is the result, and an error of the copying only
\* if that exit was a success.
WaitReturns(r) ==
    /\ pc \in {"select", "reap"} /\ done = "none"
    /\ status # Pending /\ copy # "open"
    /\ r = "exit" => ~ (status = 0 /\ copy = "error")
    /\ done' = r
    /\ UNCHANGED <<pc, ctx, procs, copy, code, err>>

-----------------------------------------------------------------------------
\* The context and the select.

CtxDone(why) ==
    /\ pc # "returned" /\ ctx = "live"
    /\ why = "timeout" => HasTimeout /\ pc # "start"
    /\ ctx' = why
    /\ UNCHANGED <<pc, procs, copy, done, code, err>>

\* Mutant: only the shell is signalled, not its group.
VictimsShell == group \cap {Shell}

\* kill(-pid, SIGKILL): whoever is in the group at that moment.
Victims == group

SelectCtx ==
    /\ pc = "select" /\ ctx # "live"
    /\ pc' = "reap"
    /\ Gone(Victims)
    /\ status' = IF Shell \in alive THEN Signalled ELSE status
    /\ UNCHANGED <<ctx, fresh, copy, done, code, err>>

\* Mutant: Run does not wait for the goroutine after the kill.
NotAwaited == TRUE

WaitIsOver == done # "none"

\* <-done, then the context's error; the exit code stays -1.
Reap ==
    /\ pc = "reap" /\ WaitIsOver
    /\ pc' = "returned"
    /\ err' = "ctx"
    /\ UNCHANGED <<ctx, procs, copy, done, code>>

\* ExitError.ExitCode, or 0 when Wait returned no error.
Reported(x) == IF x = Signalled THEN -1 ELSE x

\* Mutant: an error that is no ExitError is taken for a clean exit.
SelectDoneNoErr ==
    /\ pc = "select" /\ done # "none"
    /\ pc' = "returned"
    /\ code' = IF done = "exit" THEN Reported(status) ELSE 0
    /\ UNCHANGED <<ctx, procs, copy, done, err>>

\* An error that is no ExitError goes into the result; its exit code stays -1.
SelectDone ==
    /\ pc = "select"
    /\ pc' = "returned"
    /\ \/ done = "exit" /\ code' = Reported(status) /\ UNCHANGED err
       \/ done = "error" /\ err' = "wait" /\ UNCHANGED code
    /\ UNCHANGED <<ctx, procs, copy, done>>

Next ==
    \/ StartCommand \/ StartFails
    \/ \E how \in {"eof", "error"} : CopyEnds(how)
    \/ \E r \in {"exit", "error"} : WaitReturns(r)
    \/ SelectCtx \/ Reap \/ SelectDone
    \/ \E why \in {"timeout", "cancelled"} : CtxDone(why)
    \/ \E p \in alive, c \in fresh : \E leaves, keeps \in BOOLEAN :
          Fork(p, c, leaves, keeps)
    \/ \E x \in ExitCodes \cup {Signalled} : ShellExits(x)
    \/ \E c \in alive : DescendantExits(c)

Spec == Init /\ [][Next]_vars

\* Run's own steps, the goroutine's, and the copying's once the pipe is closed;
\* nothing makes a process exit.
FairSpec ==
    /\ Spec
    /\ WF_vars(StartCommand \/ StartFails)
    /\ WF_vars(CopyEnds("eof"))
    /\ WF_vars(\E r \in {"exit", "error"} : WaitReturns(r))
    /\ WF_vars(SelectCtx \/ SelectDone)
    /\ WF_vars(Reap)

-----------------------------------------------------------------------------
\* The call started its command and has returned.
Finished == pc = "returned" /\ status # Pending
Success == code = 0 /\ err = "none"

\* Run reads its buffers only when nothing fills them any more, also after a kill:
\* cmd.Wait is waited for on every path, and unless reading the pipe has failed
\* nobody can write to it then.
OutputComplete ==
    Finished => /\ copy # "open" /\ Shell \notin alive
                /\ copy = "eof" => holders = {}

\* A run cut short by its timeout or by the shutdown leaves nobody of its
\* process group behind, not even a child that holds no pipe.  A run that ends by
\* a failed Wait is no such run: nobody is killed then.
CutLeavesNone == Finished /\ err = "ctx" => group = {}

\* A success is the shell's own exit with 0 and the whole of its output: not a
\* signal, not a cut run, not a failed Wait.
SuccessIsReal == pc = "returned" /\ Success => status = 0 /\ copy = "eof"

\* ports.go:52-53: Run blocks until the command completes, the context is
\* cancelled or the timeout elapses.  The context makes it return although no
\* process exits by itself, with the exception of one that has left the process
\* group and keeps the pipe open: cmd.Wait waits for that one (executor.go:52).
CtxEndsRunOrEscapee == ctx # "live" ~> pc = "returned" \/ holders \ group # {}
=============================================================================
