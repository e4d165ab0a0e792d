-------------------------------- MODULE Report --------------------------------
(***************************************************************************)
(* What becomes of the result of a run: the goroutine of launch records    *)
(* it, tells the notifiers of the job's list one after the other, and      *)
(* clears the job's row; cronhub history lists the records, and shows one  *)
(* by its number in the list, in a second process.  Runs of one job may    *)
(* overlap here: two daemons on one database do not know of each other.    *)
(***************************************************************************)
EXTENDS Integers, Sequences, FiniteSets

CONSTANTS
    Gos,         \* the goroutines
    Notify,      \* the job's notify list
    Hook,        \* the webhooks that are declared, by name
    Window,      \* main.go:381: what --failed reads, in limits
    ReadDefault, \* sqlite.go:177: the limit of ReadHistory when none is given
    Limit,       \* the limits a user may give
    MaxRuns      \* bound: runs

ASSUME NumbersAssumption ==
    /\ Window \in Nat \ {0} /\ ReadDefault \in Nat \ {0} /\ MaxRuns \in Nat
    /\ Limit \subseteq Nat

ASSUME HookAssumption ==
    \A w \in DOMAIN Hook : Hook[w] \in [failuresOnly : BOOLEAN, urlOk : BOOLEAN]

ASSUME NotifyAssumption ==
    Len(Notify) \in Nat /\ DOMAIN Notify = 1 .. Len(Notify)

VARIABLES
    pc,      \* what each goroutine does next
    run,     \* the run it reports
    next,    \* the place in the list it has reached
    begun,   \* the number of runs begun so far, which dates them
    runs,    \* the runs table of the job
    posts,   \* history: the requests sent, as (start of the run, place in the list)
    lost,    \* history: the records that could not be written
    died,    \* history: the runs whose daemon died
    seen,    \* the records cronhub history has listed
    query    \* the flags it was given

tail == <<pc, run, next, begun, runs, posts, lost, died>>
reader == <<seen, query>>
vars == <<tail, reader>>

\* A RunResult: the command could not be run, was cut short or could not be waited
\* for (err), or it exited.
Result == {[err |-> TRUE, code |-> -1], [err |-> FALSE, code |-> 0],
           [err |-> FALSE, code |-> 3]}
NoResult == [err |-> FALSE, code |-> 0]
NoRun == [started |-> 0, result |-> NoResult]

NoQuery == [failed |-> FALSE, limit |-> 0]

Init ==
    /\ pc = [g \in Gos |-> "idle"]
    /\ run = [g \in Gos |-> NoRun]
    /\ next = [g \in Gos |-> 1]
    /\ begun = 0
    /\ runs = {} /\ posts = {} /\ lost = {} /\ died = {}
    /\ seen = {} /\ query = NoQuery

Goto(g, from, to) ==
    /\ pc[g] = from
    /\ pc' = [pc EXCEPT ![g] = to]

Begin(g) ==
    /\ Goto(g, "idle", "executing")
    /\ begun < MaxRuns
    /\ begun' = begun + 1
    /\ run' = [run EXCEPT ![g] = [started |-> begun + 1, result |-> NoResult]]
    /\ UNCHANGED <<next, runs, posts, lost, died, reader>>

\* engine.go:157: what the record says ...
Success(r) == ~ r.err /\ r.code = 0

Row(r) == [started |-> r.started, ok |-> Success(r.result)]

\* Mutant: the record is forgotten.
Unrecorded(r) == runs

Recorded(r) == runs \cup {Row(r)}

\* Executor.Run returns; a RecordRun that fails is logged and passed over.
RecordRun(g, result) ==
    /\ Goto(g, "executing", "notify")
    /\ run' = [run EXCEPT ![g].result = result]
    /\ \/ runs' = Recorded(run'[g]) /\ UNCHANGED lost
       \/ lost' = lost \cup {Row(run'[g])} /\ UNCHANGED runs
    /\ UNCHANGED <<next, begun, posts, died, reader>>

\* Mutant: the exit code alone is looked at.
SilentOnCode(h, r) == h.failuresOnly /\ r.code <= 0

\* webhook.go:52-55: ... and what the webhook thinks of the same result.
Silent(h, r) == h.failuresOnly /\ ~ r.err /\ r.code = 0

Sends(name, r) ==
    /\ name \in DOMAIN Hook
    /\ ~ Silent(Hook[name], r)
    /\ Hook[name].urlOk

\* The next name is one nobody declared (in a row of an earlier configuration),
\* the log, or a webhook that keeps silent or cannot make its request.
Passed(g) ==
    /\ pc[g] = "notify" /\ next[g] <= Len(Notify)
    /\ ~ Sends(Notify[next[g]], run[g].result)
    /\ next' = [next EXCEPT ![g] = @ + 1]
    /\ UNCHANGED <<pc, run, begun, runs, posts, lost, died, reader>>

Post(g) ==
    /\ Goto(g, "notify", "posting")
    /\ next[g] <= Len(Notify)
    /\ Sends(Notify[next[g]], run[g].result)
    /\ posts' = posts \cup {<<run[g].started, next[g]>>}
    /\ UNCHANGED <<run, next, begun, runs, lost, died, reader>>

\* An answer of any status, a refused connection, or the timeout after ten
\* seconds: the error is dropped, there is no second try.
Answered(g) ==
    /\ Goto(g, "posting", "notify")
    /\ next' = [next EXCEPT ![g] = @ + 1]
    /\ UNCHANGED <<run, begun, runs, posts, lost, died, reader>>

\* Mutant: a client without a timeout.
NeverExpires(g) == FALSE

Expires(g) == pc[g] = "posting"

TimeOut(g) == Expires(g) /\ Answered(g)

\* The deferred calls; what the goroutine knew is gone.
Cleared(g) ==
    /\ Goto(g, "notify", "idle")
    /\ next[g] > Len(Notify)
    /\ next' = [next EXCEPT ![g] = 1]
    /\ run' = [run EXCEPT ![g] = NoRun]
    /\ UNCHANGED <<begun, runs, posts, lost, died, reader>>

\* The daemon of the goroutine dies.
Crash(g) ==
    /\ pc[g] # "idle"
    /\ pc' = [pc EXCEPT ![g] = "idle"]
    /\ died' = died \cup {run[g].started}
    /\ next' = [next EXCEPT ![g] = 1]
    /\ run' = [run EXCEPT ![g] = NoRun]
    /\ UNCHANGED <<begun, runs, posts, lost, reader>>

-----------------------------------------------------------------------------
\* cronhub history: ORDER BY started DESC LIMIT n, then the filter, then a cut.
Rank(S, r) == Cardinality({x \in S : x.started > r.started}) + 1
Newest(S, n) == {r \in S : Rank(S, r) <= n}
Nth(S, n) == {r \in S : Rank(S, r) = n}

\* Mutant: a filter does not read more than is shown.
ReadNOnce(q) == q.limit

ReadN(q) == IF q.failed THEN q.limit * Window ELSE q.limit

ReadHistory(S, n) == Newest(S, IF n <= 0 THEN ReadDefault ELSE n)

Shown(S, q) ==
    Newest({r \in ReadHistory(S, ReadN(q)) : q.failed => ~ r.ok}, q.limit)

ListRuns(q) ==
    /\ seen = {}
    /\ seen' = Shown(runs, q)
    /\ query' = IF seen' = {} THEN NoQuery ELSE q
    /\ UNCHANGED tail

\* Mutant: off by one.
DetailNext(n) == Nth(Shown(runs, query), n + 1)

\* history --run n, with the same flags, reads the table again.
Detail(n) == Nth(Shown(runs, query), n)

ShowRun(n) ==
    /\ n <= Cardinality(seen)
    /\ seen' = {} /\ query' = NoQuery
    /\ UNCHANGED tail

Queries == [failed : BOOLEAN, limit : Limit]

TailStep(g) ==
    \/ Begin(g) \/ (\E r \in Result : RecordRun(g, r)) \/ Passed(g) \/ Post(g)
    \/ Answered(g) \/ TimeOut(g) \/ Cleared(g) \/ Crash(g)

Next ==
    \/ \E g \in Gos : TailStep(g)
    \/ \E q \in Queries : ListRuns(q)
    \/ \E n \in 1 .. MaxRuns : ShowRun(n)

Spec == Init /\ [][Next]_vars

\* The goroutine runs and its command ends (engine_live assumes the same); of
\* the requests only the timeout is sure.
FairSpec ==
    /\ Spec
    /\ \A g \in Gos :
          WF_vars((\E r \in Result : RecordRun(g, r)) \/ Passed(g) \/ Post(g)
                  \/ TimeOut(g) \/ Cleared(g))

-----------------------------------------------------------------------------
Places == DOMAIN Notify
Active == {run[g].started : g \in {x \in Gos : pc[x] # "idle"}}

\* Whoever gets a webhook and looks finds the run in the history, if its record
\* could be written: that is tried first (engine.go:161, 165).
NotifiedIsRecorded ==
    \A p \in posts : \E r \in runs \cup lost : r.started = p[1]

\* The runs that have gone through launch's last steps, in the history or not.
Concluded == {r \in runs \cup lost : r.started \notin Active \cup died}

\* README:320-332: a webhook is told of every run that history calls FAILED,
\* and of one that it calls ok only without failures_only; once for each
\* mention in the list, whatever the other notifiers answered.  A run whose
\* record could not be written is told of like the others.
AlertsMatchHistory ==
    \A r \in Concluded, i \in Places :
        <<r.started, i>> \in posts
        <=> /\ Notify[i] \in DOMAIN Hook
            /\ Hook[Notify[i]].urlOk
            /\ ~ r.ok \/ ~ Hook[Notify[i]].failuresOnly

\* main.go:378: "Read a bit extra when filtering so --failed still fills the
\* limit".  It falls short only when the runs it read are fewer than there are.
FailedFills ==
    \A n \in Limit \ {0} :
        LET f == {r \in runs : ~ r.ok}
            shown == Shown(runs, [failed |-> TRUE, limit |-> n])
        IN  shown = Newest(f, n) \/ Cardinality(runs) > n * Window

\* Between the list and history --run N more runs may be recorded, so N may be
\* another run by then (main.go:410-415): a newer one, never one further back.
ShownIsNotOlder ==
    [][\A n \in 1 .. MaxRuns : ShowRun(n) =>
          \A d \in Detail(n), s \in Nth(seen, n) : d.started >= s.started]_vars

\* A notifier that hangs delays the end of the run, and with it the job's row
\* and a shutdown, for ten seconds and not for ever.
TailEnds == \A g \in Gos : pc[g] # "idle" ~> pc[g] = "idle"
=============================================================================
