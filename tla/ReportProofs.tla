---------------------------- MODULE ReportProofs ----------------------------
(***************************************************************************)
(* Proofs about Report for any number of goroutines, webhooks and runs.    *)
(* TailInv follows the result of a run from its goroutine into the table   *)
(* and to the webhooks; SeenInv says what the last list was made of.       *)
(***************************************************************************)
EXTENDS Report, TLAPS, FiniteSetTheorems

Runs == [started : Nat, ok : BOOLEAN]

\* The results that launch has recorded, or tried to.
Results == runs \cup lost

TypeOK ==
    /\ pc \in [Gos -> {"idle", "executing", "notify", "posting"}]
    /\ run \in [Gos -> [started : Nat, result : [err : BOOLEAN, code : Int]]]
    /\ next \in [Gos -> Nat \ {0}]
    /\ begun \in Nat
    /\ runs \subseteq Runs /\ IsFiniteSet(runs)
    /\ lost \subseteq Runs
    /\ posts \subseteq Nat \X Nat

\* No two runs have the same date.
DatesInv ==
    /\ \A g \in Gos : run[g].started <= begun
    /\ \A g, h \in Gos :
          pc[g] # "idle" /\ pc[h] # "idle" /\ run[g].started = run[h].started
          => g = h
    /\ \A r \in Results : r.started <= begun
    /\ \A p \in posts : p[1] <= begun

Reported == {"notify", "posting"}

\* The goroutine has recorded its result, or tried to, before it notifies.
RecordedInv ==
    /\ NotifiedIsRecorded
    /\ \A g \in Gos : pc[g] \in Reported =>
          \E r \in Results : r.started = run[g].started
    /\ \A g \in Gos, r \in Results :
          pc[g] # "idle" /\ r.started = run[g].started =>
              pc[g] \in Reported /\ r.ok = Success(run[g].result)

\* The place in the list up to which a goroutine has sent its requests.
Reached(g) == CASE pc[g] = "posting" -> next[g] + 1
                [] pc[g] = "notify"  -> next[g]
                [] OTHER             -> 1

\* Of the run of a goroutine the webhooks reached so far have been told ...
PostsInv ==
    /\ \A g \in Gos : pc[g] # "idle" =>
          \A i \in Places :
              <<run[g].started, i>> \in posts
              <=> i < Reached(g) /\ Sends(Notify[i], run[g].result)
    /\ \A g \in Gos : pc[g] \in {"idle", "executing"} => next[g] = 1
    /\ AlertsMatchHistory   \* ... and of a finished one all of them.

TailInv == TypeOK /\ DatesInv /\ RecordedInv /\ PostsInv

\* A record that was listed is still there, and is one the flags let through.
SeenInv ==
    /\ seen \subseteq runs
    /\ query \in [failed : BOOLEAN, limit : Nat]
    /\ query.failed => \A r \in seen : ~ r.ok

-----------------------------------------------------------------------------
LEMMA InitTypeOK == Init => TypeOK
BY FS_EmptySet DEF Init, TypeOK, NoRun, NoResult

LEMMA NextTypeOK == TypeOK /\ [Next]_vars => TypeOK'
<1> SUFFICES ASSUME TypeOK, [Next]_vars PROVE TypeOK'
  OBVIOUS
<1> USE DEF TypeOK, Goto
<1>1. ASSUME NEW g \in Gos, Begin(g) PROVE TypeOK'
  BY <1>1 DEF Begin, NoRun, NoResult, reader
<1>2. ASSUME NEW g \in Gos, NEW result \in Result, RecordRun(g, result)
      PROVE  TypeOK'
  <2>1. result \in [err : BOOLEAN, code : Int]
    <3>1. -1 \in Int /\ 0 \in Int /\ 3 \in Int
      OBVIOUS
    <3>2. \E e \in BOOLEAN, c \in Int : result = [err |-> e, code |-> c]
      BY <3>1 DEF Result
    <3> QED
      BY <3>2
  <2>2. run' \in [Gos -> [started : Nat, result : [err : BOOLEAN, code : Int]]]
    BY <1>2, <2>1 DEF RecordRun
  <2>3. Row(run'[g]) \in Runs
    BY <2>2 DEF Row, Runs, Success
  <2>4. runs' \subseteq Runs /\ IsFiniteSet(runs')
    <3>1. runs' = runs \cup {Row(run'[g])} \/ runs' = runs
      BY <1>2 DEF RecordRun, Recorded
    <3>2. IsFiniteSet(runs \cup {Row(run'[g])})
      BY FS_AddElement
    <3> QED
      BY <2>3, <3>1, <3>2
  <2>5. lost' \subseteq Runs
    BY <1>2, <2>3 DEF RecordRun
  <2> QED
    BY <1>2, <2>2, <2>4, <2>5 DEF RecordRun, reader
<1>3. ASSUME NEW g \in Gos, Passed(g) PROVE TypeOK'
  BY <1>3 DEF Passed, reader
<1>4. ASSUME NEW g \in Gos, Post(g) PROVE TypeOK'
  BY <1>4 DEF Post, reader
<1>5. ASSUME NEW g \in Gos, Answered(g) PROVE TypeOK'
  BY <1>5 DEF Answered, reader
<1>6. ASSUME NEW g \in Gos, Cleared(g) PROVE TypeOK'
  BY <1>6 DEF Cleared, NoRun, NoResult, reader
<1>7. ASSUME NEW g \in Gos, Crash(g) PROVE TypeOK'
  BY <1>7 DEF Crash, NoRun, NoResult, reader
<1>8. CASE UNCHANGED tail
  BY <1>8 DEF tail
<1> QED
  BY <1>1, <1>2, <1>3, <1>4, <1>5, <1>6, <1>7, <1>8
     DEF Next, TailStep, TimeOut, ListRuns, ShowRun, vars

-----------------------------------------------------------------------------
\* How a step changes the goroutines: it begins a run, or leaves a goroutine
\* that goes on the start of its run.
LEMMA NextDatesInv == TypeOK /\ DatesInv /\ [Next]_vars => DatesInv'
<1> SUFFICES ASSUME TypeOK, DatesInv, [Next]_vars PROVE DatesInv'
  OBVIOUS
<1> USE DEF TypeOK, DatesInv, Goto, Results
<1>1. ASSUME NEW g \in Gos, Begin(g) PROVE DatesInv'
  <2>1. /\ run' = [run EXCEPT ![g] = [started |-> begun + 1, result |-> NoResult]]
        /\ pc' = [pc EXCEPT ![g] = "executing"] /\ pc[g] = "idle"
        /\ begun' = begun + 1 /\ Results' = Results /\ posts' = posts
    BY <1>1 DEF Begin
  <2>2. run'[g].started = begun + 1 /\ \A h \in Gos \ {g} : run'[h] = run[h]
    BY <2>1
  <2>3. \A h \in Gos : run[h].started \in Nat
    OBVIOUS
  <2>4. \A r \in Results : r.started \in Nat
    BY DEF Runs
  <2>5. \A p \in posts : p[1] \in Nat
    OBVIOUS
  <2> QED
    BY <2>1, <2>2, <2>3, <2>4, <2>5
<1>2. ASSUME NEW g \in Gos, NEW result \in Result, RecordRun(g, result)
      PROVE  DatesInv'
  <2>1. \A h \in Gos : run'[h].started = run[h].started
    BY <1>2 DEF RecordRun
  <2>2. /\ pc' = [pc EXCEPT ![g] = "notify"] /\ pc[g] = "executing"
        /\ begun' = begun /\ posts' = posts
    BY <1>2 DEF RecordRun
  <2>3. Results' = Results \cup {Row(run'[g])}
    BY <1>2 DEF RecordRun, Recorded
  <2>4. Row(run'[g]).started = run[g].started
    BY <2>1 DEF Row
  <2>5. \A r \in Results' : r.started <= begun
    BY <2>3, <2>4
  <2> QED
    BY <2>1, <2>2, <2>5
<1>3. ASSUME NEW g \in Gos, Passed(g) PROVE DatesInv'
  BY <1>3 DEF Passed
<1>4. ASSUME NEW g \in Gos, Post(g) PROVE DatesInv'
  BY <1>4 DEF Post
<1>5. ASSUME NEW g \in Gos, Answered(g) PROVE DatesInv'
  BY <1>5 DEF Answered
<1>6. ASSUME NEW g \in Gos, Cleared(g) \/ Crash(g) PROVE DatesInv'
  <2>1. /\ run' = [run EXCEPT ![g] = NoRun] /\ pc' = [pc EXCEPT ![g] = "idle"]
        /\ begun' = begun /\ Results' = Results /\ posts' = posts
    BY <1>6 DEF Cleared, Crash
  <2>2. /\ run'[g].started = 0 /\ pc'[g] = "idle"
        /\ \A h \in Gos \ {g} : run'[h] = run[h] /\ pc'[h] = pc[h]
    BY <2>1 DEF NoRun
  <2>3. \A h \in Gos : run'[h].started <= begun'
    <3>1. 0 <= begun
      OBVIOUS
    <3> QED
      BY <2>1, <2>2, <3>1
  <2>5. /\ \A r \in Results' : r.started <= begun'
        /\ \A p \in posts' : p[1] <= begun'
    BY <2>1
  <2> QED
    BY <2>2, <2>3, <2>5
<1>7. CASE UNCHANGED tail
  BY <1>7 DEF tail
<1> QED
  BY <1>1, <1>2, <1>3, <1>4, <1>5, <1>6, <1>7
     DEF Next, TailStep, TimeOut, ListRuns, ShowRun, vars

-----------------------------------------------------------------------------
LEMMA NextRecordedInv ==
    TypeOK /\ DatesInv /\ RecordedInv /\ [Next]_vars => RecordedInv'
<1> SUFFICES ASSUME TypeOK, DatesInv, RecordedInv, [Next]_vars PROVE RecordedInv'
  OBVIOUS
<1> USE DEF TypeOK, RecordedInv, NotifiedIsRecorded, Reported, Goto, Results
<1>1. ASSUME NEW g \in Gos, Begin(g) PROVE RecordedInv'
  <2>1. /\ run' = [run EXCEPT ![g] = [started |-> begun + 1, result |-> NoResult]]
        /\ pc' = [pc EXCEPT ![g] = "executing"]
        /\ Results' = Results /\ posts' = posts
    BY <1>1 DEF Begin
  <2>2. \A r \in Results : r.started \in Nat /\ r.started # begun + 1
    BY DEF DatesInv, Runs
  <2>3. \A h \in Gos \ {g} : run'[h] = run[h] /\ pc'[h] = pc[h]
    BY <2>1
  <2>4. run'[g].started = begun + 1 /\ pc'[g] = "executing"
    BY <2>1
  <2> QED
    BY <2>1, <2>2, <2>3, <2>4
<1>2. ASSUME NEW g \in Gos, NEW result \in Result, RecordRun(g, result)
      PROVE  RecordedInv'
  <2>1. /\ pc' = [pc EXCEPT ![g] = "notify"] /\ pc[g] = "executing"
        /\ posts' = posts
        /\ \A h \in Gos : run'[h].started = run[h].started
        /\ \A h \in Gos \ {g} : run'[h] = run[h]
    BY <1>2 DEF RecordRun
  <2>2. Results' = Results \cup {Row(run'[g])}
    BY <1>2 DEF RecordRun, Recorded
  <2>3. /\ Row(run'[g]).started = run[g].started
        /\ Row(run'[g]).ok = Success(run'[g].result)
    BY <2>1 DEF Row
  <2>4. \A r \in Results : r.started # run[g].started
    BY <2>1
  <2>5. NotifiedIsRecorded'
    BY <2>1, <2>2
  <2>6. \A h \in Gos : pc'[h] \in Reported =>
           \E r \in Results' : r.started = run'[h].started
    <3>1. \E r \in Results' : r.started = run[g].started
      BY <2>2, <2>3
    <3> QED
      BY <2>1, <2>2, <3>1
  <2>7. ASSUME NEW h \in Gos, NEW r \in Results', pc'[h] # "idle",
               r.started = run'[h].started
        PROVE  pc'[h] \in Reported /\ r.ok = Success(run'[h].result)
    <3>0. pc[h] # "idle" /\ r.started = run[h].started
      BY <2>1, <2>7
    <3>1. CASE r \in Results
      <4>1. h # g
        BY <2>4, <3>0, <3>1
      <4> QED
        BY <2>1, <3>0, <3>1, <4>1
    <3>2. CASE r = Row(run'[g])
      <4>1. h = g
        BY <2>1, <2>3, <3>0, <3>2 DEF DatesInv
      <4> QED
        BY <2>1, <2>3, <3>2, <4>1
    <3> QED
      BY <2>2, <3>1, <3>2
  <2> QED
    BY <2>5, <2>6, <2>7
<1>3. ASSUME NEW g \in Gos, Passed(g) PROVE RecordedInv'
  BY <1>3 DEF Passed
<1>4. ASSUME NEW g \in Gos, Post(g) PROVE RecordedInv'
  BY <1>4 DEF Post
<1>5. ASSUME NEW g \in Gos, Answered(g) PROVE RecordedInv'
  BY <1>5 DEF Answered
<1>6. ASSUME NEW g \in Gos, Cleared(g) \/ Crash(g) PROVE RecordedInv'
  <2>1. /\ run' = [run EXCEPT ![g] = NoRun] /\ pc' = [pc EXCEPT ![g] = "idle"]
        /\ Results' = Results /\ posts' = posts
    BY <1>6 DEF Cleared, Crash
  <2>2. /\ pc'[g] = "idle"
        /\ \A h \in Gos \ {g} : run'[h] = run[h] /\ pc'[h] = pc[h]
    BY <2>1
  <2> QED
    BY <2>1, <2>2
<1>7. CASE UNCHANGED tail
  BY <1>7 DEF tail
<1> QED
  BY <1>1, <1>2, <1>3, <1>4, <1>5, <1>6, <1>7
     DEF Next, TailStep, TimeOut, ListRuns, ShowRun, vars

-----------------------------------------------------------------------------
\* The engine's idea of success (engine.go:157) and the webhook's
\* (webhook.go:52) agree on every result.
LEMMA SendsMatches ==
    ASSUME NEW name, NEW r
    PROVE  Sends(name, r) <=> /\ name \in DOMAIN Hook
                              /\ Hook[name].urlOk
                              /\ ~ Success(r) \/ ~ Hook[name].failuresOnly
BY DEF Sends, Silent, Success

\* The runs under way after a step of g, which leaves the others alone.
LEMMA ActiveOthers ==
    ASSUME NEW g \in Gos,
           \A h \in Gos \ {g} : run'[h] = run[h] /\ pc'[h] = pc[h]
    PROVE  \A s \in Active : s \in Active' \/ s = run[g].started
BY DEF Active

LEMMA NextPostsInv == TailInv /\ [Next]_vars => PostsInv'
<1> SUFFICES ASSUME TailInv, [Next]_vars PROVE PostsInv'
  OBVIOUS
<1>0. /\ TypeOK /\ DatesInv /\ RecordedInv /\ PostsInv
      /\ Len(Notify) \in Nat /\ Places = 1 .. Len(Notify)
  BY NotifyAssumption DEF TailInv, Places
<1>1. ASSUME NEW g \in Gos, Begin(g) PROVE PostsInv'
  <2>1. /\ run' = [run EXCEPT ![g] = [started |-> begun + 1, result |-> NoResult]]
        /\ pc' = [pc EXCEPT ![g] = "executing"] /\ pc[g] = "idle" /\ next' = next
        /\ Results' = Results /\ posts' = posts /\ died' = died
    BY <1>1 DEF Begin, Goto, Results
  <2>2. /\ run'[g].started = begun + 1 /\ pc'[g] = "executing"
        /\ \A h \in Gos \ {g} : run'[h] = run[h] /\ pc'[h] = pc[h]
    BY <1>0, <2>1 DEF TypeOK
  <2>3. \A i \in Places : <<begun + 1, i>> \notin posts
    <3>1. \A p \in posts : p[1] # begun + 1
      BY <1>0 DEF TypeOK, DatesInv
    <3> QED
      BY <3>1
  <2>4. ASSUME NEW h \in Gos, pc'[h] # "idle", NEW i \in Places
        PROVE  <<run'[h].started, i>> \in posts'
               <=> i < Reached(h)' /\ Sends(Notify[i], run'[h].result)
    <3>1. CASE h = g
      BY <1>0, <2>1, <2>2, <2>3, <3>1 DEF Reached
    <3>2. CASE h # g
      BY <1>0, <2>1, <2>2, <2>4, <3>2 DEF Reached, PostsInv
    <3> QED
      BY <3>1, <3>2
  <2>5. AlertsMatchHistory'
    <3>1. Active \subseteq Active'
      BY <2>1, <2>2 DEF Active
    <3> QED
      BY <1>0, <2>1, <3>1 DEF PostsInv, AlertsMatchHistory, Concluded, Results, Places
  <2>6. \A h \in Gos : pc'[h] \in {"idle", "executing"} => next'[h] = 1
    BY <1>0, <2>1, <2>2 DEF PostsInv
  <2> QED
    BY <2>4, <2>5, <2>6 DEF PostsInv, Places
<1>2. ASSUME NEW g \in Gos, NEW result \in Result, RecordRun(g, result)
      PROVE  PostsInv'
  <2>1. /\ pc' = [pc EXCEPT ![g] = "notify"] /\ pc[g] = "executing"
        /\ run' = [run EXCEPT ![g].result = result]
        /\ posts' = posts /\ next' = next
        /\ died' = died
        /\ Results' = Results \cup {Row(run'[g])}
    BY <1>2 DEF RecordRun, Recorded, Goto, Results
  <2>2. /\ pc'[g] = "notify" /\ run'[g].started = run[g].started
        /\ \A h \in Gos \ {g} : run'[h] = run[h] /\ pc'[h] = pc[h]
    BY <1>0, <2>1 DEF TypeOK
  <2>3. ASSUME NEW h \in Gos, pc'[h] # "idle", NEW i \in Places
        PROVE  <<run'[h].started, i>> \in posts'
               <=> i < Reached(h)' /\ Sends(Notify[i], run'[h].result)
    <3>1. CASE h = g
      <4>1. next[g] = 1 /\ Reached(g) = 1
        BY <1>0, <2>1 DEF PostsInv, Reached
      <4>2. <<run[g].started, i>> \notin posts
        BY <1>0, <2>1, <4>1 DEF PostsInv
      <4>3. Reached(g)' = 1
        BY <2>1, <2>2, <4>1 DEF Reached
      <4> QED
        BY <1>0, <2>1, <2>2, <3>1, <4>2, <4>3
    <3>2. CASE h # g
      BY <1>0, <2>1, <2>2, <2>3, <3>2 DEF Reached, PostsInv
    <3> QED
      BY <3>1, <3>2
  <2>4. AlertsMatchHistory'
    <3>1. Active' = Active
      BY <2>1, <2>2 DEF Active
    <3>2. Row(run'[g]).started \in Active
      BY <2>1, <2>2 DEF Active, Row
    <3> QED
      BY <1>0, <2>1, <3>1, <3>2 DEF PostsInv, AlertsMatchHistory, Concluded, Results, Places
  <2>5. \A h \in Gos : pc'[h] \in {"idle", "executing"} => next'[h] = 1
    BY <1>0, <2>1, <2>2 DEF PostsInv
  <2> QED
    BY <2>3, <2>4, <2>5 DEF PostsInv, Places
<1>3. ASSUME NEW g \in Gos, Passed(g) PROVE PostsInv'
  <2>1. /\ pc[g] = "notify" /\ next[g] <= Len(Notify)
        /\ ~ Sends(Notify[next[g]], run[g].result)
        /\ next' = [next EXCEPT ![g] = next[g] + 1]
        /\ pc' = pc /\ run' = run /\ Results' = Results /\ posts' = posts /\ died' = died
    BY <1>3 DEF Passed, Results
  <2>2. next'[g] = next[g] + 1 /\ \A h \in Gos \ {g} : next'[h] = next[h]
    BY <1>0, <2>1 DEF TypeOK
  <2>3. ASSUME NEW h \in Gos, pc'[h] # "idle", NEW i \in Places
        PROVE  <<run'[h].started, i>> \in posts'
               <=> i < Reached(h)' /\ Sends(Notify[i], run'[h].result)
    <3>1. CASE h = g
      <4>1. Reached(g)' = next[g] + 1 /\ Reached(g) = next[g]
        BY <2>1, <2>2 DEF Reached
      <4>2. <<run[g].started, i>> \in posts
            <=> i < next[g] /\ Sends(Notify[i], run[g].result)
        BY <1>0, <2>1, <4>1 DEF PostsInv
      <4>3. next[g] \in Nat /\ i \in Nat
        BY <1>0 DEF TypeOK
      <4> QED
        BY <2>1, <3>1, <4>1, <4>2, <4>3
    <3>2. CASE h # g
      BY <1>0, <2>1, <2>2, <2>3, <3>2 DEF Reached, PostsInv
    <3> QED
      BY <3>1, <3>2
  <2>4. AlertsMatchHistory'
    BY <1>0, <2>1 DEF PostsInv, AlertsMatchHistory, Concluded, Results, Places, Active
  <2>5. \A h \in Gos : pc'[h] \in {"idle", "executing"} => next'[h] = 1
    BY <1>0, <2>1, <2>2 DEF PostsInv
  <2> QED
    BY <2>3, <2>4, <2>5 DEF PostsInv, Places
<1>4. ASSUME NEW g \in Gos, Post(g) PROVE PostsInv'
  <2>1. /\ pc[g] = "notify" /\ pc' = [pc EXCEPT ![g] = "posting"]
        /\ next[g] <= Len(Notify)
        /\ Sends(Notify[next[g]], run[g].result)
        /\ posts' = posts \cup {<<run[g].started, next[g]>>}
        /\ next' = next /\ run' = run /\ Results' = Results /\ died' = died
    BY <1>4 DEF Post, Goto, Results
  <2>2. pc'[g] = "posting" /\ \A h \in Gos \ {g} : pc'[h] = pc[h]
    BY <1>0, <2>1 DEF TypeOK
  <2>3. ASSUME NEW h \in Gos, pc'[h] # "idle", NEW i \in Places
        PROVE  <<run'[h].started, i>> \in posts'
               <=> i < Reached(h)' /\ Sends(Notify[i], run'[h].result)
    <3>1. CASE h = g
      <4>1. Reached(g)' = next[g] + 1 /\ Reached(g) = next[g]
        BY <2>1, <2>2 DEF Reached
      <4>2. <<run[g].started, i>> \in posts
            <=> i < next[g] /\ Sends(Notify[i], run[g].result)
        BY <1>0, <2>1, <4>1 DEF PostsInv
      <4>3. next[g] \in Nat /\ i \in Nat
        BY <1>0 DEF TypeOK
      <4> QED
        BY <2>1, <3>1, <4>1, <4>2, <4>3
    <3>2. CASE h # g
      <4>1. run[h].started # run[g].started
        BY <1>0, <2>1, <2>2, <2>3, <3>2 DEF DatesInv
      <4>2. <<run[h].started, i>> \in posts' <=> <<run[h].started, i>> \in posts
        BY <2>1, <4>1
      <4> QED
        BY <1>0, <2>1, <2>2, <2>3, <3>2, <4>2 DEF Reached, PostsInv
    <3> QED
      BY <3>1, <3>2
  <2>4. AlertsMatchHistory'
    <3>1. Active' = Active
      BY <2>1, <2>2 DEF Active
    <3>2. run[g].started \in Active
      BY <2>1 DEF Active
    <3> QED
      BY <1>0, <2>1, <3>1, <3>2 DEF PostsInv, AlertsMatchHistory, Concluded, Results, Places
  <2>5. \A h \in Gos : pc'[h] \in {"idle", "executing"} => next'[h] = 1
    BY <1>0, <2>1, <2>2 DEF PostsInv
  <2> QED
    BY <2>3, <2>4, <2>5 DEF PostsInv, Places
<1>5. ASSUME NEW g \in Gos, Answered(g) PROVE PostsInv'
  <2>1. /\ pc[g] = "posting" /\ pc' = [pc EXCEPT ![g] = "notify"]
        /\ next' = [next EXCEPT ![g] = next[g] + 1]
        /\ posts' = posts /\ run' = run /\ Results' = Results /\ died' = died
    BY <1>5 DEF Answered, Goto, Results
  <2>2. /\ pc'[g] = "notify" /\ next'[g] = next[g] + 1
        /\ \A h \in Gos \ {g} : pc'[h] = pc[h] /\ next'[h] = next[h]
    BY <1>0, <2>1 DEF TypeOK
  <2>3. \A h \in Gos : Reached(h)' = Reached(h)
    BY <2>1, <2>2 DEF Reached
  <2>4. Active' = Active /\ \A h \in Gos : pc'[h] # "idle" => pc[h] # "idle"
    BY <2>1, <2>2 DEF Active
  <2>5. AlertsMatchHistory'
    BY <1>0, <2>1, <2>4 DEF PostsInv, AlertsMatchHistory, Concluded, Results, Places
  <2>6. \A h \in Gos : pc'[h] \in {"idle", "executing"} => next'[h] = 1
    BY <1>0, <2>1, <2>2 DEF PostsInv
  <2>7. ASSUME NEW h \in Gos, pc'[h] # "idle", NEW i \in Places
        PROVE  <<run'[h].started, i>> \in posts'
               <=> i < Reached(h)' /\ Sends(Notify[i], run'[h].result)
    BY <1>0, <2>1, <2>3, <2>4, <2>7 DEF PostsInv
  <2> QED
    BY <2>5, <2>6, <2>7 DEF PostsInv, Places
<1>6. ASSUME NEW g \in Gos, Cleared(g) \/ Crash(g) PROVE PostsInv'
  <2>1. /\ run' = [run EXCEPT ![g] = NoRun] /\ pc' = [pc EXCEPT ![g] = "idle"]
        /\ next' = [next EXCEPT ![g] = 1]
        /\ Results' = Results /\ posts' = posts /\ died \subseteq died'
    BY <1>6 DEF Cleared, Crash, Goto, Results
  <2>2. /\ pc'[g] = "idle" /\ next'[g] = 1
        /\ \A h \in Gos \ {g} :
              run'[h] = run[h] /\ pc'[h] = pc[h] /\ next'[h] = next[h]
    BY <1>0, <2>1 DEF TypeOK
  <2>3. ASSUME NEW h \in Gos, pc'[h] # "idle", NEW i \in Places
        PROVE  <<run'[h].started, i>> \in posts'
               <=> i < Reached(h)' /\ Sends(Notify[i], run'[h].result)
    BY <1>0, <2>1, <2>2, <2>3 DEF Reached, PostsInv
  <2>4. ASSUME NEW r \in Results, r.started \notin Active' \cup died', NEW i \in Places
        PROVE  <<r.started, i>> \in posts
               <=> /\ Notify[i] \in DOMAIN Hook
                   /\ Hook[Notify[i]].urlOk
                   /\ ~ r.ok \/ ~ Hook[Notify[i]].failuresOnly
    <3>1. CASE r.started \notin Active
      BY <1>0, <2>1, <2>4, <3>1 DEF PostsInv, AlertsMatchHistory, Concluded, Results
    <3>2. CASE r.started \in Active
      <4>1. r.started = run[g].started
        BY <2>2, <2>4, <3>2, ActiveOthers
      <4>2. ~ Crash(g)
        BY <2>4, <4>1 DEF Crash
      <4>3. pc[g] = "notify" /\ next[g] > Len(Notify)
        BY <1>6, <4>2 DEF Cleared, Goto
      <4>4. r.ok = Success(run[g].result)
        BY <1>0, <4>1, <4>3 DEF RecordedInv
      <4>5. i < Reached(g)
        BY <1>0, <4>3 DEF Reached, TypeOK
      <4>6. <<r.started, i>> \in posts <=> Sends(Notify[i], run[g].result)
        BY <1>0, <4>1, <4>3, <4>5 DEF PostsInv
      <4> QED
        BY <4>4, <4>6, SendsMatches
    <3> QED
      BY <3>1, <3>2
  <2>5. AlertsMatchHistory'
    BY <2>1, <2>4 DEF AlertsMatchHistory, Concluded, Results, Places
  <2>6. \A h \in Gos : pc'[h] \in {"idle", "executing"} => next'[h] = 1
    BY <1>0, <2>2 DEF PostsInv
  <2> QED
    BY <2>3, <2>5, <2>6 DEF PostsInv, Places
<1>7. CASE UNCHANGED tail
  BY <1>0, <1>7 DEF tail, PostsInv, AlertsMatchHistory, Concluded, Results, Active, Reached, Places
<1> QED
  BY <1>1, <1>2, <1>3, <1>4, <1>5, <1>6, <1>7
     DEF Next, TailStep, TimeOut, ListRuns, ShowRun, vars

LEMMA TailInvariant == Spec => []TailInv
<1>1. Init => TailInv
  <2> SUFFICES ASSUME Init PROVE TailInv
    OBVIOUS
  <2>1. DatesInv /\ RecordedInv
    BY DEF Init, DatesInv, RecordedInv, NotifiedIsRecorded, Reported, NoRun, Results
  <2>2. PostsInv
    BY DEF Init, PostsInv, AlertsMatchHistory, Concluded
  <2> QED
    BY <2>1, <2>2, InitTypeOK DEF TailInv
<1>2. TailInv /\ [Next]_vars => TailInv'
  BY NextTypeOK, NextDatesInv, NextRecordedInv, NextPostsInv DEF TailInv
<1> QED
  BY <1>1, <1>2, PTL DEF Spec

\* Whoever hears of a run finds it in the history, if it could be written there,
\* whatever else the goroutines do meanwhile and wherever their daemons die.
THEOREM SpecNotifiedIsRecorded == Spec => []NotifiedIsRecorded
<1>1. TailInv => NotifiedIsRecorded
  BY DEF TailInv, RecordedInv
<1> QED
  BY <1>1, TailInvariant, PTL

\* The webhooks are told of exactly the runs the history and their
\* failures_only call for, for any list of names and any overlap of runs, and of
\* the runs whose record failed as well.
THEOREM SpecAlertsMatchHistory == Spec => []AlertsMatchHistory
<1>1. TailInv => AlertsMatchHistory
  BY DEF TailInv, PostsInv
<1> QED
  BY <1>1, TailInvariant, PTL

-----------------------------------------------------------------------------
\* Ranks: the records newer than r come before it.
Newer(S, r) == {x \in S : x.started > r.started}

LEMMA RankType ==
    ASSUME NEW S, IsFiniteSet(S), NEW r
    PROVE  IsFiniteSet(Newer(S, r)) /\ Rank(S, r) \in Nat
           /\ Rank(S, r) = Cardinality(Newer(S, r)) + 1
BY FS_Subset, FS_CardinalityType DEF Newer, Rank

\* A newer record has a rank that is not greater.
LEMMA RankMonotone ==
    ASSUME NEW S, S \subseteq Runs, IsFiniteSet(S), NEW r \in Runs, NEW x \in Runs,
           x.started >= r.started
    PROVE  Rank(S, x) <= Rank(S, r)
<1>1. Newer(S, x) \subseteq Newer(S, r)
  BY DEF Newer, Runs
<1>2. Cardinality(Newer(S, x)) <= Cardinality(Newer(S, r))
  BY <1>1, RankType, FS_Subset
<1> QED
  BY <1>2, RankType, FS_CardinalityType

\* What is shown is listed by rank, so a record newer than one that is shown is
\* shown too, if the flags let it through.
LEMMA ShownUpward ==
    ASSUME NEW S, S \subseteq Runs, IsFiniteSet(S),
           NEW q \in [failed : BOOLEAN, limit : Nat], NEW d \in Shown(S, q),
           NEW x \in S, x.started >= d.started, q.failed => ~ x.ok
    PROVE  x \in Shown(S, q)
<1> DEFINE n == IF ReadN(q) <= 0 THEN ReadDefault ELSE ReadN(q)
           R == Newest(S, n)
           F == {r \in R : q.failed => ~ r.ok}
<1>1. Shown(S, q) = {r \in F : Rank(F, r) <= q.limit}
  BY DEF Shown, ReadHistory, Newest
<1>2. d \in F /\ Rank(F, d) <= q.limit /\ d \in S /\ Rank(S, d) <= n
  BY <1>1 DEF Newest
<1>3. F \subseteq S /\ IsFiniteSet(F)
  BY FS_Subset DEF Newest
<1>4. Rank(S, x) <= Rank(S, d) /\ Rank(F, x) <= Rank(F, d)
  BY <1>2, <1>3, RankMonotone
<1>5. Rank(S, x) \in Nat /\ Rank(S, d) \in Nat /\ Rank(F, x) \in Nat /\ Rank(F, d) \in Nat
  BY <1>3, RankType
<1>6. n \in Nat /\ q.limit \in Nat
  BY NumbersAssumption DEF ReadN
<1>7. x \in R
  <2>1. Rank(S, x) <= n
    BY <1>2, <1>4, <1>5, <1>6
  <2> QED
    BY <2>1 DEF Newest
<1>8. x \in F
  BY <1>7
<1>9. Rank(F, x) <= q.limit
  BY <1>2, <1>4, <1>5, <1>6
<1> QED
  BY <1>1, <1>8, <1>9

-----------------------------------------------------------------------------
LEMMA InitSeenInv == Init => SeenInv
BY DEF Init, SeenInv, NoQuery

LEMMA NextSeenInv == TypeOK /\ SeenInv /\ [Next]_vars => SeenInv'
<1> SUFFICES ASSUME TypeOK, SeenInv, [Next]_vars PROVE SeenInv'
  OBVIOUS
<1>1. ASSUME NEW q \in Queries, ListRuns(q) PROVE SeenInv'
  <2>1. q \in [failed : BOOLEAN, limit : Nat]
    BY NumbersAssumption DEF Queries
  <2>2. /\ runs' = runs /\ seen' = Shown(runs, q)
        /\ query' = NoQuery \/ query' = q
    BY <1>1 DEF ListRuns, tail
  <2>3. Shown(runs, q) \subseteq runs /\ (q.failed => \A r \in Shown(runs, q) : ~ r.ok)
    BY DEF Shown, Newest, ReadHistory
  <2>4. CASE query' = q
    BY <2>1, <2>2, <2>3, <2>4 DEF SeenInv
  <2>5. CASE query' = NoQuery
    <3>1. NoQuery \in [failed : BOOLEAN, limit : Nat] /\ ~ NoQuery.failed
      BY DEF NoQuery
    <3> QED
      BY <2>2, <2>3, <2>5, <3>1 DEF SeenInv
  <2> QED
    BY <2>2, <2>4, <2>5
<1>2. ASSUME NEW n \in 1 .. MaxRuns, ShowRun(n) PROVE SeenInv'
  BY <1>2 DEF ShowRun, SeenInv, NoQuery
<1>3. ASSUME UNCHANGED reader, runs \subseteq runs' PROVE SeenInv'
  BY <1>3 DEF SeenInv, reader
<1>4. ASSUME NEW g \in Gos, TailStep(g) PROVE UNCHANGED reader /\ runs \subseteq runs'
  BY <1>4 DEF TailStep, TimeOut, Begin, RecordRun, Recorded, Passed, Post, Answered,
              Cleared, Crash, reader
<1> QED
  BY <1>1, <1>2, <1>3, <1>4 DEF Next, vars, tail, reader

\* The n-th of the records shown now is not older than the n-th of those listed
\* then: whatever was above it then still is.
LEMMA NthNotOlder ==
    ASSUME TypeOK, SeenInv, NEW n \in Nat, NEW d \in Detail(n), NEW s \in Nth(seen, n)
    PROVE  d.started >= s.started
<1> DEFINE now   == Shown(runs, query)
           above == Newer(seen, s)
<1>1. /\ s \in seen /\ Rank(seen, s) = n /\ d \in now /\ Rank(now, d) = n
      /\ s \in runs /\ d \in runs /\ seen \subseteq runs /\ now \subseteq runs
      /\ IsFiniteSet(seen) /\ IsFiniteSet(now)
  BY FS_Subset DEF TypeOK, SeenInv, Detail, Nth, Shown, Newest, ReadHistory
<1>2. d.started \in Nat /\ s.started \in Nat /\ \A x \in runs : x.started \in Nat
  BY <1>1 DEF TypeOK, Runs
<1> SUFFICES ASSUME d.started < s.started PROVE FALSE
  BY <1>2
<1>3. IsFiniteSet(above) /\ Cardinality(above) \in Nat /\ Cardinality(above) = n - 1
  BY <1>1, RankType, FS_CardinalityType
<1>4. Cardinality(above \cup {s}) = n
  <2>1. s \notin above
    BY <1>2 DEF Newer
  <2>2. Cardinality(above \cup {s}) = Cardinality(above) + 1
    BY <1>3, <2>1, FS_AddElement
  <2> QED
    BY <1>3, <2>2
<1>5. above \cup {s} \subseteq Newer(now, d)
  <2> SUFFICES ASSUME NEW x \in above \cup {s} PROVE x \in Newer(now, d)
    OBVIOUS
  <2>1. x \in seen /\ x.started >= s.started
    BY <1>1, <1>2 DEF Newer
  <2>2. x \in runs /\ x.started > d.started /\ x.started >= d.started
    BY <1>1, <1>2, <2>1
  <2>3. query.failed => ~ x.ok
    BY <2>1 DEF SeenInv
  <2>4. x \in now
    BY <1>1, <2>2, <2>3, ShownUpward DEF TypeOK, SeenInv
  <2> QED
    BY <2>2, <2>4 DEF Newer
<1>6. n <= Cardinality(Newer(now, d))
  BY <1>1, <1>4, <1>5, RankType, FS_Subset
<1> QED
  BY <1>1, <1>6, RankType, FS_CardinalityType

\* history --run N never shows a run further back than the N-th of the list the
\* user has seen, for any number of runs recorded between the two.
THEOREM SpecShownIsNotOlder == Spec => ShownIsNotOlder
<1>1. TypeOK /\ SeenInv /\ [Next]_vars
      => [\A n \in 1 .. MaxRuns : ShowRun(n) =>
             \A d \in Detail(n), s \in Nth(seen, n) : d.started >= s.started]_vars
  BY NthNotOlder, NumbersAssumption
<1>2. TailInv => TypeOK
  BY DEF TailInv
<1> QED
  BY <1>1, <1>2, TailInvariant, InitSeenInv, NextSeenInv, PTL
     DEF Spec, ShownIsNotOlder

-----------------------------------------------------------------------------
LEMMA NewestAll ==
    ASSUME NEW S, S \subseteq Runs, IsFiniteSet(S), NEW n \in Nat,
           Cardinality(S) <= n
    PROVE  Newest(S, n) = S
<1> SUFFICES ASSUME NEW r \in S
             PROVE  Rank(S, r) <= n
  BY DEF Newest
<1>1. Newer(S, r) \subseteq S \ {r} /\ IsFiniteSet(S \ {r})
  <2>1. \A x \in Newer(S, r) : x # r
    BY DEF Newer, Runs
  <2> QED
    BY <2>1, FS_RemoveElement DEF Newer
<1>2. Cardinality(S \ {r}) = Cardinality(S) - 1
  BY FS_RemoveElement
<1>3. Cardinality(Newer(S, r)) <= Cardinality(S \ {r})
  BY <1>1, FS_Subset
<1> QED
  BY <1>2, <1>3, RankType, FS_CardinalityType

\* --failed leaves a failure out only when more runs than it reads are stored.
THEOREM SpecFailedFills == Spec => []FailedFills
<1>1. TypeOK => FailedFills
  <2> SUFFICES ASSUME TypeOK, NEW n \in Limit \ {0}, ~ Cardinality(runs) > n * Window
               PROVE  Shown(runs, [failed |-> TRUE, limit |-> n])
                         = Newest({r \in runs : ~ r.ok}, n)
    BY DEF FailedFills
  <2> DEFINE q == [failed |-> TRUE, limit |-> n]
  <2>1. n \in Nat /\ n > 0 /\ Window \in Nat /\ Window > 0
    BY NumbersAssumption
  <2>2. n * Window \in Nat /\ n * Window > 0
    <3>1. \A a, b \in Nat : a > 0 /\ b > 0 => a * b \in Nat /\ a * b > 0
      OBVIOUS
    <3> QED
      BY <2>1, <3>1
  <2>3. ReadN(q) = n * Window /\ ReadHistory(runs, ReadN(q)) = Newest(runs, n * Window)
    BY <2>2 DEF ReadN, ReadHistory
  <2>4. Cardinality(runs) <= n * Window
    BY <2>2, FS_CardinalityType DEF TypeOK
  <2>5. ReadHistory(runs, ReadN(q)) = runs
    BY <2>2, <2>3, <2>4, NewestAll DEF TypeOK
  <2> QED
    BY <2>5 DEF Shown
<1>2. TailInv => TypeOK
  BY DEF TailInv
<1> QED
  BY <1>1, <1>2, TailInvariant, PTL
=============================================================================
