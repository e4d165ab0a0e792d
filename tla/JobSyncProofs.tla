---------------------------- MODULE JobSyncProofs ----------------------------
(***************************************************************************)
(* Proofs about JobSync for every configuration file, every command that   *)
(* changes it and every history of starts.  SyncInv says what the table    *)
(* holds of the present configuration at each phase of a start.            *)
(***************************************************************************)
EXTENDS JobSync, TLAPS

IsRow(r) == r = [name |-> r.name, schedule |-> r.schedule,
                 policy |-> r.policy, notify |-> r.notify]

\* A configured job, as the table keeps it.
Saved(r) == [r EXCEPT !.notify = Joined(@)]

\* The configurations started from: one job per name, and every schedule good.
ConfInv ==
    /\ todo \subseteq conf
    /\ \A r \in conf : IsRow(r) /\ r.schedule \in GoodSchedules
    /\ \A r, x \in conf : r.name = x.name => r = x

\* The upserts done are in the table, and nothing else is there under their names.
RowsInv ==
    /\ \A x \in rows : IsRow(x)
    /\ \A r \in conf \ todo :
          /\ Saved(r) \in rows
          /\ \A x \in rows : x.name = r.name => x = Saved(r)

PhaseInv ==
    /\ phase \in {"down", "save", "load", "up"}
    /\ phase # "save" => todo = {}
    /\ ConfiguredJobsLoaded
    /\ NoStaleDefinition

SyncInv == ConfInv /\ RowsInv /\ PhaseInv

-----------------------------------------------------------------------------
\* What LoadConfig accepts resolves to one job per name.
LEMMA ResolvedDistinct ==
    ASSUME NEW t, Loads(t), NEW r \in Resolved(t), NEW x \in Resolved(t),
           r.name = x.name
    PROVE  r = x
<1>1. PICK i \in DOMAIN t.jobs : r = Resolve(t, i)
  BY DEF Resolved
<1>2. PICK k \in DOMAIN t.jobs : x = Resolve(t, k)
  BY DEF Resolved
<1>3. t.jobs[i].name = t.jobs[k].name
  BY <1>1, <1>2 DEF Resolve
<1> QED
  BY <1>1, <1>2, <1>3 DEF Loads, UniqueNames

LEMMA ResolvedRows ==
    ASSUME NEW t, NEW r \in Resolved(t)
    PROVE  IsRow(r)
<1>1. PICK i \in DOMAIN t.jobs : r = Resolve(t, i)
  BY DEF Resolved
<1>2. QED
  BY <1>1 DEF Resolve, IsRow

\* What the text column gives back of a plain list is that list.
LEMMA SplitJoined ==
    ASSUME NEW names, Plain(names)
    PROVE  Split(Joined(names)) = names
<1> DEFINE ps == UNION {Parts(n) : n \in names}
<1>1. \A n \in names : Parts(n) = {n[1]}
  BY DEF Plain, Parts
<1>2. ps = {n[1] : n \in names}
  BY <1>1
<1>3. PICK one \in names : TRUE
  BY DEF Plain
<1>4. ps # {}
  BY <1>2, <1>3
<1>5. Joined(names) = ps
  BY <1>4 DEF Joined
<1>6. Split(ps) = {<<n[1]>> : n \in names}
  BY <1>2 DEF Split
<1>7. {<<n[1]>> : n \in names} = names
  BY DEF Plain
<1> QED
  BY <1>5, <1>6, <1>7

LEMMA SavedFields ==
    ASSUME NEW r, IsRow(r)
    PROVE  Saved(r) = [name |-> r.name, schedule |-> r.schedule,
                       policy |-> r.policy, notify |-> Joined(r.notify)]
BY DEF IsRow, Saved

\* A job with a plain list is read back as it was saved.
LEMMA ReadBack ==
    ASSUME NEW r, IsRow(r), Plain(r.notify)
    PROVE  [Saved(r) EXCEPT !.notify = Split(@)] = r
BY SavedFields, SplitJoined DEF IsRow

-----------------------------------------------------------------------------
LEMMA InitSyncInv == SyncInit => SyncInv
BY DEF SyncInit, SyncInv, ConfInv, RowsInv, PhaseInv, ConfiguredJobsLoaded,
     NoStaleDefinition

LEMMA NextSyncInv == SyncInv /\ [SyncNext]_syncVars => SyncInv'
<1> SUFFICES ASSUME SyncInv, [SyncNext]_syncVars PROVE SyncInv'
  OBVIOUS
<1>1. ASSUME UNCHANGED daemon PROVE SyncInv'
  BY <1>1 DEF daemon, SyncInv, ConfInv, RowsInv, PhaseInv, ConfiguredJobsLoaded,
     NoStaleDefinition
<1>2. CASE Next /\ UNCHANGED daemon
  BY <1>1, <1>2
<1>3. CASE EditConfig
  BY <1>1, <1>3 DEF EditConfig
<1>4. CASE StartDaemon
  <2>1. /\ phase' = "save"
        /\ conf' = Resolved(file) /\ todo' = conf' /\ rows' = rows
        /\ Loads(file) /\ \A r \in conf' : r.schedule \in GoodSchedules
    BY <1>4 DEF StartDaemon
  <2>2. ConfInv'
    BY <2>1, ResolvedDistinct, ResolvedRows DEF ConfInv
  <2>3. RowsInv' /\ PhaseInv'
    BY <2>1 DEF SyncInv, RowsInv, PhaseInv, ConfiguredJobsLoaded, NoStaleDefinition
  <2> QED
    BY <2>2, <2>3 DEF SyncInv
<1>5. ASSUME NEW r \in todo, SaveJob(r) PROVE SyncInv'
  <2>1. /\ phase = "save" /\ phase' = "save" /\ conf' = conf
        /\ todo' = todo \ {r}
        /\ rows' = Upsert(rows, Saved(r))
    BY <1>5 DEF SaveJob, Saved
  <2>2. ConfInv' /\ PhaseInv'
    BY <2>1 DEF SyncInv, ConfInv, PhaseInv, ConfiguredJobsLoaded,
     NoStaleDefinition
  <2>3. /\ r \in conf /\ IsRow(r) /\ IsRow(Saved(r)) /\ Saved(r).name = r.name
        /\ rows' = {x \in rows : x.name # r.name} \cup {Saved(r)}
    <3>1. r \in conf /\ IsRow(r)
      BY DEF SyncInv, ConfInv
    <3> QED
      BY <2>1, <3>1, SavedFields DEF Upsert, IsRow
  <2>4. \A x \in rows' : IsRow(x)
    BY <2>3 DEF SyncInv, RowsInv
  <2>5. ASSUME NEW x \in conf' \ todo'
        PROVE  /\ Saved(x) \in rows'
               /\ \A y \in rows' : y.name = x.name => y = Saved(x)
    <3>1. CASE x = r
      BY <2>3, <3>1
    <3>2. CASE x # r
      <4>1. x \in conf \ todo /\ IsRow(x) /\ x.name # r.name
        BY <2>1, <2>3, <2>5, <3>2 DEF SyncInv, ConfInv
      <4>2. Saved(x).name = x.name
        BY <4>1, SavedFields
      <4>3. Saved(x) \in rows /\ \A y \in rows : y.name = x.name => y = Saved(x)
        BY <4>1 DEF SyncInv, RowsInv
      <4> QED
        BY <2>3, <4>1, <4>2, <4>3
    <3> QED
      BY <3>1, <3>2
  <2> QED
    BY <2>2, <2>4, <2>5 DEF SyncInv, RowsInv
<1>6. CASE SavedAll
  BY <1>6 DEF SavedAll, SyncInv, ConfInv, RowsInv, PhaseInv, ConfiguredJobsLoaded,
     NoStaleDefinition
<1>7. CASE LoadJobs
  <2>1. /\ phase = "load" /\ phase' = "up"
        /\ conf' = conf /\ todo' = todo /\ rows' = rows
        /\ loaded' = {[x EXCEPT !.notify = Split(@)] :
                         x \in {y \in rows : y.schedule \in GoodSchedules}}
    BY <1>7 DEF LoadJobs
  <2>2. ASSUME NEW r \in conf, Plain(r.notify) PROVE r \in loaded'
    <3>1. IsRow(r) /\ r.schedule \in GoodSchedules /\ Saved(r) \in rows
      BY <2>1 DEF SyncInv, ConfInv, RowsInv, PhaseInv
    <3>2. Saved(r).schedule = r.schedule
      BY <3>1, SavedFields
    <3>3. [Saved(r) EXCEPT !.notify = Split(@)] \in loaded'
      BY <2>1, <3>1, <3>2
    <3> QED
      BY <2>2, <3>1, <3>3, ReadBack
  <2>3. ASSUME NEW r \in loaded', NEW c \in conf, r.name = c.name
        PROVE  /\ r.schedule = c.schedule /\ r.policy = c.policy
               /\ Plain(c.notify) => r.notify = c.notify
    <3>1. PICK x \in rows : r = [x EXCEPT !.notify = Split(@)]
      BY <2>1, <2>3
    <3>2. /\ r.name = x.name /\ r.schedule = x.schedule /\ r.policy = x.policy
          /\ r.notify = Split(x.notify)
      BY <3>1 DEF SyncInv, RowsInv, IsRow
    <3>3. x = Saved(c) /\ IsRow(c)
      BY <2>1, <2>3, <3>2 DEF SyncInv, ConfInv, RowsInv, PhaseInv
    <3> QED
      BY <3>2, <3>3, SavedFields, SplitJoined
  <2>4. ConfInv' /\ RowsInv'
    BY <2>1 DEF SyncInv, ConfInv, RowsInv
  <2>5. PhaseInv'
    BY <2>1, <2>2, <2>3 DEF SyncInv, PhaseInv, ConfiguredJobsLoaded, NoStaleDefinition
  <2> QED
    BY <2>4, <2>5 DEF SyncInv
<1>8. CASE GoDown
  BY <1>8 DEF GoDown, SyncInv, ConfInv, RowsInv, PhaseInv, ConfiguredJobsLoaded,
     NoStaleDefinition
<1>9. CASE UNCHANGED syncVars
  BY <1>1, <1>9 DEF syncVars
<1> QED
  BY <1>2, <1>3, <1>4, <1>5, <1>6, <1>7, <1>8, <1>9 DEF SyncNext

LEMMA SyncInvariant == SyncSpec => []SyncInv
BY InitSyncInv, NextSyncInv, PTL DEF SyncSpec

\* The table never blocks a configured job: whatever rows earlier starts have
\* left, and wherever they were cut short, the engine gets every job of the
\* file it started from, field by field, if its notify list is plain.
THEOREM SpecConfiguredJobsLoaded == SyncSpec => []ConfiguredJobsLoaded
<1>1. SyncInv => ConfiguredJobsLoaded
  BY DEF SyncInv, PhaseInv
<1> QED
  BY <1>1, SyncInvariant, PTL

\* No configured job is run under a definition of an earlier file beside its own,
\* or instead of it, whatever its notify list and wherever earlier starts stopped.
THEOREM SpecNoStaleDefinition == SyncSpec => []NoStaleDefinition
<1>1. SyncInv => NoStaleDefinition
  BY DEF SyncInv, PhaseInv
<1> QED
  BY <1>1, SyncInvariant, PTL
=============================================================================
