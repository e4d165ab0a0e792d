--------------------------- MODULE TimetableProofs ---------------------------
(***************************************************************************)
(* Proofs about Schedule, Crontab and Timetable, for every phrase and every *)
(* crontab.  In this order: what translate makes of a phrase is in the      *)
(* bounds of the cron parser; every documented phrase is translated; an     *)
(* imported crontab starts; "every N units" leaves N units between two      *)
(* times; and a job is due exactly when its words say.                      *)
(***************************************************************************)
EXTENDS Timetable, TLAPS, FiniteSetTheorems, SequenceTheorems

-----------------------------------------------------------------------------
\* The three kinds of expression that translate builds.
LEMMA DailyInBounds ==
    ASSUME NEW s \in SUBSET Seconds, NEW mi \in SUBSET Minutes, NEW h \in SUBSET Hours
    PROVE  InBounds(Daily(s, mi, h))
BY DEF InBounds, Daily, Expr

LEMMA OnDowsInBounds ==
    ASSUME NEW mi \in Minutes, NEW h \in Hours, NEW dow \in SUBSET Dows
    PROVE  InBounds(OnDows(mi, h, dow))
BY DEF InBounds, OnDows, Expr, Seconds

LEMMA OnDomInBounds ==
    ASSUME NEW mi \in Minutes, NEW h \in Hours, NEW dom \in Doms
    PROVE  InBounds(OnDom(mi, h, dom))
BY DEF InBounds, OnDom, Expr, Seconds

Words == {"hourly", "daily", "weekly", "monthly", "yearly", "annually"}

LEMMA ShortcutsInBounds ==
    DOMAIN Shortcuts = Words /\ \A w \in Words : InBounds(Shortcuts[w])
<1>1. DOMAIN Shortcuts = Words
  BY DEF Shortcuts, Words
<1>2. 0 \in Minutes /\ 0 \in Hours /\ 0 \in Seconds /\ 1 \in Doms
      /\ {0} \in SUBSET Dows /\ 1 \in Months
  BY DEF Minutes, Hours, Seconds, Doms, Dows, Months
<1>3. InBounds(Daily({0}, {0}, Hours)) /\ InBounds(Daily({0}, {0}, {0}))
  BY <1>2, DailyInBounds
<1>4. InBounds(OnDows(0, 0, {0})) /\ InBounds(OnDom(0, 0, 1))
  BY <1>2, OnDowsInBounds, OnDomInBounds
<1>5. InBounds([OnDom(0, 0, 1) EXCEPT !.month = {1}])
  BY <1>2, <1>4 DEF InBounds, OnDom, Expr
<1> QED
  BY <1>1, <1>3, <1>4, <1>5 DEF Shortcuts, Words

Units == {"second", "minute", "hour"}

LEMMA EveryInBounds ==
    ASSUME NEW n \in Nat, NEW unit \in Units
    PROVE  InBounds(Every(n)[unit])
<1>1. 0 \in Minutes /\ 0 \in Hours /\ 0 \in Seconds
  BY DEF Minutes, Hours, Seconds
<1>2. InBounds(Daily(Step(n, Seconds), Minutes, Hours))
  BY DailyInBounds DEF Step
<1>3. InBounds(Daily({0}, Step(n, Minutes), Hours))
  BY <1>1, DailyInBounds DEF Step
<1>4. InBounds(Daily({0}, {0}, Step(n, Hours)))
  BY <1>1, DailyInBounds DEF Step
<1> QED
  BY <1>2, <1>3, <1>4 DEF Every, Units

LEMMA DayNamesInBounds == \A d \in DOMAIN DayNames : DayNames[d] \in Dows
BY DEF DayNames, Dows

-----------------------------------------------------------------------------
\* translate leaves the cron parser nothing to refuse.
LEMMA TranslateInBounds ==
    ASSUME NEW s, s.form \in {"word", "each", "count", "at"}, NEW e \in Translate(s)
    PROVE  InBounds(e)
<1>1. CASE s.form = "word"
  BY <1>1, ShortcutsInBounds DEF Translate, Word
<1>2. ASSUME NEW n, NEW unit, e \in Interval(n, unit) PROVE InBounds(e)
  <2>1. unit \in Units /\ n \in 1 .. MaxCount[unit] /\ e = Every(n)[unit]
    BY <1>2 DEF Interval, MaxCount, Units
  <2>2. n \in Nat
    BY <2>1 DEF MaxCount, Units
  <2> QED
    BY <2>1, <2>2, EveryInBounds
<1>3. CASE s.form \in {"each", "count"}
  BY <1>2, <1>3 DEF Translate
<1>4. CASE s.form = "at"
  <2> DEFINE h == Hour(s.time)
             d == s.days
  <2>1. e \in At(d, s.time)
    BY <1>4 DEF Translate
  <2>2. h \in Hours /\ s.time.m \in Minutes
    BY <2>1 DEF At, InDay
  <2>3. CASE d.on = "day"
    BY <2>1, <2>2, <2>3, DailyInBounds DEF At, InDay, Seconds
  <2>4. CASE d.on \in {"weekday", "weekend"}
    <3>1. 1 .. 5 \in SUBSET Dows /\ {0, 6} \in SUBSET Dows
      BY DEF Dows
    <3> QED
      BY <2>1, <2>2, <2>4, <3>1, OnDowsInBounds DEF At, InDay
  <2>5. CASE d.on = "month"
    BY <2>1, <2>2, <2>5, OnDomInBounds DEF At, InDay, Ordinal
  <2>6. CASE d.on \notin {"day", "weekday", "weekend", "month"}
    BY <2>1, <2>2, <2>6, OnDowsInBounds, DayNamesInBounds DEF At, InDay, Named
  <2> QED
    BY <2>3, <2>4, <2>5, <2>6
<1> QED
  BY <1>1, <1>3, <1>4

\* The "internal" errors of HumanParser cannot happen, whatever the user writes
\* in a phrase: any number, any time, any day names.
THEOREM SpecNeverInternalError == TTSpec => []NeverInternalError
<1>1. NeverInternalError
  BY TranslateInBounds DEF NeverInternalError
<1> QED
  BY <1>1, PTL

-----------------------------------------------------------------------------
\* A phrase of a documented form is one that translate understands.

LEMMA WeekIsNamed == UNION {Week[i] : i \in 1 .. 7} \subseteq DOMAIN DayNames
<1>1. \A i \in 1 .. 7 : Week[i] \subseteq DOMAIN DayNames
  BY DEF Week, DayNames
<1> QED
  BY <1>1

\* A time the README calls one is a time of day.
LEMMA MeantIsInDay ==
    ASSUME NEW p \in Phrases, p.form = "at", Documented(p)
    PROVE  InDay(p.time)
<1> DEFINE t == p.time
<1>1. /\ t.half \in {"am", "pm"} => t.h \in 1 .. 12
      /\ MeantTime(t) \in 0 .. 1439 /\ t.m \in Minutes
  BY DEF Documented
<1>2. CASE t \in {Midnight, Noon}
  BY <1>2 DEF InDay, Hour, Midnight, Noon, Hours, Minutes
<1>3. CASE t.half \in {"am", "pm"}
  BY <1>1, <1>3 DEF InDay, Hour, Hours
<1>4. ASSUME t.half = "", t.h \in Int, t.m \in Int PROVE InDay(t)
  <2> DEFINE h == t.h
             m == t.m
  <2>1. /\ t.half # "midnight" /\ t.half # "noon" /\ t.half # "am" /\ t.half # "pm"
        /\ t.half \notin {"am", "pm"}
    BY <1>4
  <2>2. MeantTime(t) = h * 60 + m
    BY <2>1 DEF MeantTime
  <2>3. Hour(t) = h
    BY <2>1 DEF Hour
  <2>4. h \in Int /\ m \in 0 .. 59 /\ h * 60 + m \in 0 .. 1439
    <3>1. MeantTime(t) \in 0 .. 1439
      BY <1>1
    <3>2. h \in Int /\ m \in 0 .. 59
      BY <1>1, <1>4 DEF Minutes
    <3> HIDE DEF h, m, t
    <3> QED
      BY <2>2, <3>1, <3>2
  <2> HIDE DEF h, m
  <2>5. h \in 0 .. 23
    BY <2>4
  <2> QED
    BY <1>1, <2>3, <2>5 DEF InDay, Hours
<1> QED
  BY <1>2, <1>3, <1>4, PhrasesAssumption DEF IsPhrase

LEMMA DocumentedTranslates ==
    ASSUME NEW p \in Phrases, Documented(p)
    PROVE  Translate(p) # {}
<1>1. CASE p.form = "word"
  BY <1>1, ShortcutsInBounds DEF Documented, Translate, Word, Words
<1>2. CASE p.form = "each"
  BY <1>2 DEF Documented, Translate, Interval, MaxCount
<1>3. CASE p.form = "count"
  <2>1. p.unit \in Units /\ p.n \in 1 .. (CycleSeconds[p.unit] \div UnitSeconds[p.unit]) - 1
    BY <1>3 DEF Documented, CycleSeconds, Units
  <2>2. \A u \in Units : (CycleSeconds[u] \div UnitSeconds[u]) - 1 = MaxCount[u]
    BY DEF Units, CycleSeconds, UnitSeconds, MaxCount
  <2>3. Interval(p.n, p.unit) # {}
    BY <2>1, <2>2 DEF Interval, MaxCount, Units
  <2> QED
    BY <1>3, <2>3 DEF Translate
<1>4. CASE p.form = "at"
  <2> DEFINE d == p.days
  <2>1. InDay(p.time)
    BY <1>4, MeantIsInDay
  <2>2. CASE d.on = "month"
    <3>1. d.nth \in Doms
      BY <1>4, <2>2 DEF Documented
    <3> QED
      BY <1>4, <2>1, <2>2, <3>1 DEF Translate, At, Ordinal
  <2>3. CASE d.on = "names"
    <3>1. d.names \subseteq DOMAIN DayNames
      BY <1>4, <2>3, WeekIsNamed DEF Documented
    <3> QED
      BY <1>4, <2>1, <2>3, <3>1 DEF Translate, At, Named
  <2>4. CASE d.on \in {"day", "weekday", "weekend"}
    BY <1>4, <2>1, <2>4 DEF Translate, At
  <2> QED
    BY <1>4, <2>2, <2>3, <2>4, PhrasesAssumption DEF IsPhrase
<1> QED
  BY <1>1, <1>2, <1>3, <1>4, PhrasesAssumption DEF IsPhrase

LEMMA DocumentedParses ==
    ASSUME NEW p \in Phrases, Documented(p)
    PROVE  Parse(p) # {}
<1>1. p.form \in {"word", "each", "count", "at"}
  BY PhrasesAssumption DEF IsPhrase
<1>2. PICK e \in Translate(p) : InBounds(e)
  BY <1>1, DocumentedTranslates, TranslateInBounds
<1> QED
  BY <1>1, <1>2 DEF Parse

\* The daemon starts from every phrase of a documented form, whatever the values
\* in it, and never gives up on the schedule of an imported file.
THEOREM SpecRejectedIsUndocumented == TTSpec => []RejectedIsUndocumented
<1>1. TTInit => RejectedIsUndocumented
  BY DEF TTInit, ImportInit, RejectedIsUndocumented
<1>2. RejectedIsUndocumented /\ [TTNext]_ttVars => RejectedIsUndocumented'
  <2> SUFFICES ASSUME RejectedIsUndocumented, [TTNext]_ttVars
               PROVE  RejectedIsUndocumented'
    OBVIOUS
  <2>1. CASE ImportNext /\ UNCHANGED <<job, at, fires>>
    <3>1. phase' # "rejected"
      BY <2>1 DEF ImportNext, ReadLine, EndOfCrontab, ReadFails
    <3> QED
      BY <3>1 DEF RejectedIsUndocumented
  <2>2. ASSUME NEW i \in JobNumbers, NEW k \in DOMAIN file.jobs, FollowImported(i, k)
        PROVE  RejectedIsUndocumented'
    <3>1. Resolve(file, k) \in Resolved(file)
      BY DEF Resolved
    <3>2. Resolve(file, k).schedule = file.jobs[k].schedule
      BY DEF Resolve
    <3>3. Parse(file.jobs[k].schedule) # {}
      BY <2>2, <3>1, <3>2 DEF FollowImported
    <3>4. phase' = "following"
      BY <2>2, <3>3 DEF FollowImported, Follow
    <3> QED
      BY <3>4 DEF RejectedIsUndocumented
  <2>3. ASSUME NEW p \in Phrases, FollowPhrase(p) PROVE RejectedIsUndocumented'
    <3>1. job'.written = p /\ (phase' = "rejected" => Parse(p) = {})
      BY <2>3 DEF FollowPhrase, Follow
    <3> QED
      BY <3>1, DocumentedParses DEF RejectedIsUndocumented
  <2>4. CASE Fire \/ UNCHANGED ttVars
    BY <2>4 DEF Fire, import, ttVars, RejectedIsUndocumented
  <2> QED
    BY <2>1, <2>2, <2>3, <2>4 DEF TTNext
<1> QED
  BY <1>1, <1>2, PTL DEF TTSpec
-----------------------------------------------------------------------------
\* What has been found in the lines read: an entry for each that is a job, made
\* of one of them, and called by its own number where no line has a name.
LinesRead == lines \in Seq(Lines) /\ Len(lines) <= MaxLines
OnePerJob ==
    /\ entries \in Seq({entries[k] : k \in DOMAIN entries})
    /\ Len(entries) = Cardinality(JobNumbers)
MadeOfLines ==
    \A k \in DOMAIN entries :
        /\ \E i \in JobNumbers : entries[k].schedule = Normalized(lines[i].spec)
        /\ (\A i \in JobNumbers : lines[i].name = {}) => entries[k].name = Numbered[k]
FoundInv ==
    /\ LinesRead /\ OnePerJob /\ MadeOfLines
    /\ phase = "written" => file = Rendering /\ entries # <<>>

\* There are no more lines with a job than lines.
LEMMA JobNumbersFinite ==
    ASSUME LinesRead
    PROVE  IsFiniteSet(JobNumbers) /\ Cardinality(JobNumbers) <= Len(lines)
<1>1. Len(lines) \in Nat /\ DOMAIN lines = 1 .. Len(lines)
  BY DEF LinesRead
<1>2. IsFiniteSet(1 .. Len(lines)) /\ Cardinality(1 .. Len(lines)) = Len(lines)
  <2> DEFINE n == Len(lines)
  <2> HIDE DEF n
  <2>1. n \in Nat
    BY <1>1 DEF n
  <2>2. /\ IsFiniteSet(1 .. n)
        /\ Cardinality(1 .. n) = IF 1 > n THEN 0 ELSE n - 1 + 1
    BY <2>1, FS_Interval
  <2> QED
    BY <2>1, <2>2 DEF n
<1>3. JobNumbers \in SUBSET (1 .. Len(lines))
  BY <1>1 DEF JobNumbers
<1> QED
  BY <1>2, <1>3, FS_Subset

\* The lines after one more has been read.
LEMMA ReadNumbers ==
    ASSUME FoundInv, NEW l \in Lines, ReadLine(l)
    PROVE  LET n == Len(lines)
           IN  /\ n \in Nat /\ n < MaxLines /\ MaxLines \in Nat
               /\ lines' \in Seq(Lines) /\ Len(lines') = n + 1
               /\ lines'[n + 1] = l /\ \A i \in 1 .. n : lines'[i] = lines[i]
               /\ JobNumbers \subseteq 1 .. n /\ n + 1 \notin JobNumbers
               /\ JobNumbers' = IF IsJob(l) THEN JobNumbers \cup {n + 1} ELSE JobNumbers
<1> DEFINE n == Len(lines)
<1>1. n \in Nat /\ lines' = Append(lines, l) /\ n < MaxLines /\ MaxLines \in Nat
  BY NumberedAssumption DEF ReadLine, FoundInv
<1>2. lines' \in Seq(Lines) /\ Len(lines') = n + 1 /\ DOMAIN lines' = 1 .. n + 1
  BY <1>1 DEF FoundInv, LinesRead, OnePerJob, MadeOfLines
<1>3. lines'[n + 1] = l /\ DOMAIN lines = 1 .. n /\ \A i \in 1 .. n : lines'[i] = lines[i]
  BY <1>1 DEF FoundInv, LinesRead, OnePerJob, MadeOfLines
<1>4. JobNumbers \subseteq 1 .. n /\ n + 1 \notin JobNumbers
  BY <1>1, <1>3 DEF JobNumbers
<1>5. JobNumbers' = IF IsJob(l) THEN JobNumbers \cup {n + 1} ELSE JobNumbers
  <2>1. \A i \in 1 .. n + 1 : i \in 1 .. n \/ i = n + 1
    BY <1>1
  <2>2. JobNumbers' = {i \in 1 .. n + 1 : IsJob(lines'[i])}
    BY <1>2 DEF JobNumbers
  <2>3. \A i \in 1 .. n : i \in 1 .. n + 1 /\ (IsJob(lines'[i]) <=> IsJob(lines[i]))
    BY <1>1, <1>3
  <2>4. n + 1 \in 1 .. n + 1 /\ (IsJob(lines'[n + 1]) <=> IsJob(l))
    BY <1>1, <1>3
  <2>5. JobNumbers = {i \in 1 .. n : IsJob(lines[i])}
    BY <1>3 DEF JobNumbers
  <2> QED
    BY <2>1, <2>2, <2>3, <2>4, <2>5
<1> QED
  BY <1>1, <1>2, <1>3, <1>4, <1>5

\* One more line: an entry more if it is a job, which is the line's.
LEMMA ReadFound ==
    ASSUME FoundInv, NEW l \in Lines, ReadLine(l)
    PROVE  FoundInv'
<1> DEFINE n == Len(lines)
<1>1. n \in Nat /\ n < MaxLines /\ MaxLines \in Nat
  BY ReadNumbers
<1>2. lines' \in Seq(Lines) /\ Len(lines') = n + 1
  BY ReadNumbers
<1>3. lines'[n + 1] = l /\ \A i \in 1 .. n : lines'[i] = lines[i]
  BY ReadNumbers
<1>4. JobNumbers \subseteq 1 .. n /\ n + 1 \notin JobNumbers
  BY ReadNumbers
<1>5. JobNumbers' = IF IsJob(l) THEN JobNumbers \cup {n + 1} ELSE JobNumbers
  BY ReadNumbers
<1>6. phase' # "written" /\ UNCHANGED file
  BY DEF ReadLine
<1>7. IsFiniteSet(JobNumbers)
  BY JobNumbersFinite DEF FoundInv
<1> HIDE DEF n
<1>8. \A i \in JobNumbers : lines'[i] = lines[i]
  BY <1>3, <1>4
<1>9. LinesRead'
  BY <1>1, <1>2 DEF LinesRead
<1>10. CASE ~ IsJob(l)
  <2>1. entries' = entries /\ JobNumbers' = JobNumbers
    BY <1>5, <1>10 DEF ReadLine, Entries
  <2>2. \A k \in DOMAIN entries :
           /\ \E i \in JobNumbers : entries[k].schedule = Normalized(lines'[i].spec)
           /\ (\A i \in JobNumbers : lines'[i].name = {}) => entries[k].name = Numbered[k]
    BY <1>8 DEF FoundInv, LinesRead, OnePerJob, MadeOfLines
  <2>3. OnePerJob' /\ MadeOfLines'
    BY <2>1, <2>2 DEF FoundInv, OnePerJob, MadeOfLines
  <2> QED
    BY <1>6, <1>9, <2>3 DEF FoundInv
<1>11. CASE IsJob(l)
  <2> DEFINE m == Len(entries)
             e == [name |-> CHOOSE x \in Overlay({Numbered[m + 1]}, l.name) : TRUE,
                   schedule |-> Normalized(l.spec)]
             S == {entries[k] : k \in DOMAIN entries}
  <2>1. entries' = Append(entries, e) /\ JobNumbers' = JobNumbers \cup {n + 1}
    BY <1>5, <1>11 DEF ReadLine, Entries
  <2>2. e.schedule = Normalized(l.spec) /\ (l.name = {} => e.name = Numbered[m + 1])
    BY DEF Overlay
  <2> HIDE DEF e
  <2>3. entries \in Seq(S \cup {e}) /\ m \in Nat /\ DOMAIN entries = 1 .. m
    BY SeqMonotonic DEF FoundInv, LinesRead, OnePerJob, MadeOfLines
  <2> HIDE DEF S
  <2>4. /\ DOMAIN entries' = 1 .. m + 1 /\ Len(entries') = m + 1
        /\ entries'[m + 1] = e /\ \A k \in 1 .. m : entries'[k] = entries[k]
        /\ entries' \in Seq(S \cup {e})
    BY <2>1, <2>3
  <2>5. entries' \in Seq({entries'[k] : k \in DOMAIN entries'})
    BY <2>4
  <2>6. Len(entries') = Cardinality(JobNumbers')
    BY <1>4, <1>7, <2>1, <2>4, FS_AddElement DEF FoundInv, LinesRead, OnePerJob, MadeOfLines
  <2>7. ASSUME NEW k \in 1 .. m + 1
        PROVE  /\ \E i \in JobNumbers' : entries'[k].schedule = Normalized(lines'[i].spec)
               /\ (\A i \in JobNumbers' : lines'[i].name = {}) => entries'[k].name = Numbered[k]
    <3>1. CASE k = m + 1
      <4>1. n + 1 \in JobNumbers' /\ lines'[n + 1] = l /\ entries'[k] = e
        BY <1>3, <2>1, <2>4, <3>1
      <4> QED
        BY <2>2, <3>1, <4>1
    <3>2. CASE k \in 1 .. m
      <4>1. entries'[k] = entries[k] /\ JobNumbers \subseteq JobNumbers'
        BY <2>1, <2>4, <3>2
      <4> QED
        BY <1>8, <2>3, <3>2, <4>1 DEF FoundInv, LinesRead, OnePerJob, MadeOfLines
    <3> QED
      BY <2>3, <3>1, <3>2
  <2>8. OnePerJob'
    BY <2>5, <2>6 DEF OnePerJob
  <2>9. MadeOfLines'
    BY <2>4, <2>7 DEF MadeOfLines
  <2> QED
    BY <1>6, <1>9, <2>8, <2>9 DEF FoundInv
<1> QED
  BY <1>10, <1>11

\* What has been found does not change with the phase and the file.
LEMMA SameFound ==
    ASSUME FoundInv, UNCHANGED <<lines, entries>>
    PROVE  LinesRead' /\ OnePerJob' /\ MadeOfLines'
<1>1. JobNumbers' = JobNumbers
  BY DEF JobNumbers
<1>2. LinesRead' /\ OnePerJob'
  BY <1>1 DEF FoundInv, LinesRead, OnePerJob
<1>3. MadeOfLines'
  BY <1>1 DEF FoundInv, MadeOfLines
<1> QED
  BY <1>2, <1>3

\* FoundInv is inductive.
LEMMA NextFound == FoundInv /\ [TTNext]_ttVars => FoundInv'
<1> SUFFICES ASSUME FoundInv, [TTNext]_ttVars PROVE FoundInv'
  OBVIOUS
<1>1. ASSUME NEW l \in Lines, ReadLine(l) PROVE FoundInv'
  BY <1>1, ReadFound
<1>2. CASE EndOfCrontab \/ ReadFails
  <2>1. UNCHANGED <<lines, entries, timezone>>
    BY <1>2 DEF EndOfCrontab, ReadFails
  <2>2. phase' = "written" => file' = Rendering' /\ entries' # <<>>
    BY <1>2, <2>1 DEF EndOfCrontab, ReadFails, Rendering
  <2> QED
    BY <2>1, <2>2, SameFound DEF FoundInv
<1>3. ASSUME NEW written, NEW schedule, NEW policy, Follow(written, schedule, policy)
      PROVE  FoundInv'
  <2>1. lines' = <<>> /\ entries' = <<>> /\ phase' # "written"
    BY <1>3 DEF Follow
  <2>2. JobNumbers' = {}
    BY <2>1 DEF JobNumbers
  <2>3. LinesRead'
    BY <2>1, NumberedAssumption DEF LinesRead
  <2>4. OnePerJob' /\ MadeOfLines'
    BY <2>1, <2>2, FS_EmptySet DEF OnePerJob, MadeOfLines
  <2> QED
    BY <2>1, <2>3, <2>4 DEF FoundInv
<1>4. CASE Fire \/ UNCHANGED ttVars
  <2>1. UNCHANGED import
    BY <1>4 DEF Fire, ttVars, import
  <2>2. UNCHANGED <<lines, entries, timezone, phase, file>>
    BY <2>1 DEF import
  <2>3. phase' = "written" => file' = Rendering' /\ entries' # <<>>
    BY <2>2 DEF FoundInv, Rendering
  <2> QED
    BY <2>2, <2>3, SameFound DEF FoundInv
<1> QED
  BY <1>1, <1>2, <1>3, <1>4 DEF TTNext, ImportNext, FollowImported, FollowPhrase

\* The lines with a job up to the i-th: the i-th made the last of their entries.
UpTo(i) == {m \in JobNumbers : m <= i}

InOrder ==
    \A i \in JobNumbers :
        /\ Cardinality(UpTo(i)) \in DOMAIN entries
        /\ entries[Cardinality(UpTo(i))].schedule = Normalized(lines[i].spec)

\* The entry of a new line is the last; the others keep their numbers.
LEMMA ReadInOrder ==
    ASSUME FoundInv, InOrder, NEW l \in Lines, ReadLine(l)
    PROVE  InOrder'
<1> DEFINE n == Len(lines)
           m == Len(entries)
<1>1. /\ n \in Nat /\ JobNumbers \subseteq 1 .. n
      /\ lines'[n + 1] = l /\ \A i \in 1 .. n : lines'[i] = lines[i]
      /\ JobNumbers' = IF IsJob(l) THEN JobNumbers \cup {n + 1} ELSE JobNumbers
  BY ReadNumbers
<1>2. m \in Nat /\ DOMAIN entries = 1 .. m
  BY DEF FoundInv, OnePerJob
<1> HIDE DEF n
<1>3. ASSUME NEW i \in JobNumbers
      PROVE  UpTo(i)' = UpTo(i) /\ lines'[i] = lines[i]
  BY <1>1 DEF UpTo
<1>4. CASE ~ IsJob(l)
  <2>1. entries' = entries /\ JobNumbers' = JobNumbers
    BY <1>1, <1>4 DEF ReadLine, Entries
  <2>2. \A i \in JobNumbers :
           /\ Cardinality(UpTo(i)') \in DOMAIN entries
           /\ entries[Cardinality(UpTo(i)')].schedule = Normalized(lines'[i].spec)
    BY <1>3 DEF InOrder
  <2> QED
    BY <2>1, <2>2 DEF InOrder
<1>5. CASE IsJob(l)
  <2> DEFINE e == [name |-> CHOOSE x \in Overlay({Numbered[m + 1]}, l.name) : TRUE,
                   schedule |-> Normalized(l.spec)]
  <2>1. entries' = Append(entries, e) /\ JobNumbers' = JobNumbers \cup {n + 1}
    BY <1>1, <1>5 DEF ReadLine, Entries
  <2>2. e.schedule = Normalized(l.spec)
    OBVIOUS
  <2> HIDE DEF e
  <2>3. /\ DOMAIN entries' = 1 .. m + 1 /\ Len(entries') = m + 1
        /\ entries'[m + 1] = e /\ \A k \in 1 .. m : entries'[k] = entries[k]
    BY <1>2, <2>1 DEF FoundInv, OnePerJob
  <2>4. Cardinality(JobNumbers') = m + 1
    <3>1. FoundInv'
      BY ReadFound
    <3> QED
      BY <2>3, <3>1 DEF FoundInv, OnePerJob
  <2>5. ASSUME NEW i, i = n + 1 PROVE UpTo(i)' = JobNumbers'
    <3>1. \A q \in JobNumbers' : q <= i
      <4>1. \A q \in JobNumbers : q <= n + 1
        <5>1. n \in Nat /\ \A q \in JobNumbers : q \in 1 .. n
          BY <1>1
        <5> QED
          BY ONLY <5>1
      <4>2. \A q \in JobNumbers' : q \in JobNumbers \/ q = n + 1
        BY <2>1
      <4> QED
        BY <1>1, <2>5, <4>1, <4>2
    <3>2. UpTo(i)' = {q \in JobNumbers' : q <= i}
      BY DEF UpTo
    <3> QED
      BY <3>1, <3>2
  <2> HIDE DEF m
  <2>6. ASSUME NEW i \in JobNumbers
        PROVE  /\ Cardinality(UpTo(i)') \in 1 .. m + 1
               /\ entries'[Cardinality(UpTo(i)')].schedule = Normalized(lines'[i].spec)
    <3>1. Cardinality(UpTo(i)) \in 1 .. m
          /\ entries[Cardinality(UpTo(i))].schedule = Normalized(lines[i].spec)
      BY <1>2 DEF InOrder
    <3> QED
      BY <1>2, <1>3, <2>3, <3>1
  <2>7. ASSUME NEW i, i = n + 1
        PROVE  /\ Cardinality(UpTo(i)') \in 1 .. m + 1
               /\ entries'[Cardinality(UpTo(i)')].schedule = Normalized(lines'[i].spec)
    <3>1. Cardinality(UpTo(i)') = m + 1 /\ lines'[i] = l
      BY <1>1, <2>4, <2>5, <2>7
    <3> QED
      BY <1>2, <2>2, <2>3, <3>1
  <2> QED
    BY <2>1, <2>3, <2>6, <2>7 DEF InOrder
<1> QED
  BY <1>4, <1>5

\* InOrder is inductive, beside FoundInv.
LEMMA NextInOrder == FoundInv /\ InOrder /\ [TTNext]_ttVars => InOrder'
<1> SUFFICES ASSUME FoundInv, InOrder, [TTNext]_ttVars PROVE InOrder'
  OBVIOUS
<1>1. ASSUME UNCHANGED <<lines, entries>> PROVE InOrder'
  <2>1. JobNumbers' = JobNumbers
    BY <1>1 DEF JobNumbers
  <2>2. \A i \in JobNumbers : UpTo(i)' = UpTo(i)
    BY <2>1 DEF UpTo
  <2> QED
    BY <1>1, <2>1, <2>2 DEF InOrder
<1>2. ASSUME lines' = <<>> PROVE InOrder'
  BY <1>2 DEF InOrder, JobNumbers
<1>3. ASSUME NEW l \in Lines, ReadLine(l) PROVE InOrder'
  BY <1>3, ReadInOrder
<1>4. CASE EndOfCrontab \/ ReadFails \/ Fire \/ UNCHANGED ttVars
  BY <1>1, <1>4 DEF EndOfCrontab, ReadFails, Fire, ttVars, import
<1>5. ASSUME NEW written, NEW schedule, NEW policy, Follow(written, schedule, policy)
      PROVE  InOrder'
  BY <1>2, <1>5 DEF Follow
<1> QED
  BY <1>3, <1>4, <1>5 DEF TTNext, ImportNext, FollowImported, FollowPhrase

\* What an @-shortcut of crontab is taken for, the parser takes.
LEMMA NormalizedParses ==
    ASSUME NEW l \in Lines, IsJob(l), l.spec.form # "@" => l.spec \in GoodSchedules
    PROVE  Normalized(l.spec) \in GoodSchedules
<1>1. CASE l.spec.form # "@"
  BY <1>1 DEF Normalized
<1>2. CASE l.spec.form = "@"
  <2> DEFINE w == l.spec.word
             e == CronShortcuts[w]
             s == [form |-> "cron", expr |-> e]
  <2>1. w \in Words \cup {"midnight"} /\ Words = DOMAIN Shortcuts
    BY <1>2 DEF IsJob, CronShortcuts, Shortcuts, Words
  <2>2. \E v \in Words : e = Shortcuts[v]
    BY <2>1 DEF CronShortcuts, Words
  <2> HIDE DEF w, e
  <2>3. InBounds(e)
    BY <2>2, ShortcutsInBounds
  <2>4. e \in Parse(s)
    BY <2>3 DEF Parse
  <2>5. Normalized(l.spec) = s
    BY <1>2 DEF Normalized, e, w
  <2> QED
    BY <2>4, <2>5, LinesAssumption
<1> QED
  BY <1>1, <1>2

\* As many jobs as entries, where no name is given twice.
LEMMA OneJobEach ==
    ASSUME NEW t, NEW n \in Nat, DOMAIN t.jobs = 1 .. n, UniqueNames(t)
    PROVE  Cardinality(Resolved(t)) = n
<1> DEFINE f == [i \in 1 .. n |-> Resolve(t, i)]
<1>1. \A i \in 1 .. n : Resolve(t, i).name = t.jobs[i].name
  BY DEF Resolve
<1>2. \A i, k \in 1 .. n : Resolve(t, i) = Resolve(t, k) => i = k
  BY <1>1 DEF UniqueNames
<1>3. Resolved(t) = {Resolve(t, i) : i \in 1 .. n}
  BY DEF Resolved
<1>4. f \in Bijection(1 .. n, Resolved(t))
  <2>1. f \in [1 .. n -> Resolved(t)] /\ \A r \in Resolved(t) : \E i \in 1 .. n : f[i] = r
    BY <1>3
  <2>2. \A i, k \in 1 .. n : f[i] = f[k] => i = k
    BY <1>2
  <2> HIDE DEF f
  <2> QED
    BY <2>1, <2>2 DEF Bijection, Injection, Surjection, IsInjective
<1>5. IsFiniteSet(1 .. n) /\ Cardinality(1 .. n) = n
  <2>1. /\ IsFiniteSet(1 .. n)
        /\ Cardinality(1 .. n) = IF 1 > n THEN 0 ELSE n - 1 + 1
    BY FS_Interval
  <2> QED
    BY <2>1
<1> QED
  BY <1>4, <1>5, FS_Bijection DEF ExistsBijection

LEMMA InitFound == TTInit => FoundInv
<1> SUFFICES ASSUME TTInit PROVE FoundInv
  OBVIOUS
<1>1. lines = <<>> /\ entries = <<>> /\ phase # "written"
  BY DEF TTInit, ImportInit
<1>2. JobNumbers = {}
  BY <1>1 DEF JobNumbers
<1>3. LinesRead
  BY <1>1, NumberedAssumption DEF LinesRead
<1>4. OnePerJob /\ MadeOfLines
  BY <1>1, <1>2, FS_EmptySet DEF OnePerJob, MadeOfLines
<1> QED
  BY <1>1, <1>3, <1>4 DEF FoundInv

\* crontab.go:3-4: a crontab of lines without name comments, whatever their
\* number, order and other content, is imported as a file from which the daemon
\* starts, with one job for each entry, provided that the parser takes the
\* fields and the time zone exists.
THEOREM SpecImportStarts == TTSpec => []ImportStarts
<1>1. FoundInv => ImportStarts
  <2> SUFFICES ASSUME FoundInv, phase = "written", timezone \subseteq GoodPolicies,
                      \A i \in JobNumbers :
                         /\ lines[i].name = {}
                         /\ lines[i].spec.form # "@" => lines[i].spec \in GoodSchedules
               PROVE  /\ Loads(file)
                      /\ \A r \in Resolved(file) : r.schedule \in GoodSchedules
                      /\ Cardinality(Resolved(file)) = Cardinality(JobNumbers)
    BY DEF ImportStarts
  <2> DEFINE n == Len(entries)
             js == [i \in DOMAIN entries |->
                       Entry(entries[i].name, entries[i].schedule, NoLayer)]
  <2>1. n \in Nat /\ DOMAIN entries = 1 .. n /\ n = Cardinality(JobNumbers) /\ n > 0
    <3>1. n \in Nat /\ DOMAIN entries = 1 .. n /\ n = Cardinality(JobNumbers)
      BY DEF FoundInv, OnePerJob
    <3>2. n # 0
      BY EmptySeq DEF FoundInv, OnePerJob
    <3> QED
      BY <3>1, <3>2
  <2>2. n <= Len(Numbered) /\ DOMAIN Numbered = 1 .. Len(Numbered)
    <3>1. n <= Len(lines) /\ Len(lines) <= MaxLines /\ Len(lines) \in Nat
      BY <2>1, JobNumbersFinite DEF FoundInv, LinesRead
    <3> QED
      BY <2>1, <3>1, NumberedAssumption
  <2>3. file = [form |-> "toml", version |-> TRUE, defaults |-> Layer(timezone, {}),
                declared |-> {}, jobs |-> js, comments |-> TRUE]
    BY DEF FoundInv, Rendering, Text
  <2>4. \A k \in 1 .. n : js[k] = Entry(Numbered[k], entries[k].schedule, NoLayer)
    BY <2>1 DEF FoundInv, MadeOfLines
  <2>5. \A k \in 1 .. n : entries[k].schedule \in GoodSchedules
    <3> SUFFICES ASSUME NEW k \in 1 .. n PROVE entries[k].schedule \in GoodSchedules
      OBVIOUS
    <3>1. PICK i \in JobNumbers : entries[k].schedule = Normalized(lines[i].spec)
      BY <2>1 DEF FoundInv, MadeOfLines
    <3>2. lines[i] \in Lines /\ IsJob(lines[i])
      BY DEF JobNumbers, FoundInv, LinesRead
    <3> QED
      BY <3>1, <3>2, NormalizedParses
  <2> DEFINE d == Layer(timezone, {})
  <2>6. DOMAIN js = 1 .. n /\ Len(js) = n
    BY <2>1
  <2> HIDE DEF n, js
  <2>7. /\ file.form = "toml" /\ file.version /\ file.declared = {} /\ file.jobs = js
        /\ file.defaults.policy = timezone /\ file.defaults.notify = {}
    BY <2>3 DEF Layer
  <2>8. ASSUME NEW k \in 1 .. n
        PROVE  /\ js[k].name = Numbered[k] /\ js[k].schedule \in GoodSchedules
               /\ js[k].layer.policy = {} /\ js[k].layer.notify = {}
    <3>1. js[k] = [name |-> Numbered[k], schedule |-> entries[k].schedule, layer |-> NoLayer]
      BY <2>4 DEF Entry
    <3>2. NoLayer.policy = {} /\ NoLayer.notify = {}
      BY DEF NoLayer, Layer
    <3> QED
      BY <2>5, <3>1, <3>2
  <2>9. UniqueNames(file)
    BY <2>1, <2>2, <2>6, <2>7, <2>8, NumberedAssumption DEF UniqueNames
  <2>10. ASSUME NEW k \in 1 .. n
         PROVE  Resolve(file, k).notify = {Log} /\ Resolve(file, k).schedule \in GoodSchedules
    <3>1. Resolve(file, k).notify = UNION Overlay(Overlay({{Log}}, {}), {})
      BY <2>7, <2>8 DEF Resolve
    <3>2. Overlay(Overlay({{Log}}, {}), {}) = {{Log}}
      BY DEF Overlay
    <3>3. Resolve(file, k).schedule = js[k].schedule
      BY <2>7 DEF Resolve
    <3> QED
      BY <2>8, <3>1, <3>2, <3>3
  <2>11. Loads(file)
    <3>1. Len(file.jobs) > 0 /\ DOMAIN file.jobs = 1 .. n
      BY <2>1, <2>6, <2>7
    <3>2. \A k \in 1 .. n :
             /\ file.jobs[k].schedule # NoSchedule
             /\ file.jobs[k].layer.policy \subseteq GoodPolicies
             /\ Resolve(file, k).notify \subseteq file.declared \cup {Log}
      BY <2>7, <2>8, <2>10, TextsAssumption
    <3> QED
      BY <2>7, <2>9, <3>1, <3>2 DEF Loads
  <2>12. \A r \in Resolved(file) : r.schedule \in GoodSchedules
    BY <2>6, <2>7, <2>10 DEF Resolved
  <2>13. Cardinality(Resolved(file)) = n
    BY <2>1, <2>6, <2>7, <2>9, OneJobEach
  <2> QED
    BY <2>1, <2>11, <2>12, <2>13
<1> QED
  BY <1>1, InitFound, NextFound, PTL DEF TTSpec

-----------------------------------------------------------------------------
\* "every N units", from any instant on.

\* The least number of a set, if it is known; and that there is one.
LEMMA MinIs ==
    ASSUME NEW S \in SUBSET Int, NEW m \in S, \A y \in S : m <= y
    PROVE  Min(S) = m
<1>1. \A x \in S : (\A y \in S : x <= y) => x = m
  OBVIOUS
<1> QED
  BY <1>1 DEF Min

LEMMA MinExists ==
    ASSUME NEW S \in SUBSET Nat, S # {}
    PROVE  Min(S) \in S /\ \A y \in S : Min(S) <= y
<1>1. PICK x \in S : \A y \in S : ~ (<<y, x>> \in OpToRel(<, Nat))
  BY NatLessThanWellFounded, WFMin
<1>2. \A y \in S : ~ (y < x)
  BY <1>1 DEF OpToRel
<1>3. x \in S /\ \A y \in S : x <= y
  BY <1>2
<1> QED
  BY <1>3 DEF Min

\* Division with a small divisor, as a sum.
LEMMA Multiple ==
    ASSUME NEW n \in 1 .. 59, NEW k \in 0 .. 60
    PROVE  /\ k % n \in 0 .. n - 1
           /\ \E q \in 0 .. 60 : k = q * n + (k % n)
<1> DEFINE q == k \div n
<1>1. k % n \in 0 .. n - 1
  OBVIOUS
<1>2. q \in Int /\ k = n * q + (k % n)
  OBVIOUS
<1>3. q \in 0 .. 60
  OBVIOUS
<1> HIDE DEF q
<1>4. n * q = q * n
  BY <1>3
<1> QED
  BY <1>1, <1>2, <1>3, <1>4

\* The first multiple of n after k is that of k's own, plus n.
LEMMA NextMultiple ==
    ASSUME NEW n \in 1 .. 59, NEW k \in 0 .. 60, NEW g \in 0 .. 60, g % n = 0, g > k
    PROVE  g >= k - (k % n) + n
<1>1. PICK q \in 0 .. 60 : k = q * n + (k % n)
  BY Multiple
<1>2. PICK p \in 0 .. 60 : g = p * n + (g % n)
  BY Multiple
<1> DEFINE r == k % n
<1>3. r \in 0 .. n - 1 /\ k = q * n + r
  BY <1>1, Multiple
<1>4. g = p * n
  BY <1>2
<1> HIDE DEF r
<1>5. p > q
  <2> SUFFICES ASSUME p <= q PROVE FALSE
    OBVIOUS
  <2>1. p * n <= q * n
    OBVIOUS
  <2> QED
    BY <1>3, <1>4, <2>1
<1>6. p * n >= (q + 1) * n
  BY <1>5
<1>7. (q + 1) * n = q * n + n
  OBVIOUS
<1>8. g >= k - r + n
  BY <1>3, <1>4, <1>6, <1>7
<1> QED
  BY <1>8 DEF r

\* The value after k that a field of p values has, p standing for its turn.
After(n, k, p) == LET g == k - (k % n) + n IN IF g < p THEN g ELSE p

IsAfter(n, k, p, a) ==
    /\ a \in k + 1 .. p /\ a - k <= n
    /\ a < p => a \in Step(n, 0 .. p - 1)
    /\ \A y \in Step(n, 0 .. p - 1) : y > k => a <= y
    /\ k % n = 0 /\ a - k < n => a = p /\ p % n # 0

\* After(n, k, p) is the next value of a field that "*/n" matches, or p.
LEMMA AfterStep ==
    ASSUME NEW p \in {24, 60}, NEW n \in 1 .. p - 1, NEW k \in 0 .. p - 1
    PROVE  IsAfter(n, k, p, After(n, k, p))
<1> DEFINE r == k % n
           g == k - r + n
<1>1. r \in 0 .. n - 1
  BY Multiple
<1>2. g % n = 0
  <2>1. PICK q \in 0 .. 60 : k = q * n + r
    BY Multiple
  <2> HIDE DEF r
  <2>2. g = (q + 1) * n
    BY <1>1, <2>1
  <2>3. ((q + 1) * n) % n = 0
    OBVIOUS
  <2> QED
    BY <2>2, <2>3
<1>3. \A y \in 0 .. p : y % n = 0 /\ y > k => g <= y
  BY NextMultiple
<1>4. After(n, k, p) = IF g < p THEN g ELSE p
  BY DEF After
<1> HIDE DEF r
<1>5. g \in Int /\ g > k /\ g - k <= n /\ (r = 0 => g = k + n)
  BY <1>1
<1> HIDE DEF g
<1>6. g < p => g \in Step(n, 0 .. p - 1)
  BY <1>2, <1>5 DEF Step
<1>7. \A y \in Step(n, 0 .. p - 1) : y \in 0 .. p - 1 /\ (y > k => g <= y)
  BY <1>3 DEF Step
<1>8. r = 0 /\ p < k + n => p % n # 0
  BY <1>3, <1>5
<1> DEFINE a == After(n, k, p)
<1> HIDE DEF a
<1>9. a = IF g < p THEN g ELSE p
  BY <1>4 DEF a
<1>10. a \in k + 1 .. p /\ a - k <= n
  BY <1>5, <1>9
<1>11. a < p => a \in Step(n, 0 .. p - 1)
  BY <1>6, <1>9
<1>12. \A y \in Step(n, 0 .. p - 1) : y > k => a <= y
  <2> SUFFICES ASSUME NEW y \in Step(n, 0 .. p - 1), y > k PROVE a <= y
    OBVIOUS
  <2> QED
    BY <1>5, <1>7, <1>9
<1>13. r = 0 /\ a - k < n => a = p /\ p % n # 0
  BY <1>5, <1>8, <1>9
<1> QED
  BY <1>10, <1>11, <1>12, <1>13 DEF IsAfter, r, a

\* The fields of a day, and what the first day of a year has.
LEMMA DayFields ==
    ASSUME NEW d \in Nat
    PROVE  /\ MonthOf[d % YearLength] \in Months /\ Dom(d) \in Doms /\ Dow(d) \in Dows
           /\ d % YearLength = 0 <=> MonthOf[d % YearLength] = 1 /\ Dom(d) = 1
<1> DEFINE y == d % YearLength
           mo == MonthOf[y]
<1>1. y \in 0 .. 364
  BY DEF YearLength
<1>2. \E m \in Months : y \in FirstDays[m] .. FirstDays[m + 1] - 1
  BY <1>1 DEF Months, FirstDays
<1>3. Dom(d) = y - FirstDays[mo] + 1
  BY DEF Dom
<1>4. Dow(d) \in Dows
  BY DEF Dow, Dows
<1> HIDE DEF y
<1>5. mo = CHOOSE m \in Months : y \in FirstDays[m] .. FirstDays[m + 1] - 1
  BY <1>1 DEF MonthOf, YearLength
<1>6. mo \in Months /\ y \in FirstDays[mo] .. FirstDays[mo + 1] - 1
  BY <1>2, <1>5
<1> HIDE DEF mo
<1>7. mo \in 1 .. 12
  BY <1>6 DEF Months
<1>8. y - FirstDays[mo] + 1 \in Doms
  BY <1>1, <1>6, <1>7 DEF FirstDays, Doms
<1>9. y = 0 <=> mo = 1 /\ y - FirstDays[mo] + 1 = 1
  BY <1>1, <1>6, <1>7 DEF FirstDays
<1> QED
  BY <1>3, <1>4, <1>6, <1>8, <1>9 DEF y, mo

\* The days and times of the three kinds of expression that translate builds.
LEMMA DailyDue ==
    ASSUME NEW d \in Nat, NEW s, NEW mi, NEW h
    PROVE  OnDay(Daily(s, mi, h), d)
BY DayFields DEF OnDay, Daily, Expr

-----------------------------------------------------------------------------
\* Instants of a day and their hour, minute and second.
LEMMA Split ==
    ASSUME NEW q \in Nat, NEW r \in Nat
    PROVE  /\ r < 60 => (q * 60 + r) \div 60 = q /\ (q * 60 + r) % 60 = r
           /\ r < 3600 => (q * 3600 + r) \div 3600 = q
<1>1. ASSUME r < 60 PROVE (q * 60 + r) \div 60 = q /\ (q * 60 + r) % 60 = r
  BY <1>1
<1>2. ASSUME r < 3600 PROVE (q * 3600 + r) \div 3600 = q
  BY <1>2
<1> QED
  BY <1>1, <1>2

LEMMA PartsTod ==
    ASSUME NEW h \in Hours, NEW mi \in Minutes, NEW s \in Seconds
    PROVE  LET tod == Tod(h, mi, s)
           IN  /\ tod \in Nat /\ tod < 86400
               /\ tod \div 3600 = h /\ (tod \div 60) % 60 = mi /\ tod % 60 = s
<1> DEFINE m == h * 60 + mi
           r == mi * 60 + s
           tod == Tod(h, mi, s)
<1>1. h \in 0 .. 23 /\ mi \in 0 .. 59 /\ s \in 0 .. 59
  BY DEF Hours, Minutes, Seconds
<1>2. tod = m * 60 + s /\ tod = h * 3600 + r /\ m \in Nat /\ r \in Nat /\ r < 3600
  BY <1>1 DEF Tod
<1>3. tod \in Nat /\ tod < 86400
  BY <1>1 DEF Tod
<1>4. m % 60 = mi
  BY <1>1, Split
<1> HIDE DEF tod, m, r
<1>5. tod \div 60 = m /\ tod % 60 = s /\ tod \div 3600 = h
  BY <1>1, <1>2, Split
<1> QED
  BY <1>3, <1>4, <1>5 DEF tod

LEMMA TodParts ==
    ASSUME NEW tod \in Nat, tod < 86400
    PROVE  \E h \in Hours, mi \in Minutes, s \in Seconds : tod = Tod(h, mi, s)
<1> DEFINE m == tod \div 60
           s == tod % 60
           h == m \div 60
           mi == m % 60
<1>1. m \in Nat /\ m < 1440 /\ s \in 0 .. 59 /\ tod = m * 60 + s
  OBVIOUS
<1> HIDE DEF m, s
<1>2. h \in 0 .. 23 /\ mi \in 0 .. 59 /\ m = h * 60 + mi
  BY <1>1
<1> HIDE DEF h, mi
<1>3. tod = Tod(h, mi, s) /\ h \in Hours /\ mi \in Minutes /\ s \in Seconds
  BY <1>1, <1>2 DEF Tod, Hours, Minutes, Seconds
<1> QED
  BY <1>3

\* What comes after an instant, for an expression that is due on every day.
NextOf(x, S, M, H, day, h, mi, s) ==
    /\ \A y \in S : h \in H /\ mi \in M /\ y > s /\ (\A z \in S : z > s => y <= z) =>
          x.day = day /\ x.tod = Tod(h, mi, y)
    /\ ~ (h \in H /\ mi \in M /\ \E z \in S : z > s) =>
          /\ \A y \in M : h \in H /\ y > mi /\ (\A z \in M : z > mi => y <= z) =>
                x.day = day /\ x.tod = Tod(h, y, 0)
          /\ ~ (h \in H /\ \E z \in M : z > mi) =>
                /\ \A y \in H : y > h /\ (\A z \in H : z > h => y <= z) =>
                      x.day = day /\ x.tod = Tod(y, 0, 0)
                /\ ~ (\E z \in H : z > h) => x.day = day + 1 /\ x.tod = 0

\* If every field has its zero, the next time is the next second of this minute
\* that matches; else second 0 of the next minute of this hour; else 0:00 of the
\* next hour of this day; else midnight.
LEMMA Soonest ==
    ASSUME NEW S \in SUBSET Seconds, NEW M \in SUBSET Minutes, NEW H \in SUBSET Hours,
           0 \in S, 0 \in M, 0 \in H,
           NEW h \in Hours, NEW mi \in Minutes, NEW s \in Seconds,
           NEW from, from.day \in Nat, from.tod = Tod(h, mi, s),
           NEW to \in NextAfter(Daily(S, M, H), from)
    PROVE  NextOf(to, S, M, H, from.day, h, mi, s)
<1> DEFINE e == Daily(S, M, H)
           sec == {y \in S : y > s /\ h \in H /\ mi \in M}
           min == {y \in M : y > mi /\ h \in H}
           hour == {y \in H : y > h}
           later == {Tod(h, mi, x) : x \in sec} \cup {Tod(h, x, 0) : x \in min}
                    \cup {Tod(x, 0, 0) : x \in hour}
<1>0. to \in NextAfter(e, from)
  OBVIOUS
<1>1. from.tod \div 3600 = h /\ (from.tod \div 60) % 60 = mi /\ from.tod % 60 = s
  BY PartsTod
<1>2. e.sec = S /\ e.min = M /\ e.hour = H
  BY DEF Daily, Expr
<1>3. Min(S) = 0 /\ Min(M) = 0 /\ Min(H) = 0
  <2>1. S \in SUBSET Int /\ M \in SUBSET Int /\ H \in SUBSET Int
    BY DEF Seconds, Minutes, Hours
  <2>2. (\A y \in S : 0 <= y) /\ (\A y \in M : 0 <= y) /\ (\A y \in H : 0 <= y)
    BY DEF Seconds, Minutes, Hours
  <2> QED
    BY <2>1, <2>2, MinIs
<1>4. Later(e, from.tod) = later
  BY <1>1, <1>2, <1>3 DEF Later
<1>5. \A d \in Nat : OnDay(e, d)
  BY DailyDue
<1>6. ASSUME later # {}
      PROVE  to.day = from.day /\ to.tod = Min(later)
  <2> HIDE DEF e, later
  <2> QED
    BY <1>0, <1>4, <1>5, <1>6 DEF NextAfter
<1>7. ASSUME later = {}
      PROVE  to.day = from.day + 1 /\ to.tod = 0
  <2> DEFINE days == {d \in from.day + 1 .. from.day + YearLength + 1 : OnDay(e, d)}
  <2>1. FirstOf(e) = 0
    BY <1>2, <1>3 DEF FirstOf, Tod
  <2> HIDE DEF e, later
  <2>2. days = from.day + 1 .. from.day + YearLength + 1
    BY <1>5 DEF YearLength
  <2>3. days \in SUBSET Int /\ from.day + 1 \in days /\ \A d \in days : from.day + 1 <= d
    BY <2>2 DEF YearLength
  <2> HIDE DEF days
  <2>4. Min(days) = from.day + 1 /\ days # {}
    BY <2>3, MinIs
  <2>5. Later(e, from.tod) = {}
    BY <1>4, <1>7
  <2>6. NextAfter(e, from) = IF days = {} THEN {}
                          ELSE {[day |-> Min(days), tod |-> FirstOf(e)]}
    BY <2>5 DEF NextAfter, days
  <2> QED
    BY <1>0, <2>1, <2>4, <2>6
<1>8. h \in 0 .. 23 /\ mi \in 0 .. 59
  BY DEF Hours, Minutes
<1>9. /\ \A x \in sec : x \in 0 .. 59
      /\ \A x \in min : x \in 0 .. 59 /\ x > mi
      /\ \A x \in hour : x \in 0 .. 23 /\ x > h
  BY DEF Seconds, Minutes, Hours
<1>10. /\ \A x \in sec : Tod(h, mi, x) \in later
       /\ \A x \in min : Tod(h, x, 0) \in later
       /\ \A x \in hour : Tod(x, 0, 0) \in later
       /\ sec = {} /\ min = {} /\ hour = {} => later = {}
  OBVIOUS
<1>11. \A t \in later : \/ \E x \in sec : t = Tod(h, mi, x)
                        \/ \E x \in min : t = Tod(h, x, 0)
                        \/ \E x \in hour : t = Tod(x, 0, 0)
  OBVIOUS
<1> HIDE DEF e, sec, min, hour, later
<1>12. later \in SUBSET Int
  <2> SUFFICES ASSUME NEW t \in later PROVE t \in Int
    OBVIOUS
  <2> QED
    BY <1>8, <1>9, <1>11 DEF Tod
<1>13. ASSUME NEW y \in sec, \A z \in sec : y <= z
       PROVE  to.day = from.day /\ to.tod = Tod(h, mi, y)
  <2>1. ASSUME NEW t \in later PROVE Tod(h, mi, y) <= t
    <3>1. ASSUME NEW x \in sec, t = Tod(h, mi, x) PROVE Tod(h, mi, y) <= t
      BY <1>8, <1>9, <1>13, <3>1 DEF Tod
    <3>2. ASSUME NEW x \in min, t = Tod(h, x, 0) PROVE Tod(h, mi, y) <= t
      BY <1>8, <1>9, <3>2 DEF Tod
    <3>3. ASSUME NEW x \in hour, t = Tod(x, 0, 0) PROVE Tod(h, mi, y) <= t
      BY <1>8, <1>9, <3>3 DEF Tod
    <3> QED
      BY <1>11, <3>1, <3>2, <3>3
  <2>2. Tod(h, mi, y) \in later
    BY <1>10
  <2>3. Min(later) = Tod(h, mi, y)
    BY <1>12, <2>1, <2>2, MinIs
  <2> QED
    BY <1>6, <2>2, <2>3
<1>14. ASSUME sec = {}, NEW y \in min, \A z \in min : y <= z
       PROVE  to.day = from.day /\ to.tod = Tod(h, y, 0)
  <2>1. ASSUME NEW t \in later PROVE Tod(h, y, 0) <= t
    <3>1. ASSUME NEW x \in min, t = Tod(h, x, 0) PROVE Tod(h, y, 0) <= t
      BY <1>8, <1>9, <1>14, <3>1 DEF Tod
    <3>2. ASSUME NEW x \in hour, t = Tod(x, 0, 0) PROVE Tod(h, y, 0) <= t
      BY <1>8, <1>9, <3>2 DEF Tod
    <3> QED
      BY <1>11, <1>14, <3>1, <3>2
  <2>2. Tod(h, y, 0) \in later
    BY <1>10
  <2>3. Min(later) = Tod(h, y, 0)
    BY <1>12, <2>1, <2>2, MinIs
  <2> QED
    BY <1>6, <2>2, <2>3
<1>15. ASSUME sec = {}, min = {}, NEW y \in hour, \A z \in hour : y <= z
       PROVE  to.day = from.day /\ to.tod = Tod(y, 0, 0)
  <2>1. ASSUME NEW t \in later PROVE Tod(y, 0, 0) <= t
    <3>1. ASSUME NEW x \in hour, t = Tod(x, 0, 0) PROVE Tod(y, 0, 0) <= t
      BY <1>8, <1>9, <1>15, <3>1 DEF Tod
    <3> QED
      BY <1>11, <1>15, <3>1
  <2>2. Tod(y, 0, 0) \in later
    BY <1>10
  <2>3. Min(later) = Tod(y, 0, 0)
    BY <1>12, <2>1, <2>2, MinIs
  <2> QED
    BY <1>6, <2>2, <2>3
<1>16. sec = {} /\ min = {} /\ hour = {} =>
          to.day = from.day + 1 /\ to.tod = 0
  BY <1>7, <1>10
<1>17. /\ \A y : y \in sec <=> y \in S /\ y > s /\ h \in H /\ mi \in M
       /\ \A y : y \in min <=> y \in M /\ y > mi /\ h \in H
       /\ \A y : y \in hour <=> y \in H /\ y > h
  BY DEF sec, min, hour
<1>18. ~ (h \in H /\ mi \in M /\ \E z \in S : z > s) => sec = {}
  BY <1>17
<1>19. ~ (h \in H /\ \E z \in M : z > mi) => min = {}
  BY <1>17
<1>20. ~ (\E z \in H : z > h) => hour = {}
  BY <1>17
<1> QED
  BY <1>13, <1>14, <1>15, <1>16, <1>17, <1>18, <1>19, <1>20 DEF NextOf

-----------------------------------------------------------------------------
\* The times of the day that "every N units" names.
GridAt(p, h, mi, s) ==
    CASE p.unit = "second" -> s % p.n = 0
      [] p.unit = "minute" -> s = 0 /\ mi % p.n = 0
      [] p.unit = "hour"   -> s = 0 /\ mi = 0 /\ h % p.n = 0

OnGrid(p, tod) == GridAt(p, tod \div 3600, (tod \div 60) % 60, tod % 60)

SecondsApart(n, s, from, x) ==
    /\ x.day \in Nat /\ Elapsed(from, x) <= n
    /\ \E g \in Hours, m \in Minutes, k \in Seconds :
          /\ x.tod = Tod(g, m, k) /\ k % n = 0
          /\ s % n = 0 /\ Elapsed(from, x) < n => 60 % n # 0 /\ k = 0

LEMMA SecondsStep ==
    ASSUME NEW n \in 1 .. 59,
           NEW h \in Hours, NEW mi \in Minutes, NEW s \in Seconds,
           NEW from, from.day \in Nat, from.tod = Tod(h, mi, s),
           NEW x \in NextAfter(Every(n).second, from)
    PROVE  SecondsApart(n, s, from, x)
<1> USE DEF SecondsApart
<1> DEFINE S == Step(n, Seconds)
           a == After(n, s, 60)
<1>1. Every(n).second = Daily(S, Minutes, Hours)
  BY DEF Every
<1>2. /\ S \in SUBSET Seconds /\ Minutes \in SUBSET Minutes /\ Hours \in SUBSET Hours
      /\ 0 \in S /\ 0 \in Seconds /\ 0 \in Minutes /\ 0 \in Hours
      /\ \A y \in S : y % n = 0 /\ y \in 0 .. 59
  BY DEF Step, Seconds, Minutes, Hours
<1>3. /\ h \in 0 .. 23 /\ mi \in 0 .. 59 /\ s \in 0 .. 59
      /\ Hours = 0 .. 23 /\ Minutes = 0 .. 59
  BY DEF Hours, Minutes, Seconds
<1>4. /\ a \in s + 1 .. 60
      /\ a < 60 => a \in S
      /\ \A y \in S : y > s => a <= y
      /\ a - s <= n /\ (s % n = 0 /\ a - s < n => a = 60 /\ 60 % n # 0)
  <2>1. Seconds = 0 .. 60 - 1 /\ n \in 1 .. 60 - 1 /\ s \in 0 .. 60 - 1 /\ 60 \in {24, 60}
    BY <1>3 DEF Seconds
  <2>2. IsAfter(n, s, 60, a)
    BY <2>1, AfterStep
  <2> HIDE DEF a
  <2> QED
    BY <2>1, <2>2 DEF IsAfter
<1>5. 0 % n = 0
  OBVIOUS
<1> HIDE DEF S, a
<1>6. NextOf(x, S, Minutes, Hours, from.day, h, mi, s)
  BY <1>1, <1>2, Soonest
<1>7. /\ \A y \in S : y > s /\ (\A z \in S : z > s => y <= z) =>
            x.day = from.day /\ x.tod = Tod(h, mi, y)
      /\ ~ (\E z \in S : z > s) =>
            /\ \A y \in Minutes : y > mi /\ (\A z \in Minutes : z > mi => y <= z) =>
                  x.day = from.day /\ x.tod = Tod(h, y, 0)
            /\ ~ (\E z \in Minutes : z > mi) =>
                  /\ \A y \in Hours : y > h /\ (\A z \in Hours : z > h => y <= z) =>
                        x.day = from.day /\ x.tod = Tod(y, 0, 0)
                  /\ ~ (\E z \in Hours : z > h) => x.day = from.day + 1 /\ x.tod = 0
  BY <1>6 DEF NextOf
<1>8. ASSUME Elapsed(from, x) = a - s
      PROVE  /\ Elapsed(from, x) <= n
             /\ s % n = 0 /\ Elapsed(from, x) < n => a = 60 /\ 60 % n # 0
  BY <1>3, <1>4, <1>8
<1>9. CASE a < 60
  <2>1. x.day = from.day /\ x.tod = Tod(h, mi, a)
    BY <1>3, <1>4, <1>7, <1>9
  <2>2. a \in Seconds /\ a % n = 0 /\ a # 60
    BY <1>2, <1>4, <1>9
  <2>3. Elapsed(from, x) = a - s
    BY <1>3, <1>4, <2>1 DEF Elapsed, Tod
  <2> QED
    BY <1>8, <2>1, <2>2, <2>3
<1>10. CASE a = 60
  <2>1. ~ (\E z \in S : z > s)
    BY <1>2, <1>4, <1>10
  <2>2. CASE mi < 59
    <3>1. mi + 1 \in Minutes /\ \A z \in Minutes : z > mi => mi + 1 <= z
      BY <1>3, <2>2
    <3>2. x.day = from.day /\ x.tod = Tod(h, mi + 1, 0)
      BY <1>3, <1>7, <2>1, <3>1
    <3>3. Elapsed(from, x) = 60 - s
      BY <1>3, <3>2 DEF Elapsed, Tod
    <3> QED
      BY <1>2, <1>5, <1>8, <1>10, <3>1, <3>2, <3>3
  <2>3. CASE mi = 59 /\ h < 23
    <3>1. h + 1 \in Hours /\ \A z \in Hours : z > h => h + 1 <= z
      BY <1>3, <2>3
    <3>2. x.day = from.day /\ x.tod = Tod(h + 1, 0, 0)
      BY <1>3, <1>7, <2>1, <2>3, <3>1
    <3>3. Elapsed(from, x) = 60 - s
      BY <1>3, <2>3, <3>2 DEF Elapsed, Tod
    <3> QED
      BY <1>2, <1>5, <1>8, <1>10, <3>1, <3>2, <3>3
  <2>4. CASE mi = 59 /\ h = 23
    <3>1. x.day = from.day + 1 /\ x.tod = 0
      BY <1>3, <1>7, <2>1, <2>4
    <3>2. Elapsed(from, x) = 60 - s /\ Tod(0, 0, 0) = 0
      BY <1>3, <2>4, <3>1 DEF Elapsed, Tod
    <3> QED
      BY <1>2, <1>5, <1>8, <1>10, <3>1, <3>2
  <2>5. mi < 59 \/ (mi = 59 /\ h < 23) \/ (mi = 59 /\ h = 23)
    BY <1>3
  <2> QED
    BY <2>2, <2>3, <2>4, <2>5
<1> QED
  BY <1>4, <1>9, <1>10

MinutesApart(n, mi, s, from, x) ==
    /\ x.day \in Nat /\ Elapsed(from, x) <= n * 60
    /\ \E g \in Hours, m \in Minutes :
          /\ x.tod = Tod(g, m, 0) /\ m % n = 0
          /\ mi % n = 0 /\ s = 0 /\ Elapsed(from, x) < n * 60 => 60 % n # 0 /\ m = 0

LEMMA MinutesStep ==
    ASSUME NEW n \in 1 .. 59,
           NEW h \in Hours, NEW mi \in Minutes, NEW s \in Seconds,
           NEW from, from.day \in Nat, from.tod = Tod(h, mi, s),
           NEW x \in NextAfter(Every(n).minute, from)
    PROVE  MinutesApart(n, mi, s, from, x)
<1> USE DEF MinutesApart
<1> DEFINE M == Step(n, Minutes)
           a == After(n, mi, 60)
<1>1. Every(n).minute = Daily({0}, M, Hours)
  BY DEF Every
<1>2. /\ {0} \in SUBSET Seconds /\ M \in SUBSET Minutes /\ Hours \in SUBSET Hours
      /\ 0 \in {0} /\ 0 \in M /\ 0 \in Minutes /\ 0 \in Hours
      /\ \A y \in M : y % n = 0 /\ y \in 0 .. 59
  BY DEF Step, Seconds, Minutes, Hours
<1>3. /\ h \in 0 .. 23 /\ mi \in 0 .. 59 /\ s \in 0 .. 59
      /\ Hours = 0 .. 23 /\ Minutes = 0 .. 59
  BY DEF Hours, Minutes, Seconds
<1>4. /\ a \in mi + 1 .. 60
      /\ a < 60 => a \in M
      /\ \A y \in M : y > mi => a <= y
      /\ a - mi <= n /\ (mi % n = 0 /\ a - mi < n => a = 60 /\ 60 % n # 0)
  <2>1. Minutes = 0 .. 60 - 1 /\ n \in 1 .. 60 - 1 /\ mi \in 0 .. 60 - 1 /\ 60 \in {24, 60}
    BY <1>3 DEF Minutes
  <2>2. IsAfter(n, mi, 60, a)
    BY <2>1, AfterStep
  <2> HIDE DEF a
  <2> QED
    BY <2>1, <2>2 DEF IsAfter
<1>5. 0 % n = 0
  OBVIOUS
<1> HIDE DEF M, a
<1>6. NextOf(x, {0}, M, Hours, from.day, h, mi, s)
  BY <1>1, <1>2, Soonest
<1>7. ~ (\E z \in {0} : z > s)
  BY <1>3
<1>8. /\ \A y \in M : y > mi /\ (\A z \in M : z > mi => y <= z) =>
            x.day = from.day /\ x.tod = Tod(h, y, 0)
      /\ ~ (\E z \in M : z > mi) =>
            /\ \A y \in Hours : y > h /\ (\A z \in Hours : z > h => y <= z) =>
                  x.day = from.day /\ x.tod = Tod(y, 0, 0)
            /\ ~ (\E z \in Hours : z > h) => x.day = from.day + 1 /\ x.tod = 0
  BY <1>6, <1>7 DEF NextOf
<1>9. ASSUME Elapsed(from, x) = (a - mi) * 60 - s
      PROVE  /\ Elapsed(from, x) <= n * 60
             /\ mi % n = 0 /\ s = 0 /\ Elapsed(from, x) < n * 60 => a = 60 /\ 60 % n # 0
  BY <1>3, <1>4, <1>9
<1>10. CASE a < 60
  <2>1. x.day = from.day /\ x.tod = Tod(h, a, 0)
    BY <1>3, <1>4, <1>8, <1>10
  <2>2. a \in Minutes /\ a % n = 0 /\ a # 60
    BY <1>2, <1>4, <1>10
  <2>3. Elapsed(from, x) = (a - mi) * 60 - s
    BY <1>3, <1>4, <2>1 DEF Elapsed, Tod
  <2> QED
    BY <1>9, <2>1, <2>2, <2>3
<1>11. CASE a = 60
  <2>1. ~ (\E z \in M : z > mi)
    BY <1>2, <1>4, <1>11
  <2>2. CASE h < 23
    <3>1. h + 1 \in Hours /\ \A z \in Hours : z > h => h + 1 <= z
      BY <1>3, <2>2
    <3>2. x.day = from.day /\ x.tod = Tod(h + 1, 0, 0)
      BY <1>3, <1>8, <2>1, <3>1
    <3>3. Elapsed(from, x) = (60 - mi) * 60 - s
      BY <1>3, <3>2 DEF Elapsed, Tod
    <3> QED
      BY <1>2, <1>5, <1>9, <1>11, <3>1, <3>2, <3>3
  <2>3. CASE h = 23
    <3>1. x.day = from.day + 1 /\ x.tod = 0
      BY <1>3, <1>8, <2>1, <2>3
    <3>2. Elapsed(from, x) = (60 - mi) * 60 - s /\ Tod(0, 0, 0) = 0
      BY <1>3, <2>3, <3>1 DEF Elapsed, Tod
    <3> QED
      BY <1>2, <1>5, <1>9, <1>11, <3>1, <3>2
  <2>4. h < 23 \/ h = 23
    BY <1>3
  <2> QED
    BY <2>2, <2>3, <2>4
<1> QED
  BY <1>4, <1>10, <1>11

HoursApart(n, h, mi, s, from, x) ==
    /\ x.day \in Nat /\ Elapsed(from, x) <= n * 3600
    /\ \E g \in Hours :
          /\ x.tod = Tod(g, 0, 0) /\ g % n = 0
          /\ h % n = 0 /\ mi = 0 /\ s = 0 /\ Elapsed(from, x) < n * 3600 =>
                24 % n # 0 /\ g = 0

LEMMA HoursStep ==
    ASSUME NEW n \in 1 .. 23,
           NEW h \in Hours, NEW mi \in Minutes, NEW s \in Seconds,
           NEW from, from.day \in Nat, from.tod = Tod(h, mi, s),
           NEW x \in NextAfter(Every(n).hour, from)
    PROVE  HoursApart(n, h, mi, s, from, x)
<1> USE DEF HoursApart
<1> DEFINE H == Step(n, Hours)
           a == After(n, h, 24)
<1>1. Every(n).hour = Daily({0}, {0}, H)
  BY DEF Every
<1>2. /\ {0} \in SUBSET Seconds /\ {0} \in SUBSET Minutes /\ H \in SUBSET Hours
      /\ 0 \in {0} /\ 0 \in H /\ 0 \in Hours
      /\ \A y \in H : y % n = 0 /\ y \in 0 .. 23
  BY DEF Step, Seconds, Minutes, Hours
<1>3. h \in 0 .. 23 /\ mi \in 0 .. 59 /\ s \in 0 .. 59 /\ Hours = 0 .. 23
  BY DEF Hours, Minutes, Seconds
<1>4. /\ a \in h + 1 .. 24
      /\ a < 24 => a \in H
      /\ \A y \in H : y > h => a <= y
      /\ a - h <= n /\ (h % n = 0 /\ a - h < n => a = 24 /\ 24 % n # 0)
  <2>1. Hours = 0 .. 24 - 1 /\ n \in 1 .. 24 - 1 /\ h \in 0 .. 24 - 1 /\ 24 \in {24, 60}
    BY <1>3 DEF Hours
  <2>2. IsAfter(n, h, 24, a)
    BY <2>1, AfterStep
  <2> HIDE DEF a
  <2> QED
    BY <2>1, <2>2 DEF IsAfter
<1>5. 0 % n = 0
  OBVIOUS
<1> HIDE DEF H, a
<1>6. NextOf(x, {0}, {0}, H, from.day, h, mi, s)
  BY <1>1, <1>2, Soonest
<1>7. ~ (\E z \in {0} : z > s) /\ ~ (\E z \in {0} : z > mi)
  BY <1>3
<1>8. /\ \A y \in H : y > h /\ (\A z \in H : z > h => y <= z) =>
            x.day = from.day /\ x.tod = Tod(y, 0, 0)
      /\ ~ (\E z \in H : z > h) => x.day = from.day + 1 /\ x.tod = 0
  BY <1>6, <1>7 DEF NextOf
<1>9. ASSUME Elapsed(from, x) = (a - h) * 3600 - mi * 60 - s
      PROVE  /\ Elapsed(from, x) <= n * 3600
             /\ h % n = 0 /\ mi = 0 /\ s = 0 /\ Elapsed(from, x) < n * 3600 => a = 24 /\ 24 % n # 0
  BY <1>3, <1>4, <1>9
<1>10. CASE a < 24
  <2>1. x.day = from.day /\ x.tod = Tod(a, 0, 0)
    BY <1>3, <1>4, <1>8, <1>10
  <2>2. a \in Hours /\ a % n = 0 /\ a # 24
    BY <1>2, <1>4, <1>10
  <2>3. Elapsed(from, x) = (a - h) * 3600 - mi * 60 - s
    BY <1>3, <1>4, <2>1 DEF Elapsed, Tod
  <2> QED
    BY <1>9, <2>1, <2>2, <2>3
<1>11. CASE a = 24
  <2>1. ~ (\E z \in H : z > h)
    BY <1>2, <1>4, <1>11
  <2>2. x.day = from.day + 1 /\ x.tod = 0
    BY <1>8, <2>1
  <2>3. Elapsed(from, x) = (24 - h) * 3600 - mi * 60 - s /\ Tod(0, 0, 0) = 0
    BY <1>3, <2>2 DEF Elapsed, Tod
  <2> QED
    BY <1>2, <1>5, <1>9, <1>11, <2>2, <2>3
<1> QED
  BY <1>4, <1>10, <1>11

\* What holds of N and the 60 or 24 units of a cycle holds of their seconds.
LEMMA Scaled ==
    ASSUME NEW p \in {24, 60}, NEW n \in 1 .. 59, NEW c \in {60, 3600},
           (p * c) % (n * c) = 0
    PROVE  p % n = 0
<1> DEFINE d == n * c
           q == (p * c) \div d
<1>1. d \in Nat /\ d > 0 /\ p * c \in Nat
  OBVIOUS
<1> HIDE DEF d
<1>2. q \in Int /\ p * c = d * q + ((p * c) % d)
  BY <1>1
<1>3. (p * c) % d = 0
  BY DEF d
<1> HIDE DEF q
<1>4. p * c = (n * c) * q
  BY <1>1, <1>2, <1>3 DEF d
<1>5. p = n * q
  <2>1. CASE c = 60
    BY <1>2, <1>4, <2>1
  <2>2. CASE c = 3600
    BY <1>2, <1>4, <2>2
  <2> QED
    BY <2>1, <2>2
<1>6. (n * q) % n = 0
  BY <1>2
<1> QED
  BY <1>5, <1>6

LEMMA ScaledMinutes ==
    ASSUME NEW n \in 1 .. 59, 60 % n # 0
    PROVE  3600 % (n * 60) # 0
<1>1. 60 * 60 = 3600
  OBVIOUS
<1> QED
  BY <1>1, Scaled

LEMMA ScaledHours ==
    ASSUME NEW n \in 1 .. 23, 24 % n # 0
    PROVE  86400 % (n * 3600) # 0
<1>1. 24 * 3600 = 86400 /\ n \in 1 .. 59
  OBVIOUS
<1> QED
  BY <1>1, Scaled

\* A full hour is the turn of an hour, and midnight that of a day.
LEMMA HourTurns ==
    ASSUME NEW g \in Hours
    PROVE  Tod(g, 0, 0) % 3600 = 0
<1>1. g \in 0 .. 23
  BY DEF Hours
<1>2. (g * 3600) % 3600 = 0
  BY <1>1
<1> QED
  BY <1>1, <1>2 DEF Tod

LEMMA DayTurns == Tod(0, 0, 0) % 86400 = 0
<1>1. Tod(0, 0, 0) = 0
  BY DEF Tod
<1> QED
  BY <1>1

\* OnGrid in terms of hour, minute and second.
LEMMA GridOf ==
    ASSUME NEW p, NEW g \in Hours, NEW m \in Minutes, NEW k \in Seconds
    PROVE  /\ Tod(g, m, k) \in Nat /\ Tod(g, m, k) < 86400
           /\ OnGrid(p, Tod(g, m, k)) = GridAt(p, g, m, k)
<1>1. /\ Tod(g, m, k) \in Nat /\ Tod(g, m, k) < 86400
      /\ Tod(g, m, k) \div 3600 = g /\ (Tod(g, m, k) \div 60) % 60 = m
      /\ Tod(g, m, k) % 60 = k
  BY PartsTod
<1>2. OnGrid(p, Tod(g, m, k)) = GridAt(p, g, m, k)
  BY <1>1 DEF OnGrid
<1> QED
  BY <1>1, <1>2

LEMMA SecondOf ==
    ASSUME NEW g \in Hours, NEW m \in Minutes, NEW k \in Seconds
    PROVE  Tod(g, m, k) % 60 = k
BY PartsTod

\* One step of an interval, from any instant: N units at most, and fewer from
\* an instant on the grid only at a turn that N does not divide.
LEMMA CountStep ==
    ASSUME NEW p, p.unit \in Units, p.n \in 1 .. MaxCount[p.unit],
           NEW from, from.day \in Nat, from.tod \in Nat, from.tod < 86400,
           NEW x \in NextAfter(Every(p.n)[p.unit], from)
    PROVE  LET n == p.n * UnitSeconds[p.unit]
               cycle == CycleSeconds[p.unit]
           IN  /\ x.day \in Nat /\ x.tod \in Nat /\ x.tod < 86400
               /\ OnGrid(p, x.tod)
               /\ Elapsed(from, x) <= n
               /\ OnGrid(p, from.tod) /\ Elapsed(from, x) < n =>
                     cycle % n # 0 /\ x.tod % cycle = 0
<1> DEFINE n == p.n
<1>1. PICK h \in Hours, mi \in Minutes, s \in Seconds : from.tod = Tod(h, mi, s)
  BY TodParts
<1>2. 0 \in Hours /\ 0 \in Minutes /\ 0 \in Seconds
  BY DEF Hours, Minutes, Seconds
<1>3. ASSUME NEW t, NEW g \in Hours, NEW m \in Minutes, NEW k \in Seconds, t = Tod(g, m, k)
      PROVE  t \in Nat /\ t < 86400 /\ (OnGrid(p, t) <=> GridAt(p, g, m, k))
  BY <1>3, GridOf
<1>4. CASE p.unit = "second"
  <2>1. n \in 1 .. 59 /\ n * UnitSeconds[p.unit] = n /\ CycleSeconds[p.unit] = 60
    BY <1>4 DEF MaxCount, UnitSeconds, CycleSeconds
  <2>2. x \in NextAfter(Every(n).second, from)
    BY <1>4
  <2> HIDE DEF n
  <2>3. SecondsApart(n, s, from, x)
    BY ONLY <1>1, <2>1, <2>2, SecondsStep, from.day \in Nat
  <2>4. PICK g \in Hours, m \in Minutes, k \in Seconds :
              /\ x.tod = Tod(g, m, k) /\ k % n = 0
              /\ s % n = 0 /\ Elapsed(from, x) < n => 60 % n # 0 /\ k = 0
    BY <2>3 DEF SecondsApart
  <2>5. x.tod % 60 = k
    BY ONLY <2>4, SecondOf
  <2>6. OnGrid(p, from.tod) <=> s % n = 0
    BY <1>1, <1>3, <1>4 DEF GridAt, n
  <2>7. x.tod \in Nat /\ x.tod < 86400 /\ OnGrid(p, x.tod)
    BY <1>3, <1>4, <2>4 DEF GridAt, n
  <2> QED
    BY <2>1, <2>3, <2>4, <2>5, <2>6, <2>7 DEF n, SecondsApart
<1>5. CASE p.unit = "minute"
  <2>1. n \in 1 .. 59 /\ n * UnitSeconds[p.unit] = n * 60 /\ CycleSeconds[p.unit] = 3600
    BY <1>5 DEF MaxCount, UnitSeconds, CycleSeconds
  <2>2. x \in NextAfter(Every(n).minute, from)
    BY <1>5
  <2> HIDE DEF n
  <2>3. MinutesApart(n, mi, s, from, x)
    BY ONLY <1>1, <2>1, <2>2, MinutesStep, from.day \in Nat
  <2>4. PICK g \in Hours, m \in Minutes :
              /\ x.tod = Tod(g, m, 0) /\ m % n = 0
              /\ mi % n = 0 /\ s = 0 /\ Elapsed(from, x) < n * 60 => 60 % n # 0 /\ m = 0
    BY <2>3 DEF MinutesApart
  <2>5. 60 % n # 0 => 3600 % (n * 60) # 0
    BY ONLY <2>1, ScaledMinutes
  <2>6. m = 0 => x.tod % 3600 = 0
    BY ONLY <2>4, HourTurns
  <2>7. OnGrid(p, from.tod) <=> s = 0 /\ mi % n = 0
    BY <1>1, <1>3, <1>5 DEF GridAt, n
  <2>8. x.tod \in Nat /\ x.tod < 86400 /\ OnGrid(p, x.tod)
    BY <1>2, <1>3, <1>5, <2>4 DEF GridAt, n
  <2> QED
    BY <2>1, <2>3, <2>4, <2>5, <2>6, <2>7, <2>8 DEF n, MinutesApart
<1>6. CASE p.unit = "hour"
  <2>1. n \in 1 .. 23 /\ n * UnitSeconds[p.unit] = n * 3600 /\ CycleSeconds[p.unit] = 86400
    BY <1>6 DEF MaxCount, UnitSeconds, CycleSeconds
  <2>2. x \in NextAfter(Every(n).hour, from)
    BY <1>6
  <2> HIDE DEF n
  <2>3. HoursApart(n, h, mi, s, from, x)
    BY ONLY <1>1, <2>1, <2>2, HoursStep, from.day \in Nat
  <2>4. PICK g \in Hours :
              /\ x.tod = Tod(g, 0, 0) /\ g % n = 0
              /\ h % n = 0 /\ mi = 0 /\ s = 0 /\ Elapsed(from, x) < n * 3600 =>
                    24 % n # 0 /\ g = 0
    BY <2>3 DEF HoursApart
  <2>5. 24 % n # 0 => 86400 % (n * 3600) # 0
    BY ONLY <2>1, ScaledHours
  <2>6. g = 0 => x.tod % 86400 = 0
    BY ONLY <2>4, DayTurns
  <2>7. OnGrid(p, from.tod) <=> s = 0 /\ mi = 0 /\ h % n = 0
    BY <1>1, <1>3, <1>6 DEF GridAt, n
  <2>8. x.tod \in Nat /\ x.tod < 86400 /\ OnGrid(p, x.tod)
    BY <1>2, <1>3, <1>6, <2>4 DEF GridAt, n
  <2> QED
    BY <2>1, <2>3, <2>4, <2>5, <2>6, <2>7, <2>8 DEF n, HoursApart
<1> QED
  BY <1>4, <1>5, <1>6 DEF Units

\* IntervalGap needs to know that a job that is followed since its phrase was
\* written was due, the last time, when its field matches: only then is the gap
\* to the next time N units or the rest of the cycle.
SpacedInv ==
    /\ fires \in Nat
    /\ phase # "following" => at \in Starts /\ fires = 0
    /\ phase = "following" /\ job.written.form = "count" =>
          /\ job.schedule = job.written
          /\ at.day \in Nat /\ at.tod \in Nat /\ at.tod < 86400
          /\ fires > 0 => OnGrid(job.written, at.tod)

\* The next time of a job with a phrase that counts.
LEMMA FireCount ==
    ASSUME SpacedInv, Fire, job.written.form = "count"
    PROVE  LET p == job.written
               n == p.n * UnitSeconds[p.unit]
               cycle == CycleSeconds[p.unit]
           IN  /\ at'.day \in Nat /\ at'.tod \in Nat /\ at'.tod < 86400
               /\ OnGrid(p, at'.tod)
               /\ Elapsed(at, at') <= n
               /\ fires > 0 /\ Elapsed(at, at') < n =>
                     cycle % n # 0 /\ at'.tod % cycle = 0
<1> DEFINE p == job.written
<1>1. /\ phase = "following" /\ job.schedule = p
      /\ at.day \in Nat /\ at.tod \in Nat /\ at.tod < 86400
      /\ fires > 0 => OnGrid(p, at.tod)
  BY DEF SpacedInv, Fire
<1>2. PICK e \in Parse(p) : at' \in NextAfter(e, at)
  BY <1>1 DEF Fire, Next1
<1>3. e \in Interval(p.n, p.unit)
  BY <1>2 DEF Parse, Translate
<1>4. p.unit \in Units /\ p.n \in 1 .. MaxCount[p.unit] /\ e = Every(p.n)[p.unit]
  BY <1>3 DEF Interval, MaxCount, Units
<1> HIDE DEF p
<1>5. LET n == p.n * UnitSeconds[p.unit]
          cycle == CycleSeconds[p.unit]
      IN  /\ at'.day \in Nat /\ at'.tod \in Nat /\ at'.tod < 86400
          /\ OnGrid(p, at'.tod)
          /\ Elapsed(at, at') <= n
          /\ OnGrid(p, at.tod) /\ Elapsed(at, at') < n =>
                cycle % n # 0 /\ at'.tod % cycle = 0
  BY <1>1, <1>2, <1>4, CountStep
<1> QED
  BY <1>1, <1>5 DEF p

\* SpacedInv is inductive, beside FoundInv: no line of a crontab counts.
LEMMA NextSpaced == SpacedInv /\ FoundInv /\ [TTNext]_ttVars => SpacedInv'
<1> SUFFICES ASSUME SpacedInv, FoundInv, [TTNext]_ttVars PROVE SpacedInv'
  OBVIOUS
<1>1. CASE ImportNext /\ UNCHANGED <<job, at, fires>>
  <2>1. phase = "reading" /\ phase' # "following"
    BY <1>1 DEF ImportNext, ReadLine, EndOfCrontab, ReadFails
  <2> QED
    BY <1>1, <2>1 DEF SpacedInv
<1>2. ASSUME NEW written, NEW schedule, NEW policy, Follow(written, schedule, policy),
             phase # "following",
             written.form = "count" => schedule = written
      PROVE  SpacedInv'
  <2>1. at \in Starts /\ fires = 0 /\ UNCHANGED <<at, fires>>
        /\ job'.written = written /\ job'.schedule = schedule
    BY <1>2 DEF Follow, SpacedInv
  <2> QED
    BY <1>2, <2>1, StartsAssumption DEF SpacedInv
<1>3. ASSUME NEW i \in JobNumbers, NEW k \in DOMAIN file.jobs, FollowImported(i, k)
      PROVE  SpacedInv'
  <2>1. lines[i] \in Lines /\ IsJob(lines[i])
    BY <1>3 DEF JobNumbers, FoundInv, LinesRead
  <2>2. lines[i].spec.form # "count"
    BY <2>1, LinesAssumption
  <2> QED
    BY <1>2, <1>3, <2>2 DEF FollowImported
<1>4. ASSUME NEW p \in Phrases, FollowPhrase(p) PROVE SpacedInv'
  BY <1>2, <1>4 DEF FollowPhrase
<1>5. CASE Fire
  <2>1. phase = "following" /\ UNCHANGED <<phase, job>> /\ fires' = fires + 1
    BY <1>5 DEF Fire, import
  <2>2. CASE job.written.form = "count"
    BY <1>5, <2>1, <2>2, FireCount DEF SpacedInv
  <2>3. CASE job.written.form # "count"
    BY <2>1, <2>3 DEF SpacedInv
  <2> QED
    BY <2>2, <2>3
<1>6. CASE UNCHANGED ttVars
  BY <1>6 DEF ttVars, import, SpacedInv
<1> QED
  BY <1>1, <1>3, <1>4, <1>5, <1>6 DEF TTNext

\* human.go:187-197: "every N units" leaves N units between two times, whatever
\* N, the unit and the instant at which the daemon starts, and fewer only where
\* the minute, hour or day turns and N does not divide it.
THEOREM SpecIntervalGap == TTSpec => IntervalGap
<1>1. TTInit => SpacedInv
  BY DEF TTInit, ImportInit, SpacedInv
<1>2. SpacedInv /\ [TTNext]_ttVars =>
         [Fire /\ job.written.form = "count" =>
            LET n == job.written.n * UnitSeconds[job.written.unit]
                cycle == CycleSeconds[job.written.unit]
            IN  /\ Elapsed(at, at') <= n
                /\ fires > 0 /\ Elapsed(at, at') < n =>
                      cycle % n # 0 /\ at'.tod % cycle = 0]_ttVars
  BY FireCount
<1> QED
  BY <1>1, <1>2, InitFound, NextFound, NextSpaced, PTL DEF TTSpec, IntervalGap

-----------------------------------------------------------------------------
\* What is due next, and what the phrases mean.

\* An expression with a value in each field of the time, and its times.
HasTimes(e) ==
    /\ e.sec \in SUBSET Seconds /\ e.sec # {}
    /\ e.min \in SUBSET Minutes /\ e.min # {}
    /\ e.hour \in SUBSET Hours /\ e.hour # {}

IsTod(e, t) == \E h \in e.hour, m \in e.min, s \in e.sec : t = Tod(h, m, s)

\* The least values of the fields are among them.
LEMMA FirstFields ==
    ASSUME NEW e, HasTimes(e)
    PROVE  /\ Min(e.sec) \in e.sec /\ \A y \in e.sec : Min(e.sec) <= y
           /\ Min(e.min) \in e.min /\ \A y \in e.min : Min(e.min) <= y
           /\ Min(e.hour) \in e.hour /\ \A y \in e.hour : Min(e.hour) <= y
           /\ \A y \in e.sec : y \in 0 .. 59
           /\ \A y \in e.min : y \in 0 .. 59
           /\ \A y \in e.hour : y \in 0 .. 23
<1>1. /\ \A y \in e.sec : y \in 0 .. 59
      /\ \A y \in e.min : y \in 0 .. 59
      /\ \A y \in e.hour : y \in 0 .. 23
  BY DEF HasTimes, Seconds, Minutes, Hours
<1>2. e.sec \in SUBSET Nat /\ e.min \in SUBSET Nat /\ e.hour \in SUBSET Nat
  BY <1>1
<1> QED
  BY <1>1, <1>2, MinExists DEF HasTimes

\* FirstOf is the first time of the day.
LEMMA FirstIsFirst ==
    ASSUME NEW e, HasTimes(e)
    PROVE  IsTod(e, FirstOf(e)) /\ \A t : IsTod(e, t) => FirstOf(e) <= t
<1>1. IsTod(e, FirstOf(e))
  BY FirstFields DEF IsTod, FirstOf
<1>2. ASSUME NEW h \in e.hour, NEW m \in e.min, NEW s \in e.sec PROVE FirstOf(e) <= Tod(h, m, s)
  <2> DEFINE a == Min(e.hour)
             b == Min(e.min)
             c == Min(e.sec)
  <2>1. a <= h /\ b <= m /\ c <= s
    BY FirstFields
  <2>2. /\ a \in 0 .. 23 /\ b \in 0 .. 59 /\ c \in 0 .. 59
        /\ h \in 0 .. 23 /\ m \in 0 .. 59 /\ s \in 0 .. 59
    BY FirstFields
  <2>3. FirstOf(e) = Tod(a, b, c)
    BY DEF FirstOf
  <2> HIDE DEF a, b, c
  <2> QED
    BY <2>1, <2>2, <2>3 DEF Tod
<1> QED
  BY <1>1, <1>2 DEF IsTod

\* Later holds times of the expression after tod, and one at or before any such.
LEMMA LaterFinds ==
    ASSUME NEW e, HasTimes(e),
           NEW h \in Hours, NEW mi \in Minutes, NEW s \in Seconds
    PROVE  /\ \A t \in Later(e, Tod(h, mi, s)) : IsTod(e, t) /\ t \in Nat /\ t > Tod(h, mi, s)
           /\ \A t : IsTod(e, t) /\ t > Tod(h, mi, s) =>
                 \E u \in Later(e, Tod(h, mi, s)) : u <= t
<1> DEFINE tod == Tod(h, mi, s)
           sec == {y \in e.sec : y > s /\ h \in e.hour /\ mi \in e.min}
           min == {y \in e.min : y > mi /\ h \in e.hour}
           hour == {y \in e.hour : y > h}
           later == {Tod(h, mi, x) : x \in sec} \cup {Tod(h, x, Min(e.sec)) : x \in min}
                    \cup {Tod(x, Min(e.min), Min(e.sec)) : x \in hour}
<1>1. Later(e, tod) = later
  <2>1. tod \div 3600 = h /\ (tod \div 60) % 60 = mi /\ tod % 60 = s
    BY PartsTod
  <2> HIDE DEF tod
  <2> QED
    BY <2>1 DEF Later
<1>2. h \in 0 .. 23 /\ mi \in 0 .. 59 /\ s \in 0 .. 59
  BY DEF Hours, Minutes, Seconds
<1>3. /\ \A x \in sec : x \in e.sec /\ x > s /\ h \in e.hour /\ mi \in e.min
      /\ \A x \in min : x \in e.min /\ x > mi /\ h \in e.hour
      /\ \A x \in hour : x \in e.hour /\ x > h
  OBVIOUS
<1> DEFINE ms == Min(e.sec)
           mm == Min(e.min)
<1>4. \A t \in later : \/ \E x \in sec : t = Tod(h, mi, x)
                       \/ \E x \in min : t = Tod(h, x, ms)
                       \/ \E x \in hour : t = Tod(x, mm, ms)
  OBVIOUS
<1>5. /\ \A x \in e.sec : x > s /\ h \in e.hour /\ mi \in e.min => Tod(h, mi, x) \in later
      /\ \A x \in e.min : x > mi /\ h \in e.hour => Tod(h, x, ms) \in later
      /\ \A x \in e.hour : x > h => Tod(x, mm, ms) \in later
  OBVIOUS
<1>6. /\ ms \in e.sec /\ mm \in e.min /\ ms \in 0 .. 59 /\ mm \in 0 .. 59
      /\ (\A y \in e.sec : ms <= y) /\ (\A y \in e.min : mm <= y)
      /\ \A y \in e.sec : y \in 0 .. 59
      /\ \A y \in e.min : y \in 0 .. 59
      /\ \A y \in e.hour : y \in 0 .. 23
  BY FirstFields
<1> HIDE DEF sec, min, hour, later, ms, mm
<1>7. ASSUME NEW t \in later PROVE IsTod(e, t) /\ t \in Nat /\ t > tod
  <2>1. ASSUME NEW x \in sec, t = Tod(h, mi, x) PROVE IsTod(e, t) /\ t \in Nat /\ t > tod
    <3>1. IsTod(e, t)
      BY <1>3, <2>1 DEF IsTod
    <3> QED
      BY <1>2, <1>3, <2>1, <3>1, <1>6 DEF Tod
  <2>2. ASSUME NEW x \in min, t = Tod(h, x, ms) PROVE IsTod(e, t) /\ t \in Nat /\ t > tod
    <3>1. IsTod(e, t)
      BY <1>3, <2>2, <1>6 DEF IsTod
    <3>2. x \in 0 .. 59 /\ x > mi /\ ms \in 0 .. 59
      BY <1>3, <1>6
    <3>3. Tod(h, x, ms) \in Nat /\ Tod(h, x, ms) > Tod(h, mi, s)
      BY ONLY <1>2, <3>2 DEF Tod
    <3> QED
      BY <2>2, <3>1, <3>3
  <2>3. ASSUME NEW x \in hour, t = Tod(x, mm, ms)
        PROVE  IsTod(e, t) /\ t \in Nat /\ t > tod
    <3>1. IsTod(e, t)
      BY <1>3, <2>3, <1>6 DEF IsTod
    <3>2. x \in 0 .. 23 /\ x > h /\ mm \in 0 .. 59 /\ ms \in 0 .. 59
      BY <1>3, <1>6
    <3>3. Tod(x, mm, ms) \in Nat /\ Tod(x, mm, ms) > Tod(h, mi, s)
      BY ONLY <1>2, <3>2 DEF Tod
    <3> QED
      BY <2>3, <3>1, <3>3
  <2> QED
    BY <1>4, <2>1, <2>2, <2>3
<1>8. ASSUME NEW a \in e.hour, NEW b \in e.min, NEW c \in e.sec, Tod(a, b, c) > tod
      PROVE  \E u \in later : u <= Tod(a, b, c)
  <2>1. a \in 0 .. 23 /\ b \in 0 .. 59 /\ c \in 0 .. 59
    BY <1>6
  <2>2. a > h \/ (a = h /\ b > mi) \/ (a = h /\ b = mi /\ c > s)
    BY <1>2, <1>8, <2>1 DEF Tod
  <2>6. ms \in 0 .. 59 /\ mm \in 0 .. 59 /\ ms <= c /\ mm <= b
    BY <1>6
  <2>3. CASE a > h
    <3>1. Tod(a, mm, ms) \in later
      BY <1>5, <2>3
    <3>2. Tod(a, mm, ms) <= Tod(a, b, c)
      BY ONLY <2>1, <2>6 DEF Tod
    <3> QED
      BY <3>1, <3>2
  <2>4. CASE a = h /\ b > mi
    <3>1. Tod(h, b, ms) \in later
      BY <1>5, <2>4
    <3>2. Tod(h, b, ms) <= Tod(a, b, c)
      BY ONLY <2>1, <2>4, <2>6 DEF Tod
    <3> QED
      BY <3>1, <3>2
  <2>5. CASE a = h /\ b = mi /\ c > s
    <3>1. Tod(h, mi, c) \in later
      BY <1>5, <2>5
    <3>2. Tod(h, mi, c) <= Tod(a, b, c)
      BY <2>1, <2>5 DEF Tod
    <3> QED
      BY <3>1, <3>2
  <2> QED
    BY <2>2, <2>3, <2>4, <2>5
<1> HIDE DEF tod
<1>9. \A t : IsTod(e, t) /\ t > tod => \E u \in later : u <= t
  BY <1>8 DEF IsTod
<1> QED
  BY <1>1, <1>7, <1>9 DEF tod

\* A time of an expression is a second of the day.
LEMMA TodTyped ==
    ASSUME NEW e, HasTimes(e), NEW t, IsTod(e, t)
    PROVE  t \in Nat /\ t < 86400
<1>1. PICK h \in e.hour, m \in e.min, s \in e.sec : t = Tod(h, m, s)
  BY DEF IsTod
<1>2. h \in Hours /\ m \in Minutes /\ s \in Seconds
  BY DEF HasTimes
<1> QED
  BY <1>1, <1>2, PartsTod

\* An instant at which an expression is due, and one after which it is the next.
IsDue(e, x) == OnDay(e, x.day) /\ IsTod(e, x.tod)

NoneBetween(e, from, to) ==
    \A d \in from.day .. to.day : \A t :
        OnDay(e, d) /\ IsTod(e, t) =>
           ~ (Before(from, [day |-> d, tod |-> t]) /\ Before([day |-> d, tod |-> t], to))

\* NextAfter is the next: the expression is due then, and at no instant between.
LEMMA NextIsNext ==
    ASSUME NEW e, HasTimes(e),
           NEW from, from.day \in Nat, from.tod \in Nat, from.tod < 86400,
           NEW x \in NextAfter(e, from)
    PROVE  /\ x.day \in Nat /\ x.tod \in Nat /\ x.tod < 86400
           /\ IsDue(e, x) /\ NoneBetween(e, from, x)
<1> DEFINE later == Later(e, from.tod)
           days == {d \in from.day + 1 .. from.day + YearLength + 1 : OnDay(e, d)}
<1>1. /\ \A t \in later : IsTod(e, t) /\ t \in Nat /\ t > from.tod
      /\ \A t : IsTod(e, t) /\ t > from.tod => \E u \in later : u <= t
  <2>1. PICK h \in Hours, mi \in Minutes, s \in Seconds : from.tod = Tod(h, mi, s)
    BY TodParts
  <2> QED
    BY <2>1, LaterFinds
<1>2. \/ OnDay(e, from.day) /\ later # {} /\ x = [day |-> from.day, tod |-> Min(later)]
      \/ /\ ~ (OnDay(e, from.day) /\ later # {})
         /\ days # {} /\ x = [day |-> Min(days), tod |-> FirstOf(e)]
  BY DEF NextAfter
<1>3. \A d \in days : d \in Nat /\ d > from.day /\ OnDay(e, d)
  BY DEF YearLength
<1>4. \A d \in from.day + 1 .. from.day + YearLength + 1 : OnDay(e, d) => d \in days
  OBVIOUS
<1>5. \A d \in days : d <= from.day + 366
  BY DEF YearLength
<1> HIDE DEF later, days
<1>6. CASE OnDay(e, from.day) /\ later # {} /\ x = [day |-> from.day, tod |-> Min(later)]
  <2>1. x.day = from.day /\ x.tod \in later /\ \A y \in later : x.tod <= y
    BY <1>1, <1>6, MinExists
  <2>2. IsDue(e, x) /\ x.day \in Nat /\ x.tod \in Nat /\ x.tod < 86400
    BY <1>1, <1>6, <2>1, TodTyped DEF IsDue
  <2>3. ASSUME NEW d \in from.day .. x.day, NEW t, IsTod(e, t),
               Before(from, [day |-> d, tod |-> t]), Before([day |-> d, tod |-> t], x)
        PROVE  FALSE
    <3>1. d = from.day /\ t \in Nat
      BY <2>1, <2>3, TodTyped
    <3>2. from.tod < t /\ t < x.tod
      BY <2>1, <2>3, <3>1 DEF Before
    <3>3. PICK u \in later : u <= t
      BY <1>1, <2>3, <3>2
    <3> QED
      BY <1>1, <2>1, <2>2, <3>1, <3>2, <3>3
  <2> QED
    BY <2>2, <2>3 DEF NoneBetween
<1>7. CASE /\ ~ (OnDay(e, from.day) /\ later # {})
           /\ days # {} /\ x = [day |-> Min(days), tod |-> FirstOf(e)]
  <2>1. x.day \in days /\ \A d \in days : x.day <= d
    BY <1>3, <1>7, MinExists
  <2>2. IsTod(e, x.tod) /\ \A t : IsTod(e, t) => x.tod <= t
    BY <1>7, FirstIsFirst
  <2>3. IsDue(e, x) /\ x.day \in Nat /\ x.tod \in Nat /\ x.tod < 86400
    BY <1>3, <2>1, <2>2, TodTyped DEF IsDue
  <2>4. ASSUME NEW d \in from.day .. x.day, NEW t, OnDay(e, d), IsTod(e, t),
               Before(from, [day |-> d, tod |-> t]), Before([day |-> d, tod |-> t], x)
        PROVE  FALSE
    <3>1. t \in Nat
      BY <2>4, TodTyped
    <3>2. CASE d = from.day
      <4>1. t > from.tod
        BY <2>4, <3>2 DEF Before
      <4> QED
        BY <1>1, <1>7, <2>4, <3>2, <4>1
    <3>3. CASE d > from.day
      <4>1. x.day <= from.day + 366 /\ d <= x.day
        BY <1>5, <2>1, <2>3
      <4>2. d \in days
        BY <1>4, <2>3, <2>4, <3>3, <4>1 DEF YearLength
      <4>3. d = x.day
        BY <2>1, <2>3, <4>1, <4>2
      <4>4. t < x.tod
        BY <2>3, <2>4, <4>3 DEF Before
      <4> QED
        BY <2>2, <2>3, <2>4, <3>1, <4>4
    <3> QED
      BY <3>2, <3>3
  <2> QED
    BY <2>3, <2>4 DEF NoneBetween
<1> QED
  BY <1>2, <1>6, <1>7

LEMMA OnDowsDue ==
    ASSUME NEW d \in Nat, NEW mi, NEW h, NEW dow
    PROVE  OnDay(OnDows(mi, h, dow), d) <=> Dow(d) \in dow
BY DayFields DEF OnDay, OnDows, Expr

LEMMA OnDomDue ==
    ASSUME NEW d \in Nat, NEW mi, NEW h, NEW nth
    PROVE  OnDay(OnDom(mi, h, nth), d) <=> Dom(d) = nth
BY DayFields DEF OnDay, OnDom, Expr

AtTime(e, mi, h) == e.sec = {0} /\ e.min = {mi} /\ e.hour = {h}

\* An expression with one value in each field has one time.
LEMMA OneTime ==
    ASSUME NEW mi \in Minutes, NEW h \in Hours, NEW e, AtTime(e, mi, h)
    PROVE  HasTimes(e) /\ \A t : IsTod(e, t) <=> t = (h * 60 + mi) * 60
<1>1. h \in 0 .. 23 /\ mi \in 0 .. 59
  BY DEF Hours, Minutes
<1>2. Tod(h, mi, 0) = (h * 60 + mi) * 60
  BY <1>1 DEF Tod
<1>3. 0 \in Seconds
  BY DEF Seconds
<1> QED
  BY <1>2, <1>3 DEF AtTime, HasTimes, IsTod

\* What a phrase names is what an expression is due at.
SaysWhat(s, e) ==
    /\ HasTimes(e)
    /\ \A d \in Nat : MeantDay(s, d) <=> OnDay(e, d)
    /\ \A t : t \in MeantTods(s) <=> IsTod(e, t)

\* The words, and the shortcuts of a crontab.
LEMMA WordSays ==
    ASSUME NEW s, s.form \in {"word", "@"}, s.word \in DOMAIN CronShortcuts
    PROVE  SaysWhat(s, CronShortcuts[s.word])
<1> DEFINE w == s.word
           e == CronShortcuts[w]
<1>1. w \in Words \cup {"midnight"} /\ e = Shortcuts[IF w = "midnight" THEN "daily" ELSE w]
  BY ShortcutsInBounds DEF CronShortcuts
<1>2. 0 \in Minutes /\ 0 \in Hours /\ 0 \in Seconds /\ (0 * 60 + 0) * 60 = 0
  BY DEF Minutes, Hours, Seconds
<1>3. ASSUME w # "hourly", AtTime(e, 0, 0)
      PROVE  HasTimes(e) /\ \A t : t \in MeantTods(s) <=> IsTod(e, t)
  <2>1. MeantTods(s) = {0}
    BY <1>3 DEF MeantTods
  <2> QED
    BY <1>2, <1>3, <2>1, OneTime
<1>4. CASE w = "hourly"
  <2>1. e = Daily({0}, {0}, Hours)
    BY <1>1, <1>4 DEF Shortcuts
  <2>2. HasTimes(e)
    BY <1>2, <2>1 DEF HasTimes, Daily, Expr
  <2>3. MeantTods(s) = {h * 3600 : h \in Hours}
    BY <1>4 DEF MeantTods
  <2>4. \A t : IsTod(e, t) <=> \E h \in Hours : t = Tod(h, 0, 0)
    BY <2>1 DEF IsTod, Daily, Expr
  <2>5. \A h \in Hours : Tod(h, 0, 0) = h * 3600
    BY DEF Tod, Hours
  <2>6. \A d \in Nat : MeantDay(s, d) /\ OnDay(e, d)
    BY <1>4, <2>1, DailyDue DEF MeantDay
  <2> QED
    BY <2>2, <2>3, <2>4, <2>5, <2>6 DEF SaysWhat
<1>5. CASE w \in {"daily", "midnight"}
  <2>1. e = Daily({0}, {0}, {0})
    BY <1>1, <1>5 DEF Shortcuts
  <2>2. AtTime(e, 0, 0)
    BY <2>1 DEF AtTime, Daily, Expr
  <2>3. \A d \in Nat : MeantDay(s, d) /\ OnDay(e, d)
    BY <1>5, <2>1, DailyDue DEF MeantDay
  <2> QED
    BY <1>3, <1>5, <2>2, <2>3 DEF SaysWhat
<1>6. CASE w = "weekly"
  <2>1. e = OnDows(0, 0, {0})
    BY <1>1, <1>6 DEF Shortcuts
  <2>2. AtTime(e, 0, 0)
    BY <2>1 DEF AtTime, OnDows, Expr
  <2>3. \A d \in Nat : MeantDay(s, d) <=> Dow(d) = 0
    BY <1>6 DEF MeantDay
  <2>4. \A d \in Nat : OnDay(e, d) <=> Dow(d) = 0
    BY <2>1, OnDowsDue
  <2> QED
    BY <1>3, <1>6, <2>2, <2>3, <2>4 DEF SaysWhat
<1>7. CASE w = "monthly"
  <2>1. e = OnDom(0, 0, 1)
    BY <1>1, <1>7 DEF Shortcuts
  <2>2. AtTime(e, 0, 0)
    BY <2>1 DEF AtTime, OnDom, Expr
  <2>3. \A d \in Nat : MeantDay(s, d) <=> OnDay(e, d)
    BY <1>7, <2>1, OnDomDue DEF MeantDay
  <2> QED
    BY <1>3, <1>7, <2>2, <2>3 DEF SaysWhat
<1>8. CASE w \in {"yearly", "annually"}
  <2>1. e = [OnDom(0, 0, 1) EXCEPT !.month = {1}]
    BY <1>1, <1>8 DEF Shortcuts
  <2>2. /\ e.sec = {0} /\ e.min = {0} /\ e.hour = {0} /\ e.month = {1}
        /\ e.dom = {1} /\ e.dow = Dows /\ e.any = {"dow"}
    BY <2>1 DEF OnDom, Expr
  <2>3. \A d \in Nat : OnDay(e, d) <=> d % YearLength = 0
    BY <2>2, DayFields DEF OnDay
  <2>4. \A d \in Nat : MeantDay(s, d) <=> d % YearLength = 0
    BY <1>8 DEF MeantDay
  <2> QED
    BY <1>3, <1>8, <2>2, <2>3, <2>4 DEF SaysWhat, AtTime
<1> QED
  BY <1>1, <1>4, <1>5, <1>6, <1>7, <1>8 DEF Words

\* The names of days and the numbers cron has for them.
LEMMA NamesOfDay ==
    ASSUME NEW name \in DOMAIN DayNames, NEW k \in Dows
    PROVE  name \in Week[k + 1] <=> DayNames[name] = k
<1>1. /\ k \in {0, 1, 2, 3, 4, 5, 6}
      /\ name \in {"sunday", "sun", "monday", "mon", "tuesday", "tue", "tues",
                   "wednesday", "wed", "thursday", "thu", "thur", "thurs",
                   "friday", "fri", "saturday", "sat"}
  BY DEF Dows, DayNames
<1>2. CASE k = 0
  BY <1>1, <1>2 DEF Week, DayNames
<1>3. CASE k = 1
  BY <1>1, <1>3 DEF Week, DayNames
<1>4. CASE k = 2
  BY <1>1, <1>4 DEF Week, DayNames
<1>5. CASE k = 3
  BY <1>1, <1>5 DEF Week, DayNames
<1>6. CASE k = 4
  BY <1>1, <1>6 DEF Week, DayNames
<1>7. CASE k = 5
  BY <1>1, <1>7 DEF Week, DayNames
<1>8. CASE k = 6
  BY <1>1, <1>8 DEF Week, DayNames
<1> QED
  BY <1>1, <1>2, <1>3, <1>4, <1>5, <1>6, <1>7, <1>8

\* Saturday and Sunday, by name and by number.
LEMMA EndsOfWeek ==
    ASSUME NEW k \in Dows
    PROVE  Week[k + 1] \in {Week[1], Week[7]} <=> k \in {0, 6}
<1>1. Week[1] # {} /\ Week[7] # {} /\ "sun" \in Week[1] /\ "sat" \in Week[7]
  BY DEF Week
<1>2. "sun" \in DOMAIN DayNames /\ "sat" \in DOMAIN DayNames
      /\ DayNames["sun"] = 0 /\ DayNames["sat"] = 6
  BY DEF DayNames
<1>3. "sun" \in Week[k + 1] <=> k = 0
  BY <1>2, NamesOfDay
<1>4. "sat" \in Week[k + 1] <=> k = 6
  BY <1>2, NamesOfDay
<1>5. k = 0 => Week[k + 1] = Week[1]
  OBVIOUS
<1>6. k = 6 => Week[k + 1] = Week[7]
  OBVIOUS
<1> QED
  BY ONLY <1>1, <1>3, <1>4, <1>5, <1>6

LEMMA WorkingDays == \A k \in Dows : k \in 1 .. 5 <=> k \notin {0, 6}
BY DEF Dows

\* Twelve hours, as parseTime moves them.
LEMMA Clock ==
    ASSUME NEW h \in 1 .. 12, NEW m \in 0 .. 59
    PROVE  /\ (h % 12) * 60 + m + 0 = (IF h = 12 THEN 0 ELSE h) * 60 + m
           /\ (h % 12) * 60 + m + 720 = (IF h = 12 THEN h ELSE h + 12) * 60 + m
<1>1. h = 12 \/ h < 12
  OBVIOUS
<1>2. h = 12 => h % 12 = 0
  OBVIOUS
<1>3. h < 12 => h % 12 = h
  OBVIOUS
<1> QED
  BY <1>1, <1>2, <1>3

\* The time that a documented phrase means is the one parseTime makes of it.
LEMMA HourMeans ==
    ASSUME NEW t, t \in {Midnight, Noon} \/ t.half \in {"am", "pm", ""},
           t.half \in {"am", "pm"} => t.h \in 1 .. 12,
           InDay(t)
    PROVE  MeantTime(t) = Hour(t) * 60 + t.m
<1> DEFINE h == t.h
           m == t.m
<1>1. CASE t \in {Midnight, Noon}
  <2>1. MeantTime(Midnight) = 0 /\ MeantTime(Noon) = 720
    <3>1. Midnight.half = "midnight" /\ Noon.half = "noon"
      BY DEF Midnight, Noon
    <3>2. "noon" # "midnight"
      OBVIOUS
    <3> QED
      BY ONLY <3>1, <3>2 DEF MeantTime
  <2>2. Hour(Midnight) = 0 /\ Hour(Noon) = 12 /\ Midnight.m = 0 /\ Noon.m = 0
    BY DEF Hour, Midnight, Noon
  <2>3. MeantTime(Midnight) = Hour(Midnight) * 60 + Midnight.m
    BY ONLY <2>1, <2>2
  <2>4. MeantTime(Noon) = Hour(Noon) * 60 + Noon.m
    BY ONLY <2>1, <2>2
  <2>5. t = Midnight \/ t = Noon
    BY <1>1
  <2> QED
    BY ONLY <2>3, <2>4, <2>5
<1>2. CASE t.half = ""
  <2>1. MeantTime(t) = h * 60 + m /\ Hour(t) = h
    BY <1>2 DEF MeantTime, Hour
  <2> QED
    BY <2>1
<1>3. CASE t.half = "am"
  <2>1. MeantTime(t) = (h % 12) * 60 + m + 0
    BY <1>3 DEF MeantTime
  <2>2. Hour(t) = IF h = 12 THEN 0 ELSE h
    BY <1>3 DEF Hour
  <2>3. h \in 1 .. 12 /\ m \in 0 .. 59
    BY <1>3 DEF InDay, Minutes
  <2> HIDE DEF h, m
  <2>4. MeantTime(t) = Hour(t) * 60 + m
    BY ONLY <2>1, <2>2, <2>3, Clock
  <2> QED
    BY <2>4 DEF m
<1>4. CASE t.half = "pm"
  <2>1. MeantTime(t) = (h % 12) * 60 + m + 720
    BY <1>4 DEF MeantTime
  <2>2. Hour(t) = IF h = 12 THEN h ELSE h + 12
    BY <1>4 DEF Hour
  <2>3. h \in 1 .. 12 /\ m \in 0 .. 59
    BY <1>4 DEF InDay, Minutes
  <2> HIDE DEF h, m
  <2>4. MeantTime(t) = Hour(t) * 60 + m
    BY ONLY <2>1, <2>2, <2>3, Clock
  <2> QED
    BY <2>4 DEF m
<1> QED
  BY <1>1, <1>2, <1>3, <1>4

\* "every DAYS at TIME".
LEMMA AtSays ==
    ASSUME NEW s, s.form = "at", Documented(s),
           s.days.on \in {"day", "weekday", "weekend", "month", "names"},
           s.time \in {Midnight, Noon} \/ s.time.half \in {"am", "pm", ""},
           NEW e \in At(s.days, s.time)
    PROVE  SaysWhat(s, e)
<1> DEFINE h == Hour(s.time)
           mi == s.time.m
           w == s.days
<1>1. InDay(s.time) /\ h \in Hours /\ mi \in Minutes
  BY DEF At, InDay
<1>2. MeantTods(s) = {(h * 60 + mi) * 60}
  <2>1. MeantTods(s) = {MeantTime(s.time) * 60}
    BY DEF MeantTods
  <2>2. s.time.half \in {"am", "pm"} => s.time.h \in 1 .. 12
    BY DEF Documented
  <2> QED
    BY <1>1, <2>1, <2>2, HourMeans
<1>3. ASSUME AtTime(e, mi, h)
      PROVE  HasTimes(e) /\ \A t : t \in MeantTods(s) <=> IsTod(e, t)
  <2> HIDE DEF h, mi
  <2>1. HasTimes(e) /\ \A t : IsTod(e, t) <=> t = (h * 60 + mi) * 60
    BY ONLY <1>1, <1>3, OneTime
  <2> QED
    BY ONLY <1>2, <2>1
<1>4. CASE w.on = "day"
  <2>1. e = Daily({0}, {mi}, {h})
    BY <1>1, <1>4 DEF At
  <2>2. AtTime(e, mi, h)
    BY <2>1 DEF AtTime, Daily, Expr
  <2>3. \A d \in Nat : MeantDay(s, d) /\ OnDay(e, d)
    BY <1>4, <2>1, DailyDue DEF MeantDay
  <2> QED
    BY <1>3, <2>2, <2>3 DEF SaysWhat
<1>5. ASSUME NEW dow, e = OnDows(mi, h, dow),
             \A d \in Nat : MeantDay(s, d) <=> Dow(d) \in dow
      PROVE  SaysWhat(s, e)
  <2>1. AtTime(e, mi, h)
    BY <1>5 DEF AtTime, OnDows, Expr
  <2>2. \A d \in Nat : OnDay(e, d) <=> Dow(d) \in dow
    BY <1>5, OnDowsDue
  <2> QED
    BY <1>3, <1>5, <2>1, <2>2 DEF SaysWhat
<1>6. \A d \in Nat : Dow(d) \in Dows
  BY DayFields
<1>7. CASE w.on = "weekday"
  <2>1. e = OnDows(mi, h, 1 .. 5)
    BY <1>1, <1>7 DEF At
  <2>2. \A d \in Nat : MeantDay(s, d) <=> Week[Dow(d) + 1] \notin {Week[1], Week[7]}
    BY <1>7 DEF MeantDay
  <2>3. \A d \in Nat : MeantDay(s, d) <=> Dow(d) \in 1 .. 5
    BY ONLY <1>6, <2>2, EndsOfWeek, WorkingDays
  <2> QED
    BY <1>5, <2>1, <2>3
<1>8. CASE w.on = "weekend"
  <2>1. e = OnDows(mi, h, {0, 6})
    BY <1>1, <1>8 DEF At
  <2>2. \A d \in Nat : MeantDay(s, d) <=> Week[Dow(d) + 1] \in {Week[1], Week[7]}
    BY <1>8 DEF MeantDay
  <2>3. \A d \in Nat : MeantDay(s, d) <=> Dow(d) \in {0, 6}
    BY ONLY <1>6, <2>2, EndsOfWeek
  <2> QED
    BY <1>5, <2>1, <2>3
<1>9. CASE w.on = "month"
  <2>1. e = OnDom(mi, h, w.nth)
    BY <1>1, <1>9 DEF At, Ordinal
  <2>2. AtTime(e, mi, h)
    BY <2>1 DEF AtTime, OnDom, Expr
  <2>3. \A d \in Nat : MeantDay(s, d) <=> Dom(d) = w.nth
    BY <1>9 DEF MeantDay
  <2>4. \A d \in Nat : OnDay(e, d) <=> Dom(d) = w.nth
    BY <2>1, OnDomDue
  <2> QED
    BY <1>3, <2>2, <2>3, <2>4 DEF SaysWhat
<1>10. CASE w.on = "names"
  <2>1. w.names \subseteq DOMAIN DayNames /\ e = OnDows(mi, h, {DayNames[d] : d \in w.names})
    BY <1>1, <1>10 DEF At, Named
  <2>2. \A d \in Nat : MeantDay(s, d) <=> Week[Dow(d) + 1] \cap w.names # {}
    BY <1>10 DEF MeantDay
  <2>3. \A k \in Dows : \A name \in w.names : name \in Week[k + 1] <=> DayNames[name] = k
    BY <2>1, NamesOfDay
  <2> HIDE DEF w
  <2>4. \A d \in Nat : MeantDay(s, d) <=> Dow(d) \in {DayNames[name] : name \in w.names}
    BY ONLY <1>6, <2>2, <2>3
  <2> QED
    BY <1>5, <2>1, <2>4
<1> QED
  BY <1>4, <1>7, <1>8, <1>9, <1>10

\* A schedule that is followed says what was written for it.
LEMMA ScheduleSays ==
    ASSUME NEW s, HasMeaning(s),
           s.form = "@" => s.word \in DOMAIN CronShortcuts,
           s.form # "@" => IsPhrase(s),
           NEW e \in Parse(Normalized(s))
    PROVE  SaysWhat(s, e)
<1>1. CASE s.form = "@"
  <2> DEFINE x == CronShortcuts[s.word]
             c == [form |-> "cron", expr |-> x]
  <2>1. Normalized(s) = c
    BY <1>1 DEF Normalized
  <2> HIDE DEF x
  <2>2. e = x
    BY <2>1 DEF Parse
  <2> QED
    BY <1>1, <2>2, WordSays DEF x
<1>2. CASE s.form = "word"
  <2>1. Normalized(s) = s
    BY <1>2 DEF Normalized
  <2>2. e \in Word(s.word)
    BY <1>2, <2>1 DEF Parse, Translate
  <2>3. s.word \in Words /\ e = Shortcuts[s.word]
    BY <2>2, ShortcutsInBounds DEF Word
  <2>4. s.word \in DOMAIN CronShortcuts /\ CronShortcuts[s.word] = Shortcuts[s.word]
    BY <2>3, ShortcutsInBounds DEF CronShortcuts, Words
  <2> QED
    BY <1>2, <2>3, <2>4, WordSays
<1>3. CASE s.form = "at"
  <2>1. Normalized(s) = s
    BY <1>3 DEF Normalized
  <2>2. e \in At(s.days, s.time)
    BY <1>3, <2>1 DEF Parse, Translate
  <2>3. Documented(s) /\ IsPhrase(s)
    BY <1>3 DEF HasMeaning
  <2>4. /\ s.days.on \in {"day", "weekday", "weekend", "month", "names"}
        /\ s.time \in {Midnight, Noon} \/ s.time.half \in {"am", "pm", ""}
    BY <1>3, <2>3 DEF IsPhrase
  <2> QED
    BY <1>3, <2>2, <2>3, <2>4, AtSays
<1> QED
  BY <1>1, <1>2, <1>3 DEF HasMeaning

\* FiresAsMeant needs to know that what is followed says what was written, and
\* that the last instant is one.
MeaningInv ==
    phase = "following" /\ HasMeaning(job.written) =>
        /\ at.day \in Nat /\ at.tod \in Nat /\ at.tod < 86400
        /\ \A e \in Parse(job.schedule) : SaysWhat(job.written, e)

\* The next time of a job with a meaning.
LEMMA FireMeant ==
    ASSUME MeaningInv, Fire, HasMeaning(job.written)
    PROVE  /\ at'.day \in Nat /\ at'.tod \in Nat /\ at'.tod < 86400
           /\ MeantDay(job.written, at'.day) /\ at'.tod \in MeantTods(job.written)
           /\ \A d \in at.day .. at'.day : MeantDay(job.written, d) =>
                 \A x \in MeantTods(job.written) :
                    ~ (Before(at, [day |-> d, tod |-> x])
                       /\ Before([day |-> d, tod |-> x], at'))
<1> DEFINE s == job.written
<1>1. /\ at.day \in Nat /\ at.tod \in Nat /\ at.tod < 86400
      /\ \A e \in Parse(job.schedule) : SaysWhat(s, e)
  BY DEF MeaningInv, Fire
<1>2. PICK e \in Parse(job.schedule) : at' \in NextAfter(e, at)
  BY DEF Fire, Next1
<1> HIDE DEF s
<1>3. /\ HasTimes(e)
      /\ \A d \in Nat : MeantDay(s, d) <=> OnDay(e, d)
      /\ \A t : t \in MeantTods(s) <=> IsTod(e, t)
  BY <1>1, <1>2 DEF SaysWhat
<1>4. /\ at'.day \in Nat /\ at'.tod \in Nat /\ at'.tod < 86400
      /\ IsDue(e, at') /\ NoneBetween(e, at, at')
  BY ONLY <1>1, <1>2, <1>3, NextIsNext
<1>5. MeantDay(s, at'.day) /\ at'.tod \in MeantTods(s)
  BY <1>3, <1>4 DEF IsDue
<1>6. ASSUME NEW d \in at.day .. at'.day, MeantDay(s, d), NEW x \in MeantTods(s)
      PROVE  ~ (Before(at, [day |-> d, tod |-> x]) /\ Before([day |-> d, tod |-> x], at'))
  <2>1. d \in Nat
    BY <1>1, <1>4
  <2>2. OnDay(e, d) /\ IsTod(e, x)
    BY <1>3, <1>6, <2>1
  <2> QED
    BY <1>4, <2>2 DEF NoneBetween
<1> QED
  BY <1>4, <1>5, <1>6 DEF s

\* MeaningInv is inductive, beside the others: the job followed from a crontab is
\* that of its line (InOrder), and the start is an instant (SpacedInv).
LEMMA NextMeaning ==
    SpacedInv /\ FoundInv /\ InOrder /\ MeaningInv /\ [TTNext]_ttVars => MeaningInv'
<1> SUFFICES ASSUME SpacedInv, FoundInv, InOrder, MeaningInv, [TTNext]_ttVars
             PROVE  MeaningInv'
  OBVIOUS
<1>1. CASE ImportNext /\ UNCHANGED <<job, at, fires>>
  <2>1. phase' # "following"
    BY <1>1 DEF ImportNext, ReadLine, EndOfCrontab, ReadFails
  <2> QED
    BY <2>1 DEF MeaningInv
<1>2. ASSUME NEW written, NEW policy, Follow(written, Normalized(written), policy),
             phase # "following",
             written.form = "@" => written.word \in DOMAIN CronShortcuts,
             written.form # "@" /\ HasMeaning(written) => IsPhrase(written)
      PROVE  MeaningInv'
  <2>1. /\ at \in Starts /\ at' = at
        /\ job'.written = written /\ job'.schedule = Normalized(written)
    BY <1>2 DEF Follow, SpacedInv
  <2>2. at.day \in Nat /\ at.tod \in Nat /\ at.tod < 86400
    BY <2>1, StartsAssumption
  <2>3. HasMeaning(written) => \A e \in Parse(Normalized(written)) : SaysWhat(written, e)
    BY <1>2, ScheduleSays
  <2> QED
    BY <2>1, <2>2, <2>3 DEF MeaningInv
<1>3. ASSUME NEW i \in JobNumbers, NEW k \in DOMAIN file.jobs, FollowImported(i, k)
      PROVE  MeaningInv'
  <2> DEFINE spec == lines[i].spec
  <2>1. lines[i] \in Lines /\ IsJob(lines[i])
    BY <1>3 DEF JobNumbers, FoundInv, LinesRead
  <2>2. k = Cardinality(UpTo(i)) /\ phase = "written"
    BY <1>3 DEF FollowImported, UpTo
  <2>3. k \in DOMAIN entries /\ entries[k].schedule = Normalized(spec)
    BY <1>3, <2>2 DEF InOrder
  <2>4. file.jobs[k].schedule = entries[k].schedule
    <3>1. file = Rendering
      BY <2>2 DEF FoundInv
    <3>2. file.jobs = [x \in DOMAIN entries |->
                          Entry(entries[x].name, entries[x].schedule, NoLayer)]
      BY <3>1 DEF Rendering, Text
    <3>3. file.jobs[k] = Entry(entries[k].name, entries[k].schedule, NoLayer)
      BY <2>3, <3>2
    <3> QED
      BY <3>3 DEF Entry
  <2>5. spec.form = "@" => spec.word \in DOMAIN CronShortcuts
    BY <2>1 DEF IsJob
  <2>6. spec.form # "@" /\ HasMeaning(spec) => IsPhrase(spec)
    BY <2>1, PhrasesAssumption DEF HasMeaning
  <2>7. Follow(spec, Normalized(spec), Resolve(file, k).policy)
    BY <1>3, <2>3, <2>4 DEF FollowImported
  <2> QED
    BY <1>2, <2>2, <2>5, <2>6, <2>7
<1>4. ASSUME NEW p \in Phrases, FollowPhrase(p) PROVE MeaningInv'
  <2>1. IsPhrase(p) /\ p.form # "@"
    BY PhrasesAssumption DEF IsPhrase
  <2>2. Normalized(p) = p
    BY <2>1 DEF Normalized
  <2>3. phase # "following" /\ Follow(p, Normalized(p), {DefaultPolicy})
    BY <1>4, <2>2 DEF FollowPhrase
  <2> QED
    BY <1>2, <2>1, <2>3
<1>5. CASE Fire
  <2>1. UNCHANGED <<phase, job>>
    BY <1>5 DEF Fire, import
  <2>2. CASE HasMeaning(job.written)
    BY <1>5, <2>1, <2>2, FireMeant DEF MeaningInv, Fire
  <2>3. CASE ~ HasMeaning(job.written)
    BY <2>1, <2>3 DEF MeaningInv
  <2> QED
    BY <2>2, <2>3
<1>6. CASE UNCHANGED ttVars
  BY <1>6 DEF ttVars, import, MeaningInv
<1> QED
  BY <1>1, <1>3, <1>4, <1>5, <1>6 DEF TTNext

\* human.go:8-21: a job is due exactly at the instants that its phrase, or the
\* line of the crontab it was imported from, names: whatever days and time, at
\* every instant the daemon may start, and never at another.
THEOREM SpecFiresAsMeant == TTSpec => FiresAsMeant
<1>1. TTInit => SpacedInv /\ InOrder /\ MeaningInv
  BY DEF TTInit, ImportInit, SpacedInv, InOrder, JobNumbers, MeaningInv
<1>2. MeaningInv /\ [TTNext]_ttVars =>
         [Fire /\ HasMeaning(job.written) =>
            /\ MeantDay(job.written, at'.day) /\ at'.tod \in MeantTods(job.written)
            /\ \A d \in at.day .. at'.day : MeantDay(job.written, d) =>
                  \A x \in MeantTods(job.written) :
                     ~ (Before(at, [day |-> d, tod |-> x])
                        /\ Before([day |-> d, tod |-> x], at'))]_ttVars
  BY FireMeant
<1> QED
  BY <1>1, <1>2, InitFound, NextFound, NextInOrder, NextSpaced, NextMeaning, PTL
     DEF TTSpec, FiresAsMeant
=============================================================================
