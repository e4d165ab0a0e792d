------------------------------- MODULE Timetable -------------------------------
(***************************************************************************)
(* From what the user wrote, as a phrase in cronhub.toml or as a line of a *)
(* crontab that is imported, to the instants at which the job is due.  The *)
(* engine evaluates every schedule in the machine's local time             *)
(* (engine.go:62, 67, 110), so an instant is one of the local wall clock.  *)
(***************************************************************************)
EXTENDS Crontab

CONSTANTS
    Phrases,     \* the phrases that may be written into cronhub.toml
    Starts,      \* the instants at which the daemon may start
    Horizon,     \* bound: the days,
    MaxFires,    \* bound: and the number of times a job is followed
    Ahead        \* the seconds by which each time zone is ahead of local time

\* The forms of a phrase, and what each carries.
IsPhrase(p) ==
    /\ p.form \in {"word", "each", "count", "at"}
    /\ p.form = "count" => p.n \in Int
    /\ p.form = "at" =>
          /\ p.days.on \in {"day", "weekday", "weekend", "month", "names"}
          /\ p.time \in {Midnight, Noon}
                 \/ (/\ p.time.half \in {"am", "pm", ""}
                     /\ p.time.h \in Int /\ p.time.m \in Int)

\* Five words of a crontab may be a phrase too ("every day at 9:30 am").
ASSUME PhrasesAssumption ==
    /\ \A p \in Phrases : IsPhrase(p)
    /\ \A l \in Lines : IsJob(l) => l.spec.form \in {"@", "cron"} \/ IsPhrase(l.spec)

ASSUME StartsAssumption ==
    \A x \in Starts : x.day \in Nat /\ x.tod \in Nat /\ x.tod < 86400

VARIABLES
    job,      \* the job followed, and the text that was written for it
    at,       \* the last instant it was due at, at first that of the start
    fires     \* how often it was due

ttVars == <<import, job, at, fires>>

Nobody == [written |-> [form |-> "word", word |-> "daily"],
           schedule |-> [form |-> "word", word |-> "daily"], policy |-> {}]

TTInit ==
    /\ ImportInit
    /\ job = Nobody
    /\ at \in Starts
    /\ fires = 0

\* A start takes the jobs; one schedule that does not parse stops it.
Follow(written, schedule, policy) ==
    /\ job' = [written |-> written, schedule |-> schedule, policy |-> policy]
    /\ phase' = IF Parse(schedule) = {} THEN "rejected" ELSE "following"
    /\ lines' = <<>> /\ entries' = <<>> /\ timezone' = {}
    /\ file' = Missing
    /\ UNCHANGED <<at, fires>>

\* The k-th job of the imported file, which stands in the crontab's i-th line.
FollowImported(i, k) ==
    /\ phase = "written" /\ Loads(file)
    /\ \A r \in Resolved(file) : Parse(r.schedule) # {}
    /\ k = Cardinality({m \in JobNumbers : m <= i})
    /\ Follow(lines[i].spec, file.jobs[k].schedule, Resolve(file, k).policy)

FollowPhrase(p) ==
    /\ phase = "reading" /\ lines = <<>>
    /\ Follow(p, p, {DefaultPolicy})

\* What the engine makes of the job: its next time, from the last one.
Next1 == UNION {NextAfter(e, at) : e \in Parse(job.schedule)}

Fire ==
    /\ phase = "following"
    /\ fires < MaxFires /\ at.day <= Horizon
    /\ at' \in Next1
    /\ fires' = fires + 1
    /\ UNCHANGED <<import, job>>

TTNext ==
    \/ ImportNext /\ UNCHANGED <<job, at, fires>>
    \/ \E i \in JobNumbers, k \in DOMAIN file.jobs : FollowImported(i, k)
    \/ \E p \in Phrases : FollowPhrase(p)
    \/ Fire

TTSpec == TTInit /\ [][TTNext]_ttVars

-----------------------------------------------------------------------------
\* What the phrases mean, by the words of README.md:201-224 and human.go:8-21.

\* The minutes from midnight to a time: of twelve hours, or of twenty-four.
MeantTime(t) ==
    CASE t.half = "midnight"    -> 0
      [] t.half = "noon"        -> 720
      [] t.half \in {"am", "pm"} ->
            (t.h % 12) * 60 + t.m + (IF t.half = "pm" THEN 720 ELSE 0)
      [] OTHER                  -> t.h * 60 + t.m

Week == <<{"sunday", "sun"}, {"monday", "mon"}, {"tuesday", "tue", "tues"},
          {"wednesday", "wed"}, {"thursday", "thu", "thur", "thurs"}, {"friday", "fri"},
          {"saturday", "sat"}>>

MeantDay(s, d) ==
    LET name == Week[Dow(d) + 1]
    IN  IF s.form = "at"
        THEN CASE s.days.on = "day"     -> TRUE
               [] s.days.on = "weekend" -> name \in {Week[1], Week[7]}
               [] s.days.on = "weekday" -> name \notin {Week[1], Week[7]}
               [] s.days.on = "month"   -> Dom(d) = s.days.nth
               [] s.days.on = "names"   -> name \cap s.days.names # {}
        ELSE CASE s.word = "weekly"     -> Dow(d) = 0
               [] s.word = "monthly"    -> Dom(d) = 1
               [] s.word \in {"yearly", "annually"} -> d % YearLength = 0
               [] OTHER                 -> TRUE

MeantTods(s) ==
    CASE s.form = "at" -> {MeantTime(s.time) * 60}
      [] OTHER -> IF s.word = "hourly" THEN {h * 3600 : h \in Hours} ELSE {0}

UnitSeconds == [second |-> 1, minute |-> 60, hour |-> 3600]
CycleSeconds == [second |-> 60, minute |-> 3600, hour |-> 86400]

\* The forms that README.md:201-224 and human.go:8-21 list.
Documented(p) ==
    CASE p.form \in {"@", "cron"} -> FALSE
      [] p.form = "word"  -> p.word \in {"hourly", "daily", "weekly", "monthly", "yearly"}
      [] p.form = "each"  -> p.unit \in {"second", "minute", "hour"}
      [] p.form = "count" -> /\ p.unit \in DOMAIN CycleSeconds
                             /\ p.n \in 1 .. (CycleSeconds[p.unit] \div UnitSeconds[p.unit]) - 1
      [] p.form = "at"    ->
            /\ p.time.half \in {"am", "pm"} => p.time.h \in 1 .. 12
            /\ MeantTime(p.time) \in 0 .. 1439 /\ p.time.m \in Minutes
            /\ p.days.on = "month" => p.days.nth \in Doms
            /\ p.days.on = "names" => p.days.names \subseteq UNION {Week[i] : i \in 1 .. 7}

HasMeaning(s) == s.form \in {"word", "@"} \/ (s.form = "at" /\ Documented(s))

Before(x, y) == x.day < y.day \/ (x.day = y.day /\ x.tod < y.tod)

\* A job is due exactly at the instants that its line or phrase names: at each,
\* and at none between.
FiresAsMeant ==
    [][Fire /\ HasMeaning(job.written) =>
          /\ MeantDay(job.written, at'.day) /\ at'.tod \in MeantTods(job.written)
          /\ \A d \in at.day .. at'.day : MeantDay(job.written, d) =>
                \A x \in MeantTods(job.written) :
                   ~ (Before(at, [day |-> d, tod |-> x])
                      /\ Before([day |-> d, tod |-> x], at'))]_ttVars

Elapsed(x, y) == (y.day - x.day) * 86400 + y.tod - x.tod

\* "every N units" leaves N units between two times, and fewer only where the
\* minute, hour or day turns and N does not divide it (human.go:187-197 counts
\* N from there).
IntervalGap ==
    [][Fire /\ job.written.form = "count" =>
          LET n == job.written.n * UnitSeconds[job.written.unit]
              cycle == CycleSeconds[job.written.unit]
          IN  /\ Elapsed(at, at') <= n
              /\ fires > 0 /\ Elapsed(at, at') < n =>
                    cycle % n # 0 /\ at'.tod % cycle = 0]_ttVars

\* human.go:74, 80: the cron parser takes what translate makes of a phrase; the
\* "internal" errors do not happen.
NeverInternalError ==
    job.written.form \in {"word", "each", "count", "at"} =>
        \A e \in Translate(job.written) : InBounds(e)

\* A phrase that stops the daemon is none of the documented forms, whatever the
\* values in it.
RejectedIsUndocumented == phase = "rejected" => ~ Documented(job.written)

\* README:272: timezone says "which timezone the schedule is in".
Shifted(x, s) == LET t == x.tod + s
                 IN  [day |-> x.day + t \div 86400, tod |-> t % 86400]

ZoneHonoured ==
    [][Fire /\ HasMeaning(job.written) =>
          \A z \in job.policy :
             LET x == Shifted(at', Ahead[z])
             IN  MeantDay(job.written, x.day) /\ x.tod \in MeantTods(job.written)]_ttVars
=============================================================================
