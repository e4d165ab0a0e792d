------------------------------- MODULE Schedule -------------------------------
(***************************************************************************)
(* internal/schedule: from the text of a schedule to the instants it names *)
(* (operators only).  A text is a record with a form: "word" (daily),      *)
(* "each" (every minute), "count" (every 5 minutes), "at" (every monday at *)
(* 9am) or "cron".  Case, spaces, plurals and ordinal suffixes are left    *)
(* out.  An instant is a day, in years of 365 days, and a second of it.    *)
(***************************************************************************)
EXTENDS Integers, FiniteSetsExt

Seconds == 0 .. 59
Minutes == 0 .. 59
Hours   == 0 .. 23
Doms    == 1 .. 31
Months  == 1 .. 12
Dows    == 0 .. 6

\* A cron expression: the values of each field, and which of the two day
\* fields are "*".
Expr(s, mi, h, dom, mo, dow, any) ==
    [sec |-> s, min |-> mi, hour |-> h, dom |-> dom, month |-> mo, dow |-> dow,
     any |-> any]

Daily(s, mi, h) == Expr(s, mi, h, Doms, Months, Dows, {"dom", "dow"})
OnDows(mi, h, dow) == Expr({0}, {mi}, {h}, Doms, Months, dow, {"dom"})
OnDom(mi, h, dom) == Expr({0}, {mi}, {h}, {dom}, Months, Dows, {"dow"})

\* The word shortcuts.
Shortcuts ==
    [hourly   |-> Daily({0}, {0}, Hours),
     daily    |-> Daily({0}, {0}, {0}),
     weekly   |-> OnDows(0, 0, {0}),
     monthly  |-> OnDom(0, 0, 1),
     yearly   |-> [OnDom(0, 0, 1) EXCEPT !.month = {1}],
     annually |-> [OnDom(0, 0, 1) EXCEPT !.month = {1}]]

Word(w) == IF w \in DOMAIN Shortcuts THEN {Shortcuts[w]} ELSE {}

\* parseInterval: "*/N" matches the multiples of N in a field that starts at 0.
Step(n, field) == {k \in field : k % n = 0}

\* Mutant: "* */N", the minute is forgotten.
EveryMinuteOf(n) == [second |-> Daily(Step(n, Seconds), Minutes, Hours),
                     minute |-> Daily({0}, Step(n, Minutes), Hours),
                     hour   |-> Daily({0}, Minutes, Step(n, Hours))]

Every(n) == [second |-> Daily(Step(n, Seconds), Minutes, Hours),
             minute |-> Daily({0}, Step(n, Minutes), Hours),
             hour   |-> Daily({0}, {0}, Step(n, Hours))]

MaxCount == [second |-> 59, minute |-> 59, hour |-> 23]

\* Mutant: N reaches neither limit.
IntervalShort(n, unit) ==
    IF unit \in DOMAIN MaxCount /\ n > 0 /\ n < MaxCount[unit]
    THEN {Every(n)[unit]} ELSE {}

Interval(n, unit) ==
    IF unit \in DOMAIN MaxCount /\ n \in 1 .. MaxCount[unit]
    THEN {Every(n)[unit]} ELSE {}

\* parseTime: a time of day [h, m, half], half being "am", "pm", "" or one of
\* the two words.  The result is the set of the hour (none if out of range).
Midnight == [h |-> 0, m |-> 0, half |-> "midnight"]
Noon     == [h |-> 0, m |-> 0, half |-> "noon"]

\* Mutant: 12am stays 12.
HourTwelve(t) ==
    CASE t.half = "noon" -> 12
      [] t.half = "pm" /\ t.h # 12 -> t.h + 12
      [] OTHER -> t.h

Hour(t) ==
    CASE t.half = "noon" -> 12
      [] t.half = "am" /\ t.h = 12 -> 0
      [] t.half = "pm" /\ t.h # 12 -> t.h + 12
      [] OTHER -> t.h

InDay(t) == Hour(t) \in Hours /\ t.m \in Minutes

\* parseDays: the names, their short forms, and the numbers cron has for them.
DayNames ==
    [sunday |-> 0, sun |-> 0, monday |-> 1, mon |-> 1,
     tuesday |-> 2, tue |-> 2, tues |-> 2, wednesday |-> 3, wed |-> 3,
     thursday |-> 4, thu |-> 4, thur |-> 4, thurs |-> 4,
     friday |-> 5, fri |-> 5, saturday |-> 6, sat |-> 6]

\* Mutant: parseOrdinal leaves the range to the cron parser.
OrdinalUnchecked(mi, h, nth) == {OnDom(mi, h, nth)}

Ordinal(mi, h, nth) == {OnDom(mi, h, n) : n \in {nth} \cap Doms}

Named(mi, h, names) ==
    IF names \subseteq DOMAIN DayNames
    THEN {OnDows(mi, h, {DayNames[d] : d \in names})} ELSE {}

\* The day part d of "every d at TIME" is [on |-> .., names |-> .., nth |-> ..].
At(d, t) ==
    IF ~ InDay(t) THEN {}
    ELSE CASE d.on = "day"     -> {Daily({0}, {t.m}, {Hour(t)})}
           [] d.on = "weekday" -> {OnDows(t.m, Hour(t), 1 .. 5)}
           [] d.on = "weekend" -> {OnDows(t.m, Hour(t), {0, 6})}
           [] d.on = "month"   -> Ordinal(t.m, Hour(t), d.nth)
           [] OTHER            -> Named(t.m, Hour(t), d.names)

\* HumanParser.translate: at most one expression, none on an error.
Translate(s) ==
    CASE s.form = "word"  -> Word(s.word)
      [] s.form = "each"  -> Interval(1, s.unit)
      [] s.form = "count" -> Interval(s.n, s.unit)
      [] s.form = "at"    -> At(s.days, s.time)

\* The cron parser takes an expression whose values lie in their fields.
InBounds(e) ==
    /\ e.sec \subseteq Seconds /\ e.min \subseteq Minutes /\ e.hour \subseteq Hours
    /\ e.dom \subseteq Doms /\ e.month \subseteq Months /\ e.dow \subseteq Dows

\* AutoParser: a text that begins with a letter is a phrase, any other is cron.
\* The cron parser is set up without @-shortcuts.
Parse(s) ==
    {e \in CASE s.form = "cron" -> {s.expr}
             [] s.form = "@" -> {}
             [] OTHER -> Translate(s) : InBounds(e)}

-----------------------------------------------------------------------------
\* What robfig/cron makes of an expression.

YearLength == 365
FirstDays == <<0, 31, 59, 90, 120, 151, 181, 212, 243, 273, 304, 334, 365>>

MonthOf[y \in 0 .. YearLength - 1] ==
    CHOOSE m \in Months : y \in FirstDays[m] .. FirstDays[m + 1] - 1

Dow(d) == (d + 4) % 7       \* day 0 is a Thursday, as in 2026
Dom(d) == (d % YearLength) - FirstDays[MonthOf[d % YearLength]] + 1

\* A day matches when both day fields do, if one of them is "*", else either.
OnDay(e, d) ==
    /\ MonthOf[d % YearLength] \in e.month
    /\ IF e.any = {} THEN Dom(d) \in e.dom \/ Dow(d) \in e.dow
                     ELSE Dom(d) \in e.dom /\ Dow(d) \in e.dow

Tod(h, mi, s) == h * 3600 + mi * 60 + s

\* The first instants after tod in the same minute, hour and day.
Later(e, tod) ==
    LET h == tod \div 3600  mi == (tod \div 60) % 60  s == tod % 60
    IN  {Tod(h, mi, x) : x \in {y \in e.sec : y > s /\ h \in e.hour /\ mi \in e.min}}
        \cup {Tod(h, x, Min(e.sec)) : x \in {y \in e.min : y > mi /\ h \in e.hour}}
        \cup {Tod(x, Min(e.min), Min(e.sec)) : x \in {y \in e.hour : y > h}}

FirstOf(e) == Tod(Min(e.hour), Min(e.min), Min(e.sec))

\* Schedule.Next: the first instant after at, none if there is none in a year.
NextAfter(e, at) ==
    LET days == {d \in at.day + 1 .. at.day + YearLength + 1 : OnDay(e, d)}
    IN  CASE OnDay(e, at.day) /\ Later(e, at.tod) # {} ->
               {[day |-> at.day, tod |-> Min(Later(e, at.tod))]}
          [] OTHER -> IF days = {} THEN {}
                      ELSE {[day |-> Min(days), tod |-> FirstOf(e)]}
=============================================================================
