------------------------------ MODULE MCTimetable ------------------------------
(* Small instances of Timetable for TLC.                                        *)
EXTENDS Timetable

Wd(w) == [form |-> "word", word |-> w]
Each(u) == [form |-> "each", unit |-> u]
Count(n, u) == [form |-> "count", n |-> n, unit |-> u]
On(d) == [on |-> d, names |-> {}, nth |-> 0]
OnNames(ns) == [On("names") EXCEPT !.names = ns]
Nth(n) == [On("month") EXCEPT !.nth = n]
Time(h, m, half) == [h |-> h, m |-> m, half |-> half]
AtPhrase(d, t) == [form |-> "at", days |-> d, time |-> t]
Shortcut(w) == [form |-> "@", word |-> w]
Cron(e) == [form |-> "cron", expr |-> e]

Times == {Midnight, Noon, Time(12, 0, "am"), Time(12, 30, "pm"), Time(9, 30, "am"),
          Time(21, 0, ""), Time(0, 59, ""), Time(13, 0, "am"), Time(13, 0, "pm"),
          Time(24, 0, ""), Time(23, 60, "")}

Days == {On("day"), On("weekday"), On("weekend"), Nth(1), Nth(31), Nth(0), Nth(32),
         OnNames({"mon", "wed", "fri"}), OnNames({"sunday"}), OnNames({"thurs", "sat"}),
         OnNames({"tuesday", "moonday"})}

SomePhrases ==
    {Wd(w) : w \in DOMAIN Shortcuts \cup {"fortnightly"}}
    \cup {Each(u) : u \in {"second", "minute", "hour", "day"}}
    \cup {Count(n, u) : n \in {0, 1, 7, 40, 59, 60}, u \in {"second", "minute"}}
    \cup {Count(n, "hour") : n \in {5, 12, 23, 24}} \cup {Count(2, "day")}
    \cup {AtPhrase(d, Time(8, 30, "am")) : d \in Days}
    \cup {AtPhrase(On("day"), t) : t \in Times}
    \cup {AtPhrase(OnNames({"sunday"}), Midnight), AtPhrase(Nth(31), Time(11, 59, "pm"))}

\* Thursday 2026-01-01, the end of January, a Saturday in leap-less February
\* and the last hour of the year.
SomeStarts == {[day |-> 0, tod |-> 0], [day |-> 30, tod |-> 86399],
               [day |-> 58, tod |-> 30605], [day |-> 364, tod |-> 84600]}

\* 30 2 * * 7 (Sunday for other crons), 0 9 13 * 5, and a line of prose.
OddLines == {Job(Cron([OnDows(30, 2, {7}) EXCEPT !.any = {"dom"}]), {}, TRUE),
             Job(Wd("bogus"), {}, TRUE)}

SomeLines ==
    {Line("blank"), Line("reboot"), Env("CRON_TZ", {"Casablanca"}), Env("TZ", {"Nowhere"}),
     Env("TZ", {}), Env("MAILTO", {"root"}), Job(Shortcut("midnight"), {}, TRUE),
     Job(Shortcut("weekly"), {"job2"}, TRUE), Job(Shortcut("often"), {}, TRUE),
     Job(Shortcut("daily"), {}, FALSE),
     Job(Cron([OnDom(0, 9, 13) EXCEPT !.dow = {5}, !.any = {}]), {}, TRUE),
     Job(AtPhrase(On("day"), Time(9, 30, "am")), {}, TRUE)}
    \cup OddLines

ZoneLines == {Env("CRON_TZ", {"Casablanca"}), Job(Shortcut("daily"), {}, TRUE)}

JobN == <<"job1", "job2", "job3", "job4">>

AllSchedules ==
    SomePhrases \cup {Normalized(l.spec) : l \in {x \in SomeLines : IsJob(x)}}
Parsing == {s \in AllSchedules : Parse(s) # {}}

AheadOfLocal == [z \in {"UTC", "Casablanca"} |-> IF z = "UTC" THEN 0 ELSE 3600]
=============================================================================
