------------------------------- MODULE Crontab -------------------------------
(***************************************************************************)
(* cronhub import-crontab: internal/crontab reads a crontab line by line   *)
(* and renders what it found as a cronhub.toml.  A line is "blank" (or a   *)
(* comment), "env", "reboot", or "entry": anything else, with a command or *)
(* without.  An optional value is a set of at most one.  The step that     *)
(* refuses to replace a file is Create of ConfigEdit.                      *)
(***************************************************************************)
EXTENDS Schedule, ConfigFile

CONSTANTS
    Lines,      \* the lines a crontab may have
    MaxLines,   \* bound: and how many
    Numbered    \* the names <<"job1", "job2", ...>>

ASSUME NumberedAssumption ==
    /\ Numbered \in Seq(STRING)
    /\ MaxLines \in 0 .. Len(Numbered)
    /\ \A m, n \in DOMAIN Numbered : Numbered[m] = Numbered[n] => m = n

Env(key, value) == [kind |-> "env", key |-> key, value |-> value]
Job(spec, name, command) ==
    [kind |-> "entry", spec |-> spec, name |-> name, command |-> command]
Line(kind) == [kind |-> kind]

VARIABLES
    lines,      \* history: the lines read so far
    entries,    \* the jobs found in them: a schedule and a name each
    timezone,   \* the value of the last CRON_TZ or TZ
    phase,      \* "reading", "failed" or "written"
    file        \* cronhub.toml

import == <<lines, entries, timezone, phase, file>>

ImportInit ==
    /\ lines = <<>> /\ entries = <<>> /\ timezone = {}
    /\ phase = "reading"
    /\ file = Missing

\* crontab's @-shortcuts, as fields.
CronShortcuts ==
    [w \in DOMAIN Shortcuts \cup {"midnight"} |->
        Shortcuts[IF w = "midnight" THEN "daily" ELSE w]]

\* Mutant: the cron parser is left to make sense of @daily.
AsIs(spec) == spec

Normalized(spec) ==
    IF spec.form = "@" THEN [form |-> "cron", expr |-> CronShortcuts[spec.word]]
    ELSE spec

\* parseEntry finds a schedule and a command.
IsJob(l) ==
    /\ l.kind = "entry" /\ l.command
    /\ l.spec.form = "@" => l.spec.word \in DOMAIN CronShortcuts

\* The texts the parser accepts are those that Schedule finds a meaning for, and
\* what import makes of a line is one of the texts there are.  The schedule of a
\* line is its first five words, or one that begins with "@": "every 5 minutes"
\* is neither.
ASSUME LinesAssumption ==
    /\ GoodSchedules = {s \in Schedules : Parse(s) # {}}
    /\ \A l \in Lines : IsJob(l) =>
          Normalized(l.spec) \in Schedules /\ l.spec.form # "count"

\* An entry without a name comment is called by its number among the entries.
Entries(es, l) ==
    IF ~ IsJob(l) THEN es
    ELSE Append(es, [name |-> CHOOSE x \in Overlay({Numbered[Len(es) + 1]}, l.name) : TRUE,
                     schedule |-> Normalized(l.spec)])

\* One turn of Parse's loop.  A later time zone replaces an earlier one, also
\* for the entries above it.
ReadLine(l) ==
    /\ phase = "reading" /\ Len(lines) < MaxLines
    /\ lines' = Append(lines, l)
    /\ entries' = Entries(entries, l)
    /\ timezone' = IF l.kind = "env" /\ l.key \in {"CRON_TZ", "TZ"} THEN l.value
                   ELSE timezone
    /\ UNCHANGED <<phase, file>>

\* RenderTOML: an empty time zone is not rendered.
Rendering ==
    Text(TRUE, Layer(timezone, {}), {},
         [i \in DOMAIN entries |-> Entry(entries[i].name, entries[i].schedule, NoLayer)],
         TRUE)

EndOfCrontab ==
    /\ phase = "reading"
    /\ phase' = IF entries = <<>> THEN "failed" ELSE "written"
    /\ file' = IF entries = <<>> THEN file ELSE Rendering
    /\ UNCHANGED <<lines, entries, timezone>>

\* The file cannot be read on, or has a line of more than a megabyte.
ReadFails ==
    /\ phase = "reading"
    /\ phase' = "failed"
    /\ UNCHANGED <<lines, entries, timezone, file>>

ImportNext == (\E l \in Lines : ReadLine(l)) \/ EndOfCrontab \/ ReadFails

-----------------------------------------------------------------------------
\* The numbers of the lines with a job.
JobNumbers == {i \in DOMAIN lines : IsJob(lines[i])}

\* crontab.go:3-4: "an existing cron user points cronhub at their crontab and it
\* runs unchanged".  The daemon starts from the imported file and finds one job
\* per entry, provided that no entry has a name comment (it might clash with
\* another's number), the time zone exists, and the cron parser takes the
\* fields, which import does not look at (it does not take day of week 7).
ImportStarts ==
    /\ phase = "written"
    /\ timezone \subseteq GoodPolicies
    /\ \A i \in JobNumbers :
          /\ lines[i].name = {}
          /\ lines[i].spec.form # "@" => lines[i].spec \in GoodSchedules
    => /\ Loads(file)
       /\ \A r \in Resolved(file) : r.schedule \in GoodSchedules
       /\ Cardinality(Resolved(file)) = Cardinality(JobNumbers)
=============================================================================
