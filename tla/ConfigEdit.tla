------------------------------ MODULE ConfigEdit ------------------------------
(***************************************************************************)
(* The commands that change cronhub.toml (add, remove, edit, init and      *)
(* import-crontab), as processes that read, truncate and write the file    *)
(* and its backup with no lock between them, and that may be killed        *)
(* between any two steps.                                                  *)
(***************************************************************************)
EXTENDS ConfigFile

CONSTANTS
    Editor,      \* the processes
    Scenes,      \* for each group of processes that run together: the commands
                 \* they may be given, and the texts the file may have at first
    LongJobs,    \* a text of so many jobs is longer than the encoder's buffer
    Bodies,      \* the texts init and import-crontab may write
    MaxJobs,     \* bound: no add while the file has so many jobs
    Mortal,      \* the processes that may be killed ...
    MaxTorn      \* bound: ... while torn has fewer kinds than this

\* A decoded text, its entries, and no two of them of one name.
IsEntry(e) == e = Entry(e.name, e.schedule, e.layer)
IsText(t) ==
    /\ t = [form |-> t.form, version |-> t.version, defaults |-> t.defaults,
            declared |-> t.declared, jobs |-> t.jobs, comments |-> t.comments]
    /\ t.jobs \in Seq({t.jobs[i] : i \in DOMAIN t.jobs})
    /\ \A i \in DOMAIN t.jobs : IsEntry(t.jobs[i])
Distinct(t) == IsText(t) /\ UniqueNames(t)

Kinds == {"add", "remove", "edit", "create", "force"}

ASSUME ScenesAssumption ==
    /\ \A g \in DOMAIN Scenes :
          /\ \A c \in Scenes[g].commands : c.kind \in Kinds
          /\ \A t \in Scenes[g].texts : Distinct(t)
    /\ \A t \in Bodies : Distinct(t)

\* Add(..), Remove(..), Edit(..), Create and Overwrite make the commands.
Add(name, s, l) == [kind |-> "add", name |-> name, schedule |-> {s}, layer |-> l]
Remove(name) == [kind |-> "remove", name |-> name, schedule |-> {}, layer |-> NoLayer]
Edit(name, s, l) == [kind |-> "edit", name |-> name, schedule |-> s, layer |-> l]
Create == [kind |-> "create", name |-> "", schedule |-> {}, layer |-> NoLayer]
Overwrite == [Create EXCEPT !.kind = "force"]

VARIABLES
    crew,    \* the group that runs
    file,    \* cronhub.toml
    bak,     \* cronhub.toml.bak
    pc,      \* what each process does next
    cmd,     \* the command it carries out
    buf,     \* the text it is about to write
    copy,    \* the text it has read, for the check or for the backup
    intact,  \* history: the text last written in full
    torn,    \* history: the kinds of command killed before their write
    misled   \* history: "add": one has appended to a text other than it checked,
             \* "cut": a command has taken what a killed one left for the file

history == <<intact, torn, misled>>
vars == <<crew, file, bak, pc, cmd, buf, copy, history>>

\* No command has been given yet (main.go:45-69); the file is the user's.
Init ==
    /\ crew \in DOMAIN Scenes
    /\ file \in Scenes[crew].texts
    /\ bak = EmptyText
    /\ pc = [p \in Editor |-> "idle"]
    /\ cmd = [p \in Editor |-> Overwrite]
    /\ buf = [p \in Editor |-> EmptyText]
    /\ copy = [p \in Editor |-> EmptyText]
    /\ intact = file
    /\ torn = {} /\ misled = {}

Goto(p, from, to) ==
    /\ pc[p] = from
    /\ pc' = [pc EXCEPT ![p] = to]
    /\ UNCHANGED crew

\* Every way out of a command forgets what it had read.
Finish(p) ==
    /\ pc' = [pc EXCEPT ![p] = "idle"]
    /\ buf' = [buf EXCEPT ![p] = EmptyText]
    /\ copy' = [copy EXCEPT ![p] = EmptyText]
    /\ cmd' = [cmd EXCEPT ![p] = Overwrite]
    /\ UNCHANGED crew

\* mustAdd and mustEdit parse the schedule they are given, and nothing else.
Start(p, c) ==
    /\ Goto(p, "idle", CASE c.kind = "add"    -> "exists"
                         [] c.kind = "create" -> "stat"
                         [] c.kind = "force"  -> "truncate"
                         [] c.kind \in {"remove", "edit"} -> "decode")
    /\ c.schedule \subseteq GoodSchedules
    /\ c.kind = "add" => Len(intact.jobs) < MaxJobs
    /\ cmd' = [cmd EXCEPT ![p] = c]
    /\ \E t \in IF c.kind \in {"create", "force"} THEN Bodies ELSE {EmptyText} :
          buf' = [buf EXCEPT ![p] = t]
    /\ UNCHANGED <<file, bak, copy, history>>

\* Mutant: only the last entry is compared with the name.
RefusesLast(t, c) ==
    \/ t.form # (IF c.kind = "create" THEN "missing" ELSE "toml")
    \/ c.kind # "create"
       /\ (c.kind = "add") =
             (Len(t.jobs) > 0 /\ t.jobs[Len(t.jobs)].name = c.name)

\* init and import give up when there is a file; the others when there is none
\* or it does not parse, add when it has the name, remove and edit when not.
Refuses(t, c) ==
    \/ t.form # (IF c.kind = "create" THEN "missing" ELSE "toml")
    \/ c.kind # "create" /\ (c.kind = "add") = (c.name \in NamesIn(t))

Refused(p) ==
    /\ pc[p] \in {"stat", "exists", "decode"}
    /\ Refuses(file, cmd[p])
    /\ Finish(p)
    /\ UNCHANGED <<file, bak, history>>

\* Init and WriteConfig: nobody keeps the name free after the Stat.
StatFree(p) ==
    /\ Goto(p, "stat", "truncate")
    /\ ~ Refuses(file, cmd[p])
    /\ UNCHANGED <<file, bak, cmd, buf, copy, history>>

\* AddJob: JobExists decodes the file once ...
AddExists(p) ==
    /\ Goto(p, "exists", "read")
    /\ ~ Refuses(file, cmd[p])
    /\ copy' = [copy EXCEPT ![p] = file]
    /\ UNCHANGED <<file, bak, cmd, buf, history>>

\* ... and ReadFile reads it again; the block is appended to that.
AddRead(p) ==
    /\ Goto(p, "read", "truncate")
    /\ \E s \in cmd[p].schedule :
          buf' = [buf EXCEPT ![p] =
                     Appended(file, Entry(cmd[p].name, s, cmd[p].layer))]
    /\ misled' = IF file # copy[p] THEN misled \cup {"add"} ELSE misled
    /\ UNCHANGED <<file, bak, cmd, copy, intact, torn>>

Changed(t, c) ==
    IF c.kind = "remove" THEN Without(t, c.name)
    ELSE Updated(t, c.name, c.schedule, c.layer)

\* RemoveJob and UpdateJob decode the file and find the job ...
Decode(p) ==
    /\ Goto(p, "decode", "copy")
    /\ ~ Refuses(file, cmd[p])
    /\ buf' = [buf EXCEPT ![p] = Written(Changed(file, cmd[p]))]
    /\ misled' = IF file # intact THEN misled \cup {"cut"} ELSE misled
    /\ UNCHANGED <<file, bak, cmd, copy, intact, torn>>

\* ... read it again for the backup ...
BackupRead(p) ==
    /\ Goto(p, "copy", "clearBak")
    /\ copy' = [copy EXCEPT ![p] = file]
    /\ UNCHANGED <<file, bak, cmd, buf, history>>

BackupTruncate(p) ==
    /\ Goto(p, "clearBak", "writeBak")
    /\ bak' = EmptyText
    /\ UNCHANGED <<file, cmd, buf, copy, history>>

\* What the bytes of t leave of a file that holds old: written from offset 0,
\* they do not remove what is behind them.
Over(t, old) == IF old \in {EmptyText} \cup Cuts(t) THEN {t} ELSE {t, Garbled}

\* Mutant: the backup is made of the file as rewritten.
BackupAfter(p) == buf[p]

BackupData(p) == copy[p]

BackupWrite(p) ==
    /\ Goto(p, "writeBak", "truncate")
    /\ bak' \in Over(BackupData(p), bak)
    /\ UNCHANGED <<file, cmd, buf, copy, history>>

\* ... and, like every command, truncate the file and then write it.
Truncate(p) ==
    /\ Goto(p, "truncate", "write")
    /\ file' = EmptyText
    /\ UNCHANGED <<bak, cmd, buf, copy, history>>

\* writeFile encodes into the file; a long text gets there in several writes.
WritePart(p) ==
    /\ Goto(p, "write", "write")
    /\ cmd[p].kind \in {"remove", "edit"}
    /\ Len(buf[p].jobs) >= LongJobs
    /\ file' \in IF file \in Cuts(buf[p]) THEN Cuts(buf[p]) ELSE {Garbled}
    /\ UNCHANGED <<bak, cmd, buf, copy, history>>

\* A text of init --force makes good for the commands torn before it.
Write(p) ==
    /\ pc[p] = "write"
    /\ file' \in Over(buf[p], file)
    /\ intact' = file'
    /\ IF cmd[p].kind = "force" THEN torn' = {} /\ misled' = misled \ {"cut"}
       ELSE UNCHANGED <<torn, misled>>
    /\ Finish(p)
    /\ UNCHANGED bak

Kill(p) ==
    /\ p \in Mortal /\ Cardinality(torn) < MaxTorn
    /\ pc[p] # "idle"
    /\ Finish(p)
    /\ torn' = IF pc[p] = "write" THEN torn \cup {cmd[p].kind} ELSE torn
    /\ UNCHANGED <<file, bak, intact, misled>>

EditorStep(p) ==
    \/ \E c \in Scenes[crew].commands : Start(p, c)
    \/ StatFree(p) \/ AddExists(p) \/ AddRead(p) \/ Decode(p) \/ Refused(p)
    \/ BackupRead(p) \/ BackupTruncate(p) \/ BackupWrite(p) \/ Truncate(p)
    \/ WritePart(p) \/ Write(p) \/ Kill(p)

Next == \E p \in crew \cap Editor : EditorStep(p)

Spec == Init /\ [][Next]_vars

-----------------------------------------------------------------------------
\* Nobody but p changes the file.
Alone(p) == crew = {p}

\* remove and edit may be killed at any step and the last complete text still
\* exists, in the file or in its backup: RemoveJob and UpdateJob touch the file
\* only when the backup is whole, and refuse a truncated file before they
\* would back that up.  The other commands have no backup to fall back on, and
\* a file cut short, not empty, gets past the refusal into the backup.
Recoverable ==
    /\ (torn \cup {cmd[p].kind : p \in {x \in Editor : pc[x] = "write"}})
           \subseteq {"remove", "edit"}
    /\ "cut" \notin misled
    => intact \in {file, bak}

\* When no command is under way the file, if there is one, is one the daemon
\* starts from, provided that it was at first, that no command was killed
\* before its write, that commands are run one at a time, and that remove has
\* left a job: LoadConfig wants one (config.go:99).
QuiescentLoads ==
    torn = {} /\ (\A p \in Editor : pc[p] = "idle") /\ (\E p \in Editor : Alone(p))
    => file = Missing \/ Loads(file) \/ (file.version /\ file.jobs = <<>>)

\* README:142-144: add leaves everything else exactly as it was, comments too.
AddLeavesRest ==
    [][\A p \in Editor :
          Write(p) /\ cmd[p].kind = "add" /\ torn = {} /\ Alone(p) =>
              /\ [file' EXCEPT !.jobs = <<>>] = [intact EXCEPT !.jobs = <<>>]
              /\ SubSeq(file'.jobs, 1, Len(intact.jobs)) = intact.jobs
              /\ Len(file'.jobs) = Len(intact.jobs) + 1]_vars

\* What the daemon makes of a job keeps its meaning through remove and edit,
\* unless it is the job named and, for edit, the field is one given.
\* README:152: "Only the fields you pass are changed".  A list set to be empty is
\* not kept (edit.go:186): the texts and commands of the scene in which a process
\* is alone have none (FullAlone).
Kept(c, old, new) ==
    \A r \in Resolved(old) :
        \/ r \in Resolved(new)
        \/ r.name = c.name /\ c.kind = "remove"
        \/ /\ r.name = c.name
           /\ \E n \in Resolved(new) :
                 /\ n.name = r.name
                 /\ c.schedule = {} => n.schedule = r.schedule
                 /\ c.layer.policy = {} => n.policy = r.policy
                 /\ c.layer.notify = {} => n.notify = r.notify

OthersKept ==
    [][\A p \in Editor :
          Write(p) /\ cmd[p].kind \in {"remove", "edit"} /\ torn = {} /\ Alone(p) =>
              Kept(cmd[p], intact, file')]_vars

\* README:143-144: add refuses a duplicate name before writing anything.  Two
\* adds at once can get past that (edit.go:43, 51), but only when the text one
\* of them appends to is no longer the one it has checked.
NamesUnlessRaced == "add" \notin misled => UniqueNames(file)

-----------------------------------------------------------------------------
\* What QuiescentLoads and OthersKept need of the texts and the commands there
\* are at first (ConfigEditProofs; the small instance has it as an ASSUME).

\* The entries of a text, and what stands beside them.
Entries(t) == {t.jobs[i] : i \in DOMAIN t.jobs}
Preamble(t) == <<t.form, t.version, t.defaults, t.declared>>

\* A layer that LoadConfig accepts where these notifiers are declared, and a
\* text it accepts, its number of jobs and their names apart.
Fits(l, declared) ==
    /\ l = Layer(l.policy, l.notify)
    /\ l.policy \subseteq GoodPolicies
    /\ (UNION l.notify) \subseteq declared \cup {Log}

Usable(t) ==
    /\ t.form = "toml" /\ t.version
    /\ Log \notin t.declared
    /\ Fits(t.defaults, t.declared)
    /\ \A e \in Entries(t) : e.schedule # NoSchedule /\ Fits(e.layer, t.declared)

\* For a command alone with the file: no text LoadConfig rejects, and no field
\* it rejects, which add and edit would take without looking at it.
SoundAlone ==
    \A p \in Editor : {p} \in DOMAIN Scenes =>
        /\ \A t \in Scenes[{p}].texts \cup Bodies : t = Missing \/ Usable(t)
        /\ \A c \in Scenes[{p}].commands, t \in Scenes[{p}].texts \cup Bodies :
              t = Missing \/ Fits(c.layer, t.declared)

\* Layers and texts that come back from writeFile as they were: no list of
\* theirs is set to be empty.
NoEmptyList(l) == l = Layer(l.policy, l.notify) /\ {} \notin l.notify
Full(t) == NoEmptyList(t.defaults) /\ \A e \in Entries(t) : NoEmptyList(e.layer)

\* For a command alone with the file: no such text at first, nor from init.
FullAlone ==
    \A p \in Editor : {p} \in DOMAIN Scenes =>
        /\ \A t \in Scenes[{p}].texts \cup Bodies : Full(t)
        /\ \A c \in Scenes[{p}].commands : c.layer = Layer(c.layer.policy, c.layer.notify)
=============================================================================
