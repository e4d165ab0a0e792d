------------------------------- MODULE JobSync -------------------------------
(***************************************************************************)
(* How jobs travel from cronhub.toml through the jobs table to the engine: *)
(* buildEngine loads and validates the file and upserts every job; then    *)
(* Engine.Run loads its jobs from the table, which also keeps the rows of  *)
(* earlier starts.  Beside the daemon the commands of ConfigEdit and the   *)
(* user's editor change the file, and the daemon stops or dies, at any     *)
(* time.  A notifier name is the sequence of its parts between commas,     *)
(* because the table keeps a notify list joined by commas.                 *)
(***************************************************************************)
EXTENDS ConfigEdit

CONSTANT MayDie   \* whether a start may be cut short

VARIABLES
    rows,      \* the jobs table
    phase,     \* of the daemon: "down", "save", "load" or "up"
    conf,      \* history: the jobs of the file this daemon started from
    todo,      \* those it has still to upsert
    loaded     \* the jobs Engine.Run loaded

daemon == <<rows, phase, conf, todo, loaded>>
syncVars == <<vars, daemon>>

SyncInit ==
    /\ Init
    /\ rows = {}
    /\ phase = "down"
    /\ conf = {} /\ todo = {} /\ loaded = {}

\* cronhub edit without a job, or any editor.
EditConfig ==
    /\ "daemon" \in crew
    /\ \A p \in Editor : pc[p] = "idle"
    /\ file' \in Scenes[crew].texts
    /\ intact' = file' /\ torn' = {} /\ misled' = misled \ {"cut"}
    /\ UNCHANGED <<crew, bak, pc, cmd, buf, copy, daemon>>

\* LoadConfig, then a parse of every schedule before the first upsert.
StartDaemon ==
    /\ "daemon" \in crew /\ phase = "down"
    /\ Loads(file)
    /\ \A r \in Resolved(file) : r.schedule \in GoodSchedules
    /\ phase' = "save"
    /\ conf' = Resolved(file) /\ todo' = Resolved(file)
    /\ UNCHANGED <<vars, rows, loaded>>

Parts(name) == {name[i] : i \in DOMAIN name}

\* SaveJob joins the names, LoadJobs splits the text again: what comes back are
\* the parts.  An empty text stands for the log notifier.
Joined(names) == LET ps == UNION {Parts(n) : n \in names}
                 IN  IF ps = {} THEN Parts(Log) ELSE ps
Split(text) == {<<p>> : p \in text}

\* Mutant: INSERT OR IGNORE, an existing row stays as it is.
InsertOrIgnore(table, r) ==
    IF \E x \in table : x.name = r.name THEN table ELSE table \cup {r}

\* Mutant: the table has no primary key.
InsertAlways(table, r) == table \cup {r}

Upsert(table, r) == {x \in table : x.name # r.name} \cup {r}

\* The order of the upserts does not matter: the names are distinct.
SaveJob(r) ==
    /\ phase = "save"
    /\ r \in todo
    /\ todo' = todo \ {r}
    /\ rows' = Upsert(rows, [r EXCEPT !.notify = Joined(@)])
    /\ UNCHANGED <<vars, phase, conf, loaded>>

SavedAll ==
    /\ phase = "save" /\ todo = {}
    /\ phase' = "load"
    /\ UNCHANGED <<vars, rows, conf, todo, loaded>>

\* SELECT without a WHERE; Run drops the rows whose schedule does not parse.
LoadJobs ==
    /\ phase = "load"
    /\ loaded' = {[r EXCEPT !.notify = Split(@)] :
                     r \in {x \in rows : x.schedule \in GoodSchedules}}
    /\ phase' = "up"
    /\ UNCHANGED <<vars, rows, conf, todo>>

\* The daemon stops or dies, in the middle of a start too (where it also gives
\* up on a failed upsert): the rows it has written stay.
GoDown ==
    /\ phase = "up" \/ (MayDie /\ phase \in {"save", "load"})
    /\ phase' = "down"
    /\ conf' = {} /\ todo' = {} /\ loaded' = {}
    /\ UNCHANGED <<vars, rows>>

SyncNext ==
    \/ Next /\ UNCHANGED daemon
    \/ EditConfig \/ StartDaemon \/ SavedAll \/ LoadJobs \/ GoDown
    \/ \E r \in todo : SaveJob(r)

SyncSpec == SyncInit /\ [][SyncNext]_syncVars

-----------------------------------------------------------------------------
\* A notify list that the text column gives back: it has a name, and no name
\* with a comma.
Plain(names) == names # {} /\ \A n \in names : n = <<n[1]>>

\* The engine runs every configured job with a plain list exactly as the file
\* resolves it, whatever rows earlier starts, complete or interrupted, have left
\* in the table, and whatever has become of the file since.
ConfiguredJobsLoaded ==
    phase = "up" => \A r \in conf : Plain(r.notify) => r \in loaded

\* The engine runs no configured job under another definition as well: whatever
\* an earlier start, of another file or cut short, has left under the job's name
\* is replaced, whatever its list (main.go:177-182, sqlite.go:118-135).
NoStaleDefinition ==
    phase = "up" =>
        \A r \in loaded, c \in conf :
            r.name = c.name =>
                /\ r.schedule = c.schedule /\ r.policy = c.policy
                /\ Plain(c.notify) => r.notify = c.notify

\* README:159-170: remove a job and restart the service to pick up the change;
\* the scheduler then runs the jobs of the file and no others.
RemovedNotLoaded ==
    phase = "up" => {r.name : r \in loaded} \subseteq {c.name : c \in conf}
=============================================================================
