------------------------------ MODULE ConfigFile ------------------------------
(***************************************************************************)
(* What internal/config makes of the text of cronhub.toml, as operators on *)
(* decoded texts.  An optional field (a nil pointer or nil slice in the    *)
(* Go structs) is a set of at most one value.  The field policy stands for *)
(* on_overlap, on_missed, timeout and timezone: every function here treats *)
(* the four alike, and LoadConfig alone rejects bad values of them.        *)
(***************************************************************************)
EXTENDS Sequences, FiniteSets, Integers

CONSTANTS
    Schedules, GoodSchedules,   \* schedule texts, and those the parser accepts
    NoSchedule,                 \* stands for a required field that is left out
    Policies, GoodPolicies,     \* likewise for the validated optional fields
    DefaultPolicy,              \* their compiled-in value
    Log                         \* the name of the notifier that is always there

\* The parser has no reading of an empty text (auto.go:30).
ASSUME TextsAssumption ==
    /\ GoodSchedules \subseteq Schedules /\ GoodPolicies \subseteq Policies
    /\ NoSchedule \notin GoodSchedules

Layer(p, n) == [policy |-> p, notify |-> n]
NoLayer == Layer({}, {})

\* One [[job]] entry.
Entry(name, s, l) == [name |-> name, schedule |-> s, layer |-> l]

\* A whole text.  form is "toml", "garbled", or "missing": there is no file.
Text(version, defaults, declared, jobs, comments) ==
    [form |-> "toml", version |-> version, defaults |-> defaults,
     declared |-> declared, jobs |-> jobs, comments |-> comments]

\* A file just truncated, one two writers have overlaid, and none at all.
EmptyText == Text(FALSE, NoLayer, {}, <<>>, FALSE)
Garbled == [EmptyText EXCEPT !.form = "garbled"]
Missing == [EmptyText EXCEPT !.form = "missing"]

Positions(t, name) == {i \in DOMAIN t.jobs : t.jobs[i].name = name}
NamesIn(t) == {t.jobs[i].name : i \in DOMAIN t.jobs}
UniqueNames(t) ==
    \A i, k \in DOMAIN t.jobs : t.jobs[i].name = t.jobs[k].name => i = k

\* applyLayer for one field: a set field of the upper layer wins.
Overlay(lower, upper) == IF upper = {} THEN lower ELSE upper

\* compiledDefaults, overlaid by [defaults], overlaid by the job's own fields.
Resolve(t, i) ==
    LET e == t.jobs[i]
    IN  [name     |-> e.name,
         schedule |-> e.schedule,
         policy   |-> Overlay(Overlay({DefaultPolicy}, t.defaults.policy), e.layer.policy),
         notify   |-> UNION Overlay(Overlay({{Log}}, t.defaults.notify),
                                    e.layer.notify)]

Resolved(t) == {Resolve(t, i) : i \in DOMAIN t.jobs}

\* LoadConfig succeeds.  Schedules are not parsed here but by its callers.
Loads(t) ==
    /\ t.form = "toml" /\ t.version
    /\ Len(t.jobs) > 0
    /\ Log \notin t.declared
    /\ t.defaults.policy \subseteq GoodPolicies
    /\ UniqueNames(t)
    /\ \A i \in DOMAIN t.jobs :
          /\ t.jobs[i].schedule # NoSchedule
          /\ t.jobs[i].layer.policy \subseteq GoodPolicies
          /\ Resolve(t, i).notify \subseteq t.declared \cup {Log}

\* AddJob: the rendered block goes after the text as it is.  An empty notify
\* list is not rendered.
Rendered(l) == [l EXCEPT !.notify = @ \ {{}}]

\* Mutant: add rewrites the file like the other commands do.
AppendedRewritten(t, e) == [t EXCEPT !.jobs = Append(@, e), !.comments = FALSE]

Appended(t, e) ==
    [t EXCEPT !.jobs = Append(@, [e EXCEPT !.layer = Rendered(@)])]

\* Mutant: the write-only view of the file has no notifiers.
WrittenBare(t) == [t EXCEPT !.comments = FALSE, !.declared = {}]

\* writeFile: comments go, and omitempty drops the lists that are set but empty.
Written(t) ==
    Text(t.version, Rendered(t.defaults), t.declared,
         [i \in DOMAIN t.jobs |-> [t.jobs[i] EXCEPT !.layer = Rendered(@)]], FALSE)

\* What a reader may find while the encoder, whose buffer holds 4096 bytes,
\* writes t in parts: entries are missing, and of the last one some fields.
CutAt(t, k) ==
    LET last == {t.jobs[k], [t.jobs[k] EXCEPT !.layer = NoLayer],
                 Entry(t.jobs[k].name, NoSchedule, NoLayer)}
    IN  {[t EXCEPT !.jobs = Append(SubSeq(@, 1, k - 1), e)] : e \in last}

Cuts(t) == {EmptyText, Garbled} \cup UNION {CutAt(t, k) : k \in DOMAIN t.jobs}

\* RemoveJob and UpdateJob change the first entry of the name.
First(t, name) ==
    CHOOSE i \in Positions(t, name) : \A k \in Positions(t, name) : i <= k

\* Mutant: the entry after the one found is cut.
WithoutNext(t, name) ==
    LET k == First(t, name)
    IN  [t EXCEPT !.jobs = SubSeq(@, 1, k) \o SubSeq(@, k + 2, Len(@))]

Without(t, name) ==
    LET k == First(t, name)
    IN  [t EXCEPT !.jobs = SubSeq(@, 1, k - 1) \o SubSeq(@, k + 1, Len(@))]

\* UpdateJob: the fields given replace the entry's, the others stay.
Updated(t, name, s, l) ==
    [t EXCEPT !.jobs[First(t, name)] =
        Entry(name, IF s = {} THEN @.schedule ELSE CHOOSE x \in s : TRUE,
              Layer(Overlay(@.layer.policy, l.policy),
                    Overlay(@.layer.notify, l.notify)))]
=============================================================================
