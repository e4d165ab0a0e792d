------------------------------- MODULE MCDeploy -------------------------------
(* Small instances of ConfigEdit and JobSync for TLC: one process with every   *)
(* command on a commented file of three jobs under a [defaults] table; two     *)
(* that add; and one beside a daemon.  Notifier names are tuples of parts.     *)
EXTENDS JobSync, TLC

LogName == <<"log">>
Alerts == <<"alerts">>
Paged == <<"team", "pager">>

Job(name, s, p, n) == Entry(name, s, Layer(p, n))
Config(defaults, declared, jobs) == Text(TRUE, defaults, declared, jobs, FALSE)

Commented ==
    [Config(Layer({"catch_up"}, {{Alerts}}), {Alerts},
            << Job("keep", "s1", {}, {}), Job("own", "s2", {"queue"}, {{LogName}}),
               Job("old", "s1", {}, {{LogName, Alerts}}) >>) EXCEPT !.comments = TRUE]

Imported == Config(Layer({"queue"}, {}), {},
                   <<Job("keep", "s1", {}, {}), Job("own", "s2", {}, {}), Job("c", "s1", {}, {})>>)

FromCrontab == {Imported}

AllCommands ==
    {Remove("own"), Remove("keep"), Remove("old"), Edit("keep", {"s2"}, NoLayer), Edit("old", {}, Layer({}, {{LogName}})),
     Add("new", "s2", Layer({"queue"}, {{LogName}})), Add("own", "s1", NoLayer),
     Create, Overwrite}

TwoAdds == {Add("new", "s1", NoLayer), Add("new", "s2", NoLayer), Create}

\* Successive versions of a configuration: jobs change their fields, come and
\* go; one version does not load and one has a schedule that does not parse.
Versions ==
    { Config(NoLayer, {}, <<Job("a", "s1", {}, {}), Job("b", "s1", {}, {{LogName}})>>),
      Config(Layer({"queue"}, {{Alerts}}), {Alerts},
             <<Job("a", "s2", {}, {}), Job("b", "s1", {"skip"}, {{LogName, Alerts}})>>),
      Config(NoLayer, {}, <<Job("a", "s1", {"queue"}, {{LogName}})>>),
      Config(Layer({}, {{}}), {Paged}, <<Job("b", "s2", {}, {{Paged}}), Job("a", "s1", {}, {})>>),
      Config(NoLayer, {}, <<Job("b", "s2", {}, {{Alerts}})>>),
      Config(NoLayer, {}, <<Job("b", "s2", {}, {}), Job("a", "bad", {}, {})>>) }

Changes == {Remove("b"), Edit("a", {"s2"}, NoLayer)}

Scene(commands, texts) == [commands |-> commands, texts |-> texts]

Groups == {"p1"}           :> Scene(AllCommands, {Commented, Missing}) @@
          {"p2", "p3"}     :> Scene(TwoAdds, {Commented, Missing}) @@
          {"p1", "daemon"} :> Scene(Changes, Versions)

\* The hypotheses of ConfigEditProofs, of the scene in which p1 is alone.
ASSUME ScenesSound == SoundAlone /\ FullAlone

DaemonOnly == {"daemon"} :> Scene({}, Versions)
=============================================================================
