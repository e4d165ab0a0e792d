-------------------------- MODULE EngineAbstraction --------------------------
(* Engine implements Daemon: the phase is a view of the loop's position, and *)
(* the runs under way are the goroutines whose job still counts as running.  *)
EXTENDS Engine

AbstractPhase ==
    CASE pc \in {"down", "closed"}             -> "off"
      [] pc = "drain"                          -> "draining"
      [] pc \in {"catchup", "select", "tick"}  -> "on"

AbstractRuns == {<<r, jobOf[r]>> : r \in Live}

D == INSTANCE Daemon WITH phase <- AbstractPhase, runs <- AbstractRuns

\* Every step of the engine is a step of the abstract daemon or none: a launch
\* happens only before the quit is taken and only for an idle job, and the
\* daemon is off only when every run has ended or it has crashed.
ImplementsDaemon == D!Spec

\* Under the engine's fairness a daemon told to quit goes off in the end.
ImplementsFairDaemon == D!FairSpec
=============================================================================
