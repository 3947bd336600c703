--------------------------- MODULE MCLifecycleCase ---------------------------
(* Small instances of LifecycleCase for TLC. *)
EXTENDS LifecycleCase

\* The client's group may hold a descendant that outlives its leader.
ClientForks == {"client"}

NobodyForks == {}

\* Groups killpg may refuse to signal: the profiler's keeps the run short.
ProfilerRefuses == {"profiler"}

\* The cancelled cleanup needs only a group that refuses, whichever it is.
EveryoneRefuses == Roles
=============================================================================
