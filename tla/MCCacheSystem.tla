--------------------------- MODULE MCCacheSystem ---------------------------
(***************************************************************************)
(* CacheSystem on a small instance: one payload whose text the client's    *)
(* get() cuts in the wrong places, and one that it reads back.             *)
(***************************************************************************)
EXTENDS CacheSystem

CONSTANT Flaky   \* bound: the connections that can fail before the server does

MCVal == {<<"one", 1>>, <<"three", 3>>}

MCSizeOf == [v \in Val |-> v[2]]

MCGarbles == {<<"three", 3>>}

\* The connections outside Flaky stay up, and send no '/'.
Reliable(s) == client'[s] # Cut /\ (s \in linked => s \in linked' \/ ~Up(s))

BoundedSystemNext == SystemNext /\ \A s \in Session \ Flaky : Reliable(s)

BoundedSystemSpec ==
    SystemInit /\ [][BoundedSystemNext]_systemVars /\ SystemFairness
============================================================================
