------------------------------- MODULE Space -------------------------------
(***************************************************************************)
(* How much memory a table of declared sizes stands for.                   *)
(*                                                                         *)
(* A size table sz maps every key to the size declared for its value, or   *)
(* to Absent.  Its bytes are the pairs <<k, i>>, one for each unit of      *)
(* storage that entry k was declared to use, so the space it takes is a    *)
(* cardinality: no sum over a table, and facts about finite sets apply.    *)
(***************************************************************************)
EXTENDS Integers, FiniteSets

CONSTANTS
    Key,      \* the keys that callers use
    Absent    \* marks a key that has no entry

\* The keys that have an entry in the table.
Present(sz) == {k \in Key : sz[k] # Absent}

\* The storage units of one entry of size n.
Row(k, n) == {k} \X (1..n)

\* The storage units of the whole table.
Bytes(sz) == UNION {Row(k, sz[k]) : k \in Present(sz)}

\* What Cache::space_used should report for the table.
SpaceOf(sz) == Cardinality(Bytes(sz))
============================================================================
