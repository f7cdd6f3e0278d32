---------------------------- MODULE KeyIteration ----------------------------
(***************************************************************************)
(* What SCAN promises about a key space, without tables, cursors or         *)
(* rehashing: a full iteration returns every key that was present from its  *)
(* start to its end (the comment above dictScan, dict.c).  A key that comes *)
(* or goes meanwhile may be returned or not.                                *)
(***************************************************************************)
EXTENDS Naturals, FiniteSets

CONSTANT Key

VARIABLES
  keys,      \* the keys stored
  scanning,  \* TRUE between the first call of an iteration and its last
  owed       \* present since the iteration began and not returned yet

abstractVars == <<keys, scanning, owed>>

AbstractInit == keys \subseteq Key /\ scanning = FALSE /\ owed = {}

\* A command stores one key, removes one, or removes all of them.
Write ==
  /\ \E k \in Key : keys' \in {keys \cup {k}, keys \ {k}, {}}
  /\ owed' = owed \cap keys'
  /\ UNCHANGED scanning

\* One call of the iteration returns some keys, which are owed no longer, and
\* its callback may remove some of those.  It says "over" only when nothing
\* is owed.
Visit ==
  /\ keys' \subseteq keys
  /\ owed' \subseteq keys' \cap (IF scanning THEN owed ELSE keys)
  /\ scanning' \in BOOLEAN
  /\ ~scanning' => owed' = {}

AbstractNext == Write \/ Visit

AbstractSpec == AbstractInit /\ [][AbstractNext]_abstractVars
=============================================================================
