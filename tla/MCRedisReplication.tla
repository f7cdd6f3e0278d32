------------------------- MODULE MCRedisReplication -------------------------
EXTENDS RedisReplication, TLC

CONSTANTS n1, n2, n3

Bounds(tree, dbs, w, r) ==
    [tree |-> tree, dbs |-> dbs, writes |-> w, roles |-> r, saves |-> 0, errors |-> 0, cuts |-> 0, idles |-> 0,
     crashes |-> 0, failovers |-> 0, aborts |-> 0]

Star == n1 :> None @@ n2 :> n1 @@ n3 :> n1
Chain == n1 :> None @@ n2 :> n1 @@ n3 :> n2
Pair == n1 :> None @@ n2 :> n1

(***************************************************************************)
(* Promotion and demotion with a short backlog; a planned failover with    *)
(* all its ways out; a crash and a save; a backlog that expires; a chain   *)
(* whose saves and loads fail, or break or crash; three servers that       *)
(* change roles twice.                                                     *)
(***************************************************************************)
MCScenarios ==
    { Bounds(Pair, {0, 1}, 2, 1),
      [Bounds(Star, {0}, 1, 0) EXCEPT !.failovers = 1, !.errors = 1, !.aborts = 1, !.cuts = 1],
      [Bounds(Pair, {0, 1}, 2, 0) EXCEPT !.crashes = 1, !.saves = 1, !.cuts = 1],
      [Bounds(Pair, {0}, 2, 1) EXCEPT !.idles = 1, !.cuts = 1],
      [Bounds(Chain, {0}, 1, 1) EXCEPT !.errors = 1],
      [Bounds(Chain, {0}, 1, 0) EXCEPT !.cuts = 1, !.saves = 1, !.crashes = 1],
      Bounds(Star, {0}, 1, 2) }
=============================================================================
