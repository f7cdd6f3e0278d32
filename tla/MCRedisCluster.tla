--------------------------- MODULE MCRedisCluster ---------------------------
EXTENDS RedisCluster, TLC

CONSTANTS m1, m2, a, b, c, s1, s2, sa

MCRank == m1 :> 1 @@ m2 :> 2 @@ a :> 3 @@ b :> 4 @@ c :> 5
MCMaster == m1 :> None @@ m2 :> None @@ a :> None @@ b :> a @@ c :> a
MCOwner == s1 :> m1 @@ s2 :> m2 @@ sa :> a
MCEpoch == m1 :> 1 @@ m2 :> 2 @@ a :> 3 @@ b :> 0 @@ c :> 0

B(e, t, r, p, v, u, f) ==
    [elections |-> e, takeovers |-> t, restarts |-> r, pings |-> p, verdicts |-> v,
     replicates |-> 0, up |-> u, failed |-> f]

\* Six scenarios: two elections race; a voter restarts between two requests; two
\* takeovers collide; the old master hears of a takeover, and of an election; a node
\* that was a master for a while is made a replica in another shard.
MCBudgets == { B(2, 0, {}, 0, 0, {m1, m2, b, c}, {a}),
               B(2, 0, {m1}, 0, 0, {m1, b, c}, {a}),
               B(0, 2, {}, 3, 0, {m1, b, c}, {}),
               B(0, 1, {}, 3, 0, {m1, a, b}, {}),
               B(1, 0, {}, 1, 1, {m1, m2, a, b}, {}),
               [B(0, 2, {}, 1, 0, {m1, b, c}, {}) EXCEPT !.replicates = 1] }
=============================================================================
