----------------------------- MODULE MCRedisAof -----------------------------
(***************************************************************************)
(* RedisAof on small instances: two databases and a few writes, with one   *)
(* kind of trouble at a time.                                              *)
(***************************************************************************)
EXTENDS RedisAof

Quiet(policy, writes) ==
    [policy |-> policy, writes |-> writes, rewrites |-> 0, switches |-> 0, writeErrors |-> 0,
     fsyncErrors |-> 0, errors |-> 0, crashes |-> 0, outages |-> 0]

MCDbs == {0, 1}

MCScenarios ==
    { [Quiet("always", 2) EXCEPT !.rewrites = 2, !.errors = 1, !.outages = 1],
      [Quiet("always", 2) EXCEPT !.rewrites = 1, !.switches = 1, !.writeErrors = 1, !.outages = 1],
      [Quiet("everysec", 2) EXCEPT !.rewrites = 2, !.errors = 1, !.crashes = 1],
      [Quiet("everysec", 2) EXCEPT !.switches = 2, !.errors = 1, !.crashes = 1],
      [Quiet("everysec", 2) EXCEPT !.switches = 2, !.rewrites = 1, !.crashes = 1],
      [Quiet("everysec", 2) EXCEPT !.writeErrors = 2, !.fsyncErrors = 1, !.outages = 1],
      [Quiet("no", 2) EXCEPT !.rewrites = 2, !.crashes = 1] }
=============================================================================
