--------------------------- MODULE MCRedisClients ---------------------------
(***************************************************************************)
(* RedisClients on small instances: each scenario says which commands each *)
(* of three clients may send and how many commands are sent in all.        *)
(***************************************************************************)
EXTENDS RedisClients

CONSTANTS a, b, c

MCDbs == {0, 1}

On(op, k) == [op |-> op, keys |-> <<k>>]
Op(op) == [op |-> op]
Blpop(keys) == [op |-> "blpop", keys |-> keys]
Blmove(k, dst) == [op |-> "blmove", keys |-> <<k>>, dst |-> dst]
Swapdb(d) == [op |-> "swapdb", dst |-> d]
Track(mode, noloop) == [op |-> "track", mode |-> mode, noloop |-> noloop]

AllIn(d) == [x \in {a, b, c} |-> d]

Ask(forA, forB, forC) == [x \in {a, b, c} |-> IF x = a THEN forA ELSE IF x = b THEN forB ELSE forC]

Quiet(commands, ask) ==
    [ask |-> ask, home |-> AllIn(0), commands |-> commands, timeouts |-> 0, disconnects |-> 0,
     tableMaxKeys |-> 0]

Writes(k) == {On("rpush", k), On("del", k), On("expire", k)}

MCScenarios ==
    { \* A transaction against another client's writes and the clock.
      Quiet(7, Ask({On("watch", "k"), Op("multi"), Op("unwatch"), Op("discard"), Op("error"), On("rpush", "l")},
                   Writes("k") \cup {Op("flushdb")}, {})),
      \* Watched keys, and keys swapped with the other database.
      [Quiet(7, Ask({On("watch", "k"), Op("multi"), On("rpush", "k")},
                    {On("rpush", "k"), On("expire", "k"), Swapdb(0)}, {On("rpush", "k"), On("expire", "k")}))
         EXCEPT !.home[b] = 1],
      \* Clients blocked on one list or two, served by pushes, BLMOVEs and transactions.
      [Quiet(6, Ask({Blpop(<<"k">>), Blpop(<<"k", "l">>), Blmove("k", "l")}, {Blpop(<<"k">>), Blpop(<<"l">>)},
                    {On("rpush", "k"), On("rpush", "l"), On("expire", "k"), On("del", "k"), Op("multi"), Blpop(<<"k">>)}))
         EXCEPT !.timeouts = 1],
      [Quiet(6, Ask({Blpop(<<"k">>), Blmove("k", "l")}, {Blpop(<<"l", "k">>)},
                    {On("rpush", "k"), On("expire", "k"), Swapdb(0), Op("multi")}))
         EXCEPT !.home[c] = 1, !.disconnects = 1],
      \* A watched list, emptied by clients that were blocked on it.
      Quiet(7, Ask({On("watch", "k"), Op("multi"), On("lrange", "k")}, {Blpop(<<"k">>)}, Writes("k"))),
      \* Caching, key by key.
      [Quiet(6, Ask({Track("default", FALSE), Track("default", TRUE), Op("untrack"), On("lrange", "k"), On("rpush", "k"), Op("multi")},
                    {On("rpush", "k"), On("expire", "k"), Op("flushdb"), Blpop(<<"k">>)}, {})) EXCEPT !.disconnects = 1],
      \* Caching by broadcast.
      [Quiet(6, Ask({Track("bcast", FALSE), Track("bcast", TRUE), Op("untrack"), On("lrange", "k"), On("rpush", "k")},
                    {Track("bcast", TRUE), On("rpush", "k"), On("expire", "k"), On("lrange", "k")}, {}))
         EXCEPT !.disconnects = 1],
      \* Caching, and the database of the cached keys swapped with the other one.
      [Quiet(6, Ask({Track("default", FALSE), Track("bcast", FALSE), On("lrange", "k"), On("rpush", "k")},
                    {On("rpush", "k"), Swapdb(0)}, {}))
         EXCEPT !.home[b] = 1],
      \* A tracking table with room for one key.
      [Quiet(6, Ask({Track("default", FALSE), On("lrange", "k"), On("lrange", "l"), Op("multi")},
                    {Track("default", FALSE), On("lrange", "l"), On("rpush", "k"), On("rpush", "l")}, {}))
         EXCEPT !.tableMaxKeys = 1]
    }
=============================================================================
