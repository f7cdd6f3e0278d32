--------------------------- MODULE MCRedisKvstore ---------------------------
(* Small instances of RedisKvstore for TLC. *)
EXTENDS RedisKvstore

\* Cursors of 3 bits: 000, 100, 010, 110 fall together in small tables.
MCHashOf == [a |-> 0, b |-> 4, c |-> 2, d |-> 6, e |-> 1]
MCKey == DOMAIN MCHashOf

Bounds(writes, scans, forks) == [writes |-> writes, scans |-> scans, forks |-> forks]
OneDict == [k \in MCKey |-> 0]
\* Four dicts, the second of them always empty.
FourDicts == [a |-> 0, b |-> 2, c |-> 2, d |-> 3, e |-> 3]

MCScenarios ==
  { \* a table that grows and shrinks under SCAN
    [bits |-> 0, store |-> "keys", slot |-> OneDict, keys |-> {"a", "b", "c", "d", "e"},
     start |-> <<"a", "b">>, hints |-> {}, budget |-> Bounds(3, 1, 1)],
    \* the expire cycle removes what it visits
    [bits |-> 0, store |-> "expires", slot |-> OneDict, keys |-> {"a", "b", "c", "d", "e"},
     start |-> <<"a", "b", "c", "d">>, hints |-> {0, 3}, budget |-> Bounds(2, 1, 1)],
    \* dicts of a cluster node, allocated and freed
    [bits |-> 2, store |-> "keys", slot |-> FourDicts, keys |-> {"a", "b", "c", "d"},
     start |-> <<"a", "b">>, hints |-> {}, budget |-> Bounds(3, 1, 0)],
    [bits |-> 2, store |-> "expires", slot |-> FourDicts, keys |-> {"a", "b", "c", "d"},
     start |-> <<"b", "c", "d">>, hints |-> {0}, budget |-> Bounds(2, 1, 0)] }
=============================================================================
