-------------------------- MODULE MCRedisSentinel --------------------------
EXTENDS RedisSentinel, TLC

CONSTANTS s1, s2, s3, a, b, c

MCRank == a :> 1 @@ b :> 2 @@ c :> 3

All == [s \in Sentinels |-> {b, c}]

\* One replica each for the two Sentinels that find the master down.
Split == s1 :> {b} @@ s2 :> {c} @@ s3 :> {}

\* One replica, so that the old master is the next one to be promoted.
One == [s \in Sentinels |-> {b}]

\* Nothing but n failovers.
Failovers(n, known) ==
    [failovers |-> n, forced |-> 0, restarts |-> {}, watching |-> {s1, s2}, flips |-> 0,
     known |-> known, timeouts |-> 0, silences |-> 0, fixes |-> 0, losses |-> 0, polls |-> 0,
     infos |-> 0, quorum |-> [s \in Sentinels |-> 2]]

MCBudgets == {
    [Failovers(2, Split) EXCEPT !.restarts = {s3}, !.quorum[s2] = 1],
    [Failovers(2, One) EXCEPT !.watching = {s1}, !.flips = 1, !.quorum = [s \in Sentinels |-> 1]],
    [Failovers(1, All) EXCEPT !.timeouts = 1, !.fixes = 1, !.silences = 1],
    [Failovers(1, Split) EXCEPT !.watching = {}, !.flips = 2, !.polls = 2, !.infos = 1],
    [Failovers(1, Split) EXCEPT !.losses = 1, !.restarts = {s1, s3}],
    [Failovers(0, All) EXCEPT !.forced = 1, !.restarts = {s1}] }
=============================================================================
