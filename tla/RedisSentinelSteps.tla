----------------------- MODULE RedisSentinelSteps --------------------------
(***************************************************************************)
(* What the functions of sentinel.c do to the record of a master, the      *)
(* inductive invariant of the elections, and the steps in which a Sentinel *)
(* hears of others: the lemmas behind RedisSentinelProofs.                 *)
(***************************************************************************)
EXTENDS RedisSentinel, FiniteSetTheorems, WellFoundedInduction, TLAPS

-----------------------------------------------------------------------------
(* What holds of one Sentinel: s with the record r, given the votes V, the *)
(* leaders L, the servers P that were masters and the configurations C.    *)

\* The types, a replica is promoted in the late states only, and the master is not
\* among its replicas.
Shape(s, r) ==
    /\ r \in MasterRecord(s)
    /\ r.promoted # None <=> r.state \in Chosen
    /\ r.addr \notin r.slaves

\* <<the voter, the epoch, the candidate>>.
Votes == Sentinels \X Nat \X Sentinels

\* A Sentinel knows its own votes, and what it was told of others is true.
VotesKept(s, r, V) ==
    /\ \A v \in V : v[1] = s => v[2] <= r.leaderEpoch
    /\ r.leader # None => <<s, r.leaderEpoch, r.leader>> \in V
    /\ \A t \in Others(s) :
         r.report[t].leader # None
           => <<t, r.report[t].epoch, r.report[t].leader>> \in V

\* What holds while the Sentinel runs: epochs in order, the votes kept, and the
\* address of a server that was a master.
Live(s, r, V, P) ==
    /\ Shape(s, r)
    /\ r.configEpoch <= r.current /\ r.failoverEpoch <= r.current
    /\ r.leaderEpoch <= r.current
    /\ VotesKept(s, r, V)
    /\ r.addr \in P
    /\ r.state = "reconf_slaves" => r.promoted \in P

\* The configuration file is good for a restart.
Saved(r, P) ==
    /\ r.saved.leaderEpoch = r.leaderEpoch
    /\ r.leaderEpoch <= r.saved.current /\ r.saved.current <= r.current
    /\ r.saved.addr \in P

\* The Sentinel and its file.
Good(s, r, V, P) == Live(s, r, V, P) /\ Saved(r, P)

\* The states of a failover between the election and the promotion.
Leading == {"select_slave", "send_slaveof_noone", "wait_promotion"}

\* The configuration a Sentinel is at; the configuration its failover is to
\* replace, and the epoch of the new one, which nobody has used.
Configured(s, r, L, C) ==
    /\ <<r.configEpoch, sentinelGetCurrentMasterAddress(r)>> \in C
    /\ r.state = "reconf_slaves"
         => \E e \in Nat : e < r.configEpoch /\ <<e, r.addr>> \in C
    /\ r.state \in {"wait_start"} \cup Leading => r.configEpoch < r.failoverEpoch
    /\ r.state = "wait_start"
         => \A l \in L : l.who = s => l.epoch < r.failoverEpoch
    /\ r.state \in Leading
         => /\ \E l \in L : l.who = s /\ l.epoch = r.failoverEpoch
            /\ \A x \in C : x[1] # r.failoverEpoch

\* The file has a configuration, and no epoch the Sentinel led is beyond it.
ConfigSaved(s, r, L, C) ==
    /\ <<r.saved.configEpoch, r.saved.addr>> \in C
    /\ \A l \in L : l.who = s => l.epoch <= r.saved.current

\* The configuration, in memory and in the file.
Settled(s, r, L, C) == Configured(s, r, L, C) /\ ConfigSaved(s, r, L, C)

-----------------------------------------------------------------------------
(* The operators on the record of a Sentinel. *)

\* None stands for no Sentinel and for no server.
LEMMA NoneApart == None \notin Sentinels /\ None \notin Instances
  BY SentinelConstants

\* The types of the fields of a record of the right shape.
LEMMA Fields ==
    ASSUME NEW s \in Sentinels, NEW r, Shape(s, r)
    PROVE  /\ r.current \in Nat /\ r.leaderEpoch \in Nat /\ r.configEpoch \in Nat
           /\ r.failoverEpoch \in Nat /\ r.leader \in Sentinels \cup {None}
           /\ r.addr \in Instances /\ r.slaves \subseteq Instances
           /\ r.report \in [Others(s) -> Report]
           /\ r.promoted \in Instances \cup {None}
           /\ r.state \in {"none"} \cup Choosing \cup Chosen
           /\ r.reconf \in [Instances -> {"no", "sent", "inprog", "done"}]
           /\ r.saved.current \in Nat /\ r.saved.leaderEpoch \in Nat
           /\ r.saved.configEpoch \in Nat /\ r.saved.addr \in Instances
  BY DEF Shape, MasterRecord, SavedConfig

\* The failover of r and that of q are at the same point.
Alike(r, q) ==
    /\ q.configEpoch = r.configEpoch /\ q.failoverEpoch = r.failoverEpoch
    /\ q.addr = r.addr /\ q.slaves = r.slaves /\ q.report = r.report
    /\ q.state = r.state /\ q.promoted = r.promoted /\ q.force = r.force

\* sentinelFlushConfig changes the file and nothing else, and writes the epochs
\* and the address sentinelGetCurrentMasterAddress returns.
LEMMA FlushIs ==
    ASSUME NEW s \in Sentinels, NEW r, Shape(s, r), NEW q, q = sentinelFlushConfig(r)
    PROVE  /\ Shape(s, q) /\ Alike(r, q)
           /\ q.saved.current = r.current /\ q.saved.leaderEpoch = r.leaderEpoch
           /\ q.saved.configEpoch = r.configEpoch
           /\ q.saved.addr = sentinelGetCurrentMasterAddress(r)
           /\ q.current = r.current /\ q.leaderEpoch = r.leaderEpoch
           /\ q.leader = r.leader
  BY DEF Shape, MasterRecord, SavedConfig, sentinelFlushConfig,
         sentinelGetCurrentMasterAddress, Chosen, Alike

\* After sentinelFlushConfig the file is good for a restart.
LEMMA FlushKeeps ==
    ASSUME NEW s \in Sentinels, NEW r, NEW V, NEW P, Live(s, r, V, P)
    PROVE  Good(s, sentinelFlushConfig(r), V, P)
  <1> DEFINE q == sentinelFlushConfig(r)
  <1> HIDE DEF q
  <1>1. Shape(s, r)
    BY DEF Live
  <1>2. /\ Shape(s, q) /\ Alike(r, q)
        /\ q.saved.current = r.current /\ q.saved.leaderEpoch = r.leaderEpoch
        /\ q.saved.addr = sentinelGetCurrentMasterAddress(r)
        /\ q.current = r.current /\ q.leaderEpoch = r.leaderEpoch
        /\ q.leader = r.leader
    BY <1>1, FlushIs DEF q
  <1>3. Live(s, q, V, P)
    BY <1>2 DEF Live, VotesKept, Alike
  <1>4. Saved(q, P)
    BY <1>1, <1>2, Fields DEF Live, Saved, sentinelGetCurrentMasterAddress
  <1> QED BY <1>3, <1>4 DEF q, Good

\* sentinelFlushConfig saves the configuration the Sentinel is at.
LEMMA FlushSettles ==
    ASSUME NEW s \in Sentinels, NEW r, Shape(s, r), NEW L, NEW C,
           Configured(s, r, L, C), \A l \in L : l.who = s => l.epoch <= r.current
    PROVE  Settled(s, sentinelFlushConfig(r), L, C)
  <1> DEFINE q == sentinelFlushConfig(r)
  <1> HIDE DEF q
  <1>1. /\ Alike(r, q)
        /\ q.saved.current = r.current /\ q.saved.configEpoch = r.configEpoch
        /\ q.saved.addr = sentinelGetCurrentMasterAddress(r)
    BY FlushIs DEF q
  <1>2. Configured(s, q, L, C)
    BY <1>1 DEF Configured, Alike, sentinelGetCurrentMasterAddress
  <1>3. ConfigSaved(s, q, L, C)
    BY <1>1 DEF ConfigSaved, Configured
  <1> QED BY <1>2, <1>3 DEF q, Settled

\* Raising the epoch, as a question or a hello of a later epoch does.
Raise(r, epoch) ==
    IF epoch > r.current THEN sentinelFlushConfig([r EXCEPT !.current = epoch]) ELSE r

\* Learning of an epoch never lowers the current epoch and never touches the vote.
LEMMA RaiseIs ==
    ASSUME NEW s \in Sentinels, NEW r, NEW epoch \in Nat, Shape(s, r),
           NEW q, q = Raise(r, epoch)
    PROVE  /\ Shape(s, q) /\ Alike(r, q)
           /\ q.current >= epoch /\ q.current >= r.current
           /\ q.current = epoch \/ q.current = r.current
           /\ q.leaderEpoch = r.leaderEpoch /\ q.leader = r.leader
  <1> DEFINE up == [r EXCEPT !.current = epoch]
  <1>1. CASE epoch > r.current
    <2>1. /\ Shape(s, up) /\ Alike(r, up) /\ up.current = epoch
          /\ up.leaderEpoch = r.leaderEpoch /\ up.leader = r.leader
      BY DEF Shape, MasterRecord, Alike
    <2>2. q = sentinelFlushConfig(up)
      BY <1>1 DEF Raise
    <2> HIDE DEF up
    <2>3. /\ Shape(s, q) /\ Alike(up, q) /\ q.current = up.current
          /\ q.leaderEpoch = up.leaderEpoch /\ q.leader = up.leader
      BY <2>1, <2>2, FlushIs
    <2>4. Alike(r, q)
      BY <2>1, <2>3 DEF Alike
    <2> QED BY <1>1, <2>1, <2>3, <2>4, Fields
  <1>2. CASE ~(epoch > r.current)
    <2>1. q = r
      BY <1>2 DEF Raise
    <2> QED BY <1>2, <2>1, Fields DEF Alike
  <1> QED BY <1>1, <1>2

\* A Sentinel that learns of an epoch stays good.
LEMMA RaiseKeeps ==
    ASSUME NEW s \in Sentinels, NEW r, NEW epoch \in Nat, NEW V, NEW P, Good(s, r, V, P)
    PROVE  /\ Good(s, Raise(r, epoch), V, P)
           /\ Raise(r, epoch).saved.current >= r.saved.current
  <1> DEFINE up == [r EXCEPT !.current = epoch]
  <1>1. CASE epoch > r.current
    <2>1. Live(s, up, V, P) /\ up.current = epoch
      BY <1>1 DEF Good, Live, Shape, MasterRecord, VotesKept
    <2>2. Raise(r, epoch) = sentinelFlushConfig(up)
      BY <1>1 DEF Raise
    <2> HIDE DEF up
    <2>3. Raise(r, epoch).saved.current = epoch
      BY <2>1, <2>2, FlushIs DEF Live
    <2>4. r.saved.current <= r.current /\ r.saved.current \in Nat /\ r.current \in Nat
      BY Fields DEF Good, Live, Saved
    <2> QED BY <1>1, <2>1, <2>2, <2>3, <2>4, FlushKeeps
  <1>2. CASE ~(epoch > r.current)
    BY <1>2, Fields DEF Raise, Good, Live
  <1> QED BY <1>1, <1>2

\* A Sentinel that learns of an epoch stays at its configuration.
LEMMA RaiseSettles ==
    ASSUME NEW s \in Sentinels, NEW r, NEW epoch \in Nat, NEW V, NEW P, Good(s, r, V, P),
           NEW L \in SUBSET Leader, NEW C, Settled(s, r, L, C)
    PROVE  Settled(s, Raise(r, epoch), L, C)
  <1> DEFINE up == [r EXCEPT !.current = epoch]
  <1>1. CASE epoch > r.current
    <2>1. Configured(s, up, L, C) /\ up.current = epoch /\ Shape(s, up)
      BY ZenonT(40) DEF Settled, Configured, Good, Live, Shape, MasterRecord,
             sentinelGetCurrentMasterAddress
    <2>2. \A l \in L : l.who = s => l.epoch <= epoch
      BY <1>1, Fields DEF Settled, ConfigSaved, Good, Live, Saved, Leader
    <2> HIDE DEF up
    <2> QED BY <1>1, <2>1, <2>2, FlushSettles, Zenon DEF Raise, up
  <1>2. CASE ~(epoch > r.current)
    BY <1>2 DEF Raise
  <1> QED BY <1>1, <1>2

-----------------------------------------------------------------------------
(* sentinelVoteLeader. *)

\* The record q after r was asked to vote for who.
VotedFrom(s, r, q, who) ==
    /\ Shape(s, q) /\ Alike(r, q) /\ q.current >= r.current
    /\ \/ q.leaderEpoch = r.leaderEpoch /\ q.leader = r.leader
       \/ q.leaderEpoch > r.leaderEpoch /\ q.leader = who

\* sentinelVoteLeader leaves the vote as it is, or casts one for who in a later
\* epoch than the last vote.
LEMMA VoteIs ==
    ASSUME NEW s \in Sentinels, NEW r, NEW epoch \in Nat, NEW who \in Sentinels,
           Shape(s, r)
    PROVE  VotedFrom(s, r, sentinelVoteLeader(r, epoch, who), who)
  <1> DEFINE q == sentinelVoteLeader(r, epoch, who)
             seen == Raise(r, epoch)
             new == [seen EXCEPT !.leader = who, !.leaderEpoch = seen.current]
  <1> HIDE DEF q, seen, new
  <1>1. q = IF seen.leaderEpoch < epoch /\ seen.current <= epoch
              THEN sentinelFlushConfig(new) ELSE seen
    BY DEF q, seen, new, Raise, sentinelVoteLeader
  <1>2. /\ Shape(s, seen) /\ Alike(r, seen)
        /\ seen.current >= epoch /\ seen.current >= r.current
        /\ seen.leaderEpoch = r.leaderEpoch /\ seen.leader = r.leader
    BY RaiseIs DEF seen
  <1>3. CASE seen.leaderEpoch < epoch /\ seen.current <= epoch
    <2>1. q = sentinelFlushConfig(new)
      BY <1>1, <1>3
    <2>2. /\ Shape(s, new) /\ Alike(seen, new) /\ new.current = seen.current
          /\ new.leader = who /\ new.leaderEpoch = seen.current
      BY <1>2, Zenon DEF new, Shape, MasterRecord, Alike
    <2>3. /\ Shape(s, q) /\ Alike(new, q) /\ q.current = new.current
          /\ q.leader = new.leader /\ q.leaderEpoch = new.leaderEpoch
      BY <2>1, <2>2, FlushIs
    <2>4. Alike(r, q)
      BY <1>2, <2>2, <2>3 DEF Alike
    <2> QED BY <1>2, <1>3, <2>2, <2>3, <2>4, Fields DEF VotedFrom, q
  <1>4. CASE ~(seen.leaderEpoch < epoch /\ seen.current <= epoch)
    <2>1. q = seen
      BY <1>1, <1>4
    <2> QED BY <1>2, <2>1 DEF VotedFrom, q
  <1> QED BY <1>3, <1>4

\* sentinelVoteLeader writes the file before the vote is told to anybody, so the
\* vote is not forgotten; the epoch voted in is saved with it.
LEMMA VoteKeeps ==
    ASSUME NEW s \in Sentinels, NEW r, NEW epoch \in Nat, NEW who \in Sentinels,
           NEW V \in SUBSET Votes, NEW P, Good(s, r, V, P)
    PROVE  LET q == sentinelVoteLeader(r, epoch, who) IN
           /\ Good(s, q, V \cup VoteOf(s, q), P)
           /\ q.saved.current >= r.saved.current
           /\ r.current = epoch => q.saved.current >= epoch
  <1> DEFINE q == sentinelVoteLeader(r, epoch, who)
             seen == Raise(r, epoch)
             new == [seen EXCEPT !.leader = who, !.leaderEpoch = seen.current]
             W == V \cup VoteOf(s, q)
  <1> HIDE DEF q, seen, new, W
  <1>1. q = IF seen.leaderEpoch < epoch /\ seen.current <= epoch
              THEN sentinelFlushConfig(new) ELSE seen
    BY DEF q, seen, new, Raise, sentinelVoteLeader
  <1>2. Good(s, seen, V, P) /\ seen.saved.current >= r.saved.current
    BY RaiseKeeps DEF seen
  <1>3. /\ seen.current >= epoch /\ seen.current >= r.current
        /\ seen.current = epoch \/ seen.current = r.current
    BY RaiseIs DEF seen, Good, Live
  <1>4. Shape(s, seen) /\ Shape(s, r) /\ r.saved.current <= r.current
    BY <1>2 DEF Good, Live, Saved
  <1>5. CASE seen.leaderEpoch < epoch /\ seen.current <= epoch
    <2>1. q = sentinelFlushConfig(new)
      BY <1>1, <1>5
    <2>2. /\ Shape(s, new) /\ Alike(seen, new) /\ new.current = seen.current
          /\ new.leader = who /\ new.leaderEpoch = seen.current
      BY <1>4, ZenonT(40) DEF new, Shape, MasterRecord, Alike
    <2>3. W = V \cup {<<s, new.leaderEpoch, who>>}
      <3>1. q.leader = who /\ q.leaderEpoch = new.leaderEpoch
        BY <2>1, <2>2, FlushIs
      <3> QED BY <3>1, NoneApart DEF W, VoteOf
    <2>4. \A v \in W : v[1] = s => v[2] <= new.leaderEpoch
      <3>1. seen.leaderEpoch < new.leaderEpoch /\ new.leaderEpoch \in Nat /\ seen.leaderEpoch \in Nat
        BY <1>3, <1>4, <1>5, <2>2, Fields, SMTT(30)
      <3>2. \A v \in V : v[1] = s => v[2] <= seen.leaderEpoch
        BY <1>2 DEF Good, Live, VotesKept
      <3>3. \A v \in V : v[2] \in Nat
        BY ZenonT(40) DEF Votes
      <3> QED BY <2>3, <3>1, <3>2, <3>3, SMTT(30)
    <2>5. VotesKept(s, new, W)
      BY <1>2, <2>2, <2>3, <2>4, ZenonT(40) DEF Good, Live, VotesKept, Alike
    <2>6. Live(s, new, W, P)
      BY <1>2, <2>2, <2>5, Fields DEF Good, Live, Alike
    <2>7. Good(s, q, W, P)
      BY <2>1, <2>6, FlushKeeps, ZenonT(40)
    <2>8. q.saved.current = seen.current
      BY <2>1, <2>2, FlushIs
    <2> QED BY <1>3, <1>4, <2>7, <2>8, Fields DEF q, W
  <1>6. CASE ~(seen.leaderEpoch < epoch /\ seen.current <= epoch)
    <2>1. q = seen
      BY <1>1, <1>6, ZenonT(40)
    <2>2. Good(s, q, W, P)
      BY <1>2, <2>1, ZenonT(40) DEF Good, Live, VotesKept, VoteOf, W
    <2>3. r.current = epoch => q.saved.current >= epoch
      BY <1>2, <1>3, <1>4, <1>6, <2>1, Fields, SMTT(30) DEF Good, Saved
    <2> QED BY <1>2, <2>1, <2>2, <2>3 DEF q, W
  <1> QED BY <1>5, <1>6

\* Voting does not touch the configuration.
LEMMA VoteSettles ==
    ASSUME NEW s \in Sentinels, NEW r, NEW epoch \in Nat, NEW who \in Sentinels,
           NEW V \in SUBSET Votes, NEW P, Good(s, r, V, P),
           NEW L \in SUBSET Leader, NEW C, Settled(s, r, L, C)
    PROVE  Settled(s, sentinelVoteLeader(r, epoch, who), L, C)
  <1> DEFINE q == sentinelVoteLeader(r, epoch, who)
             seen == Raise(r, epoch)
             new == [seen EXCEPT !.leader = who, !.leaderEpoch = seen.current]
  <1> HIDE DEF q, seen, new
  <1>1. q = IF seen.leaderEpoch < epoch /\ seen.current <= epoch
              THEN sentinelFlushConfig(new) ELSE seen
    BY DEF q, seen, new, Raise, sentinelVoteLeader
  <1>2. Good(s, seen, V, P) /\ Settled(s, seen, L, C)
    BY RaiseKeeps, RaiseSettles DEF seen
  <1>3. Shape(s, new) /\ Alike(seen, new) /\ new.current = seen.current
    BY <1>2, Zenon DEF new, Good, Live, Shape, MasterRecord, Alike
  <1>4. Configured(s, new, L, C)
    BY <1>2, <1>3, ZenonT(40)
    DEF Settled, Configured, Alike, sentinelGetCurrentMasterAddress
  <1>5. \A l \in L : l.who = s => l.epoch <= new.current
    BY <1>2, <1>3, Fields DEF Settled, ConfigSaved, Good, Live, Saved, Leader
  <1>6. Settled(s, sentinelFlushConfig(new), L, C)
    BY <1>3, <1>4, <1>5, FlushSettles
  <1> QED BY <1>1, <1>2, <1>6 DEF q

-----------------------------------------------------------------------------
(* The other operators on the record. *)

\* A vote changes only to one of a later epoch.
VoteStep(r, q) ==
    \/ q.leader = None
    \/ q.leader = r.leader /\ q.leaderEpoch = r.leaderEpoch
    \/ q.leaderEpoch > r.leaderEpoch

\* What the configuration file holds, and who was voted for, did not change.
SameVote(r, q) ==
    /\ q.saved = r.saved /\ q.current = r.current
    /\ q.leader = r.leader /\ q.leaderEpoch = r.leaderEpoch

\* A Sentinel whose vote is the one it had has cast no new vote.
LEMMA OldVote ==
    ASSUME NEW s \in Sentinels, NEW r, NEW V, NEW P, Good(s, r, V, P),
           NEW q, SameVote(r, q)
    PROVE  V \cup VoteOf(s, q) = V /\ VoteStep(r, q)
  <1>1. VoteStep(r, q)
    BY DEF SameVote, VoteStep
  <1>2. q.leader # None => <<s, q.leaderEpoch, q.leader>> \in V
    BY DEF Good, Live, VotesKept, SameVote
  <1>3. VoteOf(s, q) \subseteq V
    BY <1>2 DEF VoteOf
  <1> QED BY <1>1, <1>3

\* sentinelStartFailover takes the next epoch, and leaves vote and file alone.
LEMMA StartIs ==
    ASSUME NEW s \in Sentinels, NEW r, Shape(s, r), r.state = "none",
           NEW q, q = sentinelStartFailover(r)
    PROVE  /\ Shape(s, q) /\ q.state = "wait_start" /\ q.current = r.current + 1
           /\ q.failoverEpoch = r.current + 1 /\ q.configEpoch = r.configEpoch
           /\ q.addr = r.addr /\ q.report = r.report /\ q.promoted = r.promoted
           /\ q.slaves = r.slaves /\ q.force = r.force
           /\ q.saved = r.saved /\ q.leader = r.leader /\ q.leaderEpoch = r.leaderEpoch
  <1>1. /\ q.state = "wait_start" /\ q.current = r.current + 1
        /\ q.failoverEpoch = r.current + 1 /\ q.configEpoch = r.configEpoch
        /\ q.addr = r.addr /\ q.report = r.report /\ q.promoted = r.promoted
        /\ q.slaves = r.slaves /\ q.force = r.force
        /\ q.saved = r.saved /\ q.leader = r.leader /\ q.leaderEpoch = r.leaderEpoch
    BY DEF Shape, MasterRecord, sentinelStartFailover
  <1>2. q \in MasterRecord(s)
    <2>1. r.current + 1 \in Nat
      BY Fields
    <2>2. "wait_start" \in {"none"} \cup Choosing \cup Chosen
      BY DEF Choosing
    <2> QED BY <2>1, <2>2, Zenon DEF Shape, MasterRecord, sentinelStartFailover
  <1>3. Shape(s, q)
    BY <1>1, <1>2 DEF Shape, Chosen
  <1> QED BY <1>1, <1>3

\* A Sentinel that starts a failover stays good.
LEMMA StartKeeps ==
    ASSUME NEW s \in Sentinels, NEW r, r.state = "none", NEW V, NEW P, Good(s, r, V, P)
    PROVE  /\ Good(s, sentinelStartFailover(r), V, P)
           /\ VoteStep(r, sentinelStartFailover(r))
  <1> DEFINE q == sentinelStartFailover(r)
  <1> HIDE DEF q
  <1>1. Shape(s, r)
    BY DEF Good, Live
  <1>2. /\ Shape(s, q) /\ q.state = "wait_start" /\ q.current = r.current + 1
        /\ q.failoverEpoch = r.current + 1 /\ q.configEpoch = r.configEpoch
        /\ q.addr = r.addr /\ q.report = r.report
        /\ q.saved = r.saved /\ q.leader = r.leader /\ q.leaderEpoch = r.leaderEpoch
    BY <1>1, StartIs, SMTT(30) DEF q
  <1>3. VotesKept(s, q, V)
    BY <1>2, ZenonT(40) DEF Good, Live, VotesKept
  <1>4. Live(s, q, V, P)
    BY <1>1, <1>2, <1>3, Fields, SMTT(30) DEF Good, Live
  <1>5. Saved(q, P)
    BY <1>1, <1>2, Fields DEF Good, Saved
  <1> QED BY <1>2, <1>4, <1>5 DEF q, Good, VoteStep

\* The epoch of a new failover is later than the configuration and than every
\* epoch the Sentinel ever led.
LEMMA StartSettles ==
    ASSUME NEW s \in Sentinels, NEW r, r.state = "none", NEW V, NEW P, Good(s, r, V, P),
           NEW L \in SUBSET Leader, NEW C, Settled(s, r, L, C)
    PROVE  Settled(s, sentinelStartFailover(r), L, C)
  <1> DEFINE q == sentinelStartFailover(r)
  <1> HIDE DEF q
  <1>1. Shape(s, r)
    BY DEF Good, Live
  <1>2. /\ q.state = "wait_start" /\ q.failoverEpoch = r.current + 1
        /\ q.configEpoch = r.configEpoch /\ q.addr = r.addr /\ q.saved = r.saved
    BY <1>1, StartIs DEF q
  <1>3. ConfigSaved(s, q, L, C)
    BY <1>2, ZenonT(40) DEF Settled, ConfigSaved
  <1>4. \A l \in L : l.who = s => l.epoch < q.failoverEpoch
    BY <1>1, <1>2, Fields, SMTT(30) DEF Settled, ConfigSaved, Good, Saved, Leader
  <1>5. q.configEpoch < q.failoverEpoch
    BY <1>1, <1>2, Fields, SMTT(30) DEF Good, Live
  <1>6. <<q.configEpoch, sentinelGetCurrentMasterAddress(q)>> \in C
    BY <1>2 DEF Settled, Configured, sentinelGetCurrentMasterAddress
  <1>7. Configured(s, q, L, C)
    BY <1>2, <1>4, <1>5, <1>6, ZenonT(40) DEF Configured, Leading
  <1> QED BY <1>3, <1>7 DEF q, Settled

\* Changes that neither the votes nor the configuration depend on.
LEMMA AlikeKeeps ==
    ASSUME NEW s \in Sentinels, NEW r, NEW V, NEW P, Good(s, r, V, P),
           NEW q, Shape(s, q), SameVote(r, q),
           q.configEpoch = r.configEpoch, q.failoverEpoch = r.failoverEpoch,
           q.addr = r.addr, q.report = r.report,
           q.state = "reconf_slaves" => r.state = "reconf_slaves" /\ q.promoted = r.promoted
    PROVE  Good(s, q, V, P)
  <1>1. VotesKept(s, q, V)
    BY DEF Good, Live, VotesKept, SameVote
  <1>2. Live(s, q, V, P)
    BY <1>1 DEF Good, Live, SameVote
  <1>3. Saved(q, P)
    BY DEF Good, Saved, SameVote
  <1> QED BY <1>2, <1>3, ZenonT(40) DEF Good

\* The fields that Settled looks at; reports, flags and the progress of the
\* replicas are not among them.
LEMMA AlikeSettles ==
    ASSUME NEW s \in Sentinels, NEW r, NEW L, NEW C, Settled(s, r, L, C),
           NEW q, q.saved = r.saved,
           q.configEpoch = r.configEpoch, q.failoverEpoch = r.failoverEpoch,
           q.addr = r.addr,
           \/ q.state = r.state /\ q.promoted = r.promoted
           \/ q.state = "none" /\ r.state # "reconf_slaves"
           \/ q.state \in Leading /\ r.state \in Leading
    PROVE  Settled(s, q, L, C)
  <1>1. ConfigSaved(s, q, L, C)
    BY DEF Settled, ConfigSaved
  <1>2. Configured(s, q, L, C)
    BY DEF Settled, Configured, Leading, sentinelGetCurrentMasterAddress
  <1> QED BY <1>1, <1>2 DEF Settled

\* sentinelAbortFailover keeps the vote and the file.
LEMMA AbortKeeps ==
    ASSUME NEW s \in Sentinels, NEW r, NEW V, NEW P, Good(s, r, V, P)
    PROVE  /\ Good(s, sentinelAbortFailover(r), V, P)
           /\ SameVote(r, sentinelAbortFailover(r))
  <1> DEFINE q == sentinelAbortFailover(r)
  <1>1. /\ Shape(s, q) /\ SameVote(r, q) /\ q.configEpoch = r.configEpoch
        /\ q.failoverEpoch = r.failoverEpoch
        /\ q.addr = r.addr /\ q.report = r.report /\ q.state = "none"
    BY Zenon DEF Good, Live, Shape, MasterRecord, SameVote, sentinelAbortFailover, Chosen
  <1> HIDE DEF q
  <1> QED BY <1>1, AlikeKeeps DEF q

\* Giving a failover up before the promotion leaves the old configuration.
LEMMA AbortSettles ==
    ASSUME NEW s \in Sentinels, NEW r, Shape(s, r), r.state # "reconf_slaves",
           NEW L, NEW C, Settled(s, r, L, C)
    PROVE  Settled(s, sentinelAbortFailover(r), L, C)
  <1> DEFINE q == sentinelAbortFailover(r)
  <1>1. /\ q.saved = r.saved /\ q.configEpoch = r.configEpoch
        /\ q.failoverEpoch = r.failoverEpoch
        /\ q.addr = r.addr /\ q.state = "none"
    BY DEF Shape, MasterRecord, sentinelAbortFailover
  <1> HIDE DEF q
  <1> QED BY <1>1, AlikeSettles DEF q

\* The best of a nonempty set of replicas is one of them.
LEMMA Least ==
    ASSUME NEW S, S \subseteq Nat, S # {}
    PROVE  \E n \in S : \A m \in S : n <= m
  <1> DEFINE R == OpToRel(<, Nat)
  <1>1. \A n, m \in Nat : n < m => <<n, m>> \in R
    BY DEF OpToRel
  <1>2. IsWellFoundedOn(R, Nat)
    BY NatLessThanWellFounded, Zenon
  <1> HIDE DEF R
  <1>3. PICK n \in S : \A m \in S : ~(<<m, n>> \in R)
    BY <1>2, WFMin, Zenon
  <1>4. ASSUME NEW m \in S PROVE n <= m
    <2>1. m \in Nat /\ n \in Nat /\ ~(m < n)
      BY <1>1, <1>3, Zenon
    <2> QED BY <2>1
  <1> QED BY <1>4

\* sentinelSelectSlave returns replicas of the master.
LEMMA SelectOne ==
    ASSUME NEW r, r.slaves \subseteq Instances
    PROVE  sentinelSelectSlave(r) \subseteq r.slaves
  <1> SUFFICES ASSUME NEW fit \in (SUBSET r.slaves) \ {{}}
               PROVE  (CHOOSE i \in fit : \A j \in fit : Rank[i] <= Rank[j]) \in r.slaves
    BY DEF sentinelSelectSlave
  <1>1. Rank \in [Instances -> Nat]
    BY SentinelConstants
  <1> DEFINE S == {Rank[i] : i \in fit}
  <1>2. S \subseteq Nat /\ S # {}
    BY <1>1
  <1>3. PICK n \in S : \A m \in S : n <= m
    BY <1>2, Least, Zenon
  <1>4. PICK i \in fit : n = Rank[i]
    BY <1>3
  <1>5. \A j \in fit : Rank[i] <= Rank[j]
    BY <1>3, <1>4
  <1> QED BY <1>5

\* The later of two epochs is a Nat and not below either.
LEMMA MaxOfTwo ==
    ASSUME NEW m \in Nat, NEW n \in Nat
    PROVE  /\ Max({m, n}) \in Nat
           /\ Max({m, n}) >= m /\ Max({m, n}) >= n
           /\ Max({m, n}) = m \/ Max({m, n}) = n
  <1>1. \E x \in {m, n} : \A y \in {m, n} : x >= y
    OBVIOUS
  <1> QED BY <1>1 DEF Max

\* Answers that grew too old are dropped, which only removes reports.
LEMMA ForgetKeeps ==
    ASSUME NEW s \in Sentinels, NEW r, NEW silent, NEW V, NEW P, Good(s, r, V, P)
    PROVE  /\ Good(s, Forget(r, silent), V, P)
           /\ SameVote(r, Forget(r, silent))
  <1> DEFINE q == Forget(r, silent)
  <1>1. r \in MasterRecord(s) /\ Shape(s, r)
    BY DEF Good, Live, Shape
  <1> DEFINE told == [t \in DOMAIN r.report |->
                        IF t \in silent THEN [r.report[t] EXCEPT !.down = FALSE, !.leader = None]
                                        ELSE r.report[t]]
  <1>a. r.report \in [Others(s) -> Report]
    BY <1>1 DEF MasterRecord
  <1>b. \A x \in Report : [x EXCEPT !.down = FALSE, !.leader = None] \in Report
    BY Zenon DEF Report
  <1>c. told \in [Others(s) -> Report]
    BY <1>a, <1>b, Zenon
  <1>d. q = [r EXCEPT !.report = told]
    BY DEF Forget
  <1> HIDE DEF told, q
  <1>2. /\ Shape(s, q) /\ SameVote(r, q) /\ q.configEpoch = r.configEpoch
        /\ q.failoverEpoch = r.failoverEpoch
        /\ q.addr = r.addr /\ q.state = r.state /\ q.promoted = r.promoted
    BY <1>1, <1>c, <1>d, ZenonT(40) DEF Shape, MasterRecord, SameVote
  <1>3. \A t \in Others(s) :
          q.report[t].leader # None
            => q.report[t].leader = r.report[t].leader /\ q.report[t].epoch = r.report[t].epoch
    BY <1>1, <1>a, <1>d, ZenonT(40) DEF MasterRecord, Report, told
  <1>4. VotesKept(s, q, V)
    BY <1>2, <1>3 DEF Good, Live, VotesKept, SameVote
  <1>5. Live(s, q, V, P)
    BY <1>2, <1>4 DEF Good, Live, SameVote
  <1>6. Saved(q, P)
    BY <1>2 DEF Good, Saved, SameVote
  <1> QED BY <1>2, <1>5, <1>6, ZenonT(40) DEF Good, q

\* Dropping old answers does not touch the configuration.
LEMMA ForgetSettles ==
    ASSUME NEW s \in Sentinels, NEW r, Shape(s, r), NEW silent,
           NEW L, NEW C, Settled(s, r, L, C)
    PROVE  Settled(s, Forget(r, silent), L, C)
  <1> DEFINE q == Forget(r, silent)
  <1>1. /\ q.saved = r.saved /\ q.configEpoch = r.configEpoch
        /\ q.failoverEpoch = r.failoverEpoch
        /\ q.addr = r.addr /\ q.state = r.state /\ q.promoted = r.promoted
    BY ZenonT(40) DEF Shape, MasterRecord, Forget
  <1> HIDE DEF q
  <1> QED BY <1>1, AlikeSettles DEF q

\* The record of a Sentinel that switches to another master.
Switched(r, addr) ==
    [sentinelResetMaster(r) EXCEPT
        !.addr = addr, !.slaves = (r.slaves \cup {r.addr}) \ {addr}]

\* sentinelResetMasterAndChangeAddress keeps the vote and writes the file.
LEMMA SwitchKeeps ==
    ASSUME NEW s \in Sentinels, NEW r, NEW V, NEW P, Live(s, r, V, P),
           NEW addr \in Instances, addr \in P
    PROVE  /\ Good(s, sentinelResetMasterAndChangeAddress(r, addr), V, P)
           /\ VoteStep(r, sentinelResetMasterAndChangeAddress(r, addr))
           /\ sentinelResetMasterAndChangeAddress(r, addr).current = r.current
           /\ sentinelResetMasterAndChangeAddress(r, addr).leader = None
           /\ sentinelResetMasterAndChangeAddress(r, addr).leaderEpoch = r.leaderEpoch
  <1> DEFINE q == Switched(r, addr)
  <1>1. Shape(s, r)
    BY DEF Live
  <1>2. /\ Shape(s, q) /\ q.leader = None /\ q.leaderEpoch = r.leaderEpoch
        /\ q.current = r.current /\ q.configEpoch = r.configEpoch
        /\ q.failoverEpoch = r.failoverEpoch /\ q.report = r.report
        /\ q.addr = addr /\ q.state = "none"
    BY <1>1, Zenon DEF Shape, MasterRecord, Switched, sentinelResetMaster, Chosen
  <1>3. sentinelResetMasterAndChangeAddress(r, addr) = sentinelFlushConfig(q)
    BY DEF Switched, sentinelResetMasterAndChangeAddress
  <1> HIDE DEF q
  <1>4. Live(s, q, V, P)
    BY <1>2 DEF Live, VotesKept
  <1>5. Good(s, sentinelFlushConfig(q), V, P)
    BY <1>4, FlushKeeps, ZenonT(40)
  <1>6. /\ sentinelFlushConfig(q).leader = None
        /\ sentinelFlushConfig(q).current = r.current
        /\ sentinelFlushConfig(q).leaderEpoch = r.leaderEpoch
    BY <1>2, FlushIs
  <1> QED BY <1>3, <1>5, <1>6, ZenonT(40) DEF VoteStep

\* Switching to the address of a newer configuration settles on it.
LEMMA SwitchSettles ==
    ASSUME NEW s \in Sentinels, NEW r, Shape(s, r), NEW addr \in Instances,
           NEW L, NEW C, <<r.configEpoch, addr>> \in C,
           \A l \in L : l.who = s => l.epoch <= r.current
    PROVE  Settled(s, sentinelResetMasterAndChangeAddress(r, addr), L, C)
  <1> DEFINE q == Switched(r, addr)
  <1>1. /\ Shape(s, q) /\ q.current = r.current /\ q.configEpoch = r.configEpoch
        /\ q.addr = addr /\ q.state = "none"
    BY ZenonT(40) DEF Shape, MasterRecord, Switched, sentinelResetMaster, Chosen
  <1>2. sentinelResetMasterAndChangeAddress(r, addr) = sentinelFlushConfig(q)
    BY DEF Switched, sentinelResetMasterAndChangeAddress
  <1> HIDE DEF q
  <1>3. Configured(s, q, L, C)
    BY <1>1 DEF Configured, Leading, sentinelGetCurrentMasterAddress
  <1> QED BY <1>1, <1>2, <1>3, FlushSettles

-----------------------------------------------------------------------------
(* The election. *)

\* A majority of the Sentinels voted for w in epoch e.
Majority(w, e, V) ==
    \E Q \in SUBSET Sentinels :
       /\ Cardinality(Q) >= (Cardinality(Sentinels) \div 2) + 1
       /\ \A t \in Q : <<t, e, w>> \in V

\* The Sentinels that sentinelGetLeader counts for one candidate in an epoch all
\* voted for that candidate in that epoch.
LEMMA Counted ==
    ASSUME NEW s \in Sentinels, NEW r, NEW V, NEW P, Good(s, r, V, P),
           r.current = r.failoverEpoch, NEW voted, NEW n \in {0, 1},
           n = 1 => voted.leader = s /\ voted.leaderEpoch = r.failoverEpoch,
           Elects(r, Reported(r, s) + n)
    PROVE  Majority(s, r.failoverEpoch, V \cup VoteOf(s, voted))
  <1> DEFINE R == {t \in DOMAIN r.report : /\ r.report[t].leader = s
                                           /\ r.report[t].epoch = r.current}
             W == V \cup VoteOf(s, voted)
  <1>1. DOMAIN r.report = Others(s)
    BY Fields, ZenonT(40) DEF Good, Live
  <1>2. R \subseteq Others(s) /\ R \subseteq Sentinels /\ s \notin R
    BY <1>1, ZenonT(40) DEF Others
  <1>3. \A t \in R : <<t, r.failoverEpoch, s>> \in V
    BY <1>2, NoneApart, ZenonT(40) DEF Good, Live, VotesKept
  <1>4. Reported(r, s) = Cardinality(R)
    BY DEF Reported
  <1> HIDE DEF R
  <1>5. IsFiniteSet(R) /\ Cardinality(R) \in Nat
    BY <1>2, SentinelConstants, FS_Subset, FS_CardinalityType, ZenonT(40)
  <1>6. CASE n = 0
    <2>1. Cardinality(R) >= (Cardinality(Sentinels) \div 2) + 1
      BY <1>4, <1>5, <1>6, SMTT(30) DEF Elects
    <2> QED BY <1>2, <1>3, <2>1 DEF Majority
  <1>7. CASE n = 1
    <2> DEFINE Q == R \cup {s}
    <2>1. Cardinality(Q) = Cardinality(R) + 1
      BY <1>2, <1>5, FS_AddElement, ZenonT(40)
    <2>2. Cardinality(Q) >= (Cardinality(Sentinels) \div 2) + 1
      BY <1>4, <1>7, <2>1, ZenonT(40) DEF Elects
    <2>3. <<s, r.failoverEpoch, s>> \in W
      BY <1>7, NoneApart, ZenonT(40) DEF VoteOf
    <2>4. \A t \in Q : <<t, r.failoverEpoch, s>> \in W
      BY <1>3, <2>3, ZenonT(40)
    <2> HIDE DEF W
    <2> QED BY <1>2, <2>2, <2>4 DEF Majority, W
  <1> QED BY <1>6, <1>7, ZenonT(40)

\* sentinelGetLeader casts one vote, and a Sentinel it elects in its current
\* epoch has the votes of a majority.
LEMMA GetLeaderIs ==
    ASSUME NEW s \in Sentinels, NEW r, NEW V, NEW P, Good(s, r, V, P),
           NEW x \in sentinelGetLeader(s, r)
    PROVE  \E w \in Sentinels :
             /\ x[1] = sentinelVoteLeader(r, r.failoverEpoch, w)
             /\ x[2] = s /\ r.current = r.failoverEpoch
                  => Majority(s, r.failoverEpoch, V \cup VoteOf(s, x[1]))
  <1> DEFINE voted(w) == sentinelVoteLeader(r, r.failoverEpoch, w)
             mine(w, v) == IF voted(w).leader = v /\ voted(w).leaderEpoch = r.failoverEpoch
                             THEN 1 ELSE 0
             count(w, v) == Reported(r, v) + mine(w, v)
             winner(w) == IF voted(w).leader # None /\ count(w, voted(w).leader) > Reported(r, w)
                            THEN voted(w).leader ELSE w
  <1>1. PICK w \in IF Favourites(r) = {} THEN {s} ELSE Favourites(r) :
          x = <<voted(w), IF Elects(r, count(w, winner(w))) THEN winner(w) ELSE None>>
    BY ZenonT(40) DEF sentinelGetLeader
  <1>2. w \in Sentinels
    BY <1>1, ZenonT(40) DEF Favourites
  <1> HIDE DEF voted, count, winner
  <1>3. ASSUME x[2] = s, r.current = r.failoverEpoch
        PROVE  Majority(s, r.failoverEpoch, V \cup VoteOf(s, voted(w)))
    <2>1. Elects(r, count(w, s))
      BY <1>1, <1>3, NoneApart, ZenonT(40)
    <2>2. count(w, s) = Reported(r, s) + mine(w, s)
      BY DEF count
    <2>3. mine(w, s) \in {0, 1}
      OBVIOUS
    <2>4. mine(w, s) = 1 => voted(w).leader = s /\ voted(w).leaderEpoch = r.failoverEpoch
      OBVIOUS
    <2> HIDE DEF mine
    <2> QED BY <1>3, <2>1, <2>2, <2>3, <2>4, Counted, ZenonT(40)
  <1> QED BY <1>1, <1>2, <1>3, ZenonT(40) DEF voted

-----------------------------------------------------------------------------
(* The failover state machine. *)

\* What a step of the state machine of s does to votes and masters, from r.
Outcome(s, r, o, V, P) ==
    /\ Good(s, o.r, V \cup VoteOf(s, o.r), P)
    /\ VoteStep(r, o.r)
    /\ o.sent \subseteq Transaction
    /\ o.leads => /\ r.state = "wait_start"
                  /\ \/ r.force
                     \/ r.current = r.failoverEpoch
                          => Majority(s, r.failoverEpoch, V \cup VoteOf(s, o.r))

\* What it does to configurations, unless it begins to lead.
Calm(s, r, o, L, C) == Settled(s, r, L, C) /\ ~o.leads => Settled(s, o.r, L, C)

\* The two simplest outcomes: stay in this state, or abort.
LEMMA StayIs ==
    ASSUME NEW r
    PROVE  /\ Stay(r).r = r /\ Stay(r).sent = {} /\ Stay(r).leads = FALSE
           /\ Abort(r).r = sentinelAbortFailover(r)
           /\ Abort(r).sent = {} /\ Abort(r).leads = FALSE
  BY ZenonT(40) DEF Stay, Abort

\* A step that changes neither the vote nor the file.
LEMMA QuietOutcome ==
    ASSUME NEW s \in Sentinels, NEW r, NEW V, NEW P, Good(s, r, V, P),
           NEW o, Good(s, o.r, V, P), SameVote(r, o.r), o.sent \subseteq Transaction,
           o.leads = FALSE
    PROVE  Outcome(s, r, o, V, P)
  BY OldVote DEF Outcome

\* Staying is calm; aborting is calm unless the replica was promoted already.
LEMMA StayOutcome ==
    ASSUME NEW s \in Sentinels, NEW r, NEW V, NEW P, Good(s, r, V, P), NEW L, NEW C
    PROVE  /\ Outcome(s, r, Stay(r), V, P) /\ Calm(s, r, Stay(r), L, C)
           /\ Outcome(s, r, Abort(r), V, P)
           /\ r.state # "reconf_slaves" => Calm(s, r, Abort(r), L, C)
  <1>1. Outcome(s, r, Stay(r), V, P)
    BY StayIs, QuietOutcome, Zenon DEF SameVote
  <1>2. Calm(s, r, Stay(r), L, C)
    BY StayIs, Zenon DEF Calm
  <1>3. Outcome(s, r, Abort(r), V, P)
    <2> DEFINE o == Abort(r)
    <2>1. o.r = sentinelAbortFailover(r) /\ o.sent = {} /\ o.leads = FALSE
      BY StayIs, Zenon
    <2>2. Good(s, o.r, V, P) /\ SameVote(r, o.r)
      BY <2>1, AbortKeeps, Zenon
    <2>3. o.sent \subseteq Transaction
      BY <2>1
    <2> HIDE DEF o
    <2>4. Outcome(s, r, o, V, P)
      BY <2>1, <2>2, <2>3, QuietOutcome, Zenon
    <2> QED BY <2>4 DEF o
  <1>4. r.state # "reconf_slaves" => Calm(s, r, Abort(r), L, C)
    <2>1. Shape(s, r)
      BY DEF Good, Live
    <2>2. ASSUME r.state # "reconf_slaves", Settled(s, r, L, C)
          PROVE  Settled(s, sentinelAbortFailover(r), L, C)
      BY <2>1, <2>2, AbortSettles, ZenonT(40)
    <2> QED BY <2>2, StayIs, Zenon DEF Calm
  <1> QED BY <1>1, <1>2, <1>3, <1>4, ZenonT(40)

\* The vote of the failover state machine is a step of the vote.
LEMMA VoteOutcome ==
    ASSUME NEW s \in Sentinels, NEW r, r.state = "wait_start",
           NEW V \in SUBSET Votes, NEW P, Good(s, r, V, P),
           NEW w \in Sentinels, NEW voted,
           voted = sentinelVoteLeader(r, r.failoverEpoch, w)
    PROVE  /\ voted.state = "wait_start" /\ VoteStep(r, voted)
           /\ Good(s, voted, V \cup VoteOf(s, voted), P)
  <1>1. Shape(s, r) /\ r.failoverEpoch \in Nat
    BY Fields DEF Good, Live
  <1> DEFINE epoch == r.failoverEpoch
  <1> HIDE DEF epoch
  <1>a. epoch \in Nat /\ voted = sentinelVoteLeader(r, epoch, w)
    BY <1>1 DEF epoch
  <1>2. Good(s, voted, V \cup VoteOf(s, voted), P)
    BY <1>a, VoteKeeps, Zenon
  <1>3. VotedFrom(s, r, voted, w)
    BY <1>1, <1>a, VoteIs, ZenonT(40)
  <1> QED BY <1>2, <1>3, ZenonT(40) DEF VotedFrom, Alike, VoteStep

\* Waiting for the election: a leader begins to lead with a majority, or by force.
LEMMA WaitStartOutcome ==
    ASSUME NEW s \in Sentinels, NEW r, r.state = "wait_start",
           NEW V \in SUBSET Votes, NEW P, Good(s, r, V, P),
           NEW L \in SUBSET Leader, NEW C, NEW o \in sentinelFailoverWaitStart(s, r)
    PROVE  Outcome(s, r, o, V, P) /\ Calm(s, r, o, L, C)
  <1>1. PICK x \in sentinelGetLeader(s, r) :
          o \in IF x[2] = s \/ r.force
                  THEN {[Stay([x[1] EXCEPT !.state = "select_slave"]) EXCEPT !.leads = TRUE]}
                  ELSE {Stay(x[1]), Abort(x[1])}
    BY ZenonT(40) DEF sentinelFailoverWaitStart
  <1>2. PICK w \in Sentinels :
          /\ x[1] = sentinelVoteLeader(r, r.failoverEpoch, w)
          /\ x[2] = s /\ r.current = r.failoverEpoch
               => Majority(s, r.failoverEpoch, V \cup VoteOf(s, x[1]))
    BY GetLeaderIs, ZenonT(40)
  <1> DEFINE voted == x[1]
             W == V \cup VoteOf(s, voted)
  <1>3. /\ voted.state = "wait_start" /\ VoteStep(r, voted) /\ Good(s, voted, W, P)
    BY <1>2, VoteOutcome, ZenonT(40)
  <1>4. CASE x[2] = s \/ r.force
    <2> DEFINE q == [voted EXCEPT !.state = "select_slave"]
    <2>1. o.r = q /\ o.sent = {} /\ o.leads = TRUE
      BY <1>1, <1>4, ZenonT(40) DEF Stay
    <2>2. Shape(s, voted)
      BY <1>3 DEF Good, Live
    <2> HIDE DEF voted
    <2>3. /\ Shape(s, q) /\ SameVote(voted, q) /\ q.configEpoch = voted.configEpoch
          /\ q.failoverEpoch = voted.failoverEpoch /\ q.addr = voted.addr
          /\ q.report = voted.report /\ q.state = "select_slave"
      BY <1>3, <2>2, ZenonT(40) DEF Shape, MasterRecord, SameVote, Choosing, Chosen
    <2> HIDE DEF q, W
    <2>4. Good(s, q, W, P)
      BY <1>3, <2>3, AlikeKeeps, ZenonT(40)
    <2>5. VoteOf(s, q) = VoteOf(s, voted)
      BY <2>3, ZenonT(40) DEF SameVote, VoteOf
    <2>6. VoteStep(r, q)
      BY <1>3, <2>3, ZenonT(40) DEF VoteStep, SameVote
    <2>7. r.force \/ (r.current = r.failoverEpoch => Majority(s, r.failoverEpoch, W))
      BY <1>2, <1>4, ZenonT(40) DEF W, voted
    <2> QED BY <2>1, <2>4, <2>5, <2>6, <2>7, ZenonT(40) DEF Outcome, Calm, W
  <1>5. CASE ~(x[2] = s \/ r.force)
    <2>1. o.sent = {} /\ o.leads = FALSE
          /\ (o.r = voted \/ o.r = sentinelAbortFailover(voted))
      <3>1. o = Stay(voted) \/ o = Abort(voted)
        BY <1>1, <1>5
      <3> HIDE DEF voted
      <3> QED BY <3>1, StayIs, ZenonT(40)
    <2> HIDE DEF voted, W
    <2>2. Good(s, o.r, W, P) /\ SameVote(voted, o.r)
      BY <1>3, <2>1, AbortKeeps DEF SameVote
    <2>3. VoteOf(s, o.r) = VoteOf(s, voted) /\ VoteStep(r, o.r)
      BY <1>3, <2>2, ZenonT(40) DEF SameVote, VoteOf, VoteStep
    <2>4. Outcome(s, r, o, V, P)
      BY <2>1, <2>2, <2>3, ZenonT(40) DEF Outcome, W
    <2>5. ASSUME Settled(s, r, L, C) PROVE Settled(s, o.r, L, C)
      <3>1. r.failoverEpoch \in Nat
        BY Fields, ZenonT(40) DEF Good, Live
      <3>2. Settled(s, voted, L, C)
        BY <1>2, <2>5, <3>1, VoteSettles, ZenonT(40) DEF voted
      <3> QED BY <1>3, <2>1, <3>2, AbortSettles, SMTT(30) DEF Good, Live
    <2> QED BY <2>4, <2>5 DEF Calm
  <1> QED BY <1>4, <1>5

\* Selecting the replica to promote.
LEMMA SelectOutcome ==
    ASSUME NEW s \in Sentinels, NEW r, r.state = "select_slave",
           NEW V, NEW P, Good(s, r, V, P),
           NEW L, NEW C, NEW o \in sentinelFailoverSelectSlave(r)
    PROVE  Outcome(s, r, o, V, P) /\ Calm(s, r, o, L, C)
  <1>1. Outcome(s, r, Abort(r), V, P) /\ Calm(s, r, Abort(r), L, C)
    BY StayOutcome
  <1>2. ASSUME NEW i \in sentinelSelectSlave(r),
               o = Stay([r EXCEPT !.promoted = i, !.state = "send_slaveof_noone"])
        PROVE  Outcome(s, r, o, V, P) /\ Calm(s, r, o, L, C)
    <2> DEFINE q == [r EXCEPT !.promoted = i, !.state = "send_slaveof_noone"]
    <2>1. Shape(s, r)
      BY ZenonT(40) DEF Good, Live
    <2>2. i \in Instances
      BY <2>1, Fields, SelectOne, ZenonT(40)
    <2>3. /\ Shape(s, q) /\ SameVote(r, q) /\ q.configEpoch = r.configEpoch
          /\ q.failoverEpoch = r.failoverEpoch /\ q.addr = r.addr
          /\ q.report = r.report /\ q.state = "send_slaveof_noone"
      BY <2>1, <2>2, NoneApart, Zenon DEF Shape, MasterRecord, SameVote, Chosen
    <2>4. o.r = q /\ o.sent = {} /\ o.leads = FALSE
      BY <1>2, StayIs, ZenonT(40)
    <2> HIDE DEF q
    <2>5. Good(s, q, V, P)
      BY <2>3, AlikeKeeps
    <2>6. Outcome(s, r, o, V, P)
      BY <2>3, <2>4, <2>5, QuietOutcome, Zenon
    <2>7. Calm(s, r, o, L, C)
      BY <2>3, <2>4, AlikeSettles DEF Calm, Leading, SameVote
    <2> QED BY <2>6, <2>7, ZenonT(40)
  <1> QED BY <1>1, <1>2, ZenonT(40) DEF sentinelFailoverSelectSlave

\* Sending SLAVEOF NO ONE to the replica.
LEMMA SendOutcome ==
    ASSUME NEW s \in Sentinels, NEW r, r.state = "send_slaveof_noone",
           NEW V, NEW P, Good(s, r, V, P),
           NEW L, NEW C, NEW o \in sentinelFailoverSendSlaveOfNoOne(s, r)
    PROVE  Outcome(s, r, o, V, P) /\ Calm(s, r, o, L, C)
  <1>1. /\ Outcome(s, r, Stay(r), V, P) /\ Calm(s, r, Stay(r), L, C)
        /\ Outcome(s, r, Abort(r), V, P) /\ Calm(s, r, Abort(r), L, C)
    BY StayOutcome, ZenonT(40)
  <1>2. CASE o = [Stay([r EXCEPT !.state = "wait_promotion"])
                    EXCEPT !.sent = {Slaveof(s, r.promoted, None)}]
    <2> DEFINE q == [r EXCEPT !.state = "wait_promotion"]
    <2>1. Shape(s, r)
      BY DEF Good, Live
    <2>2. /\ Shape(s, q) /\ SameVote(r, q) /\ q.configEpoch = r.configEpoch
          /\ q.failoverEpoch = r.failoverEpoch /\ q.addr = r.addr
          /\ q.report = r.report /\ q.state = "wait_promotion"
      BY <2>1, ZenonT(40) DEF Shape, MasterRecord, SameVote, Chosen
    <2>3. r.promoted \in Instances
      BY <2>1, Fields DEF Shape, Chosen
    <2>4. o.r = q /\ o.sent = {Slaveof(s, r.promoted, None)} /\ o.leads = FALSE
      BY <1>2 DEF Stay
    <2>5. o.sent \subseteq Transaction
      BY <2>3, <2>4, SMTT(30) DEF Slaveof, Transaction
    <2> HIDE DEF q
    <2>6. Good(s, q, V, P)
      BY <2>2, AlikeKeeps, ZenonT(40)
    <2>7. Outcome(s, r, o, V, P)
      BY <2>2, <2>4, <2>5, <2>6, QuietOutcome, ZenonT(40)
    <2>8. Calm(s, r, o, L, C)
      BY <2>2, <2>4, AlikeSettles, ZenonT(40) DEF Calm, Leading, SameVote
    <2> QED BY <2>7, <2>8, ZenonT(40)
  <1> QED BY <1>1, <1>2, ZenonT(40) DEF sentinelFailoverSendSlaveOfNoOne

\* Waiting for the replica to report itself a master.
LEMMA WaitPromotionOutcome ==
    ASSUME NEW s \in Sentinels, NEW r, r.state = "wait_promotion",
           NEW V, NEW P, Good(s, r, V, P),
           NEW L, NEW C, NEW o \in sentinelFailoverWaitPromotion(r)
    PROVE  Outcome(s, r, o, V, P) /\ Calm(s, r, o, L, C)
  <1>1. /\ Outcome(s, r, Stay(r), V, P) /\ Calm(s, r, Stay(r), L, C)
        /\ Outcome(s, r, Abort(r), V, P) /\ Calm(s, r, Abort(r), L, C)
    BY StayOutcome, ZenonT(40)
  <1> QED BY <1>1 DEF sentinelFailoverWaitPromotion

\* sentinelFailoverDetectEnd: the failover goes on, or ends by switching to the
\* promoted replica.
LEMMA DetectEndOutcome ==
    ASSUME NEW s \in Sentinels, NEW r, r.state = "reconf_slaves",
           NEW V, NEW P, Good(s, r, V, P), NEW L \in SUBSET Leader, NEW C,
           NEW o \in sentinelFailoverDetectEnd(s, r)
    PROVE  /\ Outcome(s, r, o, V, P) /\ Calm(s, r, o, L, C)
           /\ DOMAIN o = {"r", "sent", "leads", "late"}
  <1> DEFINE q == sentinelResetMasterAndChangeAddress(r, r.promoted)
             todo == r.slaves \ {r.promoted}
             left(down) == {i \in todo \ down : r.reconf[i] # "done"}
             told(connected) ==
               {i \in todo \cap connected : r.reconf[i] \notin {"done", "sent"}}
             sent(connected) == {Slaveof(s, i, r.promoted) : i \in told(connected)}
             timeout(connected) ==
               [Stay(q) EXCEPT !.sent = sent(connected), !.late = TRUE]
             outcomes(down) ==
               IF r.promoted \in down THEN {Stay(r)}
               ELSE {IF left(down) = {} THEN Stay(q) ELSE Stay(r)}
                      \cup {timeout(connected) : connected \in SUBSET todo}
  <1>1. Shape(s, r) /\ Live(s, r, V, P)
    BY ZenonT(40) DEF Good, Live
  <1>2. r.promoted \in Instances /\ r.promoted \in P
    BY <1>1, Fields, ZenonT(40) DEF Shape, Chosen, Live
  <1>3. \A connected : told(connected) \subseteq Instances
    BY <1>1, Fields, ZenonT(40)
  <1>4. \A connected : sent(connected) \subseteq Transaction
    BY <1>2, <1>3, SMTT(30) DEF Slaveof, Transaction
  <1>5. /\ Good(s, q, V, P) /\ VoteStep(r, q) /\ q.leader = None
    BY <1>1, <1>2, SwitchKeeps, ZenonT(40)
  <1>6. Settled(s, r, L, C) => Settled(s, q, L, C)
    <2>1. SUFFICES ASSUME Settled(s, r, L, C) PROVE Settled(s, q, L, C)
      BY ZenonT(40)
    <2>2. <<r.configEpoch, r.promoted>> \in C
      BY <2>1, ZenonT(40) DEF Settled, Configured, sentinelGetCurrentMasterAddress
    <2>3. \A l \in L : l.who = s => l.epoch <= r.current
      BY <1>1, <2>1, Fields, SMTT(30)
      DEF Settled, ConfigSaved, Good, Saved, Leader
    <2> QED BY <1>1, <1>2, <2>2, <2>3, SwitchSettles, ZenonT(40)
  <1>7. o \in UNION {outcomes(down) : down \in SUBSET r.slaves}
    BY Zenon DEF sentinelFailoverDetectEnd, sentinelFailoverSwitchToPromotedSlave
  <1> HIDE DEF q, sent, told, left
  <1>8. ASSUME NEW x, o.r = q, o.sent = x, x \subseteq Transaction, o.leads = FALSE
        PROVE  Outcome(s, r, o, V, P) /\ Calm(s, r, o, L, C)
    <2>1. V \cup VoteOf(s, q) = V
      BY <1>5, ZenonT(40) DEF VoteOf
    <2>2. Outcome(s, r, o, V, P)
      BY <1>5, <1>8, <2>1, ZenonT(40) DEF Outcome
    <2>3. Calm(s, r, o, L, C)
      BY <1>6, <1>8, ZenonT(40) DEF Calm
    <2> QED BY <2>2, <2>3, ZenonT(40)
  <1>9. CASE o = Stay(r)
    <2>1. Outcome(s, r, Stay(r), V, P) /\ Calm(s, r, Stay(r), L, C)
      BY StayOutcome, ZenonT(40)
    <2>2. DOMAIN Stay(r) = {"r", "sent", "leads", "late"}
      BY ZenonT(40) DEF Stay
    <2> QED BY <1>9, <2>1, <2>2, ZenonT(40)
  <1>10. CASE o = Stay(q)
    <2>1. DOMAIN o = {"r", "sent", "leads", "late"}
      BY <1>10 DEF Stay
    <2> QED BY <1>8, <1>10, <2>1, StayIs, Zenon
  <1>11. ASSUME NEW connected \in SUBSET todo, o = timeout(connected)
         PROVE  /\ Outcome(s, r, o, V, P) /\ Calm(s, r, o, L, C)
                /\ DOMAIN o = {"r", "sent", "leads", "late"}
    <2>1. /\ o.r = q /\ o.sent = sent(connected) /\ o.leads = FALSE
          /\ DOMAIN o = {"r", "sent", "leads", "late"}
      BY <1>11 DEF Stay
    <2> QED BY <1>4, <1>8, <2>1, Zenon
  <1> HIDE DEF timeout
  <1>12. \/ o = Stay(r) \/ o = Stay(q)
         \/ \E connected \in SUBSET todo : o = timeout(connected)
    BY <1>7
  <1> QED BY <1>9, <1>10, <1>11, <1>12, ZenonT(40)

\* One step of the reconfiguration, as ReconfNextSlave composes it.
LEMMA ReconfStepOutcome ==
    ASSUME NEW s \in Sentinels, NEW r, r.state = "reconf_slaves",
           NEW V, NEW P, Good(s, r, V, P), NEW L \in SUBSET Leader, NEW C,
           NEW q, Shape(s, q), SameVote(r, q), Alike(r, q),
           NEW sent \in SUBSET Transaction, NEW late,
           NEW e \in sentinelFailoverDetectEnd(s, q), NEW o,
           o = [e EXCEPT !.sent = @ \cup sent, !.late = @ \/ late]
    PROVE  Outcome(s, r, o, V, P) /\ Calm(s, r, o, L, C)
  <1>2. /\ q.configEpoch = r.configEpoch
        /\ q.failoverEpoch = r.failoverEpoch /\ q.addr = r.addr
        /\ q.report = r.report /\ q.state = r.state /\ q.promoted = r.promoted
    BY DEF Alike
  <1>3. Good(s, q, V, P)
    BY <1>2, AlikeKeeps
  <1>4. Settled(s, r, L, C) => Settled(s, q, L, C)
    BY <1>2, AlikeSettles DEF SameVote
  <1>5. /\ Outcome(s, q, e, V, P) /\ Calm(s, q, e, L, C)
        /\ DOMAIN e = {"r", "sent", "leads", "late"}
    BY <1>2, <1>3, DetectEndOutcome, ZenonT(40)
  <1>6. o.r = e.r /\ o.leads = e.leads /\ o.sent = e.sent \cup sent
    BY <1>5
  <1>7. VoteStep(q, e.r) => VoteStep(r, e.r)
    BY <1>2 DEF VoteStep, SameVote
  <1>8. ~e.leads
    BY <1>2, <1>5, ZenonT(40) DEF Outcome
  <1> QED BY <1>4, <1>5, <1>6, <1>7, <1>8, ZenonT(40) DEF Outcome, Calm

\* Reconfiguring the other replicas.
LEMMA ReconfOutcome ==
    ASSUME NEW s \in Sentinels, NEW r, r.state = "reconf_slaves",
           NEW V, NEW P, Good(s, r, V, P), NEW L \in SUBSET Leader, NEW C,
           NEW o \in sentinelFailoverReconfNextSlave(s, r)
    PROVE  Outcome(s, r, o, V, P) /\ Calm(s, r, o, L, C)
  <1> DEFINE todo == r.slaves \ {r.promoted}
             busy == {i \in todo : r.reconf[i] \in {"sent", "inprog"}}
             now(i, x) == [r EXCEPT !.reconf[i] = x]
             end(q, sent, late) == {[e EXCEPT !.sent = @ \cup sent, !.late = @ \/ late]
                                      : e \in sentinelFailoverDetectEnd(s, q)}
             done == {i \in busy : r.reconf[i] = "sent"}
             next == {i \in todo : busy = {} /\ r.reconf[i] = "no"}
             Result == Outcome(s, r, o, V, P) /\ Calm(s, r, o, L, C)
  <1>1. Shape(s, r) /\ r \in MasterRecord(s)
    BY ZenonT(40) DEF Good, Live, Shape
  <1>2. /\ r.reconf \in [Instances -> {"no", "sent", "inprog", "done"}]
        /\ r.slaves \subseteq Instances /\ r.promoted \in Instances
    BY <1>1, Fields DEF Shape, Chosen
  <1>3. o \in end(r, {}, FALSE)
          \cup (UNION {end(now(i, "done"), {}, TRUE) : i \in done})
          \cup (UNION {end(now(i, "sent"), {Slaveof(s, i, r.promoted)}, FALSE) : i \in next})
    BY ZenonT(40) DEF sentinelFailoverReconfNextSlave
  <1> HIDE DEF Result, end
  <1>4. ASSUME NEW sent \in SUBSET Transaction, NEW late, NEW q,
               Shape(s, q), SameVote(r, q), Alike(r, q), o \in end(q, sent, late)
        PROVE  Result
    <2>1. PICK e \in sentinelFailoverDetectEnd(s, q) :
            o = [e EXCEPT !.sent = @ \cup sent, !.late = @ \/ late]
      BY <1>4, ZenonT(40) DEF end
    <2> QED BY <1>4, <2>1, ReconfStepOutcome, ZenonT(40) DEF Result
  <1>5. CASE o \in end(r, {}, FALSE)
    <2>1. SameVote(r, r) /\ Alike(r, r)
      BY DEF SameVote, Alike
    <2>2. {} \in SUBSET Transaction
      OBVIOUS
    <2> QED BY <1>1, <1>4, <1>5, <2>1, <2>2, ZenonT(40) DEF Result
  <1>6. ASSUME NEW i \in Instances, NEW x \in {"sent", "done"},
               NEW sent \in SUBSET Transaction, NEW late,
               o \in end(now(i, x), sent, late)
        PROVE  Result
    <2> DEFINE q == now(i, x)
    <2>1. Shape(s, q)
      <3>1. [r.reconf EXCEPT ![i] = x] \in [Instances -> {"no", "sent", "inprog", "done"}]
        BY <1>2
      <3> QED BY <1>1, <3>1, ZenonT(40) DEF Shape, MasterRecord
    <2>2. SameVote(r, q) /\ Alike(r, q)
      BY <1>1, ZenonT(40) DEF MasterRecord, SameVote, Alike
    <2> HIDE DEF now
    <2> QED BY <1>4, <1>6, <2>1, <2>2, ZenonT(40)
  <1>7. ASSUME NEW i \in done, o \in end(now(i, "done"), {}, TRUE)
        PROVE  Result
    <2>1. i \in Instances
      BY <1>2
    <2> HIDE DEF now
    <2> QED BY <1>6, <1>7, <2>1, Zenon
  <1>8. ASSUME NEW i \in next,
               o \in end(now(i, "sent"), {Slaveof(s, i, r.promoted)}, FALSE)
        PROVE  Result
    <2>1. i \in Instances
      BY <1>2, ZenonT(40)
    <2>2. {Slaveof(s, i, r.promoted)} \in SUBSET Transaction
      BY <1>2, <2>1, SMTT(30) DEF Slaveof, Transaction
    <2> HIDE DEF now
    <2> QED BY <1>6, <1>8, <2>1, <2>2, ZenonT(40)
  <1> HIDE DEF todo, busy, now, done, next
  <1> QED BY <1>3, <1>5, <1>7, <1>8, ZenonT(40) DEF Result

\* One call of sentinelFailoverStateMachine.
LEMMA StateMachineOutcome ==
    ASSUME NEW s \in Sentinels, NEW r, NEW V \in SUBSET Votes, NEW P, Good(s, r, V, P),
           NEW L \in SUBSET Leader, NEW C, NEW o \in sentinelFailoverStateMachine(s, r)
    PROVE  Outcome(s, r, o, V, P) /\ Calm(s, r, o, L, C)
  <1>1. r.state \in {"none"} \cup Choosing \cup Chosen
    BY Fields DEF Good, Live
  <1>2. CASE r.state = "none"
    <2>1. o = Stay(r)
      BY <1>2, ZenonT(40) DEF sentinelFailoverStateMachine
    <2>2. Outcome(s, r, Stay(r), V, P) /\ Calm(s, r, Stay(r), L, C)
      BY StayOutcome
    <2> QED BY <2>1, <2>2
  <1>3. CASE r.state = "wait_start"
    BY <1>3, WaitStartOutcome, ZenonT(40) DEF sentinelFailoverStateMachine
  <1>4. CASE r.state = "select_slave"
    BY <1>4, SelectOutcome DEF sentinelFailoverStateMachine
  <1>5. CASE r.state = "send_slaveof_noone"
    BY <1>5, SendOutcome DEF sentinelFailoverStateMachine
  <1>6. CASE r.state = "wait_promotion"
    BY <1>6, WaitPromotionOutcome DEF sentinelFailoverStateMachine
  <1>7. CASE r.state = "reconf_slaves"
    BY <1>7, ReconfOutcome, ZenonT(40) DEF sentinelFailoverStateMachine
  <1> QED BY <1>1, <1>2, <1>3, <1>4, <1>5, <1>6, <1>7, ZenonT(40)
          DEF Choosing, Chosen

-----------------------------------------------------------------------------
(* The inductive invariant. *)

\* A Sentinel votes once in an epoch, also across restarts.
VoteOnce == \A v, w \in votes : v[1] = w[1] /\ v[2] = w[2] => v[3] = w[3]

\* All Sentinels are good.
Tables == DOMAIN sn = Sentinels /\ \A s \in Sentinels : Good(s, sn[s], votes, promoted)

\* All votes ever cast.
Ballots == votes \subseteq Votes /\ VoteOnce

\* A hello that can be believed.
GoodHello(h, P) == h \in Hello /\ h.addr \in P /\ h.configEpoch <= h.current

\* The servers, and which of them was a master.
Servers ==
    /\ inst \in [Instances -> Instances \cup {None}]
    /\ promoted \subseteq Instances
    /\ \A i \in Instances : inst[i] = None => i \in promoted

\* The leaders ever elected: the regular ones have a majority.
Elections ==
    /\ leaders \subseteq Leader
    /\ \A l \in leaders : Regular(l) => Majority(l.who, l.epoch, votes)

\* The inductive invariant.
Inv ==
    /\ Tables /\ Ballots /\ Servers /\ Elections
    /\ \A h \in hellos : GoodHello(h, promoted)
    /\ asks \subseteq Question /\ slaveofs \subseteq Transaction
    /\ configs \subseteq Nat \X Instances

\* Votes of others and further masters do not make a Sentinel less good.
LEMMA GoodMore ==
    ASSUME NEW t \in Sentinels, NEW r, NEW V, NEW P, Good(t, r, V, P),
           NEW W, V \subseteq W, \A v \in W : v \in V \/ v[1] # t,
           NEW R, P \subseteq R
    PROVE  Good(t, r, W, R)
  <1>1. VotesKept(t, r, W)
    BY ZenonT(40) DEF Good, Live, VotesKept
  <1> QED BY <1>1, ZenonT(40) DEF Good, Live, Saved

\* A hello carries a true address, and epochs in order.
LEMMA HelloIs ==
    ASSUME NEW s \in Sentinels, NEW r, NEW V, NEW P, Good(s, r, V, P)
    PROVE  GoodHello(sentinelSendHello(s, r), P)
  <1>1. Shape(s, r)
    BY ZenonT(40) DEF Good, Live
  <1>2. /\ r.current \in Nat /\ r.configEpoch \in Nat
        /\ sentinelGetCurrentMasterAddress(r) \in Instances
        /\ sentinelGetCurrentMasterAddress(r) \in P
        /\ r.configEpoch <= r.current
    BY <1>1, Fields, ZenonT(40)
    DEF Shape, Chosen, Good, Live, sentinelGetCurrentMasterAddress
  <1> QED BY <1>2, ZenonT(40) DEF GoodHello, Hello, sentinelSendHello

\* Publishing drops hellos and invents none.
LEMMA Published ==
    ASSUME NEW messages, NEW table
    PROVE  Publish(messages, table) \subseteq messages
  BY DEF Publish

\* A new vote of s, if any, is of a later epoch than the votes s gave before.
LEMMA NewVote ==
    ASSUME Inv, NEW s \in Sentinels, NEW q, Shape(s, q), VoteStep(sn[s], q),
           votes' = votes \cup VoteOf(s, q)
    PROVE  /\ Ballots' /\ votes \subseteq votes'
           /\ \A v \in votes' : v \in votes \/ v[1] = s
  <1>1. q.leader \in Sentinels \cup {None} /\ q.leaderEpoch \in Nat
    BY Fields, ZenonT(40)
  <1>2. votes' \subseteq Votes
    BY <1>1 DEF Inv, Ballots, Votes, VoteOf
  <1>3. \A v \in votes' : v \in votes \/ v[1] = s
    BY SMTT(30) DEF VoteOf
  <1>4. CASE VoteOf(s, q) \subseteq votes
    <2>1. votes' = votes
      BY <1>4, ZenonT(40)
    <2> QED BY <1>2, <1>3, <2>1, ZenonT(40) DEF Inv, Ballots, VoteOnce
  <1>5. CASE ~(VoteOf(s, q) \subseteq votes)
    <2>1. q.leader # None /\ <<s, q.leaderEpoch, q.leader>> \notin votes
      BY <1>5, ZenonT(40) DEF VoteOf
    <2>2. Good(s, sn[s], votes, promoted)
      BY ZenonT(40) DEF Inv, Tables
    <2>3. q.leaderEpoch > sn[s].leaderEpoch
      BY <2>1, <2>2, ZenonT(40) DEF VoteStep, Good, Live, VotesKept
    <2>4. sn[s].leaderEpoch \in Nat
      BY <2>2, Fields, ZenonT(40) DEF Good, Live
    <2>5. \A v \in votes : v[1] = s => v[2] # q.leaderEpoch
      <3> SUFFICES ASSUME NEW v \in votes, v[1] = s PROVE v[2] # q.leaderEpoch
        BY ZenonT(40)
      <3>1. v[2] \in Nat /\ v[2] <= sn[s].leaderEpoch
        BY <2>2, ZenonT(40) DEF Inv, Ballots, Votes, Good, Live, VotesKept
      <3> QED BY <1>1, <2>3, <2>4, <3>1, SMTT(30)
    <2>6. votes' = votes \cup {<<s, q.leaderEpoch, q.leader>>}
      BY <2>1, ZenonT(40) DEF VoteOf
    <2>7. VoteOnce'
      BY <2>5, <2>6, SMTT(30) DEF Inv, Ballots, VoteOnce
    <2> QED BY <1>2, <1>3, <2>7, ZenonT(40) DEF Ballots
  <1> QED BY <1>4, <1>5, ZenonT(40)

\* A good new record for s, with its vote recorded, keeps tables and ballots.
LEMMA InstallKeeps ==
    ASSUME Inv, NEW s \in Sentinels, NEW q, Good(s, q, votes \cup VoteOf(s, q), promoted),
           VoteStep(sn[s], q), Install(s, q), promoted' = promoted
    PROVE  /\ Tables' /\ Ballots' /\ votes \subseteq votes'
           /\ \A h \in hellos' : GoodHello(h, promoted')
  <1>1. /\ sn' = [sn EXCEPT ![s] = q] /\ votes' = votes \cup VoteOf(s, q)
        /\ hellos' \subseteq hellos \cup {sentinelSendHello(s, q)}
    BY Published, ZenonT(40) DEF Install
  <1>2. Shape(s, q) /\ DOMAIN sn = Sentinels
    BY ZenonT(40) DEF Good, Live, Inv, Tables
  <1>3. /\ Ballots' /\ votes \subseteq votes'
        /\ \A v \in votes' : v \in votes \/ v[1] = s
    BY <1>1, <1>2, NewVote, ZenonT(40)
  <1>4. ASSUME NEW t \in Sentinels PROVE Good(t, sn'[t], votes', promoted')
    <2>1. CASE t = s
      BY <1>1, <1>2, <2>1, ZenonT(40)
    <2>2. CASE t # s
      <3>1. sn'[t] = sn[t] /\ Good(t, sn[t], votes, promoted)
        BY <1>1, <1>2, <2>2, ZenonT(40) DEF Inv, Tables
      <3>2. \A v \in votes' : v \in votes \/ v[1] # t
        BY <1>3, <2>2, ZenonT(40)
      <3> QED BY <1>3, <3>1, <3>2, GoodMore, ZenonT(40)
    <2> QED BY <2>1, <2>2, ZenonT(40)
  <1>5. Tables'
    BY <1>1, <1>2, <1>4, ZenonT(40) DEF Tables
  <1>6. GoodHello(sentinelSendHello(s, q), promoted)
    BY HelloIs, ZenonT(40)
  <1> QED BY <1>1, <1>3, <1>5, <1>6, ZenonT(40) DEF Inv

\* A majority stays one when further votes are cast.
LEMMA MajorityMore ==
    ASSUME NEW w, NEW e, NEW V, NEW W, V \subseteq W, Majority(w, e, V)
    PROVE  Majority(w, e, W)
  BY ZenonT(40) DEF Majority

\* The elections stand when no leader is added.
LEMMA SameElections ==
    ASSUME Inv, votes \subseteq votes', leaders' = leaders
    PROVE  Elections'
  BY MajorityMore, ZenonT(40) DEF Inv, Elections, Regular

\* s is now in state q; the rest of the system is as before.
LEMMA InstallOnly ==
    ASSUME Inv, NEW s \in Sentinels, NEW q, Good(s, q, votes \cup VoteOf(s, q), promoted),
           VoteStep(sn[s], q), Install(s, q),
           UNCHANGED <<inst, asks, slaveofs, leaders, promoted>>,
           configs' \subseteq Nat \X Instances
    PROVE  Inv'
  <1>1. /\ Tables' /\ Ballots' /\ votes \subseteq votes'
        /\ \A h \in hellos' : GoodHello(h, promoted')
    BY InstallKeeps, ZenonT(40)
  <1>2. Elections'
    BY <1>1, SameElections, ZenonT(40)
  <1>3. Servers'
    BY ZenonT(40) DEF Inv, Servers
  <1> QED BY <1>1, <1>2, <1>3, ZenonT(40) DEF Inv

\* A step of s that casts no vote keeps the invariant.
LEMMA InstallQuiet ==
    ASSUME Inv, NEW s \in Sentinels, NEW q, Good(s, q, votes, promoted),
           SameVote(sn[s], q) \/ (q.leader = sn[s].leader /\ q.leaderEpoch = sn[s].leaderEpoch),
           Install(s, q), UNCHANGED <<inst, asks, slaveofs, leaders, promoted>>,
           configs' \subseteq Nat \X Instances
    PROVE  Inv'
  <1>1. q.leader = sn[s].leader /\ q.leaderEpoch = sn[s].leaderEpoch
    BY ZenonT(40) DEF SameVote
  <1>2. VoteStep(sn[s], q)
    BY <1>1, ZenonT(40) DEF VoteStep
  <1>3. q.leader # None => <<s, q.leaderEpoch, q.leader>> \in votes
    BY ZenonT(40) DEF Good, Live, VotesKept
  <1>4. votes \cup VoteOf(s, q) = votes
    BY <1>3, ZenonT(40) DEF VoteOf
  <1> QED BY <1>2, <1>4, InstallOnly, ZenonT(40)

\* SENTINEL FAILOVER keeps the invariant.
LEMMA FailoverCommandKeeps ==
    ASSUME Inv, NEW s \in Sentinels, sentinelFailoverCommand(s)
    PROVE  Inv'
  <1> DEFINE b == sentinelStartFailover(sn[s])
             q == [b EXCEPT !.force = TRUE]
  <1>1. Good(s, sn[s], votes, promoted) /\ sn[s].state = "none"
    BY ZenonT(40) DEF Inv, Tables, sentinelFailoverCommand
  <1>2. Good(s, b, votes, promoted) /\ Shape(s, b)
    BY <1>1, StartKeeps, ZenonT(40) DEF Good, Live
  <1>3. b.leader = sn[s].leader /\ b.leaderEpoch = sn[s].leaderEpoch
    BY <1>1, StartIs DEF Good, Live
  <1>4. Install(s, q) /\ UNCHANGED <<inst, asks, slaveofs, leaders, promoted, configs>>
    BY DEF sentinelFailoverCommand
  <1> HIDE DEF b
  <1>5. /\ Shape(s, q) /\ SameVote(b, q) /\ Alike([b EXCEPT !.force = TRUE], q)
        /\ q.configEpoch = b.configEpoch /\ q.failoverEpoch = b.failoverEpoch
        /\ q.addr = b.addr /\ q.report = b.report
        /\ q.state = b.state /\ q.promoted = b.promoted
    BY <1>2, Zenon DEF Shape, MasterRecord, SameVote, Alike
  <1> HIDE DEF q
  <1>6. Good(s, q, votes, promoted)
    BY <1>2, <1>5, AlikeKeeps, ZenonT(40)
  <1>7. q.leader = sn[s].leader /\ q.leaderEpoch = sn[s].leaderEpoch
    BY <1>3, <1>5, ZenonT(40) DEF SameVote
  <1>8. configs' \subseteq Nat \X Instances
    BY <1>4, ZenonT(40) DEF Inv
  <1> QED BY <1>4, <1>6, <1>7, <1>8, InstallQuiet, ZenonT(40)

\* A newer configuration is taken over with the epoch of the Sentinel it is from.
LEMMA HelloKeeps ==
    ASSUME Inv, NEW s \in Sentinels, NEW h \in hellos, sentinelProcessHelloMessage(s, h)
    PROVE  Inv'
  <1> DEFINE r == sn[s]
             seen == Raise(r, h.current)
             newer == [seen EXCEPT !.configEpoch = h.configEpoch]
             other == sentinelResetMasterAndChangeAddress(newer, h.addr)
  <1>1. Good(s, r, votes, promoted) /\ GoodHello(h, promoted) /\ Shape(s, r)
    BY DEF Inv, Tables, Good, Live
  <1>2. h.current \in Nat /\ h.configEpoch \in Nat /\ h.addr \in Instances
        /\ h.addr \in promoted /\ h.configEpoch <= h.current
    BY <1>1 DEF GoodHello, Hello
  <1>3. Install(s, IF r.configEpoch >= h.configEpoch THEN seen
                   ELSE IF h.addr = r.addr THEN newer ELSE other)
    BY DEF sentinelProcessHelloMessage, Raise
  <1>4. /\ UNCHANGED <<inst, asks, slaveofs, leaders, promoted>>
        /\ configs' \subseteq Nat \X Instances
    BY ZenonT(40) DEF sentinelProcessHelloMessage, Inv
  <1>5. Good(s, seen, votes, promoted)
    BY <1>1, <1>2, RaiseKeeps, ZenonT(40)
  <1>6. /\ Shape(s, seen) /\ seen.leader = r.leader /\ seen.leaderEpoch = r.leaderEpoch
        /\ seen.current >= h.current
    BY <1>1, <1>2, RaiseIs, SMTT(30)
  <1> HIDE DEF r, seen
  <1>7. /\ Shape(s, newer) /\ newer.leader = r.leader /\ newer.leaderEpoch = r.leaderEpoch
        /\ newer.current = seen.current /\ newer.configEpoch = h.configEpoch
        /\ newer.failoverEpoch = seen.failoverEpoch /\ newer.addr = seen.addr
        /\ newer.report = seen.report /\ newer.saved = seen.saved
        /\ newer.state = seen.state /\ newer.promoted = seen.promoted
    BY <1>2, <1>6, ZenonT(40) DEF Shape, MasterRecord
  <1> HIDE DEF newer
  <1>8. Live(s, newer, votes, promoted)
    <2>1. VotesKept(s, newer, votes)
      BY <1>5, <1>6, <1>7, ZenonT(40) DEF Good, Live, VotesKept
    <2>2. newer.configEpoch <= newer.current
      BY <1>2, <1>6, <1>7, Fields, SMTT(30)
    <2> QED BY <1>5, <1>6, <1>7, <2>1, <2>2, ZenonT(40) DEF Good, Live
  <1>9. Good(s, newer, votes, promoted)
    BY <1>5, <1>6, <1>7, <1>8, ZenonT(40) DEF Good, Saved
  <1>10. CASE r.configEpoch >= h.configEpoch
    <2>1. Install(s, seen)
      BY <1>3, <1>10, ZenonT(40)
    <2> QED BY <1>4, <1>5, <1>6, <2>1, InstallQuiet, ZenonT(40) DEF r
  <1>11. CASE ~(r.configEpoch >= h.configEpoch) /\ h.addr = r.addr
    <2>1. Install(s, newer)
      BY <1>3, <1>11, ZenonT(40)
    <2> QED BY <1>4, <1>9, <1>7, <2>1, InstallQuiet, ZenonT(40) DEF r
  <1>12. CASE ~(r.configEpoch >= h.configEpoch) /\ h.addr # r.addr
    <2>1. Install(s, other)
      BY <1>3, <1>12, ZenonT(40)
    <2>2. Good(s, other, votes, promoted) /\ other.leader = None
      BY <1>2, <1>8, SwitchKeeps, ZenonT(40)
    <2> HIDE DEF other
    <2>3. votes \cup VoteOf(s, other) = votes /\ VoteStep(sn[s], other)
      BY <2>2, ZenonT(40) DEF VoteOf, VoteStep
    <2> QED BY <1>4, <2>1, <2>2, <2>3, InstallOnly, ZenonT(40)
  <1> QED BY <1>10, <1>11, <1>12, ZenonT(40)

\* Seeing the promoted replica as a master keeps the invariant.
LEMMA PromotionKeeps ==
    ASSUME Inv, NEW s \in Sentinels, NEW i \in Instances, PromotionSeen(s, i)
    PROVE  Inv'
  <1> DEFINE r == sn[s]
             new == [r EXCEPT !.configEpoch = r.failoverEpoch, !.state = "reconf_slaves"]
             q == sentinelFlushConfig(new)
  <1>1. Good(s, r, votes, promoted) /\ Shape(s, r)
    BY DEF Inv, Tables, Good, Live
  <1>2. /\ r.promoted = i /\ inst[i] = None /\ r.state = "wait_promotion"
        /\ Install(s, q) /\ UNCHANGED <<inst, asks, slaveofs, leaders, promoted>>
        /\ configs' = configs \cup {<<r.failoverEpoch, i>>}
    BY DEF PromotionSeen
  <1>3. i \in promoted
    BY <1>2 DEF Inv, Servers
  <1>4. configs' \subseteq Nat \X Instances
    BY <1>1, <1>2, Fields, SMTT(30) DEF Inv
  <1> HIDE DEF r
  <1>5. /\ Shape(s, new) /\ new.leader = r.leader /\ new.leaderEpoch = r.leaderEpoch
        /\ new.current = r.current /\ new.configEpoch = r.failoverEpoch
        /\ new.failoverEpoch = r.failoverEpoch /\ new.addr = r.addr
        /\ new.report = r.report /\ new.state = "reconf_slaves" /\ new.promoted = i
    BY <1>1, <1>2, ZenonT(40) DEF Shape, MasterRecord, Chosen
  <1> HIDE DEF new
  <1>6. Live(s, new, votes, promoted)
    <2>1. VotesKept(s, new, votes)
      BY <1>1, <1>5, ZenonT(40) DEF Good, Live, VotesKept
    <2> QED BY <1>1, <1>3, <1>5, <2>1, ZenonT(40) DEF Good, Live
  <1>7. Good(s, q, votes, promoted)
    BY <1>6, FlushKeeps, ZenonT(40)
  <1>8. q.leader = r.leader /\ q.leaderEpoch = r.leaderEpoch
    BY <1>5, FlushIs, SMTT(30)
  <1> QED BY <1>2, <1>4, <1>7, <1>8, InstallQuiet, ZenonT(40) DEF r

\* Learning the replicas from INFO keeps the invariant.
LEMMA DiscoverKeeps ==
    ASSUME Inv, NEW s \in Sentinels, DiscoverSlaves(s)
    PROVE  Inv'
  <1> DEFINE r == sn[s]
             new == [r EXCEPT !.slaves = @ \cup {i \in Instances : inst[i] = r.addr}]
             q == sentinelFlushConfig(new)
  <1>1. Good(s, r, votes, promoted) /\ Shape(s, r)
    BY DEF Inv, Tables, Good, Live
  <1>2. /\ inst[r.addr] = None /\ Install(s, q)
        /\ UNCHANGED <<inst, asks, slaveofs, leaders, promoted, configs>>
    BY DEF DiscoverSlaves
  <1> HIDE DEF r
  <1>3. inst[r.addr] # r.addr
    BY <1>1, <1>2, Fields, NoneApart, ZenonT(40)
  <1>4. /\ Shape(s, new) /\ new.leader = r.leader /\ new.leaderEpoch = r.leaderEpoch
        /\ new.current = r.current /\ new.configEpoch = r.configEpoch
        /\ new.failoverEpoch = r.failoverEpoch /\ new.addr = r.addr
        /\ new.report = r.report /\ new.state = r.state /\ new.promoted = r.promoted
    BY <1>1, <1>3, ZenonT(40) DEF Shape, MasterRecord
  <1> HIDE DEF new
  <1>5. Live(s, new, votes, promoted)
    <2>1. VotesKept(s, new, votes)
      BY <1>1, <1>4, ZenonT(40) DEF Good, Live, VotesKept
    <2> QED BY <1>1, <1>4, <2>1, ZenonT(40) DEF Good, Live
  <1>6. Good(s, q, votes, promoted)
    BY <1>5, FlushKeeps, ZenonT(40)
  <1>7. q.leader = r.leader /\ q.leaderEpoch = r.leaderEpoch
    BY <1>4, FlushIs, SMTT(30)
  <1>8. configs' \subseteq Nat \X Instances
    BY <1>2, ZenonT(40) DEF Inv
  <1> QED BY <1>2, <1>6, <1>7, <1>8, InstallQuiet, ZenonT(40) DEF r

\* Seeing the progress of a replica keeps the invariant.
LEMMA ReconfSeenKeeps ==
    ASSUME Inv, NEW s \in Sentinels, NEW i \in Instances, ReconfSeen(s, i)
    PROVE  Inv'
  <1>1. Good(s, sn[s], votes, promoted) /\ Shape(s, sn[s])
    BY DEF Inv, Tables, Good, Live
  <1>2. PICK to \in {"inprog", "done"} : Install(s, [sn[s] EXCEPT !.reconf[i] = to])
    BY DEF ReconfSeen
  <1>3. /\ UNCHANGED <<inst, asks, slaveofs, leaders, promoted>>
        /\ configs' \subseteq Nat \X Instances
    BY ZenonT(40) DEF ReconfSeen, Inv
  <1> DEFINE r == sn[s]
             q == [r EXCEPT !.reconf[i] = to]
  <1> HIDE DEF r
  <1>4. [r.reconf EXCEPT ![i] = to] \in [Instances -> {"no", "sent", "inprog", "done"}]
    BY <1>1, Fields, ZenonT(40) DEF r
  <1>5. /\ Shape(s, q) /\ SameVote(r, q) /\ q.configEpoch = r.configEpoch
        /\ q.failoverEpoch = r.failoverEpoch /\ q.addr = r.addr
        /\ q.report = r.report /\ q.state = r.state /\ q.promoted = r.promoted
    BY <1>1, <1>4 DEF Shape, MasterRecord, SameVote, r
  <1>6. Install(s, q)
    BY <1>2, ZenonT(40) DEF r
  <1> HIDE DEF q
  <1>7. Good(s, q, votes, promoted)
    BY <1>1, <1>5, AlikeKeeps, ZenonT(40) DEF r
  <1> QED BY <1>3, <1>5, <1>6, <1>7, InstallQuiet, ZenonT(40) DEF r

=============================================================================
