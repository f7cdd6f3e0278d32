------------------------- MODULE RedisClusterProofs -------------------------
(***************************************************************************)
(* Epochs of a Redis Cluster: no node knows a configEpoch above its        *)
(* currentEpoch, and no node votes twice in one epoch.                     *)
(***************************************************************************)
EXTENDS RedisCluster, Sequences, FiniteSetTheorems, WellFoundedInduction, TLAPS

-----------------------------------------------------------------------------
(* The greatest epoch. *)

\* Numbers are well-founded.
LEMMA Least ==
    ASSUME NEW S, S \subseteq Nat, S # {}
    PROVE  \E n \in S : \A m \in S : n <= m
  <1> DEFINE R == OpToRel(<, Nat)
  <1>1. \A n, m \in Nat : n < m => <<n, m>> \in R
    BY DEF OpToRel
  <1>2. IsWellFoundedOn(R, Nat)
    BY NatLessThanWellFounded, Zenon
  <1> HIDE DEF R
  <1>3. PICK n \in S : \A m \in S : ~(<<m, n>> \in R)
    BY <1>2, WFMin, Zenon
  <1>4. ASSUME NEW m \in S PROVE n <= m
    <2>1. m \in Nat /\ n \in Nat /\ ~(m < n)
      BY <1>1, <1>3, Zenon
    <2> QED BY <2>1
  <1> QED BY <1>4

\* A finite set of numbers that is not empty has a greatest element.
LEMMA Greatest ==
    ASSUME NEW S \in SUBSET Nat, IsFiniteSet(S), S # {}
    PROVE  \E b \in S : \A x \in S : x <= b
  <1>1. PICK seq \in Seq(S) : \A x \in S : \E i \in 1..Len(seq) : seq[i] = x
    BY DEF IsFiniteSet
  <1> DEFINE Bounded(k) == \E b \in S : \A i \in 1..k : seq[i] <= b
             K == {k \in Nat : k <= Len(seq) /\ ~Bounded(k)}
  <1>2. Len(seq) \in Nat /\ \A i \in 1..Len(seq) : seq[i] \in S
    OBVIOUS
  <1>3. K = {}
    <2> SUFFICES ASSUME K # {} PROVE FALSE
      OBVIOUS
    <2>1. PICK k \in K : \A j \in K : k <= j
      <3>1. K \subseteq Nat
        OBVIOUS
      <3> HIDE DEF K
      <3> QED BY <3>1, Least, Zenon
    <2>2. k \in Nat /\ k <= Len(seq) /\ ~Bounded(k)
      BY <2>1
    <2>3. k # 0
      <3>1. PICK b \in S : TRUE
        BY Zenon
      <3>2. \A i \in 1..0 : seq[i] <= b
        OBVIOUS
      <3> QED BY <2>2, <3>2
    <2>4. k - 1 \in Nat /\ k - 1 \notin K /\ k - 1 < k
      <3> HIDE DEF K
      <3> QED BY <2>1, <2>2, <2>3
    <2>5. PICK b \in S : \A i \in 1..(k - 1) : seq[i] <= b
      BY <2>1, <2>4, <1>2
    <2>6. k \in 1..Len(seq) /\ seq[k] \in S
      BY <1>2, <2>1, <2>3
    <2>7. CASE seq[k] <= b
      <3>1. \A i \in 1..k : seq[i] <= b
        BY <2>5, <2>6, <2>7
      <3> QED BY <2>1, <3>1
    <2>8. CASE ~(seq[k] <= b)
      <3>1. ASSUME NEW i \in 1..k PROVE seq[i] <= seq[k]
        <4> HIDE DEF K
        <4>0. i \in 1..Len(seq)
          BY <1>2, <2>2
        <4>1. seq[i] \in Nat /\ seq[k] \in Nat /\ b \in Nat
          BY <1>2, <2>6, <4>0, Zenon
        <4>2. i = k \/ seq[i] <= b
          BY <2>2, <2>5
        <4> QED BY <2>8, <4>1, <4>2
      <3> QED BY <2>1, <2>6, <3>1, Zenon
    <2> QED BY <2>7, <2>8
  <1>4. Bounded(Len(seq))
    BY <1>2, <1>3
  <1>5. PICK b \in S : \A i \in 1..Len(seq) : seq[i] <= b
    BY <1>4
  <1> QED BY <1>1, <1>5, Zenon

\* The epochs of all nodes are finitely many.
LEMMA FiniteRange ==
    ASSUME NEW f \in [Nodes -> Nat]
    PROVE  IsFiniteSet({f[n] : n \in Nodes})
  <1> DEFINE T == {f[n] : n \in Nodes}
  <1>1. f \in Surjection(Nodes, T)
    BY DEF Surjection
  <1>2. IsFiniteSet(Nodes)
    BY ClusterConstants
  <1> QED BY <1>1, <1>2, FS_Surjection

\* Max of a finite set that is not empty.
LEMMA MaxIs ==
    ASSUME NEW S \in SUBSET Nat, IsFiniteSet(S), S # {}
    PROVE  Max(S) \in S /\ \A x \in S : x <= Max(S)
  BY Greatest, Zenon DEF Max

\* Max of two numbers.
LEMMA MaxOfTwo ==
    ASSUME NEW a \in Nat, NEW b \in Nat
    PROVE  Max({a, b}) \in Nat /\ Max({a, b}) >= a /\ Max({a, b}) >= b
           /\ Max({a, b}) \in {a, b}
  <1>1. \E x \in {a, b} : \A y \in {a, b} : x >= y
    OBVIOUS
  <1> QED BY <1>1 DEF Max

-----------------------------------------------------------------------------
(* One table. *)

\* The type of a table.
Table ==
    [currentEpoch : Nat, lastVoteEpoch : Nat, slaveof : [Nodes -> Nodes \cup {None}],
     shard : [Nodes -> Nodes], epoch : [Nodes -> Nat], slots : [Slots -> Nodes \cup {None}],
     unclaimed : SUBSET Slots, fail : SUBSET Nodes]

\* The table of a node that has heard of no epoch beyond its own.
Known(s) ==
    /\ s \in Table
    /\ \A m \in Nodes : s.epoch[m] <= s.currentEpoch
    /\ s.lastVoteEpoch <= s.currentEpoch

\* t can come after s without a vote or a restart in between.
Follows(s, t) ==
    Known(t) /\ t.currentEpoch >= s.currentEpoch /\ t.lastVoteEpoch = s.lastVoteEpoch

\* The null pointer is no node.
LEMMA NodesApart == None \notin Nodes
  BY ClusterConstants

\* The types of the fields of a table.
LEMMA Fields ==
    ASSUME NEW s, Known(s)
    PROVE  /\ s.currentEpoch \in Nat /\ s.lastVoteEpoch \in Nat
           /\ s.slaveof \in [Nodes -> Nodes \cup {None}] /\ s.epoch \in [Nodes -> Nat]
           /\ s.shard \in [Nodes -> Nodes]
           /\ s.slots \in [Slots -> Nodes \cup {None}] /\ s.unclaimed \subseteq Slots
           /\ s.fail \subseteq Nodes
  BY DEF Known, Table

\* A chain of edits of a table is an edit of it.
LEMMA FollowsOn ==
    ASSUME NEW s, NEW t, NEW u, Known(s), Follows(s, t), Follows(t, u)
    PROVE  Follows(s, u)
  BY Fields DEF Follows

\* No edit is one too.
LEMMA FollowsSame ==
    ASSUME NEW s, Known(s)
    PROVE  Follows(s, s)
  BY Fields DEF Follows

\* Slots, roles and flags have no part in the epochs.
LEMMA RebindFollows ==
    ASSUME NEW s, Known(s), NEW js, NEW n \in Nodes \cup {None}
    PROVE  Follows(s, Rebind(s, js, n)) /\ Rebind(s, js, n).epoch = s.epoch
  <1> DEFINE slots == [j \in Slots |-> IF j \in js THEN n ELSE s.slots[j]]
             t == [s EXCEPT !.slots = slots, !.unclaimed = s.unclaimed \ js]
  <1>1. slots \in [Slots -> Nodes \cup {None}]
    BY Fields
  <1>2. Rebind(s, js, n) = t
    BY DEF Rebind
  <1> HIDE DEF slots
  <1>3. /\ t \in Table /\ t.epoch = s.epoch /\ t.currentEpoch = s.currentEpoch
        /\ t.lastVoteEpoch = s.lastVoteEpoch
    BY <1>1, Zenon DEF Known, Table
  <1> HIDE DEF t
  <1> QED BY <1>2, <1>3, Fields DEF Follows, Known

\* Neither has the set of unclaimed slots.
LEMMA UnclaimFollows ==
    ASSUME NEW s, Known(s), NEW js \in SUBSET Slots
    PROVE  Follows(s, [s EXCEPT !.unclaimed = js])
  <1> DEFINE t == [s EXCEPT !.unclaimed = js]
  <1>1. /\ t \in Table /\ t.epoch = s.epoch /\ t.currentEpoch = s.currentEpoch
        /\ t.lastVoteEpoch = s.lastVoteEpoch
    BY DEF Known, Table
  <1> HIDE DEF t
  <1>2. Follows(s, t)
    BY <1>1, Fields DEF Follows, Known
  <1> QED BY <1>2 DEF t

\* Nor has the master a node replicates.
LEMMA RoleFollows ==
    ASSUME NEW s, Known(s), NEW n \in Nodes, NEW m \in Nodes \cup {None}
    PROVE  LET t == [s EXCEPT !.slaveof[n] = m] IN Follows(s, t) /\ t.epoch = s.epoch
  <1> DEFINE roles == [s.slaveof EXCEPT ![n] = m]
             t == [s EXCEPT !.slaveof = roles]
  <1>1. roles \in [Nodes -> Nodes \cup {None}]
    BY Fields
  <1>2. t = [s EXCEPT !.slaveof[n] = m]
    BY DEF Known, Table
  <1> HIDE DEF roles
  <1>3. /\ t \in Table /\ t.epoch = s.epoch /\ t.currentEpoch = s.currentEpoch
        /\ t.lastVoteEpoch = s.lastVoteEpoch
    BY <1>1 DEF Known, Table
  <1> HIDE DEF t
  <1>4. Follows(s, t)
    BY <1>3, Fields DEF Follows, Known
  <1> QED BY <1>2, <1>3, <1>4

\* Nor have the shards.
LEMMA ShardFollows ==
    ASSUME NEW s, Known(s), NEW f \in [Nodes -> Nodes]
    PROVE  Follows(s, [s EXCEPT !.shard = f])
  <1> DEFINE t == [s EXCEPT !.shard = f]
  <1>1. /\ t \in Table /\ t.epoch = s.epoch /\ t.currentEpoch = s.currentEpoch
        /\ t.lastVoteEpoch = s.lastVoteEpoch
    BY DEF Known, Table
  <1> HIDE DEF t
  <1>2. Follows(s, t)
    BY <1>1, Fields DEF Follows, Known
  <1> QED BY <1>2 DEF t

\* Nor have the FAIL flags.
LEMMA FailFollows ==
    ASSUME NEW s, Known(s), NEW f \in SUBSET Nodes
    PROVE  Follows(s, [s EXCEPT !.fail = f])
  <1> DEFINE t == [s EXCEPT !.fail = f]
  <1>1. /\ t \in Table /\ t.epoch = s.epoch /\ t.currentEpoch = s.currentEpoch
        /\ t.lastVoteEpoch = s.lastVoteEpoch
    BY DEF Known, Table
  <1> HIDE DEF t
  <1>2. Follows(s, t)
    BY <1>1, Fields DEF Follows, Known
  <1> QED BY <1>2 DEF t

\* A new configEpoch for n, with a currentEpoch that is not below it.
LEMMA EpochFollows ==
    ASSUME NEW s, Known(s), NEW n \in Nodes, NEW c \in Nat, NEW e \in Nat,
           s.currentEpoch <= c, e <= c
    PROVE  Follows(s, [s EXCEPT !.currentEpoch = c, !.epoch[n] = e])
  <1> DEFINE epochs == [s.epoch EXCEPT ![n] = e]
             t == [s EXCEPT !.currentEpoch = c, !.epoch = epochs]
  <1>1. epochs \in [Nodes -> Nat] /\ \A m \in Nodes : epochs[m] = e \/ epochs[m] = s.epoch[m]
    BY Fields
  <1>2. t = [s EXCEPT !.currentEpoch = c, !.epoch[n] = e]
    BY DEF Known, Table
  <1> HIDE DEF epochs
  <1>3. /\ t \in Table /\ t.epoch = epochs /\ t.currentEpoch = c
        /\ t.lastVoteEpoch = s.lastVoteEpoch
    BY <1>1, Zenon DEF Known, Table
  <1> HIDE DEF t
  <1>4. \A m \in Nodes : t.epoch[m] <= t.currentEpoch
    BY <1>1, <1>3, Fields DEF Known
  <1>5. Follows(s, t)
    BY <1>3, <1>4, Fields DEF Follows, Known
  <1> QED BY <1>2, <1>5

\* The same without a change of currentEpoch.
LEMMA ConfigEpochFollows ==
    ASSUME NEW s, Known(s), NEW n \in Nodes, NEW e \in Nat, e <= s.currentEpoch
    PROVE  Follows(s, [s EXCEPT !.epoch[n] = e])
  <1> DEFINE c == s.currentEpoch
  <1>1. c \in Nat /\ c <= c
    BY Fields
  <1>2. [s EXCEPT !.currentEpoch = c, !.epoch[n] = e] = [s EXCEPT !.epoch[n] = e]
    BY Zenon DEF Known, Table
  <1> HIDE DEF c
  <1>3. Follows(s, [s EXCEPT !.currentEpoch = c, !.epoch[n] = e])
    BY <1>1, EpochFollows, Zenon DEF c
  <1> QED BY <1>2, <1>3

-----------------------------------------------------------------------------
(* The functions that edit a table. *)

\* What every packet says of its sender.
Header ==
    [from : Nodes, currentEpoch : Nat, configEpoch : Nat, slaveof : Nodes \cup {None},
     shard : Nodes, slots : SUBSET Slots]

\* A header whose epochs are in order.
GoodHeader(h) == h \in Header /\ h.configEpoch <= h.currentEpoch

\* clusterSetNodeAsMaster leaves the epochs alone.
LEMMA MasterFollows ==
    ASSUME NEW s, Known(s), NEW n \in Nodes
    PROVE  Follows(s, clusterSetNodeAsMaster(s, n))
  BY RoleFollows DEF clusterSetNodeAsMaster

\* So does clusterSetMaster.
LEMMA SetMasterFollows ==
    ASSUME NEW s, Known(s), NEW me \in Nodes, NEW n \in Nodes
    PROVE  Follows(s, clusterSetMaster(me, s, n))
  <1> DEFINE t == [s EXCEPT !.slaveof[me] = n]
             f == [s.shard EXCEPT ![me] = s.shard[n]]
  <1>1. Follows(s, t)
    BY RoleFollows
  <1>2. f \in [Nodes -> Nodes]
    BY Fields
  <1>3. clusterSetMaster(me, s, n) = [t EXCEPT !.shard = f]
    BY DEF clusterSetMaster, Known, Table
  <1> HIDE DEF t, f
  <1>4. Follows(t, [t EXCEPT !.shard = f])
    BY <1>1, <1>2, ShardFollows DEF Follows
  <1> QED BY <1>1, <1>3, <1>4, FollowsOn

\* And updateShardId.
LEMMA UpdateShardFollows ==
    ASSUME NEW s, Known(s), NEW n \in Nodes, NEW id \in Nodes
    PROVE  Follows(s, updateShardId(s, n, id))
  <1> DEFINE all == [m \in Nodes |-> IF m = n \/ s.slaveof[m] = n THEN id ELSE s.shard[m]]
             one == [s.shard EXCEPT ![n] = id]
  <1>1. all \in [Nodes -> Nodes] /\ one \in [Nodes -> Nodes]
    BY Fields
  <1>2. updateShardId(s, n, id) \in {s, [s EXCEPT !.shard = all], [s EXCEPT !.shard = one]}
    BY DEF updateShardId, Known, Table
  <1> HIDE DEF all, one
  <1> QED BY <1>1, <1>2, ShardFollows, FollowsSame

\* An epoch that is taken is the new currentEpoch.
LEMMA RaisedFollows ==
    ASSUME NEW s, Known(s), NEW n \in Nodes
    PROVE  Follows(s, [s EXCEPT !.currentEpoch = @ + 1, !.epoch[n] = s.currentEpoch + 1])
  <1> DEFINE c == s.currentEpoch + 1
  <1>1. c \in Nat /\ s.currentEpoch <= c /\ c <= c
    BY Fields
  <1>2. [s EXCEPT !.currentEpoch = c, !.epoch[n] = c]
          = [s EXCEPT !.currentEpoch = @ + 1, !.epoch[n] = s.currentEpoch + 1]
    BY SMTT(30) DEF Known, Table
  <1> HIDE DEF c
  <1>3. Follows(s, [s EXCEPT !.currentEpoch = c, !.epoch[n] = c])
    BY <1>1, EpochFollows, ZenonT(40)
  <1> QED BY <1>2, <1>3

\* CLUSTER FAILOVER TAKEOVER takes an epoch without asking.
LEMMA BumpFollows ==
    ASSUME NEW s, Known(s), NEW n \in Nodes
    PROVE  Follows(s, clusterBumpConfigEpochWithoutConsensus(n, s))
  BY RaisedFollows, FollowsSame, ZenonT(40) DEF clusterBumpConfigEpochWithoutConsensus

\* So does the repair of a collision.
LEMMA CollisionFollows ==
    ASSUME NEW s, Known(s), NEW n \in Nodes, NEW sender \in Nodes
    PROVE  Follows(s, clusterHandleConfigEpochCollision(n, s, sender))
  BY RaisedFollows, FollowsSame, Zenon DEF clusterHandleConfigEpochCollision

\* Whatever slots a packet claims, the epochs of the table stay.
LEMMA ClaimFollows ==
    ASSUME NEW s, Known(s), NEW me \in Nodes, NEW sender \in Nodes, NEW e, NEW js
    PROVE  Follows(s, clusterUpdateSlotsConfigWith(me, s, sender, e, js))
  <1> DEFINE taken == {j \in js : /\ s.slots[j] # sender
                                  /\ \/ isSlotUnclaimed(s, j)
                                     \/ s.epoch[s.slots[j]] < e}
             bound == Rebind(s, taken, sender)
             left == (s.unclaimed \ js) \cup {j \in Slots \ js : s.slots[j] = sender}
             moved == [bound EXCEPT !.unclaimed = left]
             grand == s.slaveof[s.slaveof[me]]
  <1>1. Follows(s, bound)
    BY RebindFollows
  <1>2. left \in SUBSET Slots
    BY Fields
  <1> HIDE DEF bound, left
  <1>3. Follows(bound, moved)
    BY <1>1, <1>2, UnclaimFollows DEF Follows
  <1>4. Follows(s, moved)
    BY <1>1, <1>3, FollowsOn, SMTT(30)
  <1>5. \/ clusterUpdateSlotsConfigWith(me, s, sender, e, js) = s
        \/ clusterUpdateSlotsConfigWith(me, s, sender, e, js) = moved
        \/ clusterUpdateSlotsConfigWith(me, s, sender, e, js)
             = clusterSetMaster(me, moved, sender)
        \/ /\ s.slaveof[me] # None /\ grand # None
           /\ clusterUpdateSlotsConfigWith(me, s, sender, e, js)
                = clusterSetMaster(me, moved, grand)
    BY Zenon DEF clusterUpdateSlotsConfigWith, bound, left
  <1> HIDE DEF moved
  <1>6. ASSUME NEW m \in Nodes PROVE Follows(s, clusterSetMaster(me, moved, m))
    <2>1. Follows(moved, clusterSetMaster(me, moved, m))
      BY <1>4, SetMasterFollows DEF Follows
    <2> QED BY <1>4, <2>1, FollowsOn
  <1>7. s.slaveof[me] # None /\ grand # None => grand \in Nodes
    BY Fields
  <1> HIDE DEF grand
  <1> QED BY <1>4, <1>5, <1>6, <1>7, FollowsSame

\* The epochs of a packet are taken over.
LEMMA NoteFollows ==
    ASSUME NEW s, Known(s), NEW h, GoodHeader(h)
    PROVE  Follows(s, NoteEpochs(s, h)) /\ NoteEpochs(s, h).currentEpoch >= h.currentEpoch
  <1> DEFINE c == Max({s.currentEpoch, h.currentEpoch})
             e == Max({s.epoch[h.from], h.configEpoch})
             n == h.from
             t == [s EXCEPT !.currentEpoch = c, !.epoch[n] = e]
  <1>1. /\ n \in Nodes /\ h.currentEpoch \in Nat /\ h.configEpoch \in Nat
        /\ h.configEpoch <= h.currentEpoch
        /\ s.currentEpoch \in Nat /\ s.epoch[n] \in Nat /\ s.epoch[n] <= s.currentEpoch
    BY Fields DEF GoodHeader, Header, Known
  <1>2. c \in Nat /\ c >= s.currentEpoch /\ c >= h.currentEpoch
    BY <1>1, MaxOfTwo
  <1>3. e \in Nat /\ e \in {s.epoch[n], h.configEpoch}
    BY <1>1, MaxOfTwo
  <1>4. e <= c
    BY <1>1, <1>2, <1>3
  <1>5. NoteEpochs(s, h) = t
    BY <1>1 DEF NoteEpochs, Known, Table
  <1> HIDE DEF c, e, n
  <1>6. Follows(s, t) /\ t.currentEpoch = c
    <2>1. Follows(s, t)
      BY <1>1, <1>2, <1>3, <1>4, EpochFollows, Zenon
    <2>2. t.currentEpoch = c
      BY DEF Known, Table
    <2> QED BY <2>1, <2>2, SMTT(30)
  <1> HIDE DEF t
  <1> QED BY <1>2, <1>5, <1>6

\* The role of the sender: the configEpoch it may give to the new master of the
\* sender's slots is not above the currentEpoch noted before.
LEMMA SwitchFollows ==
    ASSUME NEW s, Known(s), NEW h, GoodHeader(h), s.currentEpoch >= h.currentEpoch
    PROVE  Follows(s, SwitchRole(s, h))
  <1> DEFINE n == h.from
             m == h.slaveof
             e == h.configEpoch
             master == clusterSetNodeAsMaster(s, m)
             bound == Rebind(master, SlotsOf(s, n), m)
             moved == [bound EXCEPT !.epoch[m] = e]
             left == Rebind(s, SlotsOf(s, n), None)
             known == IF ~IsMaster(s, n) THEN s
                      ELSE IF s.shard[m] # s.shard[n] THEN left
                      ELSE IF s.epoch[n] <= e THEN moved ELSE s
  <1>1. n \in Nodes /\ m \in Nodes \cup {None} /\ e \in Nat /\ e <= s.currentEpoch
    BY Fields DEF GoodHeader, Header
  <1>2. SwitchRole(s, h) = IF m = None THEN clusterSetNodeAsMaster(s, n)
                           ELSE IF known.slaveof[n] = m THEN known
                           ELSE clusterSetMaster(n, known, m)
    BY DEF SwitchRole
  <1> HIDE DEF n, m, e
  <1>3. CASE m = None
    BY <1>1, <1>2, <1>3, MasterFollows
  <1>4. CASE m # None
    <2>1. m \in Nodes
      BY <1>1, <1>4
    <2>2. Follows(s, master)
      BY <2>1, MasterFollows
    <2> HIDE DEF master
    <2>3. Follows(master, bound)
      BY <2>1, <2>2, RebindFollows DEF Follows
    <2>4. Follows(s, bound)
      BY <2>2, <2>3, FollowsOn
    <2> HIDE DEF bound
    <2>5. Known(bound) /\ e <= bound.currentEpoch
      BY <1>1, <2>4, Fields DEF Follows
    <2>6. Follows(bound, moved)
      BY <1>1, <2>1, <2>5, ConfigEpochFollows
    <2>7. Follows(s, moved)
      BY <2>4, <2>6, FollowsOn
    <2> HIDE DEF moved
    <2>8. Follows(s, left)
      BY RebindFollows
    <2> HIDE DEF left
    <2>9. Follows(s, known)
      BY <2>7, <2>8, FollowsSame
    <2> HIDE DEF known
    <2>10. Follows(known, clusterSetMaster(n, known, m))
      BY <1>1, <2>1, <2>9, SetMasterFollows DEF Follows
    <2>11. Follows(s, clusterSetMaster(n, known, m))
      BY <2>9, <2>10, FollowsOn
    <2> QED BY <1>2, <1>4, <2>9, <2>11
  <1> QED BY <1>3, <1>4

\* A PING or PONG, up to the claims of its sender ...
LEMMA ClaimedFollows ==
    ASSUME NEW s, Known(s), NEW me \in Nodes, NEW h, GoodHeader(h)
    PROVE  Follows(s, Claimed(me, s, h))
  <1> DEFINE noted == NoteEpochs(s, h)
             roles == SwitchRole(noted, h)
  <1>1. Follows(s, noted) /\ noted.currentEpoch >= h.currentEpoch
    BY NoteFollows
  <1> HIDE DEF noted
  <1>2. Follows(noted, roles)
    BY <1>1, SwitchFollows DEF Follows
  <1>3. Follows(s, roles)
    BY <1>1, <1>2, FollowsOn
  <1>4. Claimed(me, s, h) = roles
        \/ Claimed(me, s, h)
             = clusterUpdateSlotsConfigWith(me, roles, h.from, h.configEpoch, h.slots)
    BY DEF Claimed, noted
  <1> HIDE DEF roles
  <1>5. Follows(roles, clusterUpdateSlotsConfigWith(me, roles, h.from, h.configEpoch, h.slots))
    BY <1>3, ClaimFollows DEF Follows, GoodHeader, Header
  <1>6. Follows(s, clusterUpdateSlotsConfigWith(me, roles, h.from, h.configEpoch, h.slots))
    BY <1>3, <1>5, FollowsOn
  <1> QED BY <1>3, <1>4, <1>6

\* ... and all of it.
LEMMA ConfiguredFollows ==
    ASSUME NEW s, Known(s), NEW me \in Nodes, NEW h, GoodHeader(h)
    PROVE  Follows(s, Configured(me, s, h))
  <1> DEFINE claimed == Claimed(me, s, h)
  <1>1. Follows(s, claimed)
    BY ClaimedFollows
  <1> DEFINE repaired == IF /\ IsMaster(claimed, me) /\ IsMaster(claimed, h.from)
                            /\ h.configEpoch = claimed.epoch[me]
                         THEN clusterHandleConfigEpochCollision(me, claimed, h.from)
                         ELSE claimed
  <1>2. Configured(me, s, h) = updateShardId(repaired, h.from, h.shard)
    BY DEF Configured
  <1>3. h.from \in Nodes /\ h.shard \in Nodes
    BY DEF GoodHeader, Header
  <1> HIDE DEF claimed
  <1>4. Follows(claimed, clusterHandleConfigEpochCollision(me, claimed, h.from))
    BY <1>1, <1>3, CollisionFollows DEF Follows
  <1>5. Follows(s, repaired)
    BY <1>1, <1>4, FollowsOn
  <1> HIDE DEF repaired
  <1>6. Follows(repaired, updateShardId(repaired, h.from, h.shard))
    BY <1>3, <1>5, UpdateShardFollows DEF Follows
  <1> QED BY <1>2, <1>5, <1>6, FollowsOn

\* A replica takes the slots of its master.
LEMMA ReplaceFollows ==
    ASSUME NEW s, Known(s), NEW n \in Nodes
    PROVE  Follows(s, ReplaceYourMaster(n, s))
  <1> DEFINE master == clusterSetNodeAsMaster(s, n)
  <1>1. Follows(s, master)
    BY MasterFollows
  <1>2. ReplaceYourMaster(n, s) = Rebind(master, SlotsOf(s, s.slaveof[n]), n)
    BY DEF ReplaceYourMaster
  <1> HIDE DEF master
  <1>3. Follows(master, ReplaceYourMaster(n, s))
    BY <1>1, <1>2, RebindFollows DEF Follows
  <1> QED BY <1>1, <1>3, FollowsOn

-----------------------------------------------------------------------------
(* The packets and the state. *)

\* A packet says nothing beyond the currentEpoch in its header.
Packet(m) ==
    /\ GoodHeader(m.hdr)
    /\ m.type \in {"PONG", "AUTH_REQUEST", "AUTH_ACK", "UPDATE", "FAIL"}
    /\ m.type = "UPDATE" => m.about \in Nodes /\ m.epoch \in Nat
                            /\ m.epoch <= m.hdr.currentEpoch
    /\ m.type = "FAIL" => m.about \in Nodes

\* A header is built from a table.
LEMMA HeaderIs ==
    ASSUME NEW s, Known(s), NEW n \in Nodes
    PROVE  /\ GoodHeader(clusterBuildMessageHdr(n, s))
           /\ clusterBuildMessageHdr(n, s).currentEpoch = s.currentEpoch
  <1> DEFINE m == IF IsMaster(s, n) THEN n ELSE s.slaveof[n]
             h == [from |-> n, currentEpoch |-> s.currentEpoch, configEpoch |-> s.epoch[m],
                   slaveof |-> s.slaveof[n], shard |-> s.shard[n], slots |-> SlotsOf(s, m)]
  <1>1. m \in Nodes
    BY Fields DEF IsMaster
  <1>2. clusterBuildMessageHdr(n, s) = h
    BY DEF clusterBuildMessageHdr
  <1> HIDE DEF m
  <1>3. /\ s.currentEpoch \in Nat /\ s.epoch[m] \in Nat /\ s.epoch[m] <= s.currentEpoch
        /\ s.slaveof[n] \in Nodes \cup {None} /\ s.shard[n] \in Nodes /\ SlotsOf(s, m) \in SUBSET Slots
    BY <1>1, Fields DEF Known, SlotsOf
  <1>4. GoodHeader(h) /\ h.currentEpoch = s.currentEpoch
    BY <1>3 DEF GoodHeader, Header
  <1> QED BY <1>2, <1>4

\* The packets a node sends.
LEMMA PacketsSent ==
    ASSUME NEW s, Known(s), NEW n \in Nodes, NEW to, NEW m \in Nodes
    PROVE  /\ Packet(clusterBroadcastPong(n, s, to))
           /\ Packet(clusterBroadcastMessage("AUTH_REQUEST", n, s))
           /\ Packet(clusterSendFailoverAuth(n, s, to))
           /\ Packet(clusterSendUpdate(n, s, to, m))
           /\ Packet(clusterSendFail(n, s, m))
  <1> DEFINE h == clusterBuildMessageHdr(n, s)
  <1>1. GoodHeader(h) /\ h.currentEpoch = s.currentEpoch
    BY HeaderIs
  <1> HIDE DEF h
  <1>2. s.epoch[m] \in Nat /\ s.epoch[m] <= h.currentEpoch
    BY <1>1, Fields DEF Known
  <1>3. /\ Packet([type |-> "PONG", hdr |-> h, to |-> to \ {n}])
        /\ Packet([type |-> "AUTH_REQUEST", hdr |-> h])
        /\ Packet([type |-> "AUTH_ACK", to |-> to, hdr |-> h])
        /\ Packet([type |-> "UPDATE", to |-> to, hdr |-> h, about |-> m,
                   epoch |-> s.epoch[m], slots |-> SlotsOf(s, m) \ s.unclaimed])
        /\ Packet([type |-> "FAIL", hdr |-> h, about |-> m])
    BY <1>1, <1>2 DEF Packet
  <1> QED BY <1>3 DEF clusterBroadcastPong, clusterBroadcastMessage, clusterSendFailoverAuth,
                      clusterSendUpdate, clusterSendFail, h

\* The type of an election.
Election == [phase : {"none", "wait", "sent"}, epoch : Nat, count : Nat]

\* The type of the bounds.
Budget ==
    [elections : Nat, takeovers : Nat, pings : Nat, verdicts : Nat, replicates : Nat,
     restarts : SUBSET Nodes, up : SUBSET Nodes, failed : SUBSET Nodes]

\* Every table is that of a node that knows no epoch beyond its own.
Tables ==
    /\ st \in [Nodes -> Table]
    /\ \A n \in Nodes : Known(st[n])

\* nodes.conf has an epoch that is not below the last vote.
Files ==
    /\ savedEpoch \in [Nodes -> Nat]
    /\ \A n \in Nodes : st[n].lastVoteEpoch <= savedEpoch[n]

\* An election is held in an epoch its candidate was in.
Candidates ==
    /\ auth \in [Nodes -> Election]
    /\ \A n \in Nodes : auth[n].epoch <= st[n].currentEpoch

\* The inductive invariant.
Inv ==
    /\ Tables /\ Files /\ Candidates
    /\ \A m \in msgs : Packet(m)
    /\ budget \in Budget

\* A node's lastVoteEpoch never goes back, and when the node sends a vote it moves
\* on to the epoch of the vote: the test lastVoteEpoch == currentEpoch in
\* clusterSendFailoverAuthIfNeeded keeps a node from voting twice in one epoch,
\* although a restart may take currentEpoch back.
VoteStep ==
    \A n \in Nodes :
      /\ st'[n].lastVoteEpoch >= st[n].lastVoteEpoch
      /\ \A m \in msgs' \ msgs :
           m.type = "AUTH_ACK" /\ m.hdr.from = n
             => /\ st'[n].lastVoteEpoch > st[n].lastVoteEpoch
                /\ st'[n].lastVoteEpoch = m.hdr.currentEpoch

\* A bound is spent.
LEMMA SpendKeeps ==
    ASSUME budget \in Budget,
           NEW what \in {"elections", "takeovers", "pings", "verdicts", "replicates"},
           Spend(what)
    PROVE  budget' \in Budget
  <1>1. /\ budget.elections \in Nat /\ budget.takeovers \in Nat
        /\ budget.pings \in Nat /\ budget.verdicts \in Nat /\ budget.replicates \in Nat
    BY DEF Budget
  <1>2. CASE what = "elections"
    BY <1>1, <1>2 DEF Spend, Budget
  <1>3. CASE what = "takeovers"
    BY <1>1, <1>3 DEF Spend, Budget
  <1>4. CASE what = "pings"
    BY <1>1, <1>4 DEF Spend, Budget
  <1>5. CASE what = "verdicts"
    BY <1>1, <1>5 DEF Spend, Budget
  <1>6. CASE what = "replicates"
    BY <1>1, <1>6 DEF Spend, Budget
  <1> QED BY <1>2, <1>3, <1>4, <1>5, <1>6

\* The election of n after a step that leaves its table as t.
Elected(n, t) ==
    /\ auth' \in [Nodes -> Election]
    /\ \A k \in Nodes : \/ auth'[k].epoch = auth[k].epoch
                        \/ k = n /\ auth'[k].epoch <= t.currentEpoch

\* A step of n that leaves its table as t, and writes nodes.conf if it is a vote.
LEMMA InstallStep ==
    ASSUME Inv, NEW n \in Nodes, NEW t, Known(t), t.currentEpoch >= st[n].currentEpoch,
           \/ t.lastVoteEpoch = st[n].lastVoteEpoch /\ Install(n, t)
           \/ InstallAndSave(n, t),
           Elected(n, t), \A m \in msgs' : m \in msgs \/ Packet(m), budget' \in Budget
    PROVE  Inv' /\ st'[n] = t /\ \A k \in Nodes \ {n} : st'[k] = st[k]
  <1>1. /\ st \in [Nodes -> Table] /\ savedEpoch \in [Nodes -> Nat] /\ t \in Table
        /\ t.currentEpoch \in Nat /\ t.lastVoteEpoch \in Nat
    BY Fields DEF Inv, Tables, Files, Known
  <1>2. /\ st' \in [Nodes -> Table] /\ st'[n] = t
        /\ \A k \in Nodes \ {n} : st'[k] = st[k]
    BY <1>1 DEF Install, InstallAndSave
  <1>3. \A k \in Nodes : Known(st'[k])
    BY <1>2 DEF Inv, Tables
  <1>4. \A k \in Nodes : /\ st'[k].currentEpoch >= st[k].currentEpoch
                         /\ st[k].currentEpoch \in Nat /\ st'[k].currentEpoch \in Nat
    BY <1>2, <1>3, Fields DEF Inv, Tables
  <1>5. Tables'
    BY <1>2, <1>3 DEF Tables
  <1>6. Files'
    <2>1. savedEpoch' \in [Nodes -> Nat] /\ \A k \in Nodes \ {n} : savedEpoch'[k] = savedEpoch[k]
      BY <1>1 DEF Install, InstallAndSave
    <2>2. \/ t.lastVoteEpoch = st[n].lastVoteEpoch /\ savedEpoch'[n] = savedEpoch[n]
          \/ savedEpoch'[n] = t.currentEpoch
      BY <1>1 DEF Install, InstallAndSave
    <2>3. st'[n].lastVoteEpoch <= savedEpoch'[n]
      BY <1>2, <2>2 DEF Inv, Files, Known
    <2>4. \A k \in Nodes \ {n} : st'[k].lastVoteEpoch <= savedEpoch'[k]
      BY <1>2, <2>1 DEF Inv, Files
    <2> QED BY <2>1, <2>3, <2>4 DEF Files
  <1>7. Candidates'
    <2>1. ASSUME NEW k \in Nodes PROVE auth'[k].epoch <= st'[k].currentEpoch
      <3>1. CASE auth'[k].epoch = auth[k].epoch
        <4>1. auth[k].epoch \in Nat /\ auth[k].epoch <= st[k].currentEpoch
          BY DEF Inv, Candidates, Election
        <4> QED BY <1>4, <3>1, <4>1
      <3>2. CASE k = n /\ auth'[k].epoch <= t.currentEpoch
        BY <1>2, <3>2
      <3> QED BY <3>1, <3>2 DEF Elected
    <2> QED BY <2>1 DEF Candidates, Elected
  <1>8. (\A m \in msgs : Packet(m))'
    BY DEF Inv
  <1> QED BY <1>2, <1>5, <1>6, <1>7, <1>8 DEF Inv

\* A step of n in which it does not vote.
LEMMA QuietStep ==
    ASSUME Inv, NEW n \in Nodes, NEW t, Follows(st[n], t),
           Install(n, t) \/ InstallAndSave(n, t), Elected(n, t),
           \A m \in msgs' : m \in msgs \/ (Packet(m) /\ m.type # "AUTH_ACK"),
           budget' \in Budget
    PROVE  Inv' /\ VoteStep
  <1>1. Inv' /\ st'[n] = t /\ \A k \in Nodes \ {n} : st'[k] = st[k]
    BY InstallStep DEF Follows
  <1>2. \A k \in Nodes : /\ st'[k].lastVoteEpoch = st[k].lastVoteEpoch
                         /\ st[k].lastVoteEpoch \in Nat
    BY <1>1, Fields DEF Follows, Inv, Tables
  <1>3. VoteStep
    BY <1>2 DEF VoteStep
  <1> QED BY <1>1, <1>3

\* A step that leaves all tables alone.
LEMMA TalkStep ==
    ASSUME Inv, UNCHANGED <<st, savedEpoch>>,
           auth' \in [Nodes -> Election],
           \A k \in Nodes : auth'[k].epoch = auth[k].epoch,
           \A m \in msgs' : m \in msgs \/ (Packet(m) /\ m.type # "AUTH_ACK"),
           budget' \in Budget
    PROVE  Inv' /\ VoteStep
  <1>1. Tables' /\ Files'
    BY DEF Inv, Tables, Files
  <1>2. Candidates'
    BY DEF Inv, Candidates
  <1>3. (\A m \in msgs : Packet(m))'
    BY DEF Inv
  <1>4. VoteStep
    <2>1. \A k \in Nodes : st[k].lastVoteEpoch \in Nat
      BY Fields DEF Inv, Tables
    <2> QED BY <2>1 DEF VoteStep
  <1> QED BY <1>1, <1>2, <1>3, <1>4 DEF Inv

\* auth is left alone.
LEMMA SameElection ==
    ASSUME Inv, UNCHANGED auth, NEW n, NEW t
    PROVE  Elected(n, t)
  BY DEF Inv, Candidates, Elected

-----------------------------------------------------------------------------
(* The steps. *)

\* A PING or PONG is sent.
LEMMA PingStep ==
    ASSUME Inv, NEW n \in Nodes, clusterSendPing(n)
    PROVE  Inv' /\ VoteStep
  <1>1. Known(st[n]) /\ budget' \in Budget
    BY SpendKeeps DEF Inv, Tables, clusterSendPing
  <1> DEFINE m == clusterBroadcastPong(n, st[n], Nodes)
  <1>2. Packet(m) /\ m.type # "AUTH_ACK"
    BY <1>1, PacketsSent DEF clusterBroadcastPong
  <1>3. msgs' = msgs \cup {m} /\ UNCHANGED <<st, savedEpoch, auth>>
    BY DEF clusterSendPing
  <1> HIDE DEF m
  <1> QED BY <1>1, <1>2, <1>3, TalkStep DEF Inv, Candidates

\* A PING or PONG is processed, and perhaps answered with an UPDATE.
LEMMA PongStep ==
    ASSUME Inv, NEW n \in Nodes, NEW m \in msgs, ProcessPong(n, m)
    PROVE  Inv' /\ VoteStep
  <1> DEFINE h == m.hdr
             s == st[n]
             c == Configured(n, s, h)
             claimed == Claimed(n, s, h)
  <1>1. /\ Known(s) /\ GoodHeader(h) /\ UNCHANGED <<auth, budget>>
        /\ h.from \in Nodes
    BY DEF Inv, Tables, ProcessPong, Packet, GoodHeader, Header
  <1>2. PICK failing \in {s.fail} \cup clearNodeFailureIfNeeded(s, h.from) :
          Install(n, [c EXCEPT !.fail = failing])
    BY DEF ProcessPong
  <1>3. failing \in SUBSET Nodes
    BY <1>1, Fields DEF clearNodeFailureIfNeeded
  <1>4. Follows(s, c) /\ Follows(s, claimed)
    BY <1>1, ConfiguredFollows, ClaimedFollows
  <1>5. \/ UNCHANGED msgs
        \/ \E owner \in Outdated(n, s, h) :
             msgs' = msgs \cup {clusterSendUpdate(n, claimed, h.from, owner)}
    BY SMTT(30) DEF ProcessPong
  <1>6. Outdated(n, s, h) \subseteq Nodes
    <2>1. claimed.slots \in [Slots -> Nodes \cup {None}] /\ h.slots \subseteq Slots
      BY <1>1, <1>4, Fields DEF Follows, GoodHeader, Header
    <2> QED BY <2>1 DEF Outdated, isSlotUnclaimed
  <1> HIDE DEF c, claimed
  <1>7. Follows(c, [c EXCEPT !.fail = failing])
    BY <1>3, <1>4, FailFollows DEF Follows
  <1>8. Follows(s, [c EXCEPT !.fail = failing])
    BY <1>1, <1>4, <1>7, FollowsOn, SMTT(30)
  <1>9. ASSUME NEW owner \in Outdated(n, s, h)
        PROVE  LET u == clusterSendUpdate(n, claimed, h.from, owner)
               IN  Packet(u) /\ u.type # "AUTH_ACK"
    <2>1. owner \in Nodes /\ Known(claimed)
      BY <1>4, <1>6 DEF Follows
    <2> QED BY <2>1, PacketsSent, SMTT(30) DEF clusterSendUpdate
  <1>10. \A x \in msgs' : x \in msgs \/ (Packet(x) /\ x.type # "AUTH_ACK")
    BY <1>5, <1>9
  <1> DEFINE t == [c EXCEPT !.fail = failing]
  <1>11. Follows(st[n], t) /\ Install(n, t) /\ Elected(n, t) /\ budget' \in Budget
    BY <1>1, <1>2, <1>8, SameElection DEF Inv
  <1> HIDE DEF t
  <1> QED BY <1>10, <1>11, QuietStep

\* An UPDATE is processed: the epoch it gives is not above the one noted before.
LEMMA UpdateStep ==
    ASSUME Inv, NEW n \in Nodes, NEW m \in msgs, ProcessUpdate(n, m)
    PROVE  Inv' /\ VoteStep
  <1> DEFINE s == st[n]
             k == m.about
             e == m.epoch
             noted == NoteEpochs(s, m.hdr)
             master == clusterSetNodeAsMaster(noted, k)
             newer == [master EXCEPT !.epoch[k] = e]
             claimed == clusterUpdateSlotsConfigWith(n, newer, k, e, m.slots)
             t == IF noted.epoch[k] >= e THEN noted ELSE claimed
  <1>1. /\ Known(s) /\ GoodHeader(m.hdr) /\ k \in Nodes /\ e \in Nat
        /\ e <= m.hdr.currentEpoch /\ UNCHANGED <<auth, msgs, budget>> /\ Install(n, t)
    BY DEF Inv, Tables, ProcessUpdate, Packet
  <1> HIDE DEF s, k, e
  <1>2. Follows(s, noted) /\ noted.currentEpoch >= m.hdr.currentEpoch
    BY <1>1, NoteFollows
  <1> HIDE DEF noted
  <1>3. Follows(noted, master)
    BY <1>1, <1>2, MasterFollows DEF Follows
  <1>4. Known(master) /\ e <= master.currentEpoch
    <2>1. /\ noted.currentEpoch \in Nat /\ master.currentEpoch \in Nat
          /\ m.hdr.currentEpoch \in Nat /\ master.currentEpoch >= noted.currentEpoch
      BY <1>1, <1>2, <1>3, Fields DEF Follows, GoodHeader, Header
    <2> QED BY <1>1, <1>2, <1>3, <2>1 DEF Follows
  <1> HIDE DEF master
  <1>5. Follows(master, newer)
    BY <1>1, <1>4, ConfigEpochFollows
  <1> HIDE DEF newer
  <1>6. Follows(newer, claimed)
    BY <1>1, <1>5, ClaimFollows DEF Follows
  <1> HIDE DEF claimed
  <1>7. Follows(noted, newer)
    BY <1>2, <1>3, <1>5, FollowsOn, SMTT(30) DEF Follows
  <1>8. Follows(s, newer)
    BY <1>1, <1>2, <1>7, FollowsOn, SMTT(30)
  <1>9. Follows(s, t)
    BY <1>1, <1>2, <1>6, <1>8, FollowsOn
  <1> HIDE DEF t
  <1>10. Follows(st[n], t) /\ Elected(n, t) /\ budget' \in Budget
    BY <1>1, <1>9, SameElection DEF Inv, s
  <1> QED BY <1>1, <1>10, QuietStep

\* A FAIL is processed.
LEMMA FailStep ==
    ASSUME Inv, NEW n \in Nodes, NEW m \in msgs, ProcessFail(n, m)
    PROVE  Inv' /\ VoteStep
  <1> DEFINE noted == NoteEpochs(st[n], m.hdr)
             f == noted.fail \cup ({m.about} \ {n})
             t == [noted EXCEPT !.fail = f]
  <1>1. /\ Known(st[n]) /\ GoodHeader(m.hdr) /\ m.about \in Nodes
        /\ UNCHANGED <<auth, msgs, budget>> /\ Install(n, t)
    BY DEF Inv, Tables, ProcessFail, Packet
  <1>2. Follows(st[n], noted)
    BY <1>1, NoteFollows
  <1> HIDE DEF noted
  <1>3. f \in SUBSET Nodes
    BY <1>1, <1>2, Fields DEF Follows
  <1> HIDE DEF f
  <1>4. Follows(noted, t)
    BY <1>2, <1>3, FailFollows DEF Follows
  <1>5. Follows(st[n], t)
    BY <1>1, <1>2, <1>4, FollowsOn
  <1> HIDE DEF t
  <1>6. Elected(n, t) /\ budget' \in Budget
    BY <1>1, SameElection DEF Inv
  <1> QED BY <1>1, <1>5, <1>6, QuietStep

\* The only step that votes.
LEMMA RequestStep ==
    ASSUME Inv, NEW n \in Nodes, NEW m \in msgs, ProcessAuthRequest(n, m)
    PROVE  Inv' /\ VoteStep
  <1> DEFINE h == m.hdr
             noted == NoteEpochs(st[n], h)
             voted == [noted EXCEPT !.lastVoteEpoch = noted.currentEpoch]
             ack == clusterSendFailoverAuth(n, voted, h.from)
  <1>1. /\ Known(st[n]) /\ GoodHeader(h) /\ UNCHANGED <<auth, budget>>
        /\ \/ Install(n, noted) /\ UNCHANGED msgs
           \/ /\ clusterSendFailoverAuthIfNeeded(n, noted, h)
              /\ InstallAndSave(n, voted) /\ msgs' = msgs \cup {ack}
    BY DEF Inv, Tables, ProcessAuthRequest, Packet
  <1>2. Follows(st[n], noted)
    BY <1>1, NoteFollows
  <1>3. budget' \in Budget /\ Elected(n, noted) /\ Elected(n, voted)
    BY <1>1, SameElection DEF Inv
  <1> HIDE DEF noted
  <1>4. CASE Install(n, noted) /\ UNCHANGED msgs
    BY <1>2, <1>3, <1>4, QuietStep
  <1>5. CASE /\ clusterSendFailoverAuthIfNeeded(n, noted, h)
             /\ InstallAndSave(n, voted) /\ msgs' = msgs \cup {ack}
    <2>1. /\ noted.currentEpoch \in Nat /\ noted.lastVoteEpoch \in Nat
          /\ noted.lastVoteEpoch # noted.currentEpoch
          /\ noted.lastVoteEpoch <= noted.currentEpoch
          /\ noted.lastVoteEpoch = st[n].lastVoteEpoch
          /\ noted.currentEpoch >= st[n].currentEpoch
      BY <1>2, <1>5, Fields DEF Follows, Known, clusterSendFailoverAuthIfNeeded
    <2>2. /\ voted \in Table /\ voted.epoch = noted.epoch
          /\ voted.currentEpoch = noted.currentEpoch
          /\ voted.lastVoteEpoch = noted.currentEpoch
      BY <1>2, <2>1 DEF Follows, Known, Table
    <2> HIDE DEF voted
    <2>3. Known(voted)
      BY <1>2, <2>1, <2>2, SMTT(30) DEF Follows, Known
    <2>4. /\ Packet(ack) /\ ack.hdr.from = n /\ ack.hdr.currentEpoch = noted.currentEpoch
      BY <2>2, <2>3, PacketsSent, HeaderIs, SMTT(30)
      DEF clusterSendFailoverAuth, clusterBuildMessageHdr
    <2> HIDE DEF ack
    <2>5. Inv' /\ st'[n] = voted /\ \A k \in Nodes \ {n} : st'[k] = st[k]
      BY <1>3, <1>5, <2>1, <2>2, <2>3, <2>4, InstallStep, SMTT(30)
    <2>6. \A k \in Nodes : st[k].lastVoteEpoch \in Nat
      BY Fields, SMTT(30) DEF Inv, Tables
    <2>7. VoteStep
      BY <1>5, <2>1, <2>2, <2>4, <2>5, <2>6 DEF VoteStep
    <2> QED BY <2>5, <2>7
  <1> QED BY <1>1, <1>4, <1>5

\* A vote is counted.
LEMMA AckStep ==
    ASSUME Inv, NEW n \in Nodes, NEW m \in msgs, ProcessAuthAck(n, m)
    PROVE  Inv' /\ VoteStep
  <1> DEFINE t == NoteEpochs(st[n], m.hdr)
  <1>1. /\ Known(st[n]) /\ GoodHeader(m.hdr) /\ UNCHANGED budget
        /\ Install(n, t) /\ msgs' = msgs \ {m}
        /\ auth' = auth \/ auth' = [auth EXCEPT ![n].count = @ + 1]
    BY DEF Inv, Tables, ProcessAuthAck, Packet
  <1>2. Follows(st[n], t)
    BY <1>1, NoteFollows
  <1> HIDE DEF t
  <1>3. Elected(n, t)
    <2>1. auth \in [Nodes -> Election]
      BY DEF Inv, Candidates
    <2> QED BY <1>1, <2>1, SMTT(30) DEF Elected, Election
  <1> QED BY <1>1, <1>2, <1>3, QuietStep DEF Inv

\* A replica schedules an election.
LEMMA ScheduleStep ==
    ASSUME Inv, NEW n \in Nodes, ScheduleElection(n)
    PROVE  Inv' /\ VoteStep
  <1> DEFINE p == clusterBroadcastPong(n, st[n], LocalSlaves(n, st[n]))
  <1>1. /\ Known(st[n]) /\ UNCHANGED <<st, savedEpoch, budget>>
        /\ auth' = [auth EXCEPT ![n].phase = "wait", ![n].count = 0]
        /\ \A m \in msgs' : m \in msgs \/ m = p
    BY DEF Inv, Tables, ScheduleElection
  <1>2. Packet(p) /\ p.type # "AUTH_ACK"
    BY <1>1, PacketsSent DEF clusterBroadcastPong
  <1> HIDE DEF p
  <1>3. /\ auth' \in [Nodes -> Election]
        /\ \A k \in Nodes : auth'[k].epoch = auth[k].epoch
    <2>1. auth \in [Nodes -> Election]
      BY DEF Inv, Candidates
    <2> QED BY <1>1, <2>1, Zenon DEF Election
  <1> QED BY <1>1, <1>2, <1>3, TalkStep DEF Inv

\* The epoch of an election is a new currentEpoch of the candidate.
LEMMA AskStep ==
    ASSUME Inv, NEW n \in Nodes, RequestFailoverAuth(n)
    PROVE  Inv' /\ VoteStep
  <1> DEFINE c == st[n].currentEpoch + 1
             t == [st[n] EXCEPT !.currentEpoch = c]
             q == clusterBroadcastMessage("AUTH_REQUEST", n, t)
  <1>1. /\ Known(st[n]) /\ Spend("elections") /\ InstallAndSave(n, t)
        /\ auth' = [auth EXCEPT ![n].phase = "sent", ![n].epoch = t.currentEpoch]
        /\ msgs' = msgs \cup {q}
    BY DEF Inv, Tables, RequestFailoverAuth
  <1>2. budget' \in Budget
    BY <1>1, SpendKeeps DEF Inv
  <1>3. c \in Nat /\ c >= st[n].currentEpoch
    BY <1>1, Fields
  <1> HIDE DEF c
  <1>4. /\ t \in Table /\ t.epoch = st[n].epoch /\ t.currentEpoch = c
        /\ t.lastVoteEpoch = st[n].lastVoteEpoch
    BY <1>1, <1>3 DEF Known, Table
  <1> HIDE DEF t
  <1>5. Follows(st[n], t)
    BY <1>1, <1>3, <1>4, Fields DEF Known, Follows
  <1>6. Packet(q) /\ q.type # "AUTH_ACK"
    BY <1>5, PacketsSent DEF Follows, clusterBroadcastMessage
  <1> HIDE DEF q
  <1>7. Elected(n, t)
    <2>1. auth \in [Nodes -> Election]
      BY DEF Inv, Candidates
    <2> DEFINE a == [auth[n] EXCEPT !.phase = "sent", !.epoch = t.currentEpoch]
    <2>2. a \in Election /\ a.epoch = c
      BY <1>3, <1>4, <2>1, Zenon DEF Election
    <2>3. auth' = [auth EXCEPT ![n] = a]
      BY <1>1, <2>1, Zenon
    <2> HIDE DEF a
    <2> QED BY <1>3, <1>4, <2>1, <2>2, <2>3 DEF Elected
  <1> QED BY <1>1, <1>2, <1>5, <1>6, <1>7, QuietStep

\* A replica that wins, or takes over, tells everybody.
LEMMA PromotedStep ==
    ASSUME Inv, NEW n \in Nodes, NEW s, Follows(st[n], s), NEW t, t = ReplaceYourMaster(n, s),
           InstallAndSave(n, t), msgs' = msgs \cup {clusterBroadcastPong(n, t, Nodes)},
           UNCHANGED auth, budget' \in Budget
    PROVE  Inv' /\ VoteStep
  <1> DEFINE p == clusterBroadcastPong(n, t, Nodes)
  <1>1. Follows(s, t) /\ Known(st[n])
    BY ReplaceFollows DEF Follows, Inv, Tables
  <1>2. Follows(st[n], t)
    BY <1>1, FollowsOn
  <1>3. Packet(p) /\ p.type # "AUTH_ACK"
    BY <1>1, PacketsSent DEF Follows, clusterBroadcastPong
  <1>4. Elected(n, t)
    BY SameElection
  <1> HIDE DEF p
  <1>5. \A m \in msgs' : m \in msgs \/ (Packet(m) /\ m.type # "AUTH_ACK")
    BY <1>3 DEF p
  <1> QED BY <1>2, <1>4, <1>5, QuietStep

\* A replica wins: the epoch of its election is not above its currentEpoch.
LEMMA WinStep ==
    ASSUME Inv, NEW n \in Nodes, WinElection(n)
    PROVE  Inv' /\ VoteStep
  <1> DEFINE e == Max({st[n].epoch[n], auth[n].epoch})
             s == [st[n] EXCEPT !.epoch[n] = e]
             t == ReplaceYourMaster(n, s)
  <1>1. Known(st[n]) /\ auth[n].epoch \in Nat /\ auth[n].epoch <= st[n].currentEpoch
    BY DEF Inv, Tables, Candidates, Election
  <1>2. s = [st[n] EXCEPT !.epoch[n] = Max({@, auth[n].epoch})]
    BY <1>1 DEF Known, Table
  <1>3. /\ InstallAndSave(n, t) /\ msgs' = msgs \cup {clusterBroadcastPong(n, t, Nodes)}
        /\ UNCHANGED <<auth, budget>>
    BY <1>2 DEF WinElection
  <1>4. st[n].epoch[n] \in Nat /\ st[n].epoch[n] <= st[n].currentEpoch
    BY <1>1, Fields DEF Known
  <1>5. e \in Nat /\ e <= st[n].currentEpoch
    BY <1>1, <1>4, MaxOfTwo
  <1> HIDE DEF e
  <1>6. Follows(st[n], s)
    BY <1>1, <1>5, ConfigEpochFollows
  <1> HIDE DEF s
  <1> QED BY <1>3, <1>6, PromotedStep DEF Inv

\* A replica takes over without votes.
LEMMA TakeoverStep ==
    ASSUME Inv, NEW n \in Nodes, Takeover(n)
    PROVE  Inv' /\ VoteStep
  <1> DEFINE s == clusterBumpConfigEpochWithoutConsensus(n, st[n])
             t == ReplaceYourMaster(n, s)
  <1>1. /\ InstallAndSave(n, t) /\ msgs' = msgs \cup {clusterBroadcastPong(n, t, Nodes)}
        /\ Spend("takeovers") /\ UNCHANGED auth
    BY DEF Takeover
  <1>2. Follows(st[n], s) /\ budget' \in Budget
    BY <1>1, BumpFollows, SpendKeeps DEF Inv, Tables
  <1> HIDE DEF s
  <1> QED BY <1>1, <1>2, PromotedStep

\* CLUSTER REPLICATE.
LEMMA ReplicateStep ==
    ASSUME Inv, NEW n \in Nodes, NEW m \in Nodes, Replicate(n, m)
    PROVE  Inv' /\ VoteStep
  <1> DEFINE t == clusterSetMaster(n, st[n], m)
  <1>1. Spend("replicates") /\ Install(n, t) /\ UNCHANGED <<auth, msgs>>
    BY DEF Replicate
  <1>2. Follows(st[n], t) /\ budget' \in Budget
    BY <1>1, SetMasterFollows, SpendKeeps DEF Inv, Tables
  <1> HIDE DEF t
  <1>3. Elected(n, t)
    BY <1>1, SameElection
  <1> QED BY <1>1, <1>2, <1>3, QuietStep

\* A node is flagged FAIL.
LEMMA VerdictStep ==
    ASSUME Inv, NEW n \in Nodes, NEW m \in Nodes, MarkNodeAsFailing(n, m)
    PROVE  Inv' /\ VoteStep
  <1> DEFINE f == st[n].fail \cup {m}
             t == [st[n] EXCEPT !.fail = f]
             p == clusterSendFail(n, t, m)
  <1>1. /\ Known(st[n]) /\ Spend("verdicts") /\ Install(n, t)
        /\ msgs' = msgs \cup {p} /\ UNCHANGED auth
    BY DEF Inv, Tables, MarkNodeAsFailing
  <1>2. f \in SUBSET Nodes /\ budget' \in Budget
    BY <1>1, Fields, SpendKeeps DEF Inv
  <1> HIDE DEF f
  <1>3. Follows(st[n], t)
    BY <1>1, <1>2, FailFollows, SMTT(30)
  <1> HIDE DEF t
  <1>4. Packet(p) /\ p.type # "AUTH_ACK"
    BY <1>3, PacketsSent DEF Follows, clusterSendFail
  <1>5. Elected(n, t)
    BY <1>1, SameElection
  <1> HIDE DEF p
  <1> QED BY <1>1, <1>2, <1>3, <1>4, <1>5, QuietStep

\* What clusterLoadConfig makes of the file: currentEpoch may be smaller than
\* before the crash, and is not below the last vote or any configEpoch.
LEMMA LoadKnown ==
    ASSUME Inv, NEW n \in Nodes
    PROVE  Known(LoadConfig(n)) /\ LoadConfig(n).lastVoteEpoch = st[n].lastVoteEpoch
  <1> DEFINE s == st[n]
             c == savedEpoch[n]
             epochs == [m \in Nodes |-> IF IsMaster(s, m) THEN s.epoch[m] ELSE 0]
             shards == [m \in Nodes |-> IF IsMaster(s, m) THEN s.shard[m]
                                        ELSE s.shard[s.slaveof[m]]]
             loaded == [s EXCEPT !.currentEpoch = c, !.epoch = epochs, !.shard = shards,
                                 !.unclaimed = {}]
             S == {epochs[m] : m \in Nodes} \cup {c}
             top == Max(S)
             t == [loaded EXCEPT !.currentEpoch = top]
  <1>1. Known(s) /\ c \in Nat /\ s.lastVoteEpoch <= c
    BY DEF Inv, Tables, Files
  <1>2. epochs \in [Nodes -> Nat] /\ shards \in [Nodes -> Nodes]
    BY <1>1, Fields DEF IsMaster
  <1>3. LoadConfig(n) = [loaded EXCEPT !.currentEpoch = clusterGetMaxEpoch(loaded)]
    BY DEF LoadConfig
  <1> HIDE DEF s, c, epochs, shards
  <1>4. /\ loaded \in Table /\ loaded.epoch = epochs /\ loaded.currentEpoch = c
        /\ loaded.lastVoteEpoch = s.lastVoteEpoch
    BY <1>1, <1>2, Zenon DEF Known, Table
  <1>5. clusterGetMaxEpoch(loaded) = top
    BY <1>4 DEF clusterGetMaxEpoch
  <1> HIDE DEF loaded
  <1>6. S \in SUBSET Nat /\ S # {} /\ IsFiniteSet(S)
    <2>1. IsFiniteSet({epochs[m] : m \in Nodes})
      BY <1>2, FiniteRange
    <2>2. IsFiniteSet(S)
      BY <2>1, FS_AddElement
    <2> QED BY <1>1, <1>2, <2>2
  <1> HIDE DEF S
  <1>7. top \in S /\ \A x \in S : x <= top
    BY <1>6, MaxIs
  <1>8. /\ top \in Nat /\ c <= top /\ \A m \in Nodes : epochs[m] <= top
    BY <1>6, <1>7 DEF S
  <1> HIDE DEF top
  <1>9. /\ t \in Table /\ t.epoch = epochs /\ t.currentEpoch = top
        /\ t.lastVoteEpoch = s.lastVoteEpoch
    BY <1>4, <1>8 DEF Table
  <1>10. LoadConfig(n) = t
    BY <1>3, <1>5
  <1> HIDE DEF t
  <1>11. Known(t)
    BY <1>1, <1>8, <1>9, Fields DEF Known
  <1> QED BY <1>9, <1>10, <1>11 DEF s

\* A node restarts from nodes.conf.
LEMMA RestartStep ==
    ASSUME Inv, NEW n \in Nodes, Restart(n)
    PROVE  Inv' /\ VoteStep
  <1> DEFINE t == LoadConfig(n)
  <1>1. Known(t) /\ t.lastVoteEpoch = st[n].lastVoteEpoch
    BY LoadKnown
  <1>2. /\ st' = [st EXCEPT ![n] = t] /\ auth' = [auth EXCEPT ![n] = NoElection]
        /\ msgs' \subseteq msgs /\ UNCHANGED savedEpoch
        /\ budget' = [budget EXCEPT !.restarts = @ \ {n}]
    BY DEF Restart
  <1> HIDE DEF t
  <1>3. Tables'
    BY <1>1, <1>2 DEF Inv, Tables, Known
  <1>4. \A k \in Nodes : st'[k].lastVoteEpoch = st[k].lastVoteEpoch
    BY <1>1, <1>2 DEF Inv, Tables
  <1>5. Files'
    BY <1>2, <1>4 DEF Inv, Files
  <1>6. Candidates'
    <2>1. NoElection \in Election /\ NoElection.epoch = 0
      BY DEF NoElection, Election
    <2>2. t.currentEpoch \in Nat
      BY <1>1, Fields
    <2> QED BY <1>2, <2>1, <2>2 DEF Inv, Candidates, Tables
  <1>7. budget' \in Budget
    BY <1>2 DEF Inv, Budget
  <1>8. VoteStep
    <2>1. \A k \in Nodes : st[k].lastVoteEpoch \in Nat
      BY Fields DEF Inv, Tables
    <2> QED BY <1>2, <1>4, <2>1 DEF VoteStep
  <1>9. (\A m \in msgs : Packet(m))'
    BY <1>2 DEF Inv
  <1> QED BY <1>3, <1>5, <1>6, <1>7, <1>8, <1>9 DEF Inv

-----------------------------------------------------------------------------
(* The theorems. *)

\* The invariant holds at first.
LEMMA InitInv == Init => Inv
  <1> SUFFICES ASSUME Init PROVE Inv
    OBVIOUS
  <1> DEFINE e == [n \in Nodes |-> IF MasterAtStart[n] = None THEN EpochAtStart[n] ELSE 0]
             S == {e[n] : n \in Nodes}
             top == Max(S)
             f == [n \in Nodes |-> IF MasterAtStart[n] = None THEN n ELSE MasterAtStart[n]]
             s == [currentEpoch |-> top, lastVoteEpoch |-> 0,
                   slaveof |-> MasterAtStart, epoch |-> e, shard |-> f, slots |-> OwnerAtStart,
                   unclaimed |-> {}, fail |-> budget.failed]
  <1>1. budget \in Budget /\ msgs = {} /\ auth = [n \in Nodes |-> NoElection]
    BY ClusterConstants, SMTT(30) DEF Init, Budget
  <1>2. st = [n \in Nodes |-> s] /\ savedEpoch = [n \in Nodes |-> st[n].currentEpoch]
    BY DEF Init, TableAtStart
  <1>3. e \in [Nodes -> Nat] /\ f \in [Nodes -> Nodes]
    BY ClusterConstants
  <1> HIDE DEF e, f
  <1>4. S \in SUBSET Nat /\ S # {} /\ IsFiniteSet(S)
    <2>1. IsFiniteSet(S)
      BY <1>3, FiniteRange
    <2> QED BY <1>3, <2>1, ClusterConstants
  <1> HIDE DEF S
  <1>5. top \in S /\ \A x \in S : x <= top
    BY <1>4, MaxIs
  <1>6. top \in Nat /\ \A n \in Nodes : e[n] <= top
    BY <1>4, <1>5, SMTT(30) DEF S
  <1> HIDE DEF top
  <1>7. s \in Table /\ s.epoch = e /\ s.currentEpoch = top /\ s.lastVoteEpoch = 0
    BY <1>1, <1>3, <1>6, ClusterConstants DEF Table, Budget
  <1> HIDE DEF s
  <1>8. Known(s)
    BY <1>6, <1>7 DEF Known
  <1>9. Tables /\ Files
    BY <1>2, <1>6, <1>7, <1>8 DEF Tables, Files
  <1>10. Candidates
    <2>1. NoElection \in Election /\ NoElection.epoch = 0
      BY DEF NoElection, Election
    <2> QED BY <1>1, <1>2, <1>6, <1>7, <2>1 DEF Candidates
  <1> QED BY <1>1, <1>9, <1>10 DEF Inv

\* Every step keeps it, and votes as VoteStep says.
LEMMA NextStep == Inv /\ [Next]_vars => Inv' /\ (VoteStep \/ UNCHANGED vars)
  <1> SUFFICES ASSUME Inv, [Next]_vars PROVE Inv' /\ (VoteStep \/ UNCHANGED vars)
    OBVIOUS
  <1>1. CASE UNCHANGED vars
    BY <1>1, SMTT(30) DEF vars, Inv, Tables, Files, Candidates
  <1>2. ASSUME Next PROVE Inv' /\ VoteStep
    <2>1. PICK n \in budget.up :
            \/ clusterSendPing(n)
            \/ \E m \in msgs : \/ ProcessPong(n, m)
                               \/ ProcessUpdate(n, m)
                               \/ ProcessFail(n, m)
                               \/ ProcessAuthRequest(n, m)
                               \/ ProcessAuthAck(n, m)
            \/ ScheduleElection(n)
            \/ RequestFailoverAuth(n)
            \/ WinElection(n)
            \/ Takeover(n)
            \/ \E m \in Nodes : Replicate(n, m) \/ MarkNodeAsFailing(n, m)
            \/ Restart(n)
      BY <1>2 DEF Next
    <2>2. n \in Nodes
      BY DEF Inv, Budget
    <2> QED BY <2>1, <2>2, PingStep, PongStep, UpdateStep, FailStep, RequestStep, AckStep,
               ScheduleStep, AskStep, WinStep, TakeoverStep, ReplicateStep, VerdictStep,
               RestartStep, SMTT(30)
  <1> QED BY <1>1, <1>2

\* The invariant holds in every reachable state, for any number of nodes, slots,
\* elections and restarts.
THEOREM ClusterInvariant == Spec => []Inv
  BY InitInv, NextStep, PTL DEF Spec

\* Every table keeps its shape, whatever packets, CLUSTER REPLICATE and restarts come: a
\* slot belongs to a node or, after clusterDelNodeSlots, to none, and no master, shard or
\* owner that a handler goes on to look up is missing.
THEOREM ClusterTypes == Spec => []TypeOK
  <1>1. Inv => TypeOK
    BY Fields DEF Inv, Tables, Files, Candidates, Election, TypeOK
  <1> QED BY <1>1, ClusterInvariant, PTL

\* No node knows of a configEpoch above its currentEpoch, whatever packets
\* overlap, are lost or come late, and also after clusterLoadConfig: the epoch of
\* an election or a bump is above every epoch its node has heard of.
THEOREM NoEpochAhead == Spec => []EpochsKnown
  <1>1. Inv => EpochsKnown
    BY DEF Inv, Tables, Known, EpochsKnown
  <1> QED BY <1>1, ClusterInvariant, PTL

\* clusterSendFailoverAuthIfNeeded votes in each epoch at most once, restarts
\* included: every vote moves lastVoteEpoch on to its epoch.
THEOREM NodesVoteOnce == Spec => [][VoteStep]_vars
  BY InitInv, NextStep, PTL DEF Spec
=============================================================================
