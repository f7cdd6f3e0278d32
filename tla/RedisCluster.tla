---------------------------- MODULE RedisCluster ----------------------------
(***************************************************************************)
(* Configuration epochs, failover elections and slot ownership of a Redis  *)
(* Cluster (redis-stable/src/cluster_legacy.c).                            *)
(*                                                                         *)
(* st[n] is what node n believes: the two epochs of its own, and, for every *)
(* node it knows, the master it replicates, its shard, its configEpoch and *)
(* its FAIL flag, together with the owner of every slot.  Each C function that edits *)
(* this table is an operator from a table to a table; a packet handler     *)
(* composes them in the order of the code.                                 *)
(*                                                                         *)
(* The bus connects every two nodes by two TCP connections, one opened from *)
(* each side, and a connection is closed and reopened when it looks stuck. *)
(* Packets of one sender can therefore be lost and can overtake each other. *)
(* A broadcast packet stays in msgs, where any node may read it at any     *)
(* later time or never; reading it again only repeats what a delay could   *)
(* have done.  A vote, which is counted, is taken out when it is read.     *)
(*                                                                         *)
(* nodes.conf is written before the event loop sleeps, that is, before any *)
(* packet of the iteration reaches a socket.  The only part of the table   *)
(* that changes without a write being scheduled is currentEpoch, so        *)
(* savedEpoch is all that has to be kept of the file.                      *)
(***************************************************************************)
EXTENDS Naturals, FiniteSets, FiniteSetsExt

CONSTANTS
    Nodes,        \* the nodes; all of them know each other
    Slots,        \* the hash slots
    None,         \* a null clusterNode pointer
    Rank,         \* Rank[n]: the order of the node IDs (memcmp of the names)
    MasterAtStart,\* MasterAtStart[n]: the master n replicates at first, or None
    OwnerAtStart, \* OwnerAtStart[s]: the owner of slot s at first
    EpochAtStart, \* EpochAtStart[n]: the configEpoch of master n at first
    Suspects,     \* the nodes that may be found failing
    LateAcks,     \* TRUE: a vote may arrive after its voter's candidate retried
    Budgets       \* the bounds: how many elections, takeovers, pings, failure verdicts
                  \* and CLUSTER REPLICATE, which nodes run, which of them restart once,
                  \* and which nodes everybody has already flagged FAIL at first

ASSUME ClusterConstants ==
    /\ None \notin Nodes
    /\ IsFiniteSet(Nodes) /\ Nodes # {}
    /\ MasterAtStart \in [Nodes -> Nodes \cup {None}]
    /\ OwnerAtStart \in [Slots -> Nodes]
    /\ EpochAtStart \in [Nodes -> Nat]
    /\ LateAcks \in BOOLEAN
    /\ Budgets \subseteq [elections : Nat, takeovers : Nat, pings : Nat, verdicts : Nat,
                          replicates : Nat, restarts : SUBSET Nodes, up : SUBSET Nodes, failed : SUBSET Nodes]

VARIABLES
    st,         \* st[n]: the table of node n
    savedEpoch, \* savedEpoch[n]: the currentEpoch in n's nodes.conf
    auth,       \* auth[n]: the election of replica n
    msgs,       \* the packets in flight
    wins,       \* history: <<candidate, epoch>> of every election won
    seized,     \* history: the nodes that took over without votes
    budget      \* what is left of the bounds

vars == <<st, savedEpoch, auth, msgs, wins, seized, budget>>

-----------------------------------------------------------------------------
(* The table of one node. *)

IsMaster(s, n) == s.slaveof[n] = None

SlotsOf(s, n) == {j \in Slots : s.slots[j] = n}

\* server.cluster->size: the masters that serve at least one slot.
Size(s) == Cardinality({n \in Nodes : IsMaster(s, n) /\ SlotsOf(s, n) # {}})

\* Mutant: half of the masters are enough.
NeededQuorumHalf(s) == Size(s) \div 2

NeededQuorum(s) == (Size(s) \div 2) + 1

isSlotUnclaimed(s, j) == s.slots[j] = None \/ j \in s.unclaimed

\* clusterDelSlot and clusterAddSlot on every slot of a set.
Rebind(s, js, n) ==
    [s EXCEPT !.slots = [j \in Slots |-> IF j \in js THEN n ELSE s.slots[j]],
              !.unclaimed = @ \ js]

clusterSetNodeAsMaster(s, n) == [s EXCEPT !.slaveof[n] = None]

clusterSetMaster(me, s, n) == [s EXCEPT !.slaveof[me] = n, !.shard[me] = s.shard[n]]

\* The shard a node announces: a master's is that of its replicas too, and a replica's
\* is noted only if it is the one of its master.
updateShardId(s, n, id) ==
    IF s.shard[n] = id
      THEN s
    ELSE IF IsMaster(s, n)
      THEN [s EXCEPT !.shard = [m \in Nodes |-> IF m = n \/ s.slaveof[m] = n
                                                 THEN id ELSE s.shard[m]]]
    ELSE IF s.shard[s.slaveof[n]] = id
      THEN [s EXCEPT !.shard[n] = id]
    ELSE s

clusterGetMaxEpoch(s) ==
    Max({s.epoch[n] : n \in Nodes} \cup {s.currentEpoch})

clusterBumpConfigEpochWithoutConsensus(me, s) ==
    IF s.epoch[me] = 0 \/ s.epoch[me] # clusterGetMaxEpoch(s)
      THEN [s EXCEPT !.currentEpoch = @ + 1, !.epoch[me] = s.currentEpoch + 1]
      ELSE s

\* Mutant: both of the colliding masters wait for the other one to move.
CollisionIgnored(me, s, sender) == s

clusterHandleConfigEpochCollision(me, s, sender) ==
    IF /\ s.epoch[sender] = s.epoch[me]
       /\ IsMaster(s, sender) /\ IsMaster(s, me)
       /\ Rank[sender] > Rank[me]
      THEN [s EXCEPT !.currentEpoch = @ + 1, !.epoch[me] = s.currentEpoch + 1]
      ELSE s

(***************************************************************************)
(* The sender's claim to the slots js under configEpoch e.  A slot moves to *)
(* the sender when nobody claims it or its owner has a smaller epoch; a    *)
(* slot the sender owned and no longer claims keeps its owner but is       *)
(* remembered as unclaimed.  A node that lost its last slot, or whose      *)
(* master did, becomes a replica of the sender; a replica of a replica     *)
(* moves to its grandmaster.                                               *)
(***************************************************************************)
clusterUpdateSlotsConfigWith(me, s, sender, e, js) ==
    LET curmaster == IF IsMaster(s, me) THEN me ELSE s.slaveof[me]
        taken == {j \in js : /\ s.slots[j] # sender
                             /\ \/ isSlotUnclaimed(s, j)
                                \/ s.epoch[s.slots[j]] < e}
        moved == [Rebind(s, taken, sender) EXCEPT
                    !.unclaimed = (s.unclaimed \ js)
                                     \cup {j \in Slots \ js : s.slots[j] = sender}]
        grand == s.slaveof[s.slaveof[me]]
    IN  IF sender = me
          THEN s
        ELSE IF /\ \E j \in taken : s.slots[j] = curmaster
                /\ SlotsOf(moved, curmaster) = {}
          THEN clusterSetMaster(me, moved, sender)
        ELSE IF /\ s.slaveof[me] # None
                /\ grand # None
                /\ grand # me
          THEN clusterSetMaster(me, moved, grand)
        ELSE moved

-----------------------------------------------------------------------------
(* Packets. *)

\* A replica publishes its master's slots and configEpoch, not its own.
clusterBuildMessageHdr(n, s) ==
    LET m == IF IsMaster(s, n) THEN n ELSE s.slaveof[n]
    IN  [from |-> n, currentEpoch |-> s.currentEpoch, configEpoch |-> s.epoch[m],
         slaveof |-> s.slaveof[n], shard |-> s.shard[n], slots |-> SlotsOf(s, m)]

clusterBroadcastMessage(type, n, s) ==
    [type |-> type, hdr |-> clusterBuildMessageHdr(n, s)]

clusterBroadcastPong(n, s, target) ==
    [type |-> "PONG", hdr |-> clusterBuildMessageHdr(n, s), to |-> target \ {n}]

\* CLUSTER_BROADCAST_LOCAL_SLAVES: the replicas of our master.
LocalSlaves(n, s) == {m \in Nodes : s.slaveof[m] # None /\ s.slaveof[m] = s.slaveof[n]}

clusterSendFailoverAuth(n, s, to) ==
    [type |-> "AUTH_ACK", to |-> to, hdr |-> clusterBuildMessageHdr(n, s)]

\* An UPDATE tells its receiver the configuration of the node m.
clusterSendUpdate(n, s, to, m) ==
    [type |-> "UPDATE", to |-> to, hdr |-> clusterBuildMessageHdr(n, s),
     about |-> m, epoch |-> s.epoch[m], slots |-> SlotsOf(s, m) \ s.unclaimed]

clusterSendFail(n, s, m) ==
    [type |-> "FAIL", hdr |-> clusterBuildMessageHdr(n, s), about |-> m]

\* Mutant: the sender's currentEpoch is not taken over.
NoteConfigEpochOnly(s, h) == [s EXCEPT !.epoch[h.from] = Max({@, h.configEpoch})]

\* Every packet of a known node carries its epochs.
NoteEpochs(s, h) ==
    [s EXCEPT !.currentEpoch = Max({@, h.currentEpoch}),
              !.epoch[h.from] = Max({@, h.configEpoch})]

(***************************************************************************)
(* A PING or PONG says whether its sender is a master.  A master that now  *)
(* says it replicates another node of its shard was failed over: its slots *)
(* go to that node, unless the packet is older than what is known of the   *)
(* sender.  One that replicates a node of another shard was moved there,   *)
(* and its slots have no owner until somebody claims them.  The role is    *)
(* taken over in every case.                                               *)
(***************************************************************************)
SwitchRole(s, h) ==
    LET failedOver == [Rebind(clusterSetNodeAsMaster(s, h.slaveof),
                              SlotsOf(s, h.from), h.slaveof)
                         EXCEPT !.epoch[h.slaveof] = h.configEpoch]
        known == IF ~IsMaster(s, h.from) THEN s
                 ELSE IF s.shard[h.slaveof] # s.shard[h.from]
                   THEN Rebind(s, SlotsOf(s, h.from), None)
                 ELSE IF s.epoch[h.from] <= h.configEpoch THEN failedOver ELSE s
    IN  IF h.slaveof = None THEN clusterSetNodeAsMaster(s, h.from)
        ELSE IF known.slaveof[h.from] = h.slaveof THEN known
        ELSE clusterSetMaster(h.from, known, h.slaveof)

\* The slots the sender claims differ from the ones the table gives its master.
DirtySlots(s, h) ==
    SlotsOf(s, IF IsMaster(s, h.from) THEN h.from ELSE s.slaveof[h.from]) # h.slots

\* The table after the epochs, the role and the claims of a PING or PONG ...
Claimed(me, s, h) ==
    LET roles == SwitchRole(NoteEpochs(s, h), h)
    IN  IF IsMaster(roles, h.from) /\ DirtySlots(roles, h)
          THEN clusterUpdateSlotsConfigWith(me, roles, h.from, h.configEpoch, h.slots)
          ELSE roles

\* ... and after the last steps, the repair of equal configEpochs and the sender's shard.
Configured(me, s, h) ==
    LET claimed == Claimed(me, s, h)
        repaired == IF /\ IsMaster(claimed, me) /\ IsMaster(claimed, h.from)
                       /\ h.configEpoch = claimed.epoch[me]
                      THEN clusterHandleConfigEpochCollision(me, claimed, h.from)
                      ELSE claimed
    IN  updateShardId(repaired, h.from, h.shard)

\* The owners the sender has to be told about: their epoch beats its claim.
Outdated(me, s, h) ==
    LET t == Claimed(me, s, h)
    IN  {t.slots[j] : j \in {i \in h.slots : /\ DirtySlots(SwitchRole(NoteEpochs(s, h), h), h)
                                             /\ t.slots[i] # h.from
                                             /\ ~isSlotUnclaimed(t, i)
                                             /\ t.epoch[t.slots[i]] > h.configEpoch}}

-----------------------------------------------------------------------------
TableAtStart(failed) ==
    LET e == [n \in Nodes |-> IF MasterAtStart[n] = None THEN EpochAtStart[n] ELSE 0]
    IN  [currentEpoch |-> Max({e[n] : n \in Nodes}), lastVoteEpoch |-> 0,
         slaveof |-> MasterAtStart, epoch |-> e,
         shard |-> [n \in Nodes |-> IF MasterAtStart[n] = None THEN n ELSE MasterAtStart[n]],
         slots |-> OwnerAtStart,
         unclaimed |-> {}, fail |-> failed]

NoElection == [phase |-> "none", epoch |-> 0, count |-> 0]

Init ==
    /\ budget \in Budgets
    /\ st = [n \in Nodes |-> TableAtStart(budget.failed)]
    /\ savedEpoch = [n \in Nodes |-> st[n].currentEpoch]
    /\ auth = [n \in Nodes |-> NoElection]
    /\ msgs = {}
    /\ wins = {}
    /\ seized = {}

Spend(what) ==
    /\ budget[what] > 0
    /\ budget' = [budget EXCEPT ![what] = @ - 1]

\* The part of a table whose change schedules a write of nodes.conf.
Persistent(s) == <<s.lastVoteEpoch, s.slaveof, s.shard, s.epoch, s.slots, s.fail>>

\* n's table becomes s, and nodes.conf is written if the change asks for it.
Install(n, s) ==
    /\ st' = [st EXCEPT ![n] = s]
    /\ savedEpoch' = [savedEpoch EXCEPT
                        ![n] = IF Persistent(s) # Persistent(st[n])
                                 THEN s.currentEpoch ELSE @]

\* n's table becomes s and nodes.conf is written in any case.
InstallAndSave(n, s) ==
    /\ st' = [st EXCEPT ![n] = s]
    /\ savedEpoch' = [savedEpoch EXCEPT ![n] = s.currentEpoch]

-----------------------------------------------------------------------------
(* clusterProcessPacket *)

\* A PING or a PONG; the reply to a PING is one more of them.
clusterSendPing(n) ==
    /\ Spend("pings")
    /\ msgs' = msgs \cup {clusterBroadcastPong(n, st[n], Nodes)}
    /\ UNCHANGED <<st, savedEpoch, auth, wins, seized>>

\* The FAIL flags it may leave: m's is cleared at once for a replica or a master
\* without slots, and after a while for a master nobody replaced.
clearNodeFailureIfNeeded(s, m) ==
    {s.fail \ {m}} \cup {f \in {s.fail} : IsMaster(s, m) /\ SlotsOf(s, m) # {}}

\* A PING or PONG.  Only a PONG that answers our own ping may clear the sender's
\* FAIL flag.
ProcessPong(n, m) ==
    /\ m.type = "PONG" /\ n \in m.to
    /\ \E failing \in {st[n].fail} \cup clearNodeFailureIfNeeded(st[n], m.hdr.from) :
         Install(n, [Configured(n, st[n], m.hdr) EXCEPT !.fail = failing])
    /\ LET told == Outdated(n, st[n], m.hdr)
       IN  \/ told = {} /\ UNCHANGED msgs
           \/ \E owner \in told :
                msgs' = msgs \cup {clusterSendUpdate(n, Claimed(n, st[n], m.hdr),
                                                     m.hdr.from, owner)}
    /\ UNCHANGED <<auth, wins, seized, budget>>

ProcessUpdate(n, m) ==
    /\ m.type = "UPDATE" /\ m.to = n
    /\ LET noted == NoteEpochs(st[n], m.hdr)
           newer == [clusterSetNodeAsMaster(noted, m.about)
                       EXCEPT !.epoch[m.about] = m.epoch]
       IN  Install(n, IF noted.epoch[m.about] >= m.epoch
                        THEN noted
                        ELSE clusterUpdateSlotsConfigWith(n, newer, m.about,
                                                          m.epoch, m.slots))
    /\ UNCHANGED <<auth, msgs, wins, seized, budget>>

ProcessFail(n, m) ==
    /\ m.type = "FAIL" /\ m.hdr.from # n
    /\ LET noted == NoteEpochs(st[n], m.hdr)
       IN  Install(n, [noted EXCEPT !.fail = @ \cup ({m.about} \ {n})])
    /\ UNCHANGED <<auth, msgs, wins, seized, budget>>

(***************************************************************************)
(* The conditions under which node n votes for the sender of a request.    *)
(* s already has the epochs of the request.                                *)
(***************************************************************************)
clusterSendFailoverAuthIfNeeded(n, s, h) ==
    /\ IsMaster(s, n) /\ SlotsOf(s, n) # {}
    /\ h.currentEpoch >= s.currentEpoch
    /\ s.lastVoteEpoch # s.currentEpoch
    /\ ~IsMaster(s, h.from)
    /\ s.slaveof[h.from] \in s.fail
    /\ \A j \in h.slots : isSlotUnclaimed(s, j) \/ s.epoch[s.slots[j]] <= h.configEpoch

\* A vote may also be withheld: n voted about the same master not long ago.
ProcessAuthRequest(n, m) ==
    /\ m.type = "AUTH_REQUEST" /\ m.hdr.from # n
    /\ LET h == m.hdr
           noted == NoteEpochs(st[n], h)
           voted == [noted EXCEPT !.lastVoteEpoch = noted.currentEpoch]
       IN  \/ /\ Install(n, noted)
              /\ UNCHANGED msgs
           \/ /\ clusterSendFailoverAuthIfNeeded(n, noted, h)
              /\ InstallAndSave(n, voted)
              /\ msgs' = msgs \cup {clusterSendFailoverAuth(n, voted, h.from)}
    /\ UNCHANGED <<auth, wins, seized, budget>>

ProcessAuthAck(n, m) ==
    /\ m.type = "AUTH_ACK" /\ m.to = n
    /\ LET noted == NoteEpochs(st[n], m.hdr)
           from == m.hdr.from
       IN  /\ Install(n, noted)
           /\ auth' = IF /\ IsMaster(noted, from) /\ SlotsOf(noted, from) # {}
                         /\ m.hdr.currentEpoch >= auth[n].epoch
                        THEN [auth EXCEPT ![n].count = @ + 1]
                        ELSE auth
    /\ msgs' = msgs \ {m}
    /\ UNCHANGED <<wins, seized, budget>>

-----------------------------------------------------------------------------
(* clusterHandleSlaveFailover: schedule an election, ask for votes, win. *)

MayFailover(n) ==
    LET master == st[n].slaveof[n]
    IN  /\ master # None
        /\ master \in st[n].fail
        /\ SlotsOf(st[n], master) # {}

\* The retry time of the last attempt is over: count again from zero, and
\* tell the other replicas of the master (in a PONG) how much of its data we have.
ScheduleElection(n) ==
    /\ MayFailover(n)
    /\ auth[n].phase # "wait"
    /\ auth' = [auth EXCEPT ![n].phase = "wait", ![n].count = 0]
    /\ msgs' = {m \in msgs : LateAcks \/ m.type # "AUTH_ACK" \/ m.to # n}
                 \cup {clusterBroadcastPong(n, st[n], LocalSlaves(n, st[n]))}
    /\ UNCHANGED <<st, savedEpoch, wins, seized, budget>>

RequestFailoverAuth(n) ==
    /\ MayFailover(n)
    /\ auth[n].phase = "wait"
    /\ Spend("elections")
    /\ LET s == [st[n] EXCEPT !.currentEpoch = @ + 1]
       IN  /\ InstallAndSave(n, s)
           /\ auth' = [auth EXCEPT ![n].phase = "sent", ![n].epoch = s.currentEpoch]
           /\ msgs' = msgs \cup {clusterBroadcastMessage("AUTH_REQUEST", n, s)}
    /\ UNCHANGED <<wins, seized>>

\* clusterFailoverReplaceYourMaster on the table s of n.
ReplaceYourMaster(n, s) ==
    Rebind(clusterSetNodeAsMaster(s, n), SlotsOf(s, s.slaveof[n]), n)

\* Mutant: the winner keeps its old configEpoch.
WinWithoutEpoch(n) ==
    /\ MayFailover(n)
    /\ auth[n].phase = "sent"
    /\ auth[n].count >= NeededQuorum(st[n])
    /\ LET promoted == ReplaceYourMaster(n, st[n])
       IN  /\ InstallAndSave(n, promoted)
           /\ msgs' = msgs \cup {clusterBroadcastPong(n, promoted, Nodes)}
    /\ wins' = wins \cup {<<n, auth[n].epoch>>}
    /\ UNCHANGED <<auth, seized, budget>>

WinElection(n) ==
    /\ MayFailover(n)
    /\ auth[n].phase = "sent"
    /\ auth[n].count >= NeededQuorum(st[n])
    /\ LET s == [st[n] EXCEPT !.epoch[n] = Max({@, auth[n].epoch})]
           promoted == ReplaceYourMaster(n, s)
       IN  /\ InstallAndSave(n, promoted)
           /\ msgs' = msgs \cup {clusterBroadcastPong(n, promoted, Nodes)}
    /\ wins' = wins \cup {<<n, auth[n].epoch>>}
    /\ UNCHANGED <<auth, seized, budget>>

\* CLUSTER FAILOVER TAKEOVER: no votes.
Takeover(n) ==
    /\ Spend("takeovers")
    /\ ~IsMaster(st[n], n)
    /\ LET s == clusterBumpConfigEpochWithoutConsensus(n, st[n])
           promoted == ReplaceYourMaster(n, s)
       IN  /\ InstallAndSave(n, promoted)
           /\ msgs' = msgs \cup {clusterBroadcastPong(n, promoted, Nodes)}
    /\ seized' = seized \cup {n}
    /\ UNCHANGED <<auth, wins>>

\* CLUSTER REPLICATE: a replica, or a master without slots, becomes a replica of m.
\* (The migration of a replica to an orphaned master is the same with an m of its choice.)
Replicate(n, m) ==
    /\ Spend("replicates")
    /\ m # n /\ IsMaster(st[n], m) /\ SlotsOf(st[n], n) = {}
    /\ Install(n, clusterSetMaster(n, st[n], m))
    /\ UNCHANGED <<auth, msgs, wins, seized>>

\* Enough masters report m down: n flags it and tells everybody.
MarkNodeAsFailing(n, m) ==
    /\ m \in Suspects \ (st[n].fail \cup {n})
    /\ Spend("verdicts")
    /\ LET s == [st[n] EXCEPT !.fail = @ \cup {m}]
       IN  /\ Install(n, s)
           /\ msgs' = msgs \cup {clusterSendFail(n, s, m)}
    /\ UNCHANGED <<auth, wins, seized>>

(***************************************************************************)
(* A crash and the restart after it: nodes.conf is loaded.  A replica's    *)
(* configEpoch is loaded as 0, and currentEpoch is raised to the greatest  *)
(* epoch of the file; its shard is that of its master.  What was on its way to the node is lost.            *)
(***************************************************************************)
LoadConfig(n) ==
    LET s == st[n]
        loaded == [s EXCEPT
                     !.currentEpoch = savedEpoch[n],
                     !.epoch = [m \in Nodes |-> IF IsMaster(s, m) THEN s.epoch[m] ELSE 0],
                     !.shard = [m \in Nodes |-> IF IsMaster(s, m) THEN s.shard[m]
                                                ELSE s.shard[s.slaveof[m]]],
                     !.unclaimed = {}]
    IN  [loaded EXCEPT !.currentEpoch = clusterGetMaxEpoch(loaded)]

Restart(n) ==
    /\ n \in budget.restarts
    /\ budget' = [budget EXCEPT !.restarts = @ \ {n}]
    /\ st' = [st EXCEPT ![n] = LoadConfig(n)]
    /\ auth' = [auth EXCEPT ![n] = NoElection]
    /\ msgs' = {m \in msgs : m.type # "AUTH_ACK" \/ m.to # n}
    /\ UNCHANGED <<savedEpoch, wins, seized>>

Next ==
    \E n \in budget.up :
         \/ clusterSendPing(n)
         \/ \E m \in msgs : \/ ProcessPong(n, m)
                            \/ ProcessUpdate(n, m)
                            \/ ProcessFail(n, m)
                            \/ ProcessAuthRequest(n, m)
                            \/ ProcessAuthAck(n, m)
         \/ ScheduleElection(n)
         \/ RequestFailoverAuth(n)
         \/ WinElection(n)
         \/ Takeover(n)
         \/ \E m \in Nodes : Replicate(n, m) \/ MarkNodeAsFailing(n, m)
         \/ Restart(n)

Spec == Init /\ [][Next]_vars

-----------------------------------------------------------------------------
(* Properties. *)

(***************************************************************************)
(* The shape of the tables.  It says one thing about the code: whatever    *)
(* packets, commands and restarts come, a slot belongs to a known node or, *)
(* once clusterDelNodeSlots took it from its owner, to none; and the       *)
(* pointers the handlers follow (the master of a replica, its shard, the   *)
(* owner whose epoch is compared) lead to known nodes.                     *)
(***************************************************************************)
TypeOK ==
    /\ \A n \in Nodes :
         /\ st[n].currentEpoch \in Nat /\ st[n].lastVoteEpoch \in Nat
         /\ st[n].slaveof \in [Nodes -> Nodes \cup {None}]
         /\ st[n].epoch \in [Nodes -> Nat]
         /\ st[n].shard \in [Nodes -> Nodes]
         /\ st[n].slots \in [Slots -> Nodes \cup {None}]
         /\ st[n].unclaimed \subseteq Slots
         /\ st[n].fail \subseteq Nodes
    /\ savedEpoch \in [Nodes -> Nat]
    /\ auth \in [Nodes -> [phase : {"none", "wait", "sent"}, epoch : Nat, count : Nat]]

(***************************************************************************)
(* No two replicas win the election of the same epoch (what the comment on *)
(* clusterHandleConfigEpochCollision relies on), although every node       *)
(* computes the majority from its own view of who owns slots.              *)
(***************************************************************************)
OneWinnerPerEpoch ==
    \A v, w \in wins : v[2] = w[2] => v[1] = w[1]

(***************************************************************************)
(* A node never knows of a configEpoch above its own currentEpoch, so the  *)
(* epoch of an election or a bump is greater than every epoch its node has *)
(* heard of; also after a restart, which loads an older currentEpoch.      *)
(***************************************************************************)
EpochsKnown ==
    \A n, m \in Nodes : st[n].epoch[m] <= st[n].currentEpoch

Claims(n, j) == IsMaster(st[n], n) /\ st[n].slots[j] = n

(***************************************************************************)
(* Two masters that both believe they own a slot do so under different     *)
(* configEpochs, so "the greater epoch wins" always decides between them;  *)
(* except for nodes promoted by TAKEOVER, which take an epoch unasked.     *)
(***************************************************************************)
OneOwnerPerEpoch ==
    \A n, m \in Nodes \ seized : \A j \in Slots :
        Claims(n, j) /\ Claims(m, j) /\ st[n].epoch[n] = st[m].epoch[m] => n = m

\* One more round of pings between the running nodes would change no table.
Settled ==
    \A n, m \in budget.up :
        n # m => LET h == clusterBuildMessageHdr(m, st[m])
                 IN  /\ Configured(n, st[n], h) = st[n]
                     /\ Outdated(n, st[n], h) = {}

OwnersAreMasters(n) ==
    \A j \in Slots : st[n].slots[j] # None => IsMaster(st[n], st[n].slots[j])

(***************************************************************************)
(* The cluster does not come to rest in disagreement: when further pings   *)
(* change nothing, all running nodes give every slot the same owner, after *)
(* takeovers that collided on an epoch too.  The exception the code admits *)
(* is a table that gives a slot to a node it knows as a replica, the trace *)
(* a stale PONG leaves ("Ignore stale message from" takes over the role    *)
(* and keeps the slots).                                                   *)
(***************************************************************************)
SettledAgree ==
    Settled /\ (\A n \in budget.up : OwnersAreMasters(n))
      => \A n, m \in budget.up : st[n].slots = st[m].slots
=============================================================================
