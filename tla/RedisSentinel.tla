--------------------------- MODULE RedisSentinel ---------------------------
(***************************************************************************)
(* Leader election and failover of Redis Sentinel                          *)
(* (redis-stable/src/sentinel.c), for one monitored master.                *)
(*                                                                         *)
(* sn[s] is the sentinelRedisInstance of the master in Sentinel s together *)
(* with the global current_epoch, and the part of the configuration file   *)
(* that a restart reads back.  Each C function that edits it is an operator *)
(* from a record to a record; the timer and the callbacks compose them.    *)
(*                                                                         *)
(* Times are abstracted to choices: a period may have passed or not, a     *)
(* peer may have been silent or not.  TILT mode, which withholds steps, is *)
(* a Sentinel that does nothing for a while.                               *)
(* A question or a hello stays in its set, where its addressee may read it *)
(* at any later time or never.  A hello is published every two seconds, so *)
(* one may have been published in every state a Sentinel was in.  The      *)
(* answer to a question reaches the asker at once or never: it is only     *)
(* looked at by the asker's next timer, which may be as late as one likes. *)
(***************************************************************************)
EXTENDS Naturals, FiniteSets, FiniteSetsExt

CONSTANTS
    Sentinels,  \* the Sentinels; all of them know each other
    Instances,  \* the addresses of the monitored servers
    FirstMaster,\* the master at first; the others replicate it
    Rank,       \* Rank[i]: the order of compareSlavesForPromotion, best first
    None,       \* a null pointer, "*" in a question or answer, SLAVEOF NO ONE
    Budgets     \* the bounds: how many failovers start and how many are forced,
                \* which Sentinels restart once, which find the master down and
                \* know so of each other at first, which replicas each knows,
                \* the configured quorum of each,
                \* and how often an opinion may change, a timeout be reached,
                \* a report be forgotten, an answer be lost, an opinion be
                \* asked for, an INFO be read, a replica be corrected

ASSUME SentinelConstants ==
    /\ IsFiniteSet(Sentinels)
    /\ FirstMaster \in Instances
    /\ None \notin Sentinels \cup Instances
    /\ Rank \in [Instances -> Nat]
    /\ \A b \in Budgets :
         /\ b.known \in [Sentinels -> SUBSET (Instances \ {FirstMaster})]
         /\ b.quorum \in [Sentinels -> Nat]

VARIABLES
    sn,       \* sn[s]: the state of Sentinel s
    inst,     \* inst[i]: the master that server i replicates, None for a master
    asks,     \* the IS-MASTER-DOWN-BY-ADDR questions sent
    hellos,   \* the hello messages published
    slaveofs, \* the SLAVEOF transactions in flight
    votes,    \* history: <<voter, epoch, leader>> of every vote
    leaders,  \* history: who started to act on a failover, and in which epochs
    promoted, \* history: the servers that were masters at some time
    configs,  \* history: <<config_epoch, address>> of every configuration
    budget    \* what is left of the bounds

vars == <<sn, inst, asks, hellos, slaveofs, votes, leaders, promoted, configs, budget>>

Others(s) == Sentinels \ {s}

NoReport == [down |-> FALSE, leader |-> None, epoch |-> 0]

\* The states of a failover in which a replica is chosen.
Choosing == {"wait_start", "select_slave"}
Chosen == {"send_slaveof_noone", "wait_promotion", "reconf_slaves"}

-----------------------------------------------------------------------------
(* One Sentinel. *)

\* Mutant: the replica is advertised before it said it is a master.
CurrentAddressTooEarly(r) ==
    IF r.state \in {"wait_promotion", "reconf_slaves"} THEN r.promoted ELSE r.addr

sentinelGetCurrentMasterAddress(r) ==
    IF r.state = "reconf_slaves" THEN r.promoted ELSE r.addr

\* The configuration file is written.  A failure of rewriteConfig, which the code
\* logs and its callers ignore, is not modelled.
sentinelFlushConfig(r) ==
    [r EXCEPT !.saved = [current |-> r.current, leaderEpoch |-> r.leaderEpoch,
                         configEpoch |-> r.configEpoch,
                         addr |-> sentinelGetCurrentMasterAddress(r)]]

\* Vote for who, unless a vote for this epoch or a later one was given.
sentinelVoteLeader(r, epoch, who) ==
    LET seen == IF epoch > r.current
                  THEN sentinelFlushConfig([r EXCEPT !.current = epoch]) ELSE r
    IN  IF seen.leaderEpoch < epoch /\ seen.current <= epoch
          THEN sentinelFlushConfig([seen EXCEPT !.leader = who,
                                                !.leaderEpoch = seen.current])
          ELSE seen

sentinelResetMaster(r) ==
    [r EXCEPT !.sdown = FALSE, !.leader = None, !.state = "none",
              !.promoted = None, !.force = FALSE,
              !.reconf = [i \in Instances |-> "no"]]

\* The old master stays in the table as a replica.
sentinelResetMasterAndChangeAddress(r, addr) ==
    sentinelFlushConfig([sentinelResetMaster(r) EXCEPT
        !.addr = addr, !.slaves = (r.slaves \cup {r.addr}) \ {addr}])

\* The votes counted for w: those the other Sentinels reported for current_epoch.
Reported(r, w) ==
    Cardinality({t \in DOMAIN r.report : /\ r.report[t].leader = w
                                         /\ r.report[t].epoch = r.current})

\* The Sentinels with the most reported votes; which of them wins is the order
\* of a hash table.
Favourites(r) ==
    {w \in Sentinels : /\ Reported(r, w) > 0
                       /\ \A v \in Sentinels : Reported(r, v) <= Reported(r, w)}

\* Mutant: the quorum alone is enough.
QuorumElects(r, n) == n >= r.quorum \/ n >= (Cardinality(Sentinels) \div 2) + 1

Elects(r, n) == n >= r.quorum /\ n >= (Cardinality(Sentinels) \div 2) + 1

(***************************************************************************)
(* sentinelGetLeader: the possible results as pairs of the new record and  *)
(* the elected Sentinel.  s votes itself, for the favourite if there is    *)
(* one, in the epoch of its failover.                                      *)
(***************************************************************************)
sentinelGetLeader(s, r) ==
    {LET voted == sentinelVoteLeader(r, r.failoverEpoch, w)
         mine(v) == IF voted.leader = v /\ voted.leaderEpoch = r.failoverEpoch
                      THEN 1 ELSE 0
         count(v) == Reported(r, v) + mine(v)
         winner == IF voted.leader # None /\ count(voted.leader) > Reported(r, w)
                     THEN voted.leader ELSE w
     IN  <<voted, IF Elects(r, count(winner)) THEN winner ELSE None>>
       : w \in IF Favourites(r) = {} THEN {s} ELSE Favourites(r)}

sentinelAbortFailover(r) ==
    [r EXCEPT !.state = "none", !.force = FALSE, !.promoted = None]

sentinelStartFailover(r) ==
    [r EXCEPT !.state = "wait_start", !.current = @ + 1,
              !.failoverEpoch = r.current + 1]

\* The question a Sentinel in state r asks all others while it finds the master down.
Questions(s, r) ==
    {[from |-> s, addr |-> r.addr, epoch |-> r.current,
      runid |-> IF r.state = "none" THEN None ELSE s] : x \in {y \in {1} : r.sdown}}

Slaveof(s, i, addr) == [from |-> s, to |-> i, master |-> addr]

-----------------------------------------------------------------------------
(* The failover state machine.  Each state has a set of outcomes: the new  *)
(* record, the SLAVEOF transactions it sends, whether s now leads, and     *)
(* whether a timeout was reached.                                          *)

Stay(r) == [r |-> r, sent |-> {}, leads |-> FALSE, late |-> FALSE]

Abort(r) == [Stay(sentinelAbortFailover(r)) EXCEPT !.late = TRUE]

sentinelFailoverWaitStart(s, r) ==
    UNION {LET voted == x[1] IN
           IF x[2] = s \/ r.force
             THEN {[Stay([voted EXCEPT !.state = "select_slave"]) EXCEPT !.leads = TRUE]}
             ELSE {Stay(voted), Abort(voted)}
             : x \in sentinelGetLeader(s, r)}

\* The best of the replicas that are fit to be promoted, which may be any of them.
sentinelSelectSlave(r) ==
    {CHOOSE i \in fit : \A j \in fit : Rank[i] <= Rank[j] : fit \in (SUBSET r.slaves) \ {{}}}

sentinelFailoverSelectSlave(r) ==
    {Abort(r)} \cup {Stay([r EXCEPT !.promoted = i, !.state = "send_slaveof_noone"])
                       : i \in sentinelSelectSlave(r)}

sentinelFailoverSendSlaveOfNoOne(s, r) ==
    {Stay(r), Abort(r), [Stay([r EXCEPT !.state = "wait_promotion"])
                           EXCEPT !.sent = {Slaveof(s, r.promoted, None)}]}

sentinelFailoverWaitPromotion(r) == {Stay(r), Abort(r)}

\* The end of the timer: the promoted replica becomes the monitored master.
sentinelFailoverSwitchToPromotedSlave(r) ==
    sentinelResetMasterAndChangeAddress(r, r.promoted)

(***************************************************************************)
(* The failover is over when all replicas but the down ones are            *)
(* reconfigured, or after the timeout, when the rest is told best effort;  *)
(* it cannot end while the promoted replica is down.                       *)
(***************************************************************************)
sentinelFailoverDetectEnd(s, r) ==
    LET todo == r.slaves \ {r.promoted}
        left(down) == {i \in todo \ down : r.reconf[i] # "done"}
        told(connected) == {i \in todo \cap connected : r.reconf[i] \notin {"done", "sent"}}
        ended == Stay(sentinelFailoverSwitchToPromotedSlave(r))
        timeout(connected) ==
            [ended EXCEPT !.sent = {Slaveof(s, i, r.promoted) : i \in told(connected)},
                          !.late = TRUE]
        outcomes(down) ==
            IF r.promoted \in down THEN {Stay(r)}
            ELSE {IF left(down) = {} THEN ended ELSE Stay(r)}
                   \cup {timeout(connected) : connected \in SUBSET todo}
    IN  UNION {outcomes(down) : down \in SUBSET r.slaves}

\* One replica at a time (parallel-syncs 1) is told to replicate the new master;
\* one that was told long ago counts as reconfigured.
sentinelFailoverReconfNextSlave(s, r) ==
    LET todo == r.slaves \ {r.promoted}
        busy == {i \in todo : r.reconf[i] \in {"sent", "inprog"}}
        now(i, x) == [r EXCEPT !.reconf[i] = x]
        end(q, sent, late) == {[o EXCEPT !.sent = @ \cup sent, !.late = @ \/ late]
                                 : o \in sentinelFailoverDetectEnd(s, q)}
        done == {i \in busy : r.reconf[i] = "sent"}
        next == {i \in todo : busy = {} /\ r.reconf[i] = "no"}
    IN  end(r, {}, FALSE)
          \cup (UNION {end(now(i, "done"), {}, TRUE) : i \in done})
          \cup (UNION {end(now(i, "sent"), {Slaveof(s, i, r.promoted)}, FALSE) : i \in next})

sentinelFailoverStateMachine(s, r) ==
    CASE r.state = "none"               -> {Stay(r)}
      [] r.state = "wait_start"         -> sentinelFailoverWaitStart(s, r)
      [] r.state = "select_slave"       -> sentinelFailoverSelectSlave(r)
      [] r.state = "send_slaveof_noone" -> sentinelFailoverSendSlaveOfNoOne(s, r)
      [] r.state = "wait_promotion"     -> sentinelFailoverWaitPromotion(r)
      [] r.state = "reconf_slaves"      -> sentinelFailoverReconfNextSlave(s, r)

-----------------------------------------------------------------------------
Init ==
    /\ budget \in Budgets
    /\ inst = [i \in Instances |-> IF i = FirstMaster THEN None ELSE FirstMaster]
    /\ sn = [s \in Sentinels |->
               [current |-> 0, leader |-> None, leaderEpoch |-> 0, configEpoch |-> 0,
                addr |-> FirstMaster, slaves |-> budget.known[s],
                quorum |-> budget.quorum[s], sdown |-> s \in budget.watching,
                report |-> [t \in Others(s) |->
                              [NoReport EXCEPT !.down = {s, t} \subseteq budget.watching]],
                state |-> "none", failoverEpoch |-> 0, promoted |-> None, force |-> FALSE,
                reconf |-> [i \in Instances |-> "no"],
                saved |-> [current |-> 0, leaderEpoch |-> 0, configEpoch |-> 0,
                           addr |-> FirstMaster]]]
    /\ asks = {} /\ hellos = {} /\ slaveofs = {}
    /\ votes = {} /\ leaders = {} /\ promoted = {FirstMaster}
    /\ configs = {<<0, FirstMaster>>}

Spend(what, n) ==
    /\ budget[what] >= n
    /\ budget' = [budget EXCEPT ![what] = @ - n]

\* What a timer takes from the bounds.
SpendTimer(start, flip, late, poll, silent) ==
    LET cost == [failovers |-> start, flips |-> flip, timeouts |-> late, polls |-> poll]
    IN  /\ \A x \in DOMAIN cost : cost[x] => budget[x] > 0
        /\ budget' = [x \in DOMAIN budget |->
                        IF x = "silences" THEN budget[x] - silent
                        ELSE IF x \in DOMAIN cost /\ cost[x] THEN budget[x] - 1
                        ELSE budget[x]]

sentinelSendHello(s, r) ==
    [from |-> s, current |-> r.current, addr |-> sentinelGetCurrentMasterAddress(r),
     configEpoch |-> r.configEpoch]

\* The hellos that tell somebody in table anything new; the others are dropped.
Publish(messages, table) ==
    {h \in messages : \E t \in Others(h.from) :
        h.current > table[t].current \/ h.configEpoch > table[t].configEpoch}

\* The vote of s, once it has given one.
VoteOf(s, r) == {v \in {<<s, r.leaderEpoch, r.leader>>} : r.leader # None}

\* Sentinel s is now in state r, and publishes it sooner or later.
Install(s, r) ==
    /\ sn' = [sn EXCEPT ![s] = r]
    /\ votes' = votes \cup VoteOf(s, r)
    /\ hellos' = Publish(hellos \cup {sentinelSendHello(s, r)}, [sn EXCEPT ![s] = r])

\* The flag SRI_O_DOWN, which every timer computes anew.
sentinelCheckObjectivelyDown(r) ==
    r.sdown /\ 1 + Cardinality({t \in DOMAIN r.report : r.report[t].down}) >= r.quorum

\* What the silent Sentinels reported is too old.
Forget(r, silent) ==
    [r EXCEPT !.report = [t \in DOMAIN r.report |->
        IF t \in silent THEN [r.report[t] EXCEPT !.down = FALSE, !.leader = None]
                        ELSE r.report[t]]]

(***************************************************************************)
(* The timer, for the master: is it down for us (the choice of down), is it *)
(* down for enough Sentinels, start a failover unless one started lately   *)
(* (start), take a step of the failover, ask the others for their vote, or *)
(* for their opinion alone unless they gave it lately (poll).  A report    *)
(* that was not renewed for long is forgotten (silent).                    *)
(***************************************************************************)
sentinelHandleRedisInstance(s, down, start, poll, silent) ==
    LET seen == [sn[s] EXCEPT !.sdown = down]
        begun == IF start THEN sentinelStartFailover(seen) ELSE seen
    IN  /\ start => sentinelCheckObjectivelyDown(seen) /\ seen.state = "none"
        /\ \E o \in sentinelFailoverStateMachine(s, begun) :
             /\ SpendTimer(start, down # sn[s].sdown, o.late, poll, Cardinality(silent))
             /\ Install(s, Forget(o.r, silent))
             /\ asks' = asks \cup {q \in Questions(s, o.r) : poll \/ q.runid # None}
                             \cup {q \in Questions(s, begun) : start}
             /\ slaveofs' = slaveofs \cup o.sent
             /\ leaders' = leaders \cup
                  {l \in {[who |-> s, epoch |-> begun.failoverEpoch, current |-> begun.current,
                           force |-> begun.force]} : o.leads}

sentinelTimer(s) ==
    /\ \E down \in {sn[s].sdown} \cup {d \in BOOLEAN : budget.flips > 0},
          start, poll \in BOOLEAN,
          silent \in {x \in SUBSET Others(s) : Cardinality(x) <= budget.silences} :
         sentinelHandleRedisInstance(s, down, start, poll, silent)
    /\ UNCHANGED <<inst, promoted, configs>>

\* SENTINEL FAILOVER: a failover without an agreement that the master is down.
sentinelFailoverCommand(s) ==
    /\ sn[s].state = "none" /\ sentinelSelectSlave(sn[s]) # {}
    /\ Spend("forced", 1)
    /\ Install(s, [sentinelStartFailover(sn[s]) EXCEPT !.force = TRUE])
    /\ UNCHANGED <<inst, asks, slaveofs, leaders, promoted, configs>>

sentinelReceiveIsMasterDownReply(r, from, down, leader, epoch) ==
    [r EXCEPT !.report[from] = IF leader = None THEN [@ EXCEPT !.down = down]
                               ELSE [down |-> down, leader |-> leader, epoch |-> epoch]]

(***************************************************************************)
(* SENTINEL IS-MASTER-DOWN-BY-ADDR at s: its opinion, and its vote if one  *)
(* is asked for, about the master at that address.  The answer may be lost. *)
(***************************************************************************)
IsMasterDownByAddr(s, q) ==
    /\ q.from # s
    /\ LET known == sn[s].addr = q.addr
           voting == known /\ q.runid # None
           after == IF voting THEN sentinelVoteLeader(sn[s], q.epoch, q.runid) ELSE sn[s]
           told == sentinelReceiveIsMasterDownReply(sn[q.from], s, known /\ after.sdown,
                       IF voting THEN after.leader ELSE None, after.leaderEpoch)
       IN  /\ \/ sn' = [sn EXCEPT ![s] = after, ![q.from] = told] /\ UNCHANGED budget
              \/ sn' = [sn EXCEPT ![s] = after] /\ Spend("losses", 1)
           /\ votes' = votes \cup VoteOf(s, after)
           /\ hellos' = Publish(hellos \cup {sentinelSendHello(s, after)}, sn')
    /\ UNCHANGED <<inst, asks, slaveofs, leaders, promoted, configs>>

sentinelProcessHelloMessage(s, h) ==
    /\ h.from # s
    /\ LET r == sn[s]
           seen == IF h.current > r.current
                     THEN sentinelFlushConfig([r EXCEPT !.current = h.current]) ELSE r
           newer == [seen EXCEPT !.configEpoch = h.configEpoch]
       IN  Install(s, IF r.configEpoch >= h.configEpoch THEN seen
                      ELSE IF h.addr = r.addr THEN newer
                      ELSE sentinelResetMasterAndChangeAddress(newer, h.addr))
    /\ UNCHANGED <<inst, asks, slaveofs, leaders, promoted, configs, budget>>

-----------------------------------------------------------------------------
(* sentinelRefreshInstanceInfo: s reads in the INFO of replica i that it is a *)
(* master, or whom it replicates.                                          *)

\* Mutant: the configuration gets the current epoch, not that of the failover.
PromotionSeenCurrentEpoch(s, i) ==
    /\ i = sn[s].promoted /\ inst[i] = None /\ sn[s].state = "wait_promotion"
    /\ Install(s, sentinelFlushConfig(
                    [sn[s] EXCEPT !.configEpoch = sn[s].current,
                                  !.state = "reconf_slaves"]))
    /\ configs' = configs \cup {<<sn[s].current, i>>}
    /\ UNCHANGED <<inst, asks, slaveofs, leaders, promoted, budget>>

\* The promoted replica is a master now: the new configuration is official.
PromotionSeen(s, i) ==
    /\ i = sn[s].promoted /\ inst[i] = None /\ sn[s].state = "wait_promotion"
    /\ Install(s, sentinelFlushConfig(
                    [sn[s] EXCEPT !.configEpoch = sn[s].failoverEpoch,
                                  !.state = "reconf_slaves"]))
    /\ configs' = configs \cup {<<sn[s].failoverEpoch, i>>}
    /\ UNCHANGED <<inst, asks, slaveofs, leaders, promoted, budget>>

\* The INFO of the master names its replicas.
DiscoverSlaves(s) ==
    /\ inst[sn[s].addr] = None
    /\ Spend("infos", 1)
    /\ Install(s, sentinelFlushConfig([sn[s] EXCEPT
                    !.slaves = @ \cup {i \in Instances : inst[i] = sn[s].addr}]))
    /\ UNCHANGED <<inst, asks, slaveofs, leaders, promoted, configs>>

\* A replica that is a master, or replicates somebody else, is corrected once the
\* master looks sane and there was time for a newer configuration to arrive.
FixSlave(s, i) ==
    /\ i \in sn[s].slaves
    /\ ~sn[s].sdown
    /\ inst[i] # sn[s].addr /\ (inst[i] = None => i # sn[s].promoted)
    /\ Spend("fixes", 1)
    /\ slaveofs' = slaveofs \cup {Slaveof(s, i, sn[s].addr)}
    /\ UNCHANGED <<sn, inst, asks, hellos, votes, leaders, promoted, configs>>

\* A replica under reconfiguration follows the promoted one; its link may be up.
ReconfSeen(s, i) ==
    /\ i \in sn[s].slaves /\ sn[s].reconf[i] \in {"sent", "inprog"}
    /\ inst[i] # None
    /\ sn[s].reconf[i] = "inprog" \/ inst[i] = sn[s].promoted
    /\ \E to \in {"inprog", "done"} : Install(s, [sn[s] EXCEPT !.reconf[i] = to])
    /\ UNCHANGED <<inst, asks, slaveofs, leaders, promoted, configs, budget>>

\* A server executes SLAVEOF.
ApplySlaveof(c) ==
    /\ inst' = [inst EXCEPT ![c.to] = c.master]
    /\ slaveofs' = slaveofs \ {c}
    /\ promoted' = promoted \cup {i \in {c.to} : c.master = None}
    /\ UNCHANGED <<sn, asks, hellos, votes, leaders, configs, budget>>

\* A restart reads the configuration file, and hears the hellos of the others anew.
Restart(s) ==
    /\ s \in budget.restarts
    /\ budget' = [budget EXCEPT !.restarts = @ \ {s}]
    /\ LET r == sn[s]
           f == r.saved
       IN  sn' = [sn EXCEPT ![s] =
                    [sentinelResetMaster(r) EXCEPT
                       !.addr = f.addr, !.slaves = (r.slaves \cup {r.addr}) \ {f.addr},
                       !.configEpoch = f.configEpoch,
                       !.leaderEpoch = f.leaderEpoch, !.failoverEpoch = 0,
                       !.current = Max({f.current, f.configEpoch}),
                       !.report = [t \in Others(s) |-> NoReport]]]
    /\ hellos' = Publish({sentinelSendHello(t, sn'[t]) : t \in Sentinels}, sn')
    /\ UNCHANGED <<inst, asks, slaveofs, votes, leaders, promoted, configs>>

Next ==
    \/ \E s \in Sentinels :
         \/ sentinelTimer(s)
         \/ sentinelFailoverCommand(s)
         \/ \E q \in asks : IsMasterDownByAddr(s, q)
         \/ \E h \in hellos : sentinelProcessHelloMessage(s, h)
         \/ \E i \in Instances : PromotionSeen(s, i) \/ FixSlave(s, i) \/ ReconfSeen(s, i)
         \/ DiscoverSlaves(s)
         \/ Restart(s)
    \/ \E c \in slaveofs : ApplySlaveof(c)

Spec == Init /\ [][Next]_vars

-----------------------------------------------------------------------------
Report == [down : BOOLEAN, leader : Sentinels \cup {None}, epoch : Nat]

SavedConfig == [current : Nat, leaderEpoch : Nat, configEpoch : Nat, addr : Instances]

Question == [from : Sentinels, addr : Instances, epoch : Nat, runid : Sentinels \cup {None}]

Hello == [from : Sentinels, current : Nat, addr : Instances, configEpoch : Nat]

Transaction == [from : Sentinels, to : Instances, master : Instances \cup {None}]

Leader == [who : Sentinels, epoch : Nat, current : Nat, force : BOOLEAN]

\* The fields of the master's sentinelRedisInstance in Sentinel s.
MasterRecord(s) ==
    [current : Nat, leader : Sentinels \cup {None}, leaderEpoch : Nat, configEpoch : Nat,
     addr : Instances, slaves : SUBSET Instances, quorum : Nat, sdown : BOOLEAN,
     report : [Others(s) -> Report], state : {"none"} \cup Choosing \cup Chosen,
     failoverEpoch : Nat, promoted : Instances \cup {None}, force : BOOLEAN,
     reconf : [Instances -> {"no", "sent", "inprog", "done"}], saved : SavedConfig]

(***************************************************************************)
(* Types, and: a replica is chosen exactly in the states of the failover   *)
(* that act on it, so that no state follows a null promoted_slave pointer; *)
(* the monitored master is not in the table of its replicas.               *)
(***************************************************************************)
TypeOK ==
    /\ DOMAIN sn = Sentinels
    /\ \A s \in Sentinels :
         /\ sn[s] \in MasterRecord(s)
         /\ sn[s].promoted # None <=> sn[s].state \in Chosen
         /\ sn[s].addr \notin sn[s].slaves
    /\ inst \in [Instances -> Instances \cup {None}]
    /\ asks \subseteq Question /\ hellos \subseteq Hello /\ slaveofs \subseteq Transaction
    /\ votes \subseteq Sentinels \X Nat \X Sentinels
    /\ leaders \subseteq Leader
    /\ promoted \subseteq Instances /\ configs \subseteq Nat \X Instances

\* A leader that counted the votes of the epoch of its failover.
Regular(l) == l.current = l.epoch /\ ~l.force

(***************************************************************************)
(* Two Sentinels that sentinelGetLeader elects with the votes of the epoch *)
(* of their failover are one and the same, whatever answers were lost and  *)
(* whoever restarted in between.                                           *)
(***************************************************************************)
OneLeaderPerEpoch ==
    \A l, k \in leaders : Regular(l) /\ Regular(k) /\ l.epoch = k.epoch => l.who = k.who

\* No server becomes the master a second time.
NoReturn == \A x, y \in configs : x[2] = y[2] => x[1] = y[1]

(***************************************************************************)
(* What sentinelGetCurrentMasterAddress returns to clients, and hellos     *)
(* carry, is a function of the configuration epoch: two Sentinels at the   *)
(* same config_epoch name the same master, also while one of them still    *)
(* reconfigures the replicas.  (As long as no leader was elected with the  *)
(* votes of another epoch or by an operator's command, and no old master   *)
(* is promoted again: of a newer configuration with the address it fails   *)
(* over from, sentinelProcessHelloMessage takes the epoch and goes on to   *)
(* advertise the replica it promoted itself.)                              *)
(***************************************************************************)
ConfigNamesOneMaster ==
    (\A l \in leaders : Regular(l)) /\ NoReturn
      => \A s, t \in Sentinels :
           sn[s].configEpoch = sn[t].configEpoch
             => sentinelGetCurrentMasterAddress(sn[s]) = sentinelGetCurrentMasterAddress(sn[t])

(***************************************************************************)
(* The address that clients are given was a master at some time: a replica *)
(* that was chosen but never executed SLAVEOF NO ONE, because the          *)
(* transaction is late or the failover was aborted, is never advertised.   *)
(***************************************************************************)
AdvertisedWasPromoted ==
    \A s \in Sentinels : sentinelGetCurrentMasterAddress(sn[s]) \in promoted
=============================================================================
