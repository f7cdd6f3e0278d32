------------------------ MODULE RedisSentinelProofs -------------------------
(***************************************************************************)
(* The elections of the Sentinels: one vote per Sentinel and epoch, one     *)
(* leader per epoch, and only masters are advertised. Their configurations: *)
(* one master per configuration epoch, as long as all leaders were elected  *)
(* with the votes of their epoch and no old master is promoted again.       *)
(***************************************************************************)
EXTENDS RedisSentinelSteps

-----------------------------------------------------------------------------
(* The other steps. *)

\* Correcting a replica keeps the invariant.
LEMMA FixSlaveKeeps ==
    ASSUME Inv, NEW s \in Sentinels, NEW i \in Instances, FixSlave(s, i)
    PROVE  Inv'
  <1>1. sn[s].addr \in Instances
    BY Fields DEF Inv, Tables, Good, Live
  <1>2. slaveofs' = slaveofs \cup {Slaveof(s, i, sn[s].addr)}
        /\ UNCHANGED <<sn, inst, asks, hellos, votes, leaders, promoted, configs>>
    BY DEF FixSlave
  <1>3. slaveofs' \subseteq Transaction
    BY <1>1, <1>2 DEF Inv, Slaveof, Transaction
  <1>4. Tables' /\ Ballots' /\ Servers' /\ Elections'
    BY <1>2 DEF Inv, Tables, Ballots, VoteOnce, Servers, Elections
  <1> QED BY <1>2, <1>3, <1>4, ZenonT(40) DEF Inv

\* A server becomes a master only by SLAVEOF NO ONE.
LEMMA ApplyKeeps ==
    ASSUME Inv, NEW c \in slaveofs, ApplySlaveof(c)
    PROVE  Inv'
  <1>1. c \in Transaction
    BY DEF Inv
  <1>2. /\ inst' = [inst EXCEPT ![c.to] = c.master]
        /\ promoted' = promoted \cup {i \in {c.to} : c.master = None}
        /\ slaveofs' \subseteq slaveofs
        /\ UNCHANGED <<sn, asks, hellos, votes, leaders, configs>>
    BY DEF ApplySlaveof
  <1>3. promoted \subseteq promoted'
    BY <1>2
  <1>4. Tables'
    BY <1>2, <1>3, GoodMore DEF Inv, Tables
  <1>5. Servers'
    BY <1>1, <1>2 DEF Inv, Servers, Transaction
  <1>6. \A h \in hellos' : GoodHello(h, promoted')
    BY <1>2, <1>3 DEF Inv, GoodHello
  <1>7. Ballots' /\ Elections'
    BY <1>2 DEF Inv, Ballots, VoteOnce, Elections
  <1> QED BY <1>2, <1>4, <1>5, <1>6, <1>7, ZenonT(40) DEF Inv

\* A restart forgets who was voted for, but not in which epoch.
LEMMA RestartKeeps ==
    ASSUME Inv, NEW s \in Sentinels, Restart(s)
    PROVE  Inv'
  <1> DEFINE r == sn[s]
             f == r.saved
             q == [sentinelResetMaster(r) EXCEPT
                     !.addr = f.addr, !.slaves = (r.slaves \cup {r.addr}) \ {f.addr},
                     !.configEpoch = f.configEpoch,
                     !.leaderEpoch = f.leaderEpoch, !.failoverEpoch = 0,
                     !.current = Max({f.current, f.configEpoch}),
                     !.report = [t \in Others(s) |-> NoReport]]
  <1>1. Good(s, r, votes, promoted) /\ Shape(s, r) /\ DOMAIN sn = Sentinels
    BY ZenonT(40) DEF Inv, Tables, Good, Live
  <1>2. /\ sn' = [sn EXCEPT ![s] = q]
        /\ hellos' \subseteq {sentinelSendHello(t, sn'[t]) : t \in Sentinels}
        /\ UNCHANGED <<inst, asks, slaveofs, votes, leaders, promoted, configs>>
    <2>1. sn' = [sn EXCEPT ![s] = q]
      BY DEF Restart
    <2>2. hellos' = Publish({sentinelSendHello(t, sn'[t]) : t \in Sentinels}, sn')
      BY DEF Restart
    <2>3. hellos' \subseteq {sentinelSendHello(t, sn'[t]) : t \in Sentinels}
      BY <2>2 DEF Publish
    <2> QED BY <2>1, <2>3, Zenon DEF Restart
  <1>3. /\ f.current \in Nat /\ f.configEpoch \in Nat /\ f.leaderEpoch \in Nat
        /\ f.addr \in Instances
    BY <1>1, Fields, ZenonT(40)
  <1> DEFINE m == Max({f.current, f.configEpoch})
  <1>4. m \in Nat /\ m >= f.current /\ m >= f.configEpoch
    BY <1>3, MaxOfTwo
  <1> HIDE DEF r, m
  <1>5. [t \in Others(s) |-> NoReport] \in [Others(s) -> Report]
    BY DEF NoReport, Report
  <1>6. /\ q.addr = f.addr /\ q.configEpoch = f.configEpoch
        /\ q.leaderEpoch = f.leaderEpoch /\ q.failoverEpoch = 0 /\ q.current = m
        /\ q.leader = None /\ q.state = "none" /\ q.saved = f
        /\ q.report = [t \in Others(s) |-> NoReport]
    BY <1>1 DEF Shape, MasterRecord, sentinelResetMaster, m
  <1>7. Shape(s, q)
    <2> DEFINE z == sentinelResetMaster(r)
    <2>1. z \in MasterRecord(s) /\ z.promoted = None /\ z.state = "none"
      BY <1>1, Zenon DEF Shape, MasterRecord, sentinelResetMaster
    <2>2. q = [z EXCEPT !.addr = f.addr, !.slaves = (r.slaves \cup {r.addr}) \ {f.addr},
                        !.configEpoch = f.configEpoch,
                        !.leaderEpoch = f.leaderEpoch, !.failoverEpoch = 0,
                        !.current = m, !.report = [t \in Others(s) |-> NoReport]]
      BY DEF m
    <2>3. r.addr \in Instances /\ r.slaves \subseteq Instances
      BY <1>1, Fields
    <2> HIDE DEF z, q, f
    <2>4. q \in MasterRecord(s) /\ q.promoted = None /\ q.state = "none"
      BY <1>3, <1>4, <1>5, <2>1, <2>2, <2>3, ZenonT(40) DEF MasterRecord
    <2>5. q.addr \notin q.slaves
      BY <2>1, <2>2, ZenonT(40) DEF MasterRecord
    <2> QED BY <2>4, <2>5 DEF Shape, Chosen
  <1> HIDE DEF q
  <1>8. VotesKept(s, q, votes)
    BY <1>1, <1>6, SMTT(30) DEF Good, Live, Saved, VotesKept, NoReport
  <1>9. Good(s, q, votes, promoted)
    BY <1>1, <1>3, <1>4, <1>6, <1>7, <1>8, SMTT(30) DEF Good, Live, Saved
  <1>10. Tables'
    BY <1>1, <1>2, <1>9, ZenonT(40) DEF Inv, Tables
  <1>11. \A h \in hellos' : GoodHello(h, promoted')
    BY <1>2, <1>10, HelloIs, SMTT(30) DEF Tables
  <1>12. Ballots' /\ Elections' /\ Servers'
    BY <1>2 DEF Inv, Ballots, VoteOnce, Elections, Servers
  <1> QED BY <1>2, <1>10, <1>11, <1>12, ZenonT(40) DEF Inv

\* An answer tells the truth about the vote of the Sentinel t that gives it.
Replied(f, r, q, t, leader, epoch) ==
    /\ Shape(f, q) /\ SameVote(r, q) /\ q.configEpoch = r.configEpoch
    /\ q.failoverEpoch = r.failoverEpoch /\ q.addr = r.addr
    /\ q.state = r.state /\ q.promoted = r.promoted
    /\ \A u \in Others(f) \ {t} : q.report[u] = r.report[u]
    /\ \/ /\ q.report[t].leader = r.report[t].leader
          /\ q.report[t].epoch = r.report[t].epoch
       \/ leader # None /\ q.report[t].leader = leader /\ q.report[t].epoch = epoch

\* sentinelReceiveIsMasterDownReply changes the report of one Sentinel.
LEMMA ReplyIs ==
    ASSUME NEW f \in Sentinels, NEW r, Shape(f, r), NEW t \in Others(f),
           NEW down \in BOOLEAN, NEW leader \in Sentinels \cup {None}, NEW epoch \in Nat,
           NEW q, q = sentinelReceiveIsMasterDownReply(r, t, down, leader, epoch)
    PROVE  Replied(f, r, q, t, leader, epoch)
  <1> DEFINE x == IF leader = None THEN [r.report[t] EXCEPT !.down = down]
                  ELSE [down |-> down, leader |-> leader, epoch |-> epoch]
             reports == [r.report EXCEPT ![t] = x]
  <1>1. r.report \in [Others(f) -> Report] /\ r \in MasterRecord(f)
    BY Fields DEF Shape
  <1>2. x \in Report
    BY <1>1 DEF Report
  <1>3. \/ x.leader = r.report[t].leader /\ x.epoch = r.report[t].epoch
        \/ leader # None /\ x.leader = leader /\ x.epoch = epoch
    BY <1>1 DEF Report
  <1>4. q = [r EXCEPT !.report = reports]
    BY <1>1 DEF sentinelReceiveIsMasterDownReply, MasterRecord
  <1> HIDE DEF x
  <1>5. reports \in [Others(f) -> Report]
    BY <1>1, <1>2
  <1>6. /\ reports[t] = x
        /\ \A u \in Others(f) \ {t} : reports[u] = r.report[u]
    BY <1>1
  <1> HIDE DEF reports
  <1>7. /\ q \in MasterRecord(f) /\ SameVote(r, q) /\ q.configEpoch = r.configEpoch
        /\ q.failoverEpoch = r.failoverEpoch /\ q.addr = r.addr /\ q.slaves = r.slaves
        /\ q.state = r.state /\ q.promoted = r.promoted /\ q.report = reports
    BY <1>1, <1>4, <1>5, ZenonT(40) DEF MasterRecord, SameVote
  <1>8. Shape(f, q)
    BY <1>7 DEF Shape
  <1> QED BY <1>3, <1>6, <1>7, <1>8, ZenonT(40) DEF Replied

\* A reply that tells a vote which was cast leaves its receiver good.
LEMMA ReplyKeeps ==
    ASSUME NEW f \in Sentinels, NEW r, NEW W, NEW P, Good(f, r, W, P), NEW t \in Others(f),
           NEW down \in BOOLEAN, NEW leader \in Sentinels \cup {None}, NEW epoch \in Nat,
           leader # None => <<t, epoch, leader>> \in W,
           NEW q, q = sentinelReceiveIsMasterDownReply(r, t, down, leader, epoch)
    PROVE  Good(f, q, W, P)
  <1>1. Shape(f, r)
    BY DEF Good, Live
  <1>2. Replied(f, r, q, t, leader, epoch)
    BY <1>1, ReplyIs, ZenonT(40)
  <1>3. VotesKept(f, q, W)
    BY <1>2, ZenonT(40) DEF Good, Live, VotesKept, SameVote, Replied
  <1>4. Live(f, q, W, P)
    BY <1>2, <1>3, ZenonT(40) DEF Good, Live, SameVote, Replied
  <1>5. Saved(q, P)
    BY <1>2 DEF Good, Saved, SameVote, Replied
  <1> QED BY <1>4, <1>5 DEF Good

\* Answering SENTINEL IS-MASTER-DOWN-BY-ADDR keeps the invariant, whether or not
\* the answer arrives.
LEMMA QuestionKeeps ==
    ASSUME Inv, NEW s \in Sentinels, NEW q \in asks, IsMasterDownByAddr(s, q)
    PROVE  Inv'
  <1> DEFINE r == sn[s]
             f == q.from
             known == r.addr = q.addr
             voting == known /\ q.runid # None
             after == IF voting THEN sentinelVoteLeader(r, q.epoch, q.runid) ELSE r
             leader == IF voting THEN after.leader ELSE None
             down == known /\ after.sdown
             told == sentinelReceiveIsMasterDownReply(sn[f], s, down, leader, after.leaderEpoch)
             W == votes \cup VoteOf(s, after)
  <1>1. /\ q \in Question /\ f # s /\ f \in Sentinels /\ s \in Others(f)
    BY DEF Inv, IsMasterDownByAddr, Question, Others
  <1>2. /\ Good(s, r, votes, promoted) /\ Good(f, sn[f], votes, promoted)
        /\ DOMAIN sn = Sentinels /\ votes \in SUBSET Votes
    BY <1>1, ZenonT(40) DEF Inv, Tables, Ballots
  <1>3. /\ \/ sn' = [sn EXCEPT ![s] = after, ![f] = told]
           \/ sn' = [sn EXCEPT ![s] = after]
        /\ votes' = W
        /\ hellos' \subseteq hellos \cup {sentinelSendHello(s, after)}
        /\ UNCHANGED <<inst, asks, slaveofs, leaders, promoted, configs>>
    BY Published, ZenonT(40) DEF IsMasterDownByAddr
  <1>4. Good(s, after, W, promoted) /\ VoteStep(r, after)
    <2>1. CASE voting
      <3> DEFINE e == q.epoch
                 w == q.runid
      <3>1. e \in Nat /\ w \in Sentinels /\ after = sentinelVoteLeader(r, e, w)
        BY <1>1, <2>1, ZenonT(40) DEF Question
      <3> HIDE DEF e, w, r, voting
      <3>2. Good(s, after, W, promoted)
        <4> DEFINE v == sentinelVoteLeader(r, e, w)
        <4>1. Good(s, v, votes \cup VoteOf(s, v), promoted)
          BY <1>2, <3>1, VoteKeeps, ZenonT(40)
        <4>2. after = v /\ W = votes \cup VoteOf(s, v)
          BY <3>1, ZenonT(40)
        <4> HIDE DEF v, W, after
        <4> QED BY <4>1, <4>2, ZenonT(40)
      <3>3. VotedFrom(s, r, after, w)
        BY <1>2, <3>1, VoteIs, ZenonT(40) DEF Good, Live
      <3> QED BY <3>2, <3>3, ZenonT(40) DEF VotedFrom, VoteStep
    <2>2. CASE ~voting
      <3>1. after = r
        BY <2>2, ZenonT(40)
      <3> HIDE DEF r
      <3> QED BY <1>2, <3>1, OldVote, SMTT(30) DEF SameVote
    <2> QED BY <2>1, <2>2, ZenonT(40)
  <1>5. Shape(s, after)
    BY <1>4, ZenonT(40) DEF Good, Live
  <1>6. /\ Ballots' /\ votes \subseteq votes'
        /\ \A v \in votes' : v \in votes \/ v[1] = s
    BY <1>3, <1>4, <1>5, NewVote, ZenonT(40)
  <1>7. Good(f, sn[f], W, promoted)
    BY <1>1, <1>2, <1>3, <1>6, GoodMore, SMTT(30)
  <1>8. /\ leader \in Sentinels \cup {None} /\ after.leaderEpoch \in Nat
        /\ leader # None => <<s, after.leaderEpoch, leader>> \in W
    BY <1>5, Fields, ZenonT(40) DEF VoteOf
  <1>9. down \in BOOLEAN
    BY <1>5, ZenonT(40) DEF Shape, MasterRecord
  <1> HIDE DEF leader, down, after, W, voting, known
  <1>10. Good(f, told, W, promoted)
    BY <1>1, <1>7, <1>8, <1>9, ReplyKeeps, ZenonT(40)
  <1> HIDE DEF told, f
  <1>11. ASSUME NEW t \in Sentinels PROVE Good(t, sn'[t], votes', promoted')
    <2>1. CASE t = s
      <3>1. sn'[s] = after
        BY <1>1, <1>2, <1>3, ZenonT(40)
      <3> QED BY <1>3, <1>4, <2>1, <3>1, ZenonT(40)
    <2>2. CASE t # s
      <3>1. Good(t, sn[t], votes, promoted)
        BY DEF Inv, Tables
      <3>2. Good(t, sn[t], W, promoted)
        BY <1>3, <1>6, <2>2, <3>1, GoodMore, ZenonT(40)
      <3>3. sn'[t] = sn[t] \/ (t = f /\ sn'[t] = told)
        BY <1>1, <1>2, <1>3, <2>2, ZenonT(40)
      <3> QED BY <1>3, <1>10, <3>2, <3>3, ZenonT(40)
    <2> QED BY <2>1, <2>2, ZenonT(40)
  <1>12. Tables'
    BY <1>2, <1>3, <1>11, ZenonT(40) DEF Tables
  <1>13. Elections'
    BY <1>3, <1>6, SameElections, ZenonT(40)
  <1>14. \A h \in hellos' : GoodHello(h, promoted')
    BY <1>3, <1>4, HelloIs, ZenonT(40) DEF Inv
  <1>15. Servers'
    BY <1>3 DEF Inv, Servers
  <1> QED BY <1>3, <1>6, <1>12, <1>13, <1>14, <1>15, ZenonT(40) DEF Inv

\* The parts of a timer: the failover it may begin, a step of it, what it forgets.
LeaderOf(s, r) ==
    [who |-> s, epoch |-> r.failoverEpoch, current |-> r.current, force |-> r.force]

\* A run of the timer: begun is the record after it may have started a failover,
\* o the outcome of the state machine.
Timed(s, begun, o, silent) ==
    /\ Good(s, begun, votes, promoted)
    /\ begun.leader = sn[s].leader /\ begun.leaderEpoch = sn[s].leaderEpoch
    /\ Settled(s, sn[s], leaders, configs) => Settled(s, begun, leaders, configs)
    /\ o \in sentinelFailoverStateMachine(s, begun)
    /\ Install(s, Forget(o.r, silent))
    /\ asks' \subseteq asks \cup Questions(s, o.r) \cup Questions(s, begun)
    /\ slaveofs' = slaveofs \cup o.sent
    /\ leaders' = leaders \cup {l \in {LeaderOf(s, begun)} : o.leads}
    /\ UNCHANGED <<inst, promoted, configs>>

\* The timer may start a failover, then runs the state machine.
LEMMA TimerIs ==
    ASSUME Inv, NEW s \in Sentinels, sentinelTimer(s)
    PROVE  \E begun, o, silent : Timed(s, begun, o, silent)
  <1>1. PICK down \in {sn[s].sdown} \cup {d \in BOOLEAN : budget.flips > 0},
             start \in BOOLEAN, poll \in BOOLEAN,
             silent \in {x \in SUBSET Others(s) : Cardinality(x) <= budget.silences} :
          sentinelHandleRedisInstance(s, down, start, poll, silent)
    BY DEF sentinelTimer
  <1>2. UNCHANGED <<inst, promoted, configs>>
    BY ZenonT(40) DEF sentinelTimer
  <1> DEFINE r == sn[s]
             d == [r EXCEPT !.sdown = down]
             b == IF start THEN sentinelStartFailover(d) ELSE d
  <1>a. down \in BOOLEAN
    BY <1>1 DEF Inv, Tables, Good, Live, Shape, MasterRecord
  <1>6. (start => d.state = "none") /\ b = IF start THEN sentinelStartFailover(d) ELSE d
    BY <1>1, ZenonT(40) DEF sentinelHandleRedisInstance
  <1>b. \E o \in sentinelFailoverStateMachine(s, b) :
          /\ Install(s, Forget(o.r, silent))
          /\ asks' = asks \cup {q \in Questions(s, o.r) : poll \/ q.runid # None}
                          \cup {q \in Questions(s, b) : start}
          /\ slaveofs' = slaveofs \cup o.sent
          /\ leaders' = leaders \cup {l \in {LeaderOf(s, b)} : o.leads}
    BY <1>1, ZenonT(40) DEF sentinelHandleRedisInstance, LeaderOf
  <1> HIDE DEF b
  <1>3. PICK o \in sentinelFailoverStateMachine(s, b) :
          /\ Install(s, Forget(o.r, silent))
          /\ asks' \subseteq asks \cup Questions(s, o.r) \cup Questions(s, b)
          /\ slaveofs' = slaveofs \cup o.sent
          /\ leaders' = leaders \cup {l \in {LeaderOf(s, b)} : o.leads}
    BY <1>b, ZenonT(40)
  <1>4. Good(s, r, votes, promoted) /\ Shape(s, r) /\ leaders \in SUBSET Leader
    BY Zenon DEF Inv, Tables, Good, Live, Elections
  <1> HIDE DEF r
  <1>5. /\ Shape(s, d) /\ SameVote(r, d) /\ d.configEpoch = r.configEpoch
        /\ d.failoverEpoch = r.failoverEpoch /\ d.addr = r.addr
        /\ d.report = r.report /\ d.state = r.state /\ d.promoted = r.promoted
    BY <1>4, <1>a, ZenonT(40) DEF Shape, MasterRecord, SameVote, r
  <1> HIDE DEF d
  <1>7. Good(s, d, votes, promoted)
    BY <1>4, <1>5, AlikeKeeps, ZenonT(40)
  <1>8. Settled(s, r, leaders, configs) => Settled(s, d, leaders, configs)
    BY <1>5, AlikeSettles, ZenonT(40) DEF SameVote
  <1>9. /\ Good(s, b, votes, promoted)
        /\ b.leader = r.leader /\ b.leaderEpoch = r.leaderEpoch
        /\ Settled(s, r, leaders, configs) => Settled(s, b, leaders, configs)
    <2>1. CASE start
      <3>1. d.state = "none" /\ b = sentinelStartFailover(d)
        BY <1>6, <2>1, ZenonT(40)
      <3>2. Good(s, b, votes, promoted)
        BY <1>7, <3>1, StartKeeps, ZenonT(40)
      <3>3. b.leader = d.leader /\ b.leaderEpoch = d.leaderEpoch
        BY <1>5, <3>1, StartIs, SMTT(30)
      <3>4. Settled(s, d, leaders, configs) => Settled(s, b, leaders, configs)
        BY <1>4, <1>7, <3>1, StartSettles, ZenonT(40)
      <3> QED BY <1>5, <1>8, <3>2, <3>3, <3>4, ZenonT(40) DEF SameVote
    <2>2. CASE ~start
      <3>1. b = d
        BY <1>6, <2>2, ZenonT(40)
      <3> QED BY <1>5, <1>7, <1>8, <3>1, ZenonT(40) DEF SameVote
    <2> QED BY <2>1, <2>2, ZenonT(40)
  <1>10. Timed(s, b, o, silent)
    BY <1>2, <1>3, <1>9, ZenonT(40) DEF Timed, r
  <1> QED BY <1>10

\* The questions a Sentinel asks are questions.
LEMMA QuestionsTyped ==
    ASSUME NEW s \in Sentinels, NEW r, Shape(s, r)
    PROVE  Questions(s, r) \subseteq Question
  <1>1. r.addr \in Instances /\ r.current \in Nat
    BY Fields
  <1> QED BY <1>1 DEF Questions, Question

\* The timer keeps the invariant: a leader it adds has a majority.
LEMMA TimerKeeps ==
    ASSUME Inv, NEW s \in Sentinels, sentinelTimer(s)
    PROVE  Inv'
  <1>1. PICK begun, o, silent : Timed(s, begun, o, silent)
    BY TimerIs
  <1> DEFINE q == Forget(o.r, silent)
             W == votes \cup VoteOf(s, o.r)
             l == LeaderOf(s, begun)
  <1>2. votes \in SUBSET Votes /\ leaders \in SUBSET Leader
    BY ZenonT(40) DEF Inv, Ballots, Elections
  <1>3. Outcome(s, begun, o, votes, promoted)
    BY <1>1, <1>2, StateMachineOutcome, ZenonT(40) DEF Timed
  <1>4. Good(s, o.r, W, promoted) /\ VoteStep(begun, o.r) /\ o.sent \subseteq Transaction
    BY <1>3, ZenonT(40) DEF Outcome
  <1>5. Good(s, q, W, promoted) /\ SameVote(o.r, q)
    BY <1>4, ForgetKeeps, ZenonT(40)
  <1> HIDE DEF q
  <1>6. VoteOf(s, q) = VoteOf(s, o.r) /\ VoteStep(sn[s], q)
    BY <1>1, <1>4, <1>5, ZenonT(40) DEF Timed, SameVote, VoteOf, VoteStep
  <1>7. Install(s, q) /\ UNCHANGED <<inst, promoted, configs>>
    BY <1>1 DEF Timed, q
  <1>8. /\ Tables' /\ Ballots' /\ votes \subseteq votes'
        /\ \A h \in hellos' : GoodHello(h, promoted')
    BY <1>5, <1>6, <1>7, InstallKeeps, ZenonT(40)
  <1>9. Shape(s, begun) /\ Shape(s, o.r)
    BY <1>1, <1>4, ZenonT(40) DEF Timed, Good, Live
  <1>10. asks' \subseteq Question
    BY <1>1, <1>9, QuestionsTyped, ZenonT(40) DEF Timed, Inv
  <1>11. slaveofs' \subseteq Transaction
    BY <1>1, <1>4, ZenonT(40) DEF Timed, Inv
  <1>12. Elections'
    <2>1. leaders' = leaders \cup {x \in {l} : o.leads}
      BY <1>1, ZenonT(40) DEF Timed
    <2>2. l \in Leader
      BY <1>9, Fields, ZenonT(40) DEF LeaderOf, Leader, Shape, MasterRecord
    <2>3. l.who = s /\ l.epoch = begun.failoverEpoch /\ l.current = begun.current
          /\ l.force = begun.force
      BY DEF LeaderOf
    <2> HIDE DEF l
    <2>4. votes' = W
      BY <1>6, <1>7, ZenonT(40) DEF Install
    <2>5. o.leads /\ Regular(l) => Majority(l.who, l.epoch, votes')
      BY <1>3, <2>3, <2>4, ZenonT(40) DEF Outcome, Regular
    <2>6. \A k \in leaders : Regular(k) => Majority(k.who, k.epoch, votes')
      BY <1>8, MajorityMore, ZenonT(40) DEF Inv, Elections
    <2>7. \A k \in leaders' : Regular(k) => Majority(k.who, k.epoch, votes')
      BY <2>1, <2>5, <2>6, ZenonT(40)
    <2>8. leaders' \subseteq Leader
      BY <1>2, <2>1, <2>2, ZenonT(40)
    <2> QED BY <2>7, <2>8, ZenonT(40) DEF Elections
  <1>13. Servers'
    BY <1>7 DEF Inv, Servers
  <1> QED BY <1>7, <1>8, <1>10, <1>11, <1>12, <1>13, ZenonT(40) DEF Inv

\* The invariant holds when the Sentinels start.
LEMMA InitInv == Init => Inv
  <1> SUFFICES ASSUME Init PROVE Inv
    OBVIOUS
  <1>1. /\ budget.known \in [Sentinels -> SUBSET (Instances \ {FirstMaster})]
        /\ budget.quorum \in [Sentinels -> Nat] /\ FirstMaster \in Instances
    BY SentinelConstants DEF Init
  <1>2. DOMAIN sn = Sentinels
    BY DEF Init
  <1>3. ASSUME NEW s \in Sentinels PROVE Good(s, sn[s], votes, promoted)
    <2> DEFINE r == sn[s]
               reports == [t \in Others(s) |->
                             [NoReport EXCEPT !.down = {s, t} \subseteq budget.watching]]
    <2>1. r = [current |-> 0, leader |-> None, leaderEpoch |-> 0, configEpoch |-> 0,
               addr |-> FirstMaster, slaves |-> budget.known[s],
               quorum |-> budget.quorum[s], sdown |-> s \in budget.watching,
               report |-> reports,
               state |-> "none", failoverEpoch |-> 0, promoted |-> None, force |-> FALSE,
               reconf |-> [i \in Instances |-> "no"],
               saved |-> [current |-> 0, leaderEpoch |-> 0, configEpoch |-> 0,
                          addr |-> FirstMaster]]
      BY DEF Init
    <2>2. /\ reports \in [Others(s) -> Report]
          /\ \A t \in Others(s) : reports[t].leader = None
      BY ZenonT(40) DEF NoReport, Report
    <2>3. budget.known[s] \in SUBSET (Instances \ {FirstMaster}) /\ budget.quorum[s] \in Nat
      BY <1>1, ZenonT(40)
    <2> HIDE DEF r, reports
    <2>4. r \in MasterRecord(s)
      BY <1>1, <2>1, <2>2, <2>3, SMTT(30) DEF MasterRecord, SavedConfig
    <2>5. Shape(s, r)
      BY <2>1, <2>3, <2>4, ZenonT(40) DEF Shape, Chosen
    <2>6. votes = {} /\ promoted = {FirstMaster}
      BY ZenonT(40) DEF Init
    <2>7. Live(s, r, votes, promoted)
      BY <2>1, <2>2, <2>5, <2>6, SMTT(30) DEF Live, VotesKept
    <2>8. Saved(r, promoted)
      BY <2>1, <2>6, SMTT(30) DEF Saved
    <2> QED BY <2>7, <2>8, ZenonT(40) DEF Good, r
  <1>4. Servers
    BY <1>1, NoneApart, ZenonT(40) DEF Init, Servers
  <1>5. Ballots /\ Elections
    BY DEF Init, Ballots, VoteOnce, Elections
  <1>6. /\ \A h \in hellos : GoodHello(h, promoted)
        /\ asks \subseteq Question /\ slaveofs \subseteq Transaction
        /\ configs \subseteq Nat \X Instances
    BY <1>1, SMTT(30) DEF Init
  <1> QED BY <1>2, <1>3, <1>4, <1>5, <1>6, ZenonT(40) DEF Inv, Tables

\* Every step keeps the invariant.
LEMMA NextInv == Inv /\ [Next]_vars => Inv'
  <1> SUFFICES ASSUME Inv, [Next]_vars PROVE Inv'
    BY ZenonT(40)
  <1>1. CASE UNCHANGED vars
    BY <1>1 DEF vars, Inv, Tables, Ballots, VoteOnce, Servers, Elections
  <1>2. ASSUME NEW s \in Sentinels, sentinelTimer(s) PROVE Inv'
    BY <1>2, TimerKeeps, ZenonT(40)
  <1>3. ASSUME NEW s \in Sentinels, sentinelFailoverCommand(s) PROVE Inv'
    BY <1>3, FailoverCommandKeeps, ZenonT(40)
  <1>4. ASSUME NEW s \in Sentinels, NEW q \in asks, IsMasterDownByAddr(s, q) PROVE Inv'
    BY <1>4, QuestionKeeps
  <1>5. ASSUME NEW s \in Sentinels, NEW h \in hellos, sentinelProcessHelloMessage(s, h)
        PROVE  Inv'
    BY <1>5, HelloKeeps, ZenonT(40)
  <1>6. ASSUME NEW s \in Sentinels, NEW i \in Instances, PromotionSeen(s, i) PROVE Inv'
    BY <1>6, PromotionKeeps, ZenonT(40)
  <1>7. ASSUME NEW s \in Sentinels, NEW i \in Instances, FixSlave(s, i) PROVE Inv'
    BY <1>7, FixSlaveKeeps, ZenonT(40)
  <1>8. ASSUME NEW s \in Sentinels, NEW i \in Instances, ReconfSeen(s, i) PROVE Inv'
    BY <1>8, ReconfSeenKeeps, ZenonT(40)
  <1>9. ASSUME NEW s \in Sentinels, DiscoverSlaves(s) PROVE Inv'
    BY <1>9, DiscoverKeeps, ZenonT(40)
  <1>10. ASSUME NEW s \in Sentinels, Restart(s) PROVE Inv'
    BY <1>10, RestartKeeps, ZenonT(40)
  <1>11. ASSUME NEW c \in slaveofs, ApplySlaveof(c) PROVE Inv'
    BY <1>11, ApplyKeeps, ZenonT(40)
  <1> QED BY <1>1, <1>2, <1>3, <1>4, <1>5, <1>6, <1>7, <1>8, <1>9, <1>10, <1>11, ZenonT(40)
          DEF Next

-----------------------------------------------------------------------------
(* What follows from the invariant. *)

\* The invariant contains the types.
LEMMA InvTypes == Inv => TypeOK
  <1> SUFFICES ASSUME Inv PROVE TypeOK
    BY ZenonT(40)
  <1>1. \A s \in Sentinels : Shape(s, sn[s])
    BY DEF Inv, Tables, Good, Live
  <1>2. hellos \subseteq Hello
    BY ZenonT(40) DEF Inv, GoodHello
  <1> QED BY <1>1, <1>2, ZenonT(40)
          DEF Inv, Tables, Ballots, Votes, Servers, Elections, Shape, TypeOK

\* Two majorities have a Sentinel in common, and it voted once.
LEMMA InvOneLeader == Inv => OneLeaderPerEpoch
  <1> SUFFICES ASSUME Inv, NEW l \in leaders, NEW k \in leaders,
                      Regular(l), Regular(k), l.epoch = k.epoch
               PROVE  l.who = k.who
    BY ZenonT(40) DEF OneLeaderPerEpoch
  <1> DEFINE n == Cardinality(Sentinels)
  <1>1. IsFiniteSet(Sentinels) /\ n \in Nat
    BY SentinelConstants, FS_CardinalityType, ZenonT(40)
  <1>2. PICK Q \in SUBSET Sentinels :
          Cardinality(Q) >= (n \div 2) + 1 /\ \A t \in Q : <<t, l.epoch, l.who>> \in votes
    BY DEF Inv, Elections, Majority
  <1>3. PICK R \in SUBSET Sentinels :
          Cardinality(R) >= (n \div 2) + 1 /\ \A t \in R : <<t, k.epoch, k.who>> \in votes
    BY DEF Inv, Elections, Majority
  <1>4. Cardinality(Q) \in Nat /\ Cardinality(R) \in Nat
    BY <1>1, FS_Subset, FS_CardinalityType, ZenonT(40)
  <1> HIDE DEF n
  <1>5. Cardinality(Q) + Cardinality(R) > n
    BY <1>1, <1>2, <1>3, <1>4, SMTT(30)
  <1>6. PICK t \in Q : t \in R
    BY <1>1, <1>5, FS_MajoritiesIntersect, ZenonT(40) DEF n
  <1>7. <<t, l.epoch, l.who>> \in votes /\ <<t, l.epoch, k.who>> \in votes
    BY <1>2, <1>3, <1>6, ZenonT(40)
  <1> QED BY <1>7, ZenonT(40) DEF Inv, Ballots, VoteOnce

\* The invariant contains what AdvertisedWasPromoted says.
LEMMA InvAdvertised == Inv => AdvertisedWasPromoted
  BY DEF Inv, Tables, Good, Live, AdvertisedWasPromoted, sentinelGetCurrentMasterAddress

\* The invariant holds in every reachable state, for any number of Sentinels,
\* servers and steps.
THEOREM SentinelInvariant == Spec => []Inv
  BY InitInv, NextInv, PTL DEF Spec

\* Every variable of the Sentinels keeps its type.
THEOREM SentinelTypes == Spec => []TypeOK
  BY SentinelInvariant, InvTypes, PTL

\* No Sentinel votes for two candidates in one epoch (sentinelVoteLeader),
\* also when it restarts from its file in between.
THEOREM SentinelsVoteOnce == Spec => []VoteOnce
  <1>1. Inv => VoteOnce
    BY DEF Inv, Ballots
  <1> QED BY <1>1, SentinelInvariant, PTL

\* Two Sentinels that sentinelGetLeader elects with the votes of one epoch are
\* the same, whatever answers were lost and whoever restarted: their majorities
\* share a Sentinel, and no Sentinel votes twice.
THEOREM OneLeader == Spec => []OneLeaderPerEpoch
  BY SentinelInvariant, InvOneLeader, PTL

\* The address sentinelGetCurrentMasterAddress gives to clients belongs to a
\* server that was a master at some time, and so does the one in the file.
THEOREM Advertised == Spec => []AdvertisedWasPromoted
  BY SentinelInvariant, InvAdvertised, PTL

-----------------------------------------------------------------------------
(* The configurations. *)

\* The two conditions of ConfigNamesOneMaster.
Undisturbed == (\A l \in leaders : Regular(l)) /\ NoReturn

\* All Sentinels are settled; an epoch has at most one configuration, which a
\* leader of that epoch created; hellos carry configurations.
Conf ==
    /\ \A s \in Sentinels : Settled(s, sn[s], leaders, configs)
    /\ \A x, y \in configs : x[1] = y[1] => x[2] = y[2]
    /\ \A x \in configs : x[1] = 0 \/ \E l \in leaders : l.epoch = x[1]
    /\ \A h \in hellos : <<h.configEpoch, h.addr>> \in configs

\* A hello carries the configuration its sender is at.
LEMMA HelloConfig ==
    ASSUME NEW s, NEW r, NEW L, NEW C, Settled(s, r, L, C)
    PROVE  <<sentinelSendHello(s, r).configEpoch, sentinelSendHello(s, r).addr>> \in C
  BY ZenonT(40) DEF Settled, Configured, sentinelSendHello

\* s is now in state q, with which the leaders and configurations agree.
LEMMA InstallConf ==
    ASSUME Inv, Conf, NEW s \in Sentinels, NEW q, Settled(s, q, leaders, configs),
           Install(s, q), UNCHANGED <<leaders, configs>>
    PROVE  Conf'
  <1>1. /\ sn' = [sn EXCEPT ![s] = q] /\ DOMAIN sn = Sentinels
        /\ hellos' \subseteq hellos \cup {sentinelSendHello(s, q)}
    BY Published, ZenonT(40) DEF Install, Inv, Tables
  <1>2. \A t \in Sentinels : Settled(t, sn'[t], leaders', configs')
    BY <1>1 DEF Conf
  <1>3. \A h \in hellos' : <<h.configEpoch, h.addr>> \in configs'
    BY <1>1, HelloConfig, Zenon DEF Conf
  <1> QED BY <1>2, <1>3, ZenonT(40) DEF Conf

\* SENTINEL FAILOVER leaves the configurations alone.
LEMMA FailoverCommandConf ==
    ASSUME Inv, Conf, NEW s \in Sentinels, sentinelFailoverCommand(s)
    PROVE  Conf'
  <1> DEFINE b == sentinelStartFailover(sn[s])
             q == [b EXCEPT !.force = TRUE]
  <1>1. /\ Good(s, sn[s], votes, promoted) /\ sn[s].state = "none"
        /\ leaders \in SUBSET Leader /\ Settled(s, sn[s], leaders, configs)
    BY ZenonT(40) DEF Inv, Tables, Elections, Conf, sentinelFailoverCommand
  <1>2. Shape(s, b) /\ Settled(s, b, leaders, configs)
    BY <1>1, StartKeeps, StartSettles, ZenonT(40) DEF Good, Live
  <1>3. Install(s, q) /\ UNCHANGED <<leaders, configs>>
    BY DEF sentinelFailoverCommand
  <1> HIDE DEF b
  <1>4. /\ q.saved = b.saved /\ q.configEpoch = b.configEpoch
        /\ q.failoverEpoch = b.failoverEpoch /\ q.addr = b.addr
        /\ q.state = b.state /\ q.promoted = b.promoted
    BY <1>2, ZenonT(40) DEF Shape, MasterRecord
  <1> HIDE DEF q
  <1>5. Settled(s, q, leaders, configs)
    BY <1>2, <1>4, AlikeSettles, ZenonT(40)
  <1> QED BY <1>3, <1>5, InstallConf, ZenonT(40)

\* A leader of s is not of a later epoch than the one s is in.
LEMMA LeadersKnown ==
    ASSUME NEW s \in Sentinels, NEW r, NEW V, NEW P, Good(s, r, V, P),
           NEW L \in SUBSET Leader, NEW C, Settled(s, r, L, C)
    PROVE  \A l \in L : l.who = s => l.epoch <= r.current
  <1>1. \A l \in L : l.who = s => l.epoch <= r.saved.current /\ l.epoch \in Nat
    BY ZenonT(40) DEF Settled, ConfigSaved, Leader
  <1>2. r.saved.current <= r.current /\ r.saved.current \in Nat /\ r.current \in Nat
    BY Fields, ZenonT(40) DEF Good, Live, Saved
  <1> QED BY <1>1, <1>2, SMTT(30)

\* A hello with a newer configuration moves its receiver to it: that it has the
\* address of the old one is what NoReturn excludes.
LEMMA HelloConf ==
    ASSUME Inv, Undisturbed, Conf, NEW s \in Sentinels, NEW h \in hellos,
           sentinelProcessHelloMessage(s, h)
    PROVE  Conf'
  <1> DEFINE r == sn[s]
             seen == Raise(r, h.current)
             newer == [seen EXCEPT !.configEpoch = h.configEpoch]
             other == sentinelResetMasterAndChangeAddress(newer, h.addr)
  <1>1. /\ Good(s, r, votes, promoted) /\ GoodHello(h, promoted) /\ Shape(s, r)
        /\ leaders \in SUBSET Leader /\ Settled(s, r, leaders, configs)
        /\ <<h.configEpoch, h.addr>> \in configs
    BY DEF Inv, Tables, Good, Live, Elections, Conf
  <1>2. h.current \in Nat /\ h.configEpoch \in Nat /\ h.addr \in Instances
    BY <1>1 DEF GoodHello, Hello
  <1>3. Install(s, IF r.configEpoch >= h.configEpoch THEN seen
                   ELSE IF h.addr = r.addr THEN newer ELSE other)
    BY DEF sentinelProcessHelloMessage, Raise
  <1>4. UNCHANGED <<leaders, configs>>
    BY ZenonT(40) DEF sentinelProcessHelloMessage
  <1>5. Good(s, seen, votes, promoted) /\ Settled(s, seen, leaders, configs)
    BY <1>1, <1>2, RaiseKeeps, RaiseSettles, ZenonT(40)
  <1>6. Shape(s, seen)
    BY <1>5, ZenonT(40) DEF Good, Live
  <1> HIDE DEF r, seen
  <1>7. CASE r.configEpoch >= h.configEpoch
    <2>1. Install(s, seen)
      BY <1>3, <1>7, ZenonT(40)
    <2> QED BY <1>4, <1>5, <2>1, InstallConf, ZenonT(40)
  <1>8. ~(~(r.configEpoch >= h.configEpoch) /\ h.addr = r.addr)
    <2>a. r.configEpoch \in Nat
      BY <1>1, Fields, ZenonT(40)
    <2> SUFFICES ASSUME r.configEpoch < h.configEpoch, h.addr = r.addr PROVE FALSE
      BY <1>2, <2>a, SMTT(30)
    <2>1. PICK e \in Nat : e <= r.configEpoch /\ <<e, r.addr>> \in configs
      <3>1. CASE r.state = "reconf_slaves"
        BY <1>1, <2>a, <3>1, SMTT(30) DEF Settled, Configured
      <3>2. CASE r.state # "reconf_slaves"
        <4>1. <<r.configEpoch, r.addr>> \in configs
          BY <1>1, <3>2, ZenonT(40) DEF Settled, Configured, sentinelGetCurrentMasterAddress
        <4> QED BY <2>a, <4>1, SMTT(30)
      <3> QED BY <3>1, <3>2, ZenonT(40)
    <2>2. e = h.configEpoch
      BY <1>1, <2>1, ZenonT(40) DEF Undisturbed, NoReturn
    <2> QED BY <1>2, <2>a, <2>1, <2>2, SMTT(30)
  <1>9. CASE ~(r.configEpoch >= h.configEpoch) /\ h.addr # r.addr
    <2>1. Install(s, other)
      BY <1>3, <1>9, ZenonT(40)
    <2>2. /\ Shape(s, newer) /\ newer.configEpoch = h.configEpoch
          /\ newer.current = seen.current
      BY <1>2, <1>6, ZenonT(40) DEF Shape, MasterRecord
    <2>3. \A l \in leaders : l.who = s => l.epoch <= newer.current
      BY <1>1, <1>5, <2>2, LeadersKnown, ZenonT(40)
    <2> HIDE DEF newer
    <2>4. Settled(s, other, leaders, configs)
      BY <1>1, <1>2, <2>2, <2>3, SwitchSettles, ZenonT(40)
    <2> QED BY <1>4, <2>1, <2>4, InstallConf, ZenonT(40)
  <1> QED BY <1>7, <1>8, <1>9, ZenonT(40)

\* Learning the replicas leaves the configurations alone.
LEMMA DiscoverConf ==
    ASSUME Inv, Conf, NEW s \in Sentinels, DiscoverSlaves(s)
    PROVE  Conf'
  <1> DEFINE r == sn[s]
             new == [r EXCEPT !.slaves = @ \cup {i \in Instances : inst[i] = r.addr}]
             q == sentinelFlushConfig(new)
  <1>1. /\ Good(s, r, votes, promoted) /\ Shape(s, r)
        /\ leaders \in SUBSET Leader /\ Settled(s, r, leaders, configs)
    BY DEF Inv, Tables, Good, Live, Elections, Conf
  <1>2. inst[r.addr] = None /\ Install(s, q) /\ UNCHANGED <<leaders, configs>>
    BY ZenonT(40) DEF DiscoverSlaves
  <1>3. \A l \in leaders : l.who = s => l.epoch <= r.current
    BY <1>1, LeadersKnown, ZenonT(40)
  <1> HIDE DEF r
  <1>4. inst[r.addr] # r.addr
    BY <1>1, <1>2, Fields, NoneApart, ZenonT(40)
  <1>5. /\ Shape(s, new) /\ new.current = r.current /\ new.configEpoch = r.configEpoch
        /\ new.failoverEpoch = r.failoverEpoch /\ new.addr = r.addr /\ new.saved = r.saved
        /\ new.state = r.state /\ new.promoted = r.promoted
    BY <1>1, <1>4, ZenonT(40) DEF Shape, MasterRecord
  <1> HIDE DEF new
  <1>6. Settled(s, new, leaders, configs)
    BY <1>1, <1>5, AlikeSettles, ZenonT(40)
  <1>7. Settled(s, q, leaders, configs)
    BY <1>3, <1>5, <1>6, FlushSettles, ZenonT(40) DEF Settled
  <1> QED BY <1>2, <1>7, InstallConf, ZenonT(40)

\* Seeing the progress of a replica leaves the configurations alone.
LEMMA ReconfSeenConf ==
    ASSUME Inv, Conf, NEW s \in Sentinels, NEW i \in Instances, ReconfSeen(s, i)
    PROVE  Conf'
  <1>1. Shape(s, sn[s]) /\ Settled(s, sn[s], leaders, configs)
    BY DEF Inv, Tables, Good, Live, Conf
  <1>2. PICK to \in {"inprog", "done"} : Install(s, [sn[s] EXCEPT !.reconf[i] = to])
    BY DEF ReconfSeen
  <1>3. UNCHANGED <<leaders, configs>>
    BY DEF ReconfSeen
  <1> DEFINE r == sn[s]
             q == [r EXCEPT !.reconf[i] = to]
  <1>4. Install(s, q)
    BY <1>2
  <1> HIDE DEF r
  <1>5. /\ q.saved = r.saved /\ q.configEpoch = r.configEpoch
        /\ q.failoverEpoch = r.failoverEpoch /\ q.addr = r.addr
        /\ q.state = r.state /\ q.promoted = r.promoted
    BY <1>1, ZenonT(40) DEF Shape, MasterRecord, r
  <1> HIDE DEF q
  <1>6. Settled(s, q, leaders, configs)
    BY <1>1, <1>5, AlikeSettles, ZenonT(40) DEF r
  <1> QED BY <1>3, <1>4, <1>6, InstallConf, ZenonT(40)

\* The configuration a promotion creates is the only one of its epoch: no other
\* Sentinel leads in it.
LEMMA PromotionConf ==
    ASSUME Inv, Undisturbed, Conf, NEW s \in Sentinels, NEW i \in Instances,
           PromotionSeen(s, i)
    PROVE  Conf'
  <1> DEFINE r == sn[s]
             epoch == r.failoverEpoch
             D == configs \cup {<<epoch, i>>}
             new == [r EXCEPT !.configEpoch = epoch, !.state = "reconf_slaves"]
             q == sentinelFlushConfig(new)
  <1>1. /\ Good(s, r, votes, promoted) /\ Shape(s, r) /\ leaders \in SUBSET Leader
        /\ Settled(s, r, leaders, configs) /\ DOMAIN sn = Sentinels
    BY DEF Inv, Tables, Good, Live, Elections, Conf
  <1>2. /\ r.promoted = i /\ r.state = "wait_promotion"
        /\ Install(s, q) /\ leaders' = leaders /\ configs' = D
    BY ZenonT(40) DEF PromotionSeen
  <1>3. \A l \in leaders : l.who = s => l.epoch <= r.current
    BY <1>1, LeadersKnown, ZenonT(40)
  <1>4. epoch \in Nat
    BY <1>1, Fields, ZenonT(40)
  <1>5. PICK k \in leaders : k.who = s /\ k.epoch = epoch
    BY <1>1, <1>2, ZenonT(40) DEF Settled, Configured, Leading
  <1>6. \A x \in configs : x[1] # epoch
    BY <1>1, <1>2, ZenonT(40) DEF Settled, Configured, Leading
  <1>7. r.configEpoch < epoch /\ <<r.configEpoch, r.addr>> \in configs
    BY <1>1, <1>2, ZenonT(40)
    DEF Settled, Configured, Leading, sentinelGetCurrentMasterAddress
  <1> HIDE DEF r, epoch
  <1>8. /\ Shape(s, new) /\ new.configEpoch = epoch /\ new.addr = r.addr
        /\ new.current = r.current /\ new.state = "reconf_slaves" /\ new.promoted = i
    BY <1>1, <1>2, <1>4, Zenon DEF Shape, MasterRecord, Chosen
  <1> HIDE DEF new, D
  <1>9. Configured(s, new, leaders, D)
    <2>1. sentinelGetCurrentMasterAddress(new) = i
      BY <1>8, NoneApart, ZenonT(40) DEF sentinelGetCurrentMasterAddress
    <2>2. \E e \in Nat : e < new.configEpoch /\ <<e, new.addr>> \in D
      BY <1>1, <1>7, <1>8, Fields, ZenonT(40) DEF D
    <2> QED BY <1>8, <2>1, <2>2, ZenonT(40) DEF Configured, D, Leading
  <1>10. Settled(s, q, leaders, D)
    BY <1>3, <1>8, <1>9, FlushSettles, ZenonT(40)
  <1>11. ASSUME NEW t \in Sentinels, t # s PROVE Settled(t, sn[t], leaders, D)
    <2>1. Settled(t, sn[t], leaders, configs) /\ configs \subseteq D
      BY ZenonT(40) DEF Conf, D
    <2>2. sn[t].state \in Leading => sn[t].failoverEpoch # epoch
      <3> SUFFICES ASSUME sn[t].state \in Leading, sn[t].failoverEpoch = epoch PROVE FALSE
        BY ZenonT(40)
      <3>1. PICK l \in leaders : l.who = t /\ l.epoch = epoch
        BY <2>1, ZenonT(40) DEF Settled, Configured
      <3>2. l.who = k.who
        BY <1>5, <3>1, InvOneLeader, ZenonT(40) DEF OneLeaderPerEpoch, Undisturbed
      <3> QED BY <1>5, <1>11, <3>1, <3>2, ZenonT(40)
    <2>3. \A x \in D : sn[t].state \in Leading => x[1] # sn[t].failoverEpoch
      BY <2>1, <2>2, SMTT(30) DEF Settled, Configured, D
    <2> QED BY <2>1, <2>3, ZenonT(40) DEF Settled, Configured, ConfigSaved
  <1> HIDE DEF q
  <1>12. \A t \in Sentinels : Settled(t, sn'[t], leaders', configs')
    BY <1>1, <1>2, <1>10, <1>11, ZenonT(40) DEF Install
  <1>13. \A h \in hellos' : <<h.configEpoch, h.addr>> \in configs'
    <2>1. hellos' \subseteq hellos \cup {sentinelSendHello(s, q)}
      BY <1>2, Published, ZenonT(40) DEF Install
    <2> QED BY <1>2, <1>10, <2>1, HelloConfig, ZenonT(40) DEF Conf, D
  <1>14. \A x, y \in configs' : x[1] = y[1] => x[2] = y[2]
    BY <1>2, <1>6, SMTT(30) DEF Conf, D
  <1>15. \A x \in configs' : x[1] = 0 \/ \E l \in leaders' : l.epoch = x[1]
    BY <1>2, <1>5, SMTT(30) DEF Conf, D
  <1> QED BY <1>12, <1>13, <1>14, <1>15, ZenonT(40) DEF Conf

\* Answering a question leaves the configurations alone.
LEMMA QuestionConf ==
    ASSUME Inv, Conf, NEW s \in Sentinels, NEW q \in asks, IsMasterDownByAddr(s, q)
    PROVE  Conf'
  <1> DEFINE r == sn[s]
             f == q.from
             known == r.addr = q.addr
             voting == known /\ q.runid # None
             after == IF voting THEN sentinelVoteLeader(r, q.epoch, q.runid) ELSE r
             leader == IF voting THEN after.leader ELSE None
             down == known /\ after.sdown
             told == sentinelReceiveIsMasterDownReply(sn[f], s, down, leader, after.leaderEpoch)
  <1>1. q \in Question /\ f # s /\ f \in Sentinels /\ s \in Others(f)
    BY ZenonT(40) DEF Inv, IsMasterDownByAddr, Question, Others
  <1>2. /\ Good(s, r, votes, promoted) /\ Good(f, sn[f], votes, promoted)
        /\ DOMAIN sn = Sentinels /\ votes \in SUBSET Votes /\ leaders \in SUBSET Leader
        /\ Settled(s, r, leaders, configs) /\ Settled(f, sn[f], leaders, configs)
    BY <1>1, ZenonT(40) DEF Inv, Tables, Ballots, Elections, Conf
  <1>3. /\ \/ sn' = [sn EXCEPT ![s] = after, ![f] = told]
           \/ sn' = [sn EXCEPT ![s] = after]
        /\ hellos' \subseteq hellos \cup {sentinelSendHello(s, after)}
        /\ UNCHANGED <<leaders, configs>>
    BY Published, ZenonT(40) DEF IsMasterDownByAddr
  <1>4. Settled(s, after, leaders, configs) /\ Shape(s, after)
    <2>1. CASE voting
      <3> DEFINE e == q.epoch
                 w == q.runid
      <3>1. e \in Nat /\ w \in Sentinels /\ after = sentinelVoteLeader(r, e, w)
        BY <1>1, <2>1, ZenonT(40) DEF Question
      <3> HIDE DEF e, w, r, voting
      <3>2. VotedFrom(s, r, after, w)
        BY <1>2, <3>1, VoteIs, ZenonT(40) DEF Good, Live
      <3>3. Settled(s, after, leaders, configs)
        BY <1>2, <3>1, VoteSettles, ZenonT(40)
      <3> QED BY <3>2, <3>3, ZenonT(40) DEF VotedFrom
    <2>2. CASE ~voting
      <3>1. after = r
        BY <2>2, ZenonT(40)
      <3> QED BY <1>2, <3>1, ZenonT(40) DEF Good, Live
    <2> QED BY <2>1, <2>2, ZenonT(40)
  <1>5. leader \in Sentinels \cup {None} /\ after.leaderEpoch \in Nat
    BY <1>4, Fields, ZenonT(40)
  <1>6. down \in BOOLEAN
    BY <1>4, ZenonT(40) DEF Shape, MasterRecord
  <1>7. Shape(f, sn[f])
    BY <1>2, ZenonT(40) DEF Good, Live
  <1> HIDE DEF leader, down, after, voting, known
  <1>8. Replied(f, sn[f], told, s, leader, after.leaderEpoch)
    BY <1>1, <1>5, <1>6, <1>7, ReplyIs, ZenonT(40)
  <1> HIDE DEF told, f
  <1>9. Settled(f, told, leaders, configs)
    BY <1>1, <1>2, <1>8, AlikeSettles, ZenonT(40) DEF Replied, SameVote
  <1>10. \A t \in Sentinels : Settled(t, sn'[t], leaders', configs')
    BY <1>1, <1>2, <1>3, <1>4, <1>9, ZenonT(40) DEF Conf
  <1>11. \A h \in hellos' : <<h.configEpoch, h.addr>> \in configs'
    BY <1>3, <1>4, HelloConfig, ZenonT(40) DEF Conf
  <1> QED BY <1>3, <1>10, <1>11, ZenonT(40) DEF Conf

\* A Sentinel comes back at the configuration in its file.
LEMMA RestartConf ==
    ASSUME Inv, Conf, NEW s \in Sentinels, Restart(s)
    PROVE  Conf'
  <1> DEFINE r == sn[s]
             f == r.saved
             q == [sentinelResetMaster(r) EXCEPT
                     !.addr = f.addr, !.slaves = (r.slaves \cup {r.addr}) \ {f.addr},
                     !.configEpoch = f.configEpoch,
                     !.leaderEpoch = f.leaderEpoch, !.failoverEpoch = 0,
                     !.current = Max({f.current, f.configEpoch}),
                     !.report = [t \in Others(s) |-> NoReport]]
  <1>1. Shape(s, r) /\ Settled(s, r, leaders, configs) /\ DOMAIN sn = Sentinels
    BY ZenonT(40) DEF Inv, Tables, Good, Live, Conf
  <1>2. sn' = [sn EXCEPT ![s] = q] /\ UNCHANGED <<leaders, configs>>
    BY DEF Restart
  <1>3. hellos' = Publish({sentinelSendHello(t, sn'[t]) : t \in Sentinels}, sn')
    BY ZenonT(40) DEF Restart
  <1>4. hellos' \subseteq {sentinelSendHello(t, sn'[t]) : t \in Sentinels}
    BY <1>3 DEF Publish
  <1> HIDE DEF r
  <1>5. q.addr = f.addr /\ q.configEpoch = f.configEpoch /\ q.state = "none" /\ q.saved = f
    BY <1>1, ZenonT(40) DEF Shape, MasterRecord, sentinelResetMaster
  <1> HIDE DEF q
  <1>6. Settled(s, q, leaders, configs)
    BY <1>1, <1>5, ZenonT(40)
    DEF Settled, Configured, ConfigSaved, sentinelGetCurrentMasterAddress,
                      Leading
  <1>7. \A t \in Sentinels : Settled(t, sn'[t], leaders', configs')
    BY <1>1, <1>2, <1>6, ZenonT(40) DEF Conf
  <1>8. \A h \in hellos' : <<h.configEpoch, h.addr>> \in configs'
    BY <1>4, <1>7, HelloConfig, ZenonT(40)
  <1> QED BY <1>2, <1>7, <1>8, ZenonT(40) DEF Conf

\* A Sentinel that becomes the leader has voted, and then selects a replica.
LEMMA LeadIs ==
    ASSUME NEW s \in Sentinels, NEW r, r.state = "wait_start",
           NEW V, NEW P, Good(s, r, V, P),
           NEW o \in sentinelFailoverStateMachine(s, r), o.leads
    PROVE  \E voted : \E w \in Sentinels :
             /\ voted = sentinelVoteLeader(r, r.failoverEpoch, w)
             /\ o.r = [voted EXCEPT !.state = "select_slave"]
  <1>1. PICK x \in sentinelGetLeader(s, r) :
          o \in IF x[2] = s \/ r.force
                  THEN {[Stay([x[1] EXCEPT !.state = "select_slave"]) EXCEPT !.leads = TRUE]}
                  ELSE {Stay(x[1]), Abort(x[1])}
    BY Zenon DEF sentinelFailoverStateMachine, sentinelFailoverWaitStart
  <1>2. x[2] = s \/ r.force
    BY <1>1, StayIs, ZenonT(40)
  <1>3. o.r = [x[1] EXCEPT !.state = "select_slave"]
    BY <1>1, <1>2, ZenonT(40) DEF Stay
  <1>4. \E w \in Sentinels : x[1] = sentinelVoteLeader(r, r.failoverEpoch, w)
    BY GetLeaderIs, ZenonT(40)
  <1> QED BY <1>3, <1>4, ZenonT(40)

\* A Sentinel that begins to lead does so in an epoch without a configuration.
LEMMA LeadSettles ==
    ASSUME NEW s \in Sentinels, NEW r, r.state = "wait_start",
           NEW V \in SUBSET Votes, NEW P, Good(s, r, V, P),
           NEW L \in SUBSET Leader, NEW C, Settled(s, r, L, C),
           NEW o \in sentinelFailoverStateMachine(s, r), o.leads,
           r.current = r.failoverEpoch, \A x \in C : x[1] # r.failoverEpoch,
           NEW l, l.who = s, l.epoch = r.failoverEpoch
    PROVE  Settled(s, o.r, L \cup {l}, C)
  <1>1. PICK voted : \E w \in Sentinels :
          /\ voted = sentinelVoteLeader(r, r.failoverEpoch, w)
          /\ o.r = [voted EXCEPT !.state = "select_slave"]
    BY LeadIs
  <1>2. PICK w \in Sentinels : voted = sentinelVoteLeader(r, r.failoverEpoch, w)
    BY <1>1, ZenonT(40)
  <1> DEFINE epoch == r.failoverEpoch
             q == o.r
  <1>3. epoch \in Nat /\ Shape(s, r)
    BY Fields DEF Good, Live
  <1>4. voted = sentinelVoteLeader(r, epoch, w) /\ q = [voted EXCEPT !.state = "select_slave"]
        /\ r.current = epoch /\ l.epoch = epoch /\ epoch = r.failoverEpoch
        /\ \A x \in C : x[1] # epoch
    BY <1>1, <1>2
  <1> HIDE DEF epoch, q
  <1>5. VotedFrom(s, r, voted, w)
    BY <1>3, <1>4, VoteIs, ZenonT(40)
  <1>6. Settled(s, voted, L, C) /\ voted.saved.current >= epoch
    BY <1>3, <1>4, VoteSettles, VoteKeeps, ZenonT(40)
  <1>7. /\ Shape(s, voted) /\ Alike(r, voted)
    BY <1>5, ZenonT(40) DEF VotedFrom
  <1>8. /\ q.saved = voted.saved /\ q.configEpoch = voted.configEpoch
        /\ q.failoverEpoch = voted.failoverEpoch /\ q.addr = voted.addr
        /\ q.state = "select_slave" /\ q.promoted = voted.promoted
    BY <1>4, <1>7, ZenonT(40) DEF Shape, MasterRecord
  <1>9. voted.state = "wait_start" /\ voted.failoverEpoch = epoch
    BY <1>4, <1>7, ZenonT(40) DEF Alike
  <1>10. ConfigSaved(s, q, L \cup {l}, C)
    BY <1>4, <1>6, <1>8, ZenonT(40) DEF Settled, ConfigSaved
  <1>11. sentinelGetCurrentMasterAddress(q) = sentinelGetCurrentMasterAddress(voted)
    BY <1>8, <1>9, ZenonT(40) DEF sentinelGetCurrentMasterAddress
  <1>12. Configured(s, q, L \cup {l}, C)
    BY <1>4, <1>6, <1>8, <1>9, <1>11, ZenonT(40) DEF Settled, Configured, Leading
  <1> QED BY <1>10, <1>12, ZenonT(40) DEF Settled, q

\* The timer keeps the configurations: a new leader's epoch is new.
LEMMA TimerConf ==
    ASSUME Inv, Inv', Undisturbed', Conf, NEW s \in Sentinels, sentinelTimer(s)
    PROVE  Conf'
  <1>1. PICK begun, o, silent : Timed(s, begun, o, silent)
    BY TimerIs, ZenonT(40)
  <1> DEFINE q == Forget(o.r, silent)
             l == LeaderOf(s, begun)
  <1>2. /\ votes \in SUBSET Votes /\ leaders \in SUBSET Leader /\ DOMAIN sn = Sentinels
        /\ Good(s, begun, votes, promoted) /\ Settled(s, begun, leaders, configs)
        /\ o \in sentinelFailoverStateMachine(s, begun)
    BY <1>1, ZenonT(40) DEF Inv, Tables, Ballots, Elections, Timed, Conf
  <1>3. Outcome(s, begun, o, votes, promoted) /\ Calm(s, begun, o, leaders, configs)
    BY <1>2, StateMachineOutcome, ZenonT(40)
  <1>4. Shape(s, o.r)
    BY <1>3, ZenonT(40) DEF Outcome, Good, Live
  <1>5. /\ Install(s, q) /\ configs' = configs
        /\ leaders' = leaders \cup {k \in {l} : o.leads}
    BY <1>1, ZenonT(40) DEF Timed
  <1>6. CASE ~o.leads
    <2>1. Settled(s, o.r, leaders, configs)
      BY <1>2, <1>3, <1>6, ZenonT(40) DEF Calm
    <2>2. Settled(s, q, leaders, configs)
      BY <1>4, <2>1, ForgetSettles, ZenonT(40)
    <2>3. leaders' = leaders
      BY <1>5, <1>6, ZenonT(40)
    <2> HIDE DEF q
    <2> QED BY <1>5, <2>2, <2>3, InstallConf, ZenonT(40)
  <1>7. CASE o.leads
    <2>1. l.who = s /\ l.epoch = begun.failoverEpoch /\ l.current = begun.current
      BY ZenonT(40) DEF LeaderOf
    <2> HIDE DEF l
    <2>2. leaders' = leaders \cup {l}
      BY <1>5, <1>7, ZenonT(40)
    <2>3. begun.state = "wait_start"
      BY <1>3, <1>7, ZenonT(40) DEF Outcome
    <2>4. begun.current = begun.failoverEpoch
      BY <2>1, <2>2, ZenonT(40) DEF Undisturbed, Regular
    <2>5. ASSUME NEW x \in configs, x[1] = begun.failoverEpoch PROVE FALSE
      <3>a. begun.configEpoch \in Nat /\ begun.failoverEpoch \in Nat
        BY <1>2, Fields, ZenonT(40) DEF Good, Live
      <3>b. begun.configEpoch < begun.failoverEpoch
        BY <1>2, <2>3, ZenonT(40) DEF Settled, Configured
      <3>1. x[1] # 0
        BY <2>5, <3>a, <3>b, SMTT(30)
      <3>2. PICK k \in leaders : k.epoch = x[1]
        BY <3>1 DEF Conf
      <3>3. OneLeaderPerEpoch'
        BY InvOneLeader, PTL
      <3>4. k.who = s
        BY <2>1, <2>2, <2>5, <3>2, <3>3, ZenonT(40)
        DEF OneLeaderPerEpoch, Undisturbed
      <3>5. k.epoch < begun.failoverEpoch
        BY <1>2, <2>3, <3>4, ZenonT(40) DEF Settled, Configured
      <3> QED BY <2>5, <3>2, <3>5, <3>a, SMTT(30)
    <2>6. Settled(s, o.r, leaders \cup {l}, configs)
      BY <1>2, <1>7, <2>1, <2>3, <2>4, <2>5, LeadSettles, ZenonT(40)
    <2>7. Settled(s, q, leaders \cup {l}, configs)
      BY <1>4, <2>6, ForgetSettles, ZenonT(40)
    <2>8. ASSUME NEW t \in Sentinels, t # s
          PROVE  Settled(t, sn[t], leaders \cup {l}, configs)
      <3>1. Settled(t, sn[t], leaders, configs)
        BY ZenonT(40) DEF Conf
      <3> QED BY <2>1, <2>8, <3>1, ZenonT(40) DEF Settled, Configured, ConfigSaved
    <2> HIDE DEF q
    <2>9. \A t \in Sentinels : Settled(t, sn'[t], leaders', configs')
      BY <1>2, <1>5, <2>2, <2>7, <2>8, ZenonT(40) DEF Install
    <2>10. \A h \in hellos' : <<h.configEpoch, h.addr>> \in configs'
      <3>1. hellos' \subseteq hellos \cup {sentinelSendHello(s, q)}
        BY <1>5, Published, ZenonT(40) DEF Install
      <3> QED BY <1>5, <2>7, <3>1, HelloConfig, ZenonT(40) DEF Conf
    <2> QED BY <1>5, <2>2, <2>9, <2>10, Zenon DEF Conf
  <1> QED BY <1>6, <1>7, ZenonT(40)

\* The inductive invariant behind ConfigNamesOneMaster.
CInv == Inv /\ (Undisturbed => Conf)

\* At the start there is one configuration, of epoch 0.
LEMMA InitConf == Init => Conf
  <1> SUFFICES ASSUME Init PROVE Conf
    OBVIOUS
  <1>1. leaders = {} /\ hellos = {} /\ configs = {<<0, FirstMaster>>}
    BY ZenonT(40) DEF Init
  <1>2. ASSUME NEW s \in Sentinels PROVE Settled(s, sn[s], leaders, configs)
    <2>1. /\ sn[s].configEpoch = 0 /\ sn[s].addr = FirstMaster /\ sn[s].state = "none"
          /\ sn[s].saved.configEpoch = 0 /\ sn[s].saved.addr = FirstMaster
      BY ZenonT(40) DEF Init
    <2> QED BY <1>1, <2>1, ZenonT(40) DEF Settled, Configured, ConfigSaved, Leading,
                              sentinelGetCurrentMasterAddress
  <1> QED BY <1>1, <1>2, SMTT(30) DEF Conf

\* Leaders and configurations are never forgotten.
LEMMA HistoryGrows ==
    ASSUME Inv, [Next]_vars
    PROVE  leaders \subseteq leaders' /\ configs \subseteq configs'
  <1>1. CASE UNCHANGED vars
    BY <1>1, ZenonT(40) DEF vars
  <1>2. ASSUME NEW s \in Sentinels, sentinelTimer(s)
        PROVE  leaders \subseteq leaders' /\ configs' = configs
    <2>1. PICK begun, o, silent : Timed(s, begun, o, silent)
      BY <1>2, TimerIs, ZenonT(40)
    <2> QED BY <2>1, ZenonT(40) DEF Timed
  <1>3. ASSUME NEW s \in Sentinels,
               \/ sentinelFailoverCommand(s) \/ DiscoverSlaves(s) \/ Restart(s)
               \/ \E q \in asks : IsMasterDownByAddr(s, q)
               \/ \E h \in hellos : sentinelProcessHelloMessage(s, h)
               \/ \E i \in Instances : FixSlave(s, i) \/ ReconfSeen(s, i)
        PROVE  leaders' = leaders /\ configs' = configs
    <2>1. CASE sentinelFailoverCommand(s) \/ DiscoverSlaves(s) \/ Restart(s)
      BY <2>1, ZenonT(40) DEF sentinelFailoverCommand, DiscoverSlaves, Restart
    <2>2. ASSUME NEW q \in asks, IsMasterDownByAddr(s, q)
          PROVE  leaders' = leaders /\ configs' = configs
      BY <2>2 DEF IsMasterDownByAddr
    <2>3. ASSUME NEW h \in hellos, sentinelProcessHelloMessage(s, h)
          PROVE  leaders' = leaders /\ configs' = configs
      BY <2>3, ZenonT(40) DEF sentinelProcessHelloMessage
    <2>4. ASSUME NEW i \in Instances, FixSlave(s, i) \/ ReconfSeen(s, i)
          PROVE  leaders' = leaders /\ configs' = configs
      BY <2>4 DEF FixSlave, ReconfSeen
    <2> QED BY <1>3, <2>1, <2>2, <2>3, <2>4, ZenonT(40)
  <1>4. ASSUME NEW s \in Sentinels, NEW i \in Instances, PromotionSeen(s, i)
        PROVE  leaders' = leaders /\ configs \subseteq configs'
    BY <1>4, ZenonT(40) DEF PromotionSeen
  <1>5. ASSUME NEW c \in slaveofs, ApplySlaveof(c)
        PROVE  leaders' = leaders /\ configs' = configs
    BY <1>5, ZenonT(40) DEF ApplySlaveof
  <1> QED BY <1>1, <1>2, <1>3, <1>4, <1>5, ZenonT(40) DEF Next

\* Every step keeps the configurations.
LEMMA NextConf == CInv /\ [Next]_vars => CInv'
  <1> SUFFICES ASSUME CInv, [Next]_vars PROVE CInv'
    OBVIOUS
  <1>1. Inv /\ Inv'
    BY NextInv, ZenonT(40) DEF CInv
  <1> SUFFICES ASSUME Undisturbed' PROVE Conf'
    BY <1>1, ZenonT(40) DEF CInv
  <1>2. Undisturbed
    BY <1>1, HistoryGrows, ZenonT(40) DEF Undisturbed, NoReturn, Regular
  <1>3. Conf
    BY <1>2, ZenonT(40) DEF CInv
  <1>4. CASE UNCHANGED vars
    BY <1>3, <1>4, ZenonT(40) DEF vars, Conf
  <1>5. ASSUME NEW s \in Sentinels, sentinelTimer(s) PROVE Conf'
    BY <1>1, <1>3, <1>5, TimerConf, ZenonT(40)
  <1>6. ASSUME NEW s \in Sentinels, sentinelFailoverCommand(s) PROVE Conf'
    BY <1>1, <1>3, <1>6, FailoverCommandConf, ZenonT(40)
  <1>7. ASSUME NEW s \in Sentinels, NEW q \in asks, IsMasterDownByAddr(s, q) PROVE Conf'
    BY <1>1, <1>3, <1>7, QuestionConf, ZenonT(40)
  <1>8. ASSUME NEW s \in Sentinels, NEW h \in hellos, sentinelProcessHelloMessage(s, h)
        PROVE  Conf'
    BY <1>1, <1>2, <1>3, <1>8, HelloConf, ZenonT(40)
  <1>9. ASSUME NEW s \in Sentinels, NEW i \in Instances, PromotionSeen(s, i) PROVE Conf'
    BY <1>1, <1>2, <1>3, <1>9, PromotionConf, ZenonT(40)
  <1>10. ASSUME NEW s \in Sentinels, NEW i \in Instances, FixSlave(s, i) PROVE Conf'
    BY <1>3, <1>10, ZenonT(40) DEF FixSlave, Conf
  <1>11. ASSUME NEW s \in Sentinels, NEW i \in Instances, ReconfSeen(s, i) PROVE Conf'
    BY <1>1, <1>3, <1>11, ReconfSeenConf, ZenonT(40)
  <1>12. ASSUME NEW s \in Sentinels, DiscoverSlaves(s) PROVE Conf'
    BY <1>1, <1>3, <1>12, DiscoverConf, ZenonT(40)
  <1>13. ASSUME NEW s \in Sentinels, Restart(s) PROVE Conf'
    BY <1>1, <1>3, <1>13, RestartConf, ZenonT(40)
  <1>14. ASSUME NEW c \in slaveofs, ApplySlaveof(c) PROVE Conf'
    BY <1>3, <1>14, ZenonT(40) DEF ApplySlaveof, Conf
  <1> QED BY <1>4, <1>5, <1>6, <1>7, <1>8, <1>9, <1>10, <1>11, <1>12, <1>13, <1>14, ZenonT(40)
          DEF Next

\* Two Sentinels at the same configuration epoch are at the same configuration.
LEMMA ConfNames == CInv => ConfigNamesOneMaster
  <1> SUFFICES ASSUME CInv, Undisturbed, NEW s \in Sentinels, NEW t \in Sentinels,
                      sn[s].configEpoch = sn[t].configEpoch
               PROVE  sentinelGetCurrentMasterAddress(sn[s])
                        = sentinelGetCurrentMasterAddress(sn[t])
    BY ZenonT(40) DEF ConfigNamesOneMaster, Undisturbed
  <1> DEFINE a == sentinelGetCurrentMasterAddress(sn[s])
             b == sentinelGetCurrentMasterAddress(sn[t])
             e == sn[s].configEpoch
  <1>1. <<e, a>> \in configs /\ <<e, b>> \in configs
    BY ZenonT(40) DEF CInv, Conf, Settled, Configured
  <1> HIDE DEF a, b, e
  <1>2. <<e, a>>[2] = <<e, b>>[2]
    BY <1>1, ZenonT(40) DEF CInv, Conf
  <1>3. a = b
    BY <1>2
  <1> QED BY <1>3, ZenonT(40) DEF a, b

\* What sentinelGetCurrentMasterAddress returns is a function of the
\* configuration epoch, as long as no leader was elected with the votes of another
\* epoch or by command and no old master is promoted again.
THEOREM OneMasterPerConfig == Spec => []ConfigNamesOneMaster
  <1>1. Init => CInv
    BY InitInv, InitConf DEF CInv
  <1> QED BY <1>1, NextConf, ConfNames, PTL DEF Spec

=============================================================================
