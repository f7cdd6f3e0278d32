-------------------------- MODULE RedisReplication --------------------------
(***************************************************************************)
(* Redis replication (redis-stable/src/replication.c): partial and full    *)
(* resynchronisation with PSYNC, the backlog and the two replication ids,   *)
(* chained replicas, role changes, planned failover, restart from an RDB.  *)
(*                                                                         *)
(* A dataset is the sequence of the writes that made it, each with the     *)
(* database it went to.  The stream has one unit of offset per command:    *)
(* <<"select", db>> or <<"write", id>>.  sv[n] is the state of server n and *)
(* link[r] the connection of replica r with its master, both ends of it:   *)
(* the master's replstate, the reply that is on its way, and what the      *)
(* master has put into the replica's output and the replica has not yet    *)
(* executed.  A link that breaks breaks for both ends at once.  The C      *)
(* functions are operators on the whole state w = [sv, link, fresh].       *)
(***************************************************************************)
EXTENDS Integers, Sequences, FiniteSets, SequencesExt

CONSTANTS
    Servers,
    Dbs,         \* the database numbers
    BacklogSize, \* repl-backlog-size, in commands
    None,
    Scenarios    \* the bounds of a behaviour, and the servers that replicate at first

ASSUME ReplicationConstants ==
    /\ IsFiniteSet(Servers) /\ None \notin Servers
    /\ 0 \in Dbs /\ BacklogSize \in Nat

VARIABLES
    sv,     \* the servers
    link,   \* the replication links
    fresh,  \* the next replication id that was never used, 0 being no id at all
    writes, \* the number of writes made so far
    budget  \* what is left of the bounds

vars == <<sv, link, fresh, writes, budget>>

World == [sv |-> sv, link |-> link, fresh |-> fresh]

NoLink == [to |-> None]

\* The connections with n as the master (server.slaves), and those that are fed.
Slaves(w, n) == {r \in Servers : w.link[r].to = n}
Fed(w, n) == {r \in Slaves(w, n) : w.link[r].phase # "wait_start"}

Connected(w, n) == w.link[n].to # None /\ w.link[n].phase = "online"

NoBacklog == [on |-> FALSE, buf |-> <<>>]
EmptyBacklog == [on |-> TRUE, buf |-> <<>>]

\* The offset of the first command in the backlog of server s.
BacklogOffset(s) == s.off - Len(s.backlog.buf) + 1

-----------------------------------------------------------------------------
(* Ids *)

changeReplicationId(w, n) ==
    [w EXCEPT !.sv[n].id = w.fresh, !.fresh = @ + 1]

clearReplicationId2(w, n) ==
    [w EXCEPT !.sv[n].id2 = 0, !.sv[n].second = -1]

\* Mutant: the promoted replica goes on under the id of its old master.
PromoteKeepsId(w, n) ==
    [w EXCEPT !.sv[n].id2 = w.sv[n].id, !.sv[n].second = w.sv[n].off + 1]

shiftReplicationId(w, n) ==
    changeReplicationId([w EXCEPT !.sv[n].id2 = w.sv[n].id,
                                  !.sv[n].second = w.sv[n].off + 1], n)

-----------------------------------------------------------------------------
(* The stream of a master, and of a replica with replicas of its own *)

(***************************************************************************)
(* The backlog is cut to one block, here one command, more than its size,  *)
(* but not below what a replica still has to be sent.                      *)
(***************************************************************************)
incrementalTrimReplicationBacklog(w, n) ==
    LET b == w.sv[n].backlog.buf
        unsent == {Len(w.link[r].pending) : r \in Fed(w, n)}
        keep == CHOOSE k \in unsent \cup {BacklogSize + 1} :
                  \A x \in unsent \cup {BacklogSize + 1} : x <= k
    IN  IF Len(b) <= keep THEN w
        ELSE [w EXCEPT !.sv[n].backlog.buf = SubSeq(b, Len(b) - keep + 1, Len(b))]

feedReplicationBuffer(w, n, e) ==
    incrementalTrimReplicationBacklog(
        [w EXCEPT !.sv[n].off = @ + 1, !.sv[n].backlog.buf = Append(@, e),
                  !.link = [r \in Servers |->
                      IF r \in Fed(w, n) THEN [w.link[r] EXCEPT !.pending = Append(@, e)]
                      ELSE w.link[r]]], n)

\* Without a backlog there are no replicas, and no offset is kept.
replicationFeedSlaves(w, n, db, id) ==
    LET selected == IF w.sv[n].seldb = db THEN w
                    ELSE [feedReplicationBuffer(w, n, <<"select", db>>) EXCEPT !.sv[n].seldb = db]
    IN  IF ~w.sv[n].backlog.on THEN w
        ELSE feedReplicationBuffer(selected, n, <<"write", id>>)

-----------------------------------------------------------------------------
(* Links *)

\* r loses its link: a working one leaves a cached master for a partial resync.
DropLink(w, r) ==
    [w EXCEPT !.link[r] = NoLink,
              !.sv[r].cached = IF ~Connected(w, r) THEN @
                               ELSE [on |-> TRUE, id |-> w.sv[r].id, off |-> w.sv[r].off,
                                     db |-> w.sv[r].mdb]]

disconnectSlaves(w, n) ==
    LET gone == Slaves(w, n)
    IN  [w EXCEPT !.link = [r \in Servers |-> IF r \in gone THEN NoLink ELSE w.link[r]],
                  !.sv = [r \in Servers |-> IF r \in gone THEN DropLink(w, r).sv[r] ELSE w.sv[r]]]

NoCached == [on |-> FALSE, id |-> 0, off |-> -2, db |-> 0]

replicationDiscardCachedMaster(w, n) == [w EXCEPT !.sv[n].cached = NoCached]

\* A master that becomes a replica asks for what follows its own stream.
replicationCacheMasterUsingMyself(w, n) ==
    [w EXCEPT !.sv[n].cached = [on |-> TRUE, id |-> w.sv[n].id, off |-> w.sv[n].off, db |-> 0]]

replicationSetMaster(w, n, m) ==
    LET cut == [DropLink(w, n) EXCEPT !.sv[n].master = m]
    IN  IF w.sv[n].master = None
          THEN replicationCacheMasterUsingMyself(replicationDiscardCachedMaster(cut, n), n)
          ELSE cut

replicationUnsetMaster(w, n) ==
    LET cut == replicationDiscardCachedMaster(DropLink(w, n), n)
        new == shiftReplicationId([cut EXCEPT !.sv[n].master = None], n)
    IN  [disconnectSlaves(new, n) EXCEPT !.sv[n].seldb = None]

-----------------------------------------------------------------------------
(* Snapshots *)

\* The replication information an RDB file gets; on is FALSE when it gets none.
rdbPopulateSaveInfo(w, n) ==
    LET s == w.sv[n]
        info(db) == [on |-> TRUE, id |-> s.id, off |-> s.off, db |-> db]
    IN  IF s.master = None /\ s.backlog.on THEN info(IF s.seldb = None THEN 0 ELSE s.seldb)
        ELSE IF Connected(w, n) THEN info(s.mdb)
        ELSE IF s.cached.on THEN info(s.cached.db)
        ELSE [on |-> FALSE, id |-> 0, off |-> -1, db |-> 0]

Snapshot(w, n) == [data |-> w.sv[n].data, info |-> rdbPopulateSaveInfo(w, n)]

\* From now on r is fed; the next write selects its database.
replicationSetupSlaveForFullResync(w, n, r, snap, pending) ==
    [w EXCEPT !.link[r] = [@ EXCEPT !.phase = "wait_end", !.snap = snap, !.pending = pending],
              !.sv[n].seldb = None]

SetupAll(w, n, waiting, snap) ==
    FoldSet(LAMBDA r, x : replicationSetupSlaveForFullResync(x, n, r, snap, <<>>), w, waiting)

\* All replicas that wait for a BGSAVE share it; without replication information
\* none can be made, and they are dropped.
startBgsaveForReplication(w, n) ==
    LET waiting == Slaves(w, n) \ Fed(w, n)
        snap == Snapshot(w, n)
    IN  IF snap.info.on
          THEN SetupAll([w EXCEPT !.sv[n].child = snap], n, waiting, snap)
          ELSE [w EXCEPT !.link = [r \in Servers |-> IF r \in waiting THEN NoLink ELSE w.link[r]]]

NoChild == [data |-> <<>>, info |-> None]

createReplicationBacklogIfNeeded(w, n) ==
    IF Cardinality(Slaves(w, n)) = 1 /\ ~w.sv[n].backlog.on
      THEN [clearReplicationId2(changeReplicationId(w, n), n)
              EXCEPT !.sv[n].backlog = EmptyBacklog]
      ELSE w

-----------------------------------------------------------------------------
(* PSYNC *)

\* Can server s continue the stream id from this offset on?
masterTryPartialResynchronization(s, id, from) ==
    /\ id = s.id \/ (id = s.id2 /\ from <= s.second)
    /\ s.backlog.on
    /\ BacklogOffset(s) <= from /\ from <= BacklogOffset(s) + Len(s.backlog.buf)

\* What replica r asks for: nothing has id 0, which stands for "?".
AskedId(s) == IF s.cached.on THEN s.cached.id ELSE 0
AskedOffset(s) == IF s.cached.on THEN s.cached.off + 1 ELSE -1

\* Mutant: the replica joins a save in progress without what was buffered since.
AttachWithoutBuffer(w, n, r) ==
    LET same == {x \in Slaves(w, n) : w.link[x].phase = "wait_end"}
    IN  IF w.sv[n].child = NoChild THEN startBgsaveForReplication(w, n)
        ELSE IF same = {} THEN w
        ELSE LET x == CHOOSE y \in same : TRUE
             IN  replicationSetupSlaveForFullResync(w, n, r, w.link[x].snap, <<>>)

(***************************************************************************)
(* A full resync of r: with a save in progress that another replica waits  *)
(* for, r shares it and copies that replica's output buffer; with any      *)
(* other it waits for the next; without one a save starts.                 *)
(***************************************************************************)
Attach(w, n, r) ==
    LET same == {x \in Slaves(w, n) : w.link[x].phase = "wait_end"}
    IN  IF w.sv[n].child = NoChild THEN startBgsaveForReplication(w, n)
        ELSE IF same = {} THEN w
        ELSE LET x == CHOOSE y \in same : TRUE
             IN  replicationSetupSlaveForFullResync(w, n, r, w.link[x].snap, w.link[x].pending)

NewLink(m, phase, pending) ==
    [to |-> m, phase |-> phase, id |-> 0, snap |-> NoChild, pending |-> pending, ack |-> 0]

\* The commands that follow this offset.
addReplyReplicationBacklog(s, from) ==
    SubSeq(s.backlog.buf, from - BacklogOffset(s) + 1, Len(s.backlog.buf))

SyncOk(w, n, r) ==
    LET m == w.sv[n]
        id == AskedId(w.sv[r])
        from == AskedOffset(w.sv[r])
        rest == addReplyReplicationBacklog(m, from)
        added == [w EXCEPT !.link[r] = NewLink(n, "wait_start", <<>>)]
    IN  IF masterTryPartialResynchronization(m, id, from)
          THEN [w EXCEPT !.link[r] = [NewLink(n, "continue", rest) EXCEPT !.id = m.id]]
          ELSE Attach(createReplicationBacklogIfNeeded(added, n), n, r)

clearFailoverState(w, n) ==
    [w EXCEPT !.sv[n].failover = "no", !.sv[n].target = None, !.sv[n].force = FALSE]

\* The target that rejects the failover leaves n the master it was.
abortFailover(w, n) ==
    clearFailoverState(IF w.sv[n].failover = "in_progress" THEN replicationUnsetMaster(w, n) ELSE w, n)

(***************************************************************************)
(* syncCommand at n for r.  A PSYNC that asks for a failover makes n a     *)
(* master first, if it shares r's id.  A server that fails over, or has no *)
(* master link itself, lets nobody synchronise.                            *)
(***************************************************************************)
syncCommand(w, n, r) ==
    LET asks == w.sv[r].failover = "in_progress"
        accepts == w.sv[n].master # None /\ AskedId(w.sv[r]) = w.sv[n].id
        now == IF asks /\ accepts THEN replicationUnsetMaster(w, n) ELSE w
        busy == \/ asks /\ ~accepts
                \/ now.sv[n].failover # "no"
                \/ now.sv[n].master # None /\ ~Connected(now, n)
    IN  IF busy THEN abortFailover(now, r) ELSE SyncOk(now, n, r)

-----------------------------------------------------------------------------
Server(n, m) ==
    [master |-> m, id |-> 1, id2 |-> 0, second |-> -1, off |-> 0, data |-> <<>>,
     backlog |-> EmptyBacklog, seldb |-> None, mdb |-> 0, cached |-> NoCached, child |-> NoChild,
     rdb |-> [data |-> <<>>, info |-> [on |-> TRUE, id |-> 1, off |-> 0, db |-> 0]],
     failover |-> "no", target |-> None, force |-> FALSE]

\* A server that was just started, with an id of its own.
Alone(id) ==
    [Server(None, None) EXCEPT !.id = id, !.backlog = NoBacklog, !.rdb = NoChild]

\* The servers of the first topology have synchronised and nothing was written yet.
Init ==
    /\ budget \in Scenarios
    /\ sv = [n \in Servers |-> IF n \in DOMAIN budget.tree THEN Server(n, budget.tree[n])
                               ELSE Alone(2)]
    /\ link = [n \in Servers |-> IF n \in DOMAIN budget.tree /\ budget.tree[n] # None
                                   THEN NewLink(budget.tree[n], "online", <<>>) ELSE NoLink]
    /\ fresh = 3 /\ writes = 0

Become(new) == \E w \in {new} : sv' = w.sv /\ link' = w.link /\ fresh' = w.fresh

Spend(what) == budget[what] > 0 /\ budget' = [budget EXCEPT ![what] = @ - 1]

\* A client's write; a failover that waits for its replica pauses clients.
Write(n, db) ==
    /\ sv[n].master = None /\ sv[n].failover = "no"
    /\ Spend("writes")
    /\ writes' = writes + 1
    /\ Become(replicationFeedSlaves(
                [World EXCEPT !.sv[n].data = Append(@, <<writes + 1, db>>)], n, db, writes + 1))

\* A replica passes a command of its master on as it is.
replicationFeedStreamFromMasterStream(w, r, e) == feedReplicationBuffer(w, r, e)

ExecuteFromMaster(r) ==
    /\ Connected(World, r) /\ link[r].pending # <<>>
    /\ LET e == Head(link[r].pending)
           done == IF e[1] = "select"
                     THEN [World EXCEPT !.sv[r].mdb = e[2]]
                     ELSE [World EXCEPT !.sv[r].data = Append(@, <<e[2], sv[r].mdb>>)]
       IN  Become(replicationFeedStreamFromMasterStream([done EXCEPT !.link[r].pending = Tail(@)], r, e))
    /\ UNCHANGED <<writes, budget>>

replicaofCommand(n, m) ==
    /\ sv[n].failover = "no" /\ m # n /\ sv[n].master # m
    /\ Spend("roles")
    /\ Become(replicationSetMaster(World, n, m))
    /\ UNCHANGED writes

replicaofNoOne(n) ==
    /\ sv[n].failover = "no" /\ sv[n].master # None
    /\ Spend("roles")
    /\ Become(replicationUnsetMaster(World, n))
    /\ UNCHANGED writes

\* A replica without a link connects and sends PSYNC, and its master handles it.
Psync(r) ==
    /\ sv[r].master # None /\ link[r].to = None
    /\ Become(syncCommand(World, sv[r].master, r))
    /\ UNCHANGED <<writes, budget>>

\* The cached master is the master again.
replicationResurrectCachedMaster(w, r) ==
    [w EXCEPT !.sv[r].mdb = w.sv[r].cached.db, !.sv[r].cached = NoCached, !.link[r].phase = "online"]

\* slaveTryPartialResynchronization reads +CONTINUE: a new id makes the old one
\* the second, and the replica's replicas must hear of it.
ReadContinue(r) ==
    /\ link[r].to # None /\ link[r].phase = "continue"
    /\ LET new == link[r].id
           shifted == IF new = sv[r].cached.id THEN World
                      ELSE disconnectSlaves(
                             [World EXCEPT !.sv[r].id2 = sv[r].cached.id,
                                           !.sv[r].second = sv[r].off + 1, !.sv[r].id = new], r)
           up == [replicationResurrectCachedMaster(shifted, r) EXCEPT !.sv[r].backlog.on = TRUE]
       IN  Become(IF sv[r].failover = "in_progress" THEN clearFailoverState(up, r) ELSE up)
    /\ UNCHANGED <<writes, budget>>

\* It reads +FULLRESYNC: a failover in progress is over.
ReadFullresync(r) ==
    /\ link[r].to # None /\ link[r].phase \in {"wait_end", "send"}
    /\ sv[r].failover = "in_progress"
    /\ Become(clearFailoverState(World, r))
    /\ UNCHANGED <<writes, budget>>

\* Mutant: only a master saves for the replicas that wait.
ForkOnMasterOnly(n) ==
    /\ sv[n].master = None
    /\ sv[n].child = NoChild /\ Slaves(World, n) \ Fed(World, n) # {}
    /\ Become(startBgsaveForReplication(World, n))
    /\ UNCHANGED <<writes, budget>>

replicationStartPendingFork(n) ==
    /\ sv[n].child = NoChild /\ Slaves(World, n) \ Fed(World, n) # {}
    /\ Become(startBgsaveForReplication(World, n))
    /\ UNCHANGED <<writes, budget>>

\* A save for persistence.
Bgsave(n) ==
    /\ sv[n].child = NoChild
    /\ Spend("saves")
    /\ Become([World EXCEPT !.sv[n].child = Snapshot(World, n)])
    /\ UNCHANGED writes

\* The child has ended, and the replicas that waited for it are sent the file.
updateSlavesWaitingBgsave(n) ==
    /\ sv[n].child # NoChild
    /\ LET waiting == {r \in Slaves(World, n) : link[r].phase = "wait_end"}
       IN  \/ /\ Become([World EXCEPT
                    !.sv[n].rdb = sv[n].child, !.sv[n].child = NoChild,
                    !.link = [r \in Servers |-> IF r \in waiting
                                THEN [link[r] EXCEPT !.phase = "send"] ELSE link[r]]])
              /\ UNCHANGED budget
           \/ /\ Spend("errors")
              /\ Become([World EXCEPT !.sv[n].child = NoChild,
                    !.link = [r \in Servers |-> IF r \in waiting THEN NoLink ELSE link[r]]])
    /\ UNCHANGED writes

\* Before the new data is loaded nobody may resynchronise with the old.
replicationAttachToNewMaster(w, r) ==
    [disconnectSlaves(replicationDiscardCachedMaster(w, r), r) EXCEPT !.sv[r].backlog = NoBacklog]

\* readSyncBulkPayload has the whole file, which becomes the replica's own, and
\* loads it; a save of the replica's own is killed.  Loading may fail, which
\* leaves no data.
readSyncBulkPayload(r) ==
    /\ link[r].to # None /\ link[r].phase = "send"
    /\ LET snap == link[r].snap
           w == [replicationAttachToNewMaster(World, r) EXCEPT !.sv[r].rdb = snap,
                                                           !.sv[r].child = NoChild]
       IN  \/ /\ Become(clearReplicationId2(
                    [w EXCEPT !.sv[r].data = snap.data, !.sv[r].mdb = snap.info.db,
                              !.sv[r].id = snap.info.id, !.sv[r].off = snap.info.off,
                              !.sv[r].backlog = EmptyBacklog, !.link[r].phase = "online"], r))
              /\ UNCHANGED budget
           \/ /\ Spend("errors")
              /\ Become([w EXCEPT !.sv[r].data = <<>>, !.link[r] = NoLink])
    /\ UNCHANGED writes

replicationSendAck(r) ==
    /\ Connected(World, r) /\ link[r].ack # sv[r].off
    /\ \E n \in Servers : sv[n].failover = "wait_for_sync" /\ link[r].to = n
    /\ Become([World EXCEPT !.link[r].ack = sv[r].off])
    /\ UNCHANGED <<writes, budget>>

Disconnect(r) ==
    /\ link[r].to # None
    /\ Spend("cuts")
    /\ Become(DropLink(World, r))
    /\ UNCHANGED writes

\* replicationCron frees the backlog of a master that was long without replicas.
FreeBacklog(n) ==
    /\ sv[n].master = None /\ sv[n].backlog.on /\ Slaves(World, n) = {}
    /\ Spend("idles")
    /\ Become([clearReplicationId2(changeReplicationId(World, n), n)
                 EXCEPT !.sv[n].backlog = NoBacklog])
    /\ UNCHANGED writes

(***************************************************************************)
(* The server crashes and loads its RDB file, configured as a master or as *)
(* the replica it was.  A master takes the id of the file as its second; a *)
(* replica continues where the file ends.                                  *)
(***************************************************************************)
Restart(n) ==
    /\ Spend("crashes")
    /\ \E m \in {None, sv[n].master} :
         LET f == sv[n].rdb
             valid == f # NoChild /\ f.info.on
             cut == disconnectSlaves([World EXCEPT !.link[n] = NoLink, !.fresh = @ + 1], n)
             boot == [Alone(fresh) EXCEPT !.master = m, !.rdb = f, !.data = f.data]
         IN  Become([cut EXCEPT !.sv[n] =
               IF ~valid THEN boot
               ELSE IF m = None
                 THEN [boot EXCEPT !.id2 = f.info.id, !.second = f.info.off + 1,
                                   !.off = f.info.off, !.backlog = EmptyBacklog]
                 ELSE [boot EXCEPT !.id = f.info.id, !.off = f.info.off, !.cached = f.info]])
    /\ UNCHANGED writes

-----------------------------------------------------------------------------
(* Planned failover *)

failoverCommand(n, to, force) ==
    /\ sv[n].failover = "no" /\ sv[n].master = None /\ Slaves(World, n) # {}
    /\ to # None => link[to].to = n /\ link[to].phase \in {"continue", "online"}
    /\ force => to # None
    /\ Spend("failovers")
    /\ Become([World EXCEPT !.sv[n].failover = "wait_for_sync", !.sv[n].target = to,
                            !.sv[n].force = force])
    /\ UNCHANGED writes

\* Mutant: a replica of any offset has caught up.
CaughtUpAny(n, t) ==
    /\ link[t].to = n
    /\ sv[n].target \in {None, t}

CaughtUp(n, t) ==
    /\ link[t].to = n /\ link[t].ack = sv[n].off
    /\ sv[n].target \in {None, t}

\* The failover starts when a replica has caught up, or by force after the
\* timeout, which otherwise ends it.
updateFailoverStatus(n) ==
    /\ sv[n].failover = "wait_for_sync"
    /\ LET to(t, force) == replicationSetMaster(
               [World EXCEPT !.sv[n].failover = "in_progress", !.sv[n].target = t,
                             !.sv[n].force = force], n, t)
       IN  \/ \E t \in Servers : CaughtUp(n, t) /\ Become(to(t, FALSE)) /\ UNCHANGED budget
           \/ sv[n].force /\ Become(to(sv[n].target, TRUE)) /\ UNCHANGED budget
           \/ ~sv[n].force /\ Spend("errors") /\ Become(abortFailover(World, n))
    /\ UNCHANGED writes

failoverAbort(n) ==
    /\ sv[n].failover # "no"
    /\ Spend("aborts")
    /\ Become(abortFailover(World, n))
    /\ UNCHANGED writes

Next ==
    \E n \in Servers :
      \/ \E db \in budget.dbs : Write(n, db)
      \/ ExecuteFromMaster(n)
      \/ \E m \in Servers : replicaofCommand(n, m)
      \/ replicaofNoOne(n)
      \/ Psync(n) \/ ReadContinue(n) \/ ReadFullresync(n)
      \/ replicationStartPendingFork(n) \/ Bgsave(n) \/ updateSlavesWaitingBgsave(n)
      \/ readSyncBulkPayload(n)
      \/ replicationSendAck(n) \/ Disconnect(n) \/ FreeBacklog(n) \/ Restart(n)
      \/ \E to \in Servers \cup {None}, force \in BOOLEAN : failoverCommand(n, to, force)
      \/ updateFailoverStatus(n) \/ failoverAbort(n)

(***************************************************************************)
(* Links that can be made are made, and what is on its way arrives; that a *)
(* replica retries, and that a child ends, is the work of replicationCron  *)
(* and serverCron.                                                         *)
(***************************************************************************)
Progress(n) ==
    \/ ExecuteFromMaster(n) \/ Psync(n) \/ ReadContinue(n) \/ ReadFullresync(n)
    \/ replicationStartPendingFork(n) \/ updateSlavesWaitingBgsave(n) \/ readSyncBulkPayload(n)

Spec == Init /\ [][Next]_vars /\ \A n \in Servers : WF_vars(Progress(n))

-----------------------------------------------------------------------------
Infos == [on : BOOLEAN, id : Nat, off : Int, db : Dbs]
Files == {NoChild} \cup [data : Seq(Nat \X Dbs), info : Infos]
Commands == ({"select"} \X Dbs) \cup ({"write"} \X Nat)

\* The state has the shape of the fields of redisServer and of the replica's client.
TypeOK ==
    /\ \A n \in Servers :
         /\ sv[n].master \in (Servers \ {n}) \cup {None}
         /\ sv[n].id \in 1..(fresh - 1) /\ sv[n].id2 \in 0..(fresh - 1)
         /\ sv[n].second \in Nat \cup {-1} /\ sv[n].off \in Nat
         /\ sv[n].data \in Seq(Nat \X Dbs)
         /\ sv[n].backlog \in [on : BOOLEAN, buf : Seq(Commands)]
         /\ sv[n].seldb \in Dbs \cup {None} /\ sv[n].mdb \in Dbs
         /\ sv[n].cached \in Infos
         /\ sv[n].child \in Files /\ sv[n].rdb \in Files
         /\ sv[n].failover \in {"no", "wait_for_sync", "in_progress"}
         /\ sv[n].target \in Servers \cup {None} /\ sv[n].force \in BOOLEAN
    /\ \A r \in Servers : link[r] \in
         {NoLink} \cup [to : Servers, id : Nat, snap : Files, pending : Seq(Commands), ack : Nat,
                        phase : {"wait_start", "wait_end", "send", "continue", "online"}]

\* What a replica with this data and this database has after the stream.
Replay(data, db, stream) ==
    FoldLeft(LAMBDA x, e : IF e[1] = "select" THEN [x EXCEPT !.db = e[2]]
                           ELSE [x EXCEPT !.data = Append(@, <<e[2], x.db>>)],
             [data |-> data, db |-> db], stream)

(***************************************************************************)
(* However its link came up (+CONTINUE under the first or the second id,   *)
(* a snapshot of its own or a shared one, a restart from an RDB file), the *)
(* data of a connected replica and the commands on their way to it make    *)
(* the data of its master, with every write in its database, and its       *)
(* offset and theirs make its master's.  Nothing is skipped or repeated.   *)
(***************************************************************************)
StreamExact ==
    \A r \in Servers : Connected(World, r) =>
        LET m == sv[link[r].to]
            end == Replay(sv[r].data, sv[r].mdb, link[r].pending)
        IN  /\ end.data = m.data
            /\ sv[r].off + Len(link[r].pending) = m.off
            /\ m.master = None /\ m.seldb # None => end.db = m.seldb

(***************************************************************************)
(* A replication id names one history: servers that have the same id and   *)
(* the same offset, and a backlog to serve it from, have the same data,    *)
(* whatever was promoted, demoted or restarted before.                     *)
(***************************************************************************)
SameIdSameData ==
    \A n, m \in Servers :
        /\ sv[n].id = sv[m].id /\ sv[n].off = sv[m].off
        /\ sv[n].backlog.on /\ sv[m].backlog.on
        => sv[n].data = sv[m].data

(***************************************************************************)
(* The target that a FAILOVER without force promotes has every write of    *)
(* the master that hands over, at the moment it is promoted, if nobody     *)
(* reconfigures or restarts the target meanwhile.                          *)
(***************************************************************************)
FailoverKeepsWrites ==
    [][\A n, t \in Servers :
         /\ sv[n].failover = "in_progress" /\ ~sv[n].force /\ sv[n].target = t
         /\ sv[t].master # None /\ sv'[t].master = None /\ link'[n].to = t
         => sv'[t].data = sv[n].data]_vars

\* The masters above r end at one that is not a replica: they form no cycle.
Rooted(r) ==
    LET up[k \in 0..Cardinality(Servers)] ==
          IF k = 0 THEN r ELSE IF up[k - 1] = None THEN None ELSE sv[up[k - 1]].master
    IN  up[Cardinality(Servers)] = None

(***************************************************************************)
(* When the faults and the role changes are over, and no failover waits    *)
(* for its target without a timeout, every replica below a master gets its *)
(* link and all of the master's data: no error path of the handshake, the  *)
(* save or the load leaves a replica waiting for ever.                     *)
(***************************************************************************)
CatchesUp ==
    <>[]((\A n \in Servers : sv[n].failover = "no") =>
         \A r \in Servers : sv[r].master # None /\ Rooted(r) =>
            Connected(World, r) /\ sv[r].data = sv[sv[r].master].data)
=============================================================================
