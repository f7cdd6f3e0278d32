--------------------------- MODULE SyncJobsProofs ---------------------------
(* Safety of the sync task lifecycle for any number of users, requests,    *)
(* workers, attempts, crashes and lost writes.                             *)
EXTENDS SyncJobs, TLAPS

\* The inductive strengthening: a busy worker has a sync, the phase "finish"
\* is reached only with the engine's result, and the counters of a job account
\* for every start of the handler.
WorkerConsistent ==
    \A w \in Workers : worker[w].pc # "idle" <=> worker[w].sync # None

FinishMeansSynced ==
    /\ \A w \in Workers : worker[w].pc = "finish" => synced[worker[w].sync]
    /\ \A s \in Syncs : direct[s] = "finish" => synced[s]

Counted(s) ==
    /\ trig[s] \in {"idle", "checked", "created"} => job[s].state = "none"
    /\ cancel[s] = "target" => job[s].state # "none"
    /\ job[s].state = "none" =>
         job[s].attempts = 0 /\ job[s].stalled = 0 /\ runs[s] = 0
    /\ job[s].state \in Unfinished =>
         /\ job[s].attempts < MaxAttempts
         /\ job[s].stalled <= MaxStalled
         /\ runs[s] <= job[s].attempts + job[s].stalled
                         + (IF job[s].state = "active" THEN 1 ELSE 0)

RunsCounted == \A s \in Syncs : Counted(s)

IInv ==
    /\ TypeOK
    /\ WorkerConsistent
    /\ OneHandlerPerJob
    /\ RunningExplained
    /\ FinishMeansSynced
    /\ SuccessMeansSynced
    /\ RunsCounted
    /\ RunsBounded

USE ConstantsAssumption

\* A progress update keeps the types of what it writes.
LEMMA UpdateType ==
    ASSUME TypeOK, NEW s \in Syncs,
           NEW st \in {"RUNNING", "SUCCESS", "FAILED"},
           UpdateSyncProgress(s, st)
    PROVE  /\ row' \in [Syncs -> Row]
           /\ lost' \in 0 .. MaxLost
           /\ cause' \in [Syncs -> SUBSET {"late", "lost", "crash"}]
<1>1. Stamp(row[s], st) \in Row
  BY DEF TypeOK, Stamp, Row, Status
<1>2. row' \in [Syncs -> Row]
  BY <1>1 DEF TypeOK, UpdateSyncProgress
<1> QED
  BY <1>2 DEF TypeOK, UpdateSyncProgress

\* A busy worker has a sync.
LEMMA WorkerSync ==
    ASSUME TypeOK, WorkerConsistent, NEW w \in Workers, worker[w].pc # "idle"
    PROVE  worker[w].sync \in Syncs
BY DEF TypeOK, WorkerConsistent, Worker

\* What the queue's updates of a job keep.
LEMMA JobSet ==
    ASSUME NEW j \in Job, NEW st \in JobState, NEW l \in BOOLEAN, NEW n \in Nat
    PROVE  /\ [j EXCEPT !.state = st] \in Job
           /\ [j EXCEPT !.lock = l] \in Job
           /\ [j EXCEPT !.state = st, !.lock = l] \in Job
           /\ [j EXCEPT !.stalled = n, !.state = st] \in Job
           /\ [j EXCEPT !.attempts = n, !.lock = l, !.state = st] \in Job
BY Zenon DEF Job

\* Every step keeps the types.
LEMMA TypeNext ==
    ASSUME TypeOK, WorkerConsistent, [Next]_vars
    PROVE  TypeOK'
<1> USE DEF TypeOK
<1>1. ASSUME NEW s \in Syncs, TriggerCheck(s) PROVE TypeOK'
  <2> USE <1>1 DEF TriggerCheck
  <2>1. trig' \in [Syncs -> {"idle", "checked", "created", "accepted",
                               "rejected", "failed"}]
    OBVIOUS
  <2> QED
    BY <2>1
<1>2. ASSUME NEW s \in Syncs, TriggerCreate(s) PROVE TypeOK'
  <2> USE <1>2 DEF TriggerCreate
  <2>1. row' \in [Syncs -> Row]
    BY SMTT(30) DEF Row, Status
  <2>2. trig' \in [Syncs -> {"idle", "checked", "created", "accepted",
                               "rejected", "failed"}]
    OBVIOUS
  <2>3. lost' \in 0 .. MaxLost
    OBVIOUS
  <2> QED
    BY <2>1, <2>2, <2>3
<1>3. ASSUME NEW s \in Syncs, TriggerAdd(s) PROVE TypeOK'
  <2> USE <1>3 DEF TriggerAdd
  <2>1. trig' \in [Syncs -> {"idle", "checked", "created", "accepted",
                               "rejected", "failed"}]
    OBVIOUS
  <2>2. job[s] \in Job
    OBVIOUS
  <2>3. \A st \in {"waiting", "delayed"} :
          [job[s] EXCEPT !.state = st] \in Job
    BY <2>2, JobSet, Zenon DEF JobState
  <2>4. job' \in [Syncs -> Job]
    BY <2>3
  <2>5. lost' \in 0 .. MaxLost
    OBVIOUS
  <2> QED
    BY <2>1, <2>4, <2>5
<1>4. ASSUME NEW s \in Syncs, CancelFind(s) PROVE TypeOK'
  <2> USE <1>4 DEF CancelFind
  <2>1. cancel' \in [Syncs -> {"idle", "found", "target", "unlinked"}]
    OBVIOUS
  <2> QED
    BY <2>1
<1>5. ASSUME NEW s \in Syncs, CancelList(s) PROVE TypeOK'
  <2> USE <1>5 DEF CancelList
  <2>1. cancel' \in [Syncs -> {"idle", "found", "target", "unlinked"}]
    OBVIOUS
  <2> QED
    BY <2>1
<1>6. ASSUME NEW s \in Syncs, CancelRemove(s) PROVE TypeOK'
  <2> USE <1>6 DEF CancelRemove
  <2>1. cancel' \in [Syncs -> {"idle", "found", "target", "unlinked"}]
    OBVIOUS
  <2>2. job' \in [Syncs -> Job]
    BY SMTT(30) DEF Job, JobState
  <2> QED
    BY <2>1, <2>2
<1>7. ASSUME NEW s \in Syncs, CancelUpdate(s) PROVE TypeOK'
  <2> USE <1>7 DEF CancelUpdate
  <2>1. row[s] \in Row
    OBVIOUS
  <2>2. [status |-> "CANCELLED", completedAt |-> TRUE,
         errorMessage |-> TRUE] \in Row
    BY <2>1 DEF Row, Status
  <2>3. row' \in [Syncs -> Row]
    BY <2>2, Zenon
  <2>4. cancel' \in [Syncs -> {"idle", "found", "target", "unlinked"}]
    OBVIOUS
  <2>5. lost' \in 0 .. MaxLost
    OBVIOUS
  <2> QED
    BY <2>3, <2>4, <2>5
<1>8. ASSUME NEW s \in Syncs, PromoteDelayed(s) PROVE TypeOK'
  <2> USE <1>8 DEF PromoteDelayed
  <2>1. job[s] \in Job
    OBVIOUS
  <2>2. [job[s] EXCEPT !.state = "waiting"] \in Job
    BY <2>1, JobSet, Zenon DEF JobState
  <2>3. job' \in [Syncs -> Job]
    BY <2>2
  <2> QED
    BY <2>3
<1>9. ASSUME NEW s \in Syncs, ExpireLock(s) PROVE TypeOK'
  <2> USE <1>9 DEF ExpireLock
  <2>1. job[s] \in Job
    BY SMTT(30)
  <2>2. [job[s] EXCEPT !.lock = FALSE] \in Job
    BY <2>1, JobSet, Zenon DEF JobState
  <2>3. job' \in [Syncs -> Job]
    BY <2>2
  <2> QED
    BY <2>3
<1>10. ASSUME NEW s \in Syncs, StalledCheck(s) PROVE TypeOK'
  <2> USE <1>10 DEF StalledCheck
  <2>1. job[s] \in Job /\ job[s].stalled + 1 \in Nat
    BY SMTT(30) DEF Job
  <2>2. \A st \in {"failed", "waiting"} :
          [job[s] EXCEPT !.stalled = job[s].stalled + 1, !.state = st] \in Job
    BY <2>1, JobSet, Zenon DEF JobState
  <2>3. job' \in [Syncs -> Job]
    BY <2>2, Zenon
  <2> QED
    BY <2>3
<1>11. ASSUME NEW s \in Syncs, LateProgress(s) PROVE TypeOK'
  <2> USE <1>11 DEF LateProgress, Stamp
  <2>1. row[s] \in Row
    OBVIOUS
  <2>2. Stamp(row[s], "RUNNING") \in Row
    BY <2>1 DEF Row, Status
  <2>3. row' \in [Syncs -> Row]
    BY <2>2
  <2>4. late' \in [Syncs -> Nat]
    OBVIOUS
  <2>5. cause' \in [Syncs -> SUBSET {"late", "lost", "crash"}]
    OBVIOUS
  <2> QED
    BY <2>3, <2>4, <2>5
<1>12. ASSUME NEW s \in Syncs, IntegratedCreate(s) PROVE TypeOK'
  <2> USE <1>12 DEF IntegratedCreate
  <2>1. row[s] \in Row
    OBVIOUS
  <2>2. [row[s] EXCEPT !.status = "RUNNING"] \in Row
    BY <2>1 DEF Row, Status
  <2>3. row' \in [Syncs -> Row]
    BY <2>2
  <2>4. direct' \in [Syncs -> DirectPhase]
    BY DEF DirectPhase
  <2> QED
    BY <2>3, <2>4
<1>13. ASSUME NEW s \in Syncs, IntegratedScrape(s) PROVE TypeOK'
  <2> USE <1>13 DEF IntegratedScrape
  <2>1. direct' \in [Syncs -> DirectPhase]
    BY DEF DirectPhase
  <2> QED
    BY <2>1
<1>14. ASSUME NEW s \in Syncs, IntegratedEngine(s) PROVE TypeOK'
  <2> USE <1>14 DEF IntegratedEngine
  <2>1. direct' \in [Syncs -> DirectPhase]
    BY DEF DirectPhase
  <2>2. synced' \in [Syncs -> BOOLEAN]
    BY Zenon
  <2> QED
    BY <2>1, <2>2
<1>15. ASSUME NEW s \in Syncs, IntegratedFinish(s) PROVE TypeOK'
  <2> USE <1>15 DEF IntegratedFinish
  <2>1. row[s] \in Row
    OBVIOUS
  <2>2. [row[s] EXCEPT !.status = "SUCCESS", !.completedAt = TRUE] \in Row
    BY <2>1, Zenon DEF Row, Status
  <2>3. row' \in [Syncs -> Row]
    BY <2>2, Zenon
  <2>4. direct' \in [Syncs -> DirectPhase]
    BY DEF DirectPhase
  <2>5. lost' \in 0 .. MaxLost
    OBVIOUS
  <2> QED
    BY <2>3, <2>4, <2>5
<1>16. ASSUME NEW s \in Syncs, IntegratedFail(s) PROVE TypeOK'
  <2> USE <1>16 DEF IntegratedFail
  <2>1. /\ row' \in [Syncs -> Row]
        /\ lost' \in 0 .. MaxLost
        /\ cause' \in [Syncs -> SUBSET {"late", "lost", "crash"}]
    BY UpdateType
  <2>2. direct' \in [Syncs -> DirectPhase]
    BY DEF DirectPhase
  <2> QED
    BY <2>1, <2>2
<1>17. ASSUME NEW s \in Syncs, IntegratedCrash(s) PROVE TypeOK'
  <2> USE <1>17 DEF IntegratedCrash
  <2>1. direct' \in [Syncs -> DirectPhase]
    BY DEF DirectPhase
  <2>2. crashes' \in 0 .. MaxCrashes
    OBVIOUS
  <2>3. cause' \in [Syncs -> SUBSET {"late", "lost", "crash"}]
    OBVIOUS
  <2> QED
    BY <2>1, <2>2, <2>3
<1>18. ASSUME NEW w \in Workers, NEW s \in Syncs, TakeJob(w, s) PROVE TypeOK'
  <2> USE <1>18 DEF TakeJob
  <2>1. job[s] \in Job
    OBVIOUS
  <2>2. [job[s] EXCEPT !.state = "active", !.lock = TRUE] \in Job
    BY <2>1, JobSet, Zenon DEF JobState
  <2>3. job' \in [Syncs -> Job]
    BY <2>2
  <2>4. worker' \in [Workers -> Worker]
    BY DEF Worker, Phase, Open
  <2>5. runs' \in [Syncs -> Nat]
    OBVIOUS
  <2> QED
    BY <2>3, <2>4, <2>5
<1>19. ASSUME NEW w \in Workers, Start(w) PROVE TypeOK'
  <2> USE <1>19 DEF Start, HandlerPhase
  <2>1. worker[w].sync \in Syncs
    BY WorkerSync
  <2>2. /\ row' \in [Syncs -> Row]
        /\ lost' \in 0 .. MaxLost
        /\ cause' \in [Syncs -> SUBSET {"late", "lost", "crash"}]
    BY <2>1, UpdateType
  <2>3. worker' \in [Workers -> Worker]
    BY <2>1 DEF Worker, Phase, Open
  <2> QED
    BY <2>2, <2>3
<1>20. ASSUME NEW w \in Workers, GetUserCredentials(w) PROVE TypeOK'
  <2> USE <1>20 DEF GetUserCredentials, HandlerPhase
  <2>1. worker[w].sync \in Syncs
    BY WorkerSync
  <2>2. /\ row' \in [Syncs -> Row]
        /\ lost' \in 0 .. MaxLost
        /\ cause' \in [Syncs -> SUBSET {"late", "lost", "crash"}]
    BY <2>1, UpdateType
  <2>3. worker' \in [Workers -> Worker]
    BY <2>1 DEF Worker, Phase, Open
  <2> QED
    BY <2>2, <2>3
<1>21. ASSUME NEW w \in Workers, FetchDoubanData(w) PROVE TypeOK'
  <2> USE <1>21 DEF FetchDoubanData, HandlerPhase
  <2>1. worker[w].sync \in Syncs
    BY WorkerSync
  <2>2. /\ row' \in [Syncs -> Row]
        /\ lost' \in 0 .. MaxLost
        /\ cause' \in [Syncs -> SUBSET {"late", "lost", "crash"}]
    BY <2>1, UpdateType
  <2>3. worker' \in [Workers -> Worker]
    BY <2>1 DEF Worker, Phase, Open
  <2> QED
    BY <2>2, <2>3
<1>22. ASSUME NEW w \in Workers, SyncToFeishu(w) PROVE TypeOK'
  <2> USE <1>22 DEF SyncToFeishu, HandlerPhase
  <2>1. worker[w].sync \in Syncs
    BY WorkerSync
  <2>2. /\ row' \in [Syncs -> Row]
        /\ lost' \in 0 .. MaxLost
        /\ cause' \in [Syncs -> SUBSET {"late", "lost", "crash"}]
    BY <2>1, UpdateType
  <2>3. worker' \in [Workers -> Worker]
    BY <2>1 DEF Worker, Phase, Open
  <2> QED
    BY <2>2, <2>3
<1>23. ASSUME NEW w \in Workers, PerformIncrementalSync(w) PROVE TypeOK'
  <2> USE <1>23 DEF PerformIncrementalSync
  <2>1. worker[w].sync \in Syncs
    BY WorkerSync
  <2>2. worker[w] \in Worker
    BY <2>1
  <2>3. \A pc \in {"finish", "fail"} :
          [worker[w] EXCEPT !.pc = pc] \in Worker
    BY <2>2 DEF Worker, Phase, Open
  <2>4. worker' \in [Workers -> Worker]
    BY <2>1, <2>3
  <2>5. late' \in [Syncs -> Nat]
    BY <2>1
  <2>6. synced' \in [Syncs -> BOOLEAN]
    BY <2>1, Zenon
  <2> QED
    BY <2>4, <2>5, <2>6
<1>24. ASSUME NEW w \in Workers, Finish(w) PROVE TypeOK'
  <2> USE <1>24 DEF Finish
  <2>1. worker[w].sync \in Syncs
    BY WorkerSync
  <2>2. /\ row' \in [Syncs -> Row]
        /\ lost' \in 0 .. MaxLost
        /\ cause' \in [Syncs -> SUBSET {"late", "lost", "crash"}]
    BY <2>1, UpdateType
  <2>3. worker' \in [Workers -> Worker]
    BY <2>1 DEF Worker, Phase, Open
  <2> QED
    BY <2>2, <2>3
<1>25. ASSUME NEW w \in Workers, Fail(w) PROVE TypeOK'
  <2> USE <1>25 DEF Fail
  <2>1. worker[w].sync \in Syncs
    BY WorkerSync
  <2>2. /\ row' \in [Syncs -> Row]
        /\ lost' \in 0 .. MaxLost
        /\ cause' \in [Syncs -> SUBSET {"late", "lost", "crash"}]
    BY <2>1, UpdateType
  <2>3. worker' \in [Workers -> Worker]
    BY <2>1 DEF Worker, Phase, Open
  <2> QED
    BY <2>2, <2>3
<1>26. ASSUME NEW w \in Workers, Resolve(w) PROVE TypeOK'
  <2> USE <1>26 DEF Resolve
  <2>1. worker[w].sync \in Syncs
    BY WorkerSync
  <2>2. job[worker[w].sync] \in Job
    BY <2>1
  <2>3. [job[worker[w].sync] EXCEPT !.state = "completed", !.lock = FALSE]
          \in Job
    BY <2>2, JobSet, Zenon DEF JobState
  <2>4. job' \in [Syncs -> Job]
    BY <2>1, <2>3, Zenon
  <2>5. worker' \in [Workers -> Worker]
    BY <2>1 DEF Worker, Phase, Open
  <2> QED
    BY <2>4, <2>5
<1>27. ASSUME NEW w \in Workers, Reject(w) PROVE TypeOK'
  <2> USE <1>27 DEF Reject
  <2>1. worker[w].sync \in Syncs
    BY WorkerSync
  <2>2. job[worker[w].sync] \in Job /\ job[worker[w].sync].attempts + 1 \in Nat
    BY <2>1 DEF Job
  <2>3. \A st \in {"failed", "delayed"} :
          [job[worker[w].sync] EXCEPT !.attempts = job[worker[w].sync].attempts + 1,
                                      !.lock = FALSE, !.state = st] \in Job
    BY <2>2, JobSet, Zenon DEF JobState
  <2>4. job' \in [Syncs -> Job]
    BY <2>1, <2>3, Zenon
  <2>5. worker' \in [Workers -> Worker]
    BY <2>1 DEF Worker, Phase, Open
  <2> QED
    BY <2>4, <2>5
<1>28. ASSUME NEW w \in Workers, Crash(w) PROVE TypeOK'
  <2> USE <1>28 DEF Crash
  <2>1. worker[w].sync \in Syncs
    BY WorkerSync
  <2>2. worker' \in [Workers -> Worker]
    BY <2>1 DEF Worker, Phase, Open
  <2>3. crashes' \in 0 .. MaxCrashes
    OBVIOUS
  <2>4. cause' \in [Syncs -> SUBSET {"late", "lost", "crash"}]
    BY <2>1
  <2> QED
    BY <2>2, <2>3, <2>4
<1>29. CASE UNCHANGED vars
  BY <1>29 DEF vars
<1> QED
  BY <1>1, <1>2, <1>3, <1>4, <1>5, <1>6, <1>7, <1>8, <1>9, <1>10, <1>11,
     <1>12, <1>13, <1>14, <1>15, <1>16, <1>17, <1>18, <1>19, <1>20, <1>21,
     <1>22, <1>23, <1>24, <1>25, <1>26, <1>27, <1>28, <1>29, ZenonT(40)
  DEF Next, Trigger, Cancel, Queue, Integrated, Handler

\* What a progress update does to the statuses and the recorded causes.
LEMMA UpdateEffect ==
    ASSUME TypeOK, NEW s \in Syncs,
           NEW st \in {"RUNNING", "SUCCESS", "FAILED"},
           UpdateSyncProgress(s, st)
    PROVE  /\ \A t \in Syncs : t # s => row'[t] = row[t] /\ cause'[t] = cause[t]
           /\ \/ row'[s].status = st
              \/ row'[s] = row[s] /\ (st \in Completed => cause'[s] # {})
           /\ cause[s] # {} => cause'[s] # {}
<1>1. Stamp(row[s], st).status = st
  BY DEF TypeOK, Stamp, Row
<1>2. CASE row' = [row EXCEPT ![s] = Stamp(row[s], st)] /\ cause' = cause
  BY <1>1, <1>2 DEF TypeOK
<1>3. CASE row' = row /\ cause' = cause /\ st \notin Completed
  BY <1>3
<1>4. CASE row' = row /\ cause' = [cause EXCEPT ![s] = cause[s] \cup {"lost"}]
  BY <1>4 DEF TypeOK
<1> QED
  BY <1>2, <1>3, <1>4 DEF UpdateSyncProgress


\* The status after an update of that field alone.
LEMMA RowStatus ==
    ASSUME NEW r \in Row, NEW st
    PROVE  [r EXCEPT !.status = st].status = st
BY DEF Row

\* Creating the row makes it PENDING and leaves the others alone.
LEMMA CreateEffect ==
    ASSUME TypeOK, NEW s \in Syncs, TriggerCreate(s)
    PROVE  /\ \A t \in Syncs : row'[t] = row[t] \/ row'[t].status = "PENDING"
           /\ UNCHANGED <<direct, worker, synced, cause>>
<1>1. [row[s] EXCEPT !.status = "PENDING"].status = "PENDING"
  BY RowStatus DEF TypeOK
<1> QED
  BY <1>1, Zenon DEF TypeOK, TriggerCreate

\* A late update makes the row RUNNING and records itself as the cause.
LEMMA LateEffect ==
    ASSUME TypeOK, NEW s \in Syncs, LateProgress(s)
    PROVE  /\ \A t \in Syncs :
                \/ row'[t] = row[t] /\ cause'[t] = cause[t]
                \/ /\ row'[t].status = "RUNNING"
                   /\ \/ cause'[t] # {}
                      \/ row[t].status = "RUNNING" /\ cause'[t] = cause[t]
           /\ UNCHANGED <<direct, worker, synced>>
<1>1. Stamp(row[s], "RUNNING").status = "RUNNING"
  BY RowStatus, ZenonT(40) DEF TypeOK, Stamp
<1>2. CASE row' = [row EXCEPT ![s] = Stamp(row[s], "RUNNING")]
  <2>1. \A t \in Syncs : t # s => row'[t] = row[t] /\ cause'[t] = cause[t]
    BY <1>2 DEF TypeOK, LateProgress
  <2>2. row'[s].status = "RUNNING"
    BY <1>1, <1>2 DEF TypeOK
  <2>3. \/ row[s].status = "RUNNING" /\ cause' = cause
        \/ cause' = [cause EXCEPT ![s] = cause[s] \cup {"late"}]
        \/ row' = row /\ cause' = cause
    BY DEF LateProgress
  <2>4. cause' = [cause EXCEPT ![s] = cause[s] \cup {"late"}] =>
          "late" \in cause'[s]
    BY DEF TypeOK
  <2>5. \/ row[s].status = "RUNNING" /\ cause' = cause
        \/ cause'[s] # {}
        \/ row' = row /\ cause' = cause
    BY <2>3, <2>4
  <2> QED
    BY <2>1, <2>2, <2>5 DEF LateProgress
<1>3. CASE row' = row /\ cause' = cause
  BY <1>3 DEF LateProgress
<1> QED
  BY <1>2, <1>3 DEF LateProgress

\* The engine's phase ends in "finish" or in the catch block.
LEMMA EngineEffect ==
    ASSUME TypeOK, NEW w \in Workers, PerformIncrementalSync(w)
    PROVE  /\ \A v \in Workers : worker'[v].sync = worker[v].sync
           /\ \A v \in Workers : v # w => worker'[v] = worker[v]
           /\ worker[w].pc = "engine"
           /\ worker'[w].pc \in {"finish", "fail"}
           /\ \A s \in Syncs : synced[s] => synced'[s]
           /\ worker'[w].pc = "finish" /\ worker[w].sync \in Syncs =>
                synced'[worker[w].sync]
           /\ UNCHANGED <<row, trig, cancel, direct, job, runs, cause>>
<1>1. worker[w] \in Worker
  BY DEF TypeOK
<1>2. \A pc : /\ [worker[w] EXCEPT !.pc = pc].pc = pc
              /\ [worker[w] EXCEPT !.pc = pc].sync = worker[w].sync
  BY <1>1 DEF Worker
<1>3. CASE /\ worker' = [worker EXCEPT ![w].pc = "finish"]
           /\ synced' = [synced EXCEPT ![worker[w].sync] = TRUE]
  BY <1>2, <1>3 DEF TypeOK, PerformIncrementalSync
<1>4. CASE worker' = [worker EXCEPT ![w].pc = "fail"] /\ synced' = synced
  BY <1>2, <1>4 DEF TypeOK, PerformIncrementalSync
<1> QED
  BY <1>3, <1>4 DEF PerformIncrementalSync

\* What a phase before the engine does to the workers.
LEMMA PhaseEffect ==
    ASSUME TypeOK, WorkerConsistent, NEW w \in Workers, NEW from, NEW next,
           from # "idle", HandlerPhase(w, from, next)
    PROVE  /\ worker[w].sync \in Syncs
           /\ worker[w].pc = from
           /\ \A v \in Workers : worker'[v].sync = worker[v].sync
           /\ \A v \in Workers : v # w => worker'[v] = worker[v]
           /\ worker'[w].pc \in next
           /\ UpdateSyncProgress(worker[w].sync, "RUNNING")
           /\ UNCHANGED <<direct, synced>>
<1>1. worker[w] \in Worker
  BY DEF TypeOK
<1>2. \A pc : /\ [worker[w] EXCEPT !.pc = pc].pc = pc
              /\ [worker[w] EXCEPT !.pc = pc].sync = worker[w].sync
  BY <1>1 DEF Worker
<1>3. worker[w].sync \in Syncs
  BY WorkerSync DEF HandlerPhase
<1> QED
  BY <1>2, <1>3 DEF TypeOK, HandlerPhase

\* A phase before the engine keeps its row attended.
LEMMA PhaseRunning ==
    ASSUME TypeOK, WorkerConsistent, RunningExplained, NEW w \in Workers,
           NEW from, NEW next, from # "idle", next \subseteq Open,
           HandlerPhase(w, from, next)
    PROVE  RunningExplained'
<1>1. worker[w].sync \in Syncs /\ UpdateSyncProgress(worker[w].sync, "RUNNING")
  BY PhaseEffect
<1>2. \A t \in Syncs : /\ t # worker[w].sync => row'[t] = row[t]
                       /\ cause[t] # {} => cause'[t] # {}
  BY <1>1, UpdateEffect
<1>3. \A t \in Syncs : Attended(t) => Attended(t)'
  BY PhaseEffect DEF Attended
<1>4. \A t \in Syncs : t = worker[w].sync => Attended(t)'
  BY PhaseEffect DEF Attended
<1>5. ASSUME NEW t \in Syncs, Running(t)'
      PROVE  Attended(t)' \/ cause'[t] # {}
  <2>1. CASE t = worker[w].sync
    BY <1>4, <2>1
  <2>2. CASE t # worker[w].sync
    <3>1. Running(t)
      BY <1>2, <1>5, <2>2 DEF Running
    <3> QED
      BY <1>2, <1>3, <3>1 DEF RunningExplained
  <2> QED
    BY <2>1, <2>2
<1> QED
  BY <1>5 DEF RunningExplained

\* The last update of a handler writes a final status or records its loss.
LEMMA FinalRunning ==
    ASSUME TypeOK, RunningExplained, NEW s \in Syncs,
           NEW st \in {"SUCCESS", "FAILED"}, UpdateSyncProgress(s, st),
           \A t \in Syncs : t # s => (Attended(t) => Attended(t)')
    PROVE  RunningExplained'
<1>1. st \in Completed /\ st # "RUNNING"
  BY DEF Completed
<1>2. \A t \in Syncs : t # s => row'[t] = row[t] /\ cause'[t] = cause[t]
  BY UpdateEffect
<1>3. row'[s].status # "RUNNING" \/ cause'[s] # {}
  BY <1>1, UpdateEffect, SMTT(30)
<1> QED
  BY <1>2, <1>3 DEF RunningExplained, Running


\* A worker is busy exactly while it has a sync.
LEMMA ConsistentNext ==
    ASSUME TypeOK, WorkerConsistent, [Next]_vars
    PROVE  WorkerConsistent'
<1> USE DEF TypeOK, WorkerConsistent, Worker
<1>1. ASSUME NEW w \in Workers, NEW s \in Syncs, TakeJob(w, s)
      PROVE  WorkerConsistent'
  BY <1>1 DEF TakeJob
<1>2. ASSUME NEW w \in Workers, Start(w) PROVE WorkerConsistent'
  <2>1. worker[w].sync \in Syncs
    BY <1>2, WorkerSync DEF Start, HandlerPhase
  <2> QED
    BY <1>2, <2>1 DEF Start, HandlerPhase
<1>3. ASSUME NEW w \in Workers, GetUserCredentials(w) PROVE WorkerConsistent'
  <2>1. worker[w].sync \in Syncs
    BY <1>3, WorkerSync DEF GetUserCredentials, HandlerPhase
  <2> QED
    BY <1>3, <2>1 DEF GetUserCredentials, HandlerPhase
<1>4. ASSUME NEW w \in Workers, FetchDoubanData(w) PROVE WorkerConsistent'
  <2>1. worker[w].sync \in Syncs
    BY <1>4, WorkerSync DEF FetchDoubanData, HandlerPhase
  <2> QED
    BY <1>4, <2>1 DEF FetchDoubanData, HandlerPhase
<1>5. ASSUME NEW w \in Workers, SyncToFeishu(w) PROVE WorkerConsistent'
  <2>1. worker[w].sync \in Syncs
    BY <1>5, WorkerSync DEF SyncToFeishu, HandlerPhase
  <2> QED
    BY <1>5, <2>1 DEF SyncToFeishu, HandlerPhase
<1>6. ASSUME NEW w \in Workers, PerformIncrementalSync(w)
      PROVE  WorkerConsistent'
  <2>1. worker[w].sync \in Syncs
    BY <1>6, WorkerSync DEF PerformIncrementalSync
  <2> QED
    BY <1>6, <2>1, SMTT(30) DEF PerformIncrementalSync
<1>7. ASSUME NEW w \in Workers, Finish(w) PROVE WorkerConsistent'
  <2>1. worker[w].sync \in Syncs
    BY <1>7, WorkerSync DEF Finish
  <2> QED
    BY <1>7, <2>1 DEF Finish
<1>8. ASSUME NEW w \in Workers, Fail(w) PROVE WorkerConsistent'
  <2>1. worker[w].sync \in Syncs
    BY <1>8, WorkerSync DEF Fail
  <2> QED
    BY <1>8, <2>1 DEF Fail
<1>9. ASSUME NEW w \in Workers, Resolve(w) PROVE WorkerConsistent'
  <2>1. worker[w].sync \in Syncs
    BY <1>9, WorkerSync DEF Resolve
  <2> QED
    BY <1>9, <2>1 DEF Resolve
<1>10. ASSUME NEW w \in Workers, Reject(w) PROVE WorkerConsistent'
  <2>1. worker[w].sync \in Syncs
    BY <1>10, WorkerSync DEF Reject
  <2> QED
    BY <1>10, <2>1 DEF Reject
<1>11. ASSUME NEW w \in Workers, Crash(w) PROVE WorkerConsistent'
  <2>1. worker[w].sync \in Syncs
    BY <1>11, WorkerSync DEF Crash
  <2> QED
    BY <1>11, <2>1 DEF Crash
<1>12. CASE UNCHANGED worker
  BY <1>12, SMTT(30)
<1> QED
  BY <1>1, <1>2, <1>3, <1>4, <1>5, <1>6, <1>7, <1>8, <1>9, <1>10, <1>11, <1>12, ZenonT(40)
  DEF Next, Trigger, Cancel, Queue, Integrated, Handler, vars,
      TriggerCheck, TriggerCreate, TriggerAdd, CancelFind, CancelList,
      CancelRemove, CancelUpdate, PromoteDelayed, ExpireLock, StalledCheck,
      LateProgress, IntegratedCreate, IntegratedScrape, IntegratedEngine,
      IntegratedFinish, IntegratedFail, IntegratedCrash, Stamp

\* Bull's lock keeps a second handler and cancelSync away from an active job.
LEMMA OneHandlerNext ==
    ASSUME TypeOK, WorkerConsistent, OneHandlerPerJob, RunsCounted, [Next]_vars
    PROVE  OneHandlerPerJob'
<1> USE DEF TypeOK, WorkerConsistent, OneHandlerPerJob, RunsCounted, Counted,
           Worker
<1>1. ASSUME NEW s \in Syncs, TriggerAdd(s) PROVE OneHandlerPerJob'
  BY <1>1 DEF TriggerAdd
<1>2. ASSUME NEW s \in Syncs, CancelRemove(s) PROVE OneHandlerPerJob'
  BY <1>2 DEF CancelRemove
<1>3. ASSUME NEW s \in Syncs, PromoteDelayed(s) PROVE OneHandlerPerJob'
  BY <1>3 DEF PromoteDelayed
<1>4. ASSUME NEW s \in Syncs, ExpireLock(s) PROVE OneHandlerPerJob'
  BY <1>4 DEF ExpireLock
<1>5. ASSUME NEW s \in Syncs, StalledCheck(s) PROVE OneHandlerPerJob'
  BY <1>5 DEF StalledCheck
<1>6. ASSUME NEW w \in Workers, NEW s \in Syncs, TakeJob(w, s)
      PROVE  OneHandlerPerJob'
  BY <1>6 DEF TakeJob
<1>7. ASSUME NEW w \in Workers, Start(w) PROVE OneHandlerPerJob'
  <2>1. worker[w].sync \in Syncs
    BY <1>7, WorkerSync DEF Start, HandlerPhase
  <2> QED
    BY <1>7, <2>1 DEF Start, HandlerPhase
<1>8. ASSUME NEW w \in Workers, GetUserCredentials(w) PROVE OneHandlerPerJob'
  <2>1. worker[w].sync \in Syncs
    BY <1>8, WorkerSync DEF GetUserCredentials, HandlerPhase
  <2> QED
    BY <1>8, <2>1 DEF GetUserCredentials, HandlerPhase
<1>9. ASSUME NEW w \in Workers, FetchDoubanData(w) PROVE OneHandlerPerJob'
  <2>1. worker[w].sync \in Syncs
    BY <1>9, WorkerSync DEF FetchDoubanData, HandlerPhase
  <2> QED
    BY <1>9, <2>1 DEF FetchDoubanData, HandlerPhase
<1>10. ASSUME NEW w \in Workers, SyncToFeishu(w) PROVE OneHandlerPerJob'
  <2>1. worker[w].sync \in Syncs
    BY <1>10, WorkerSync DEF SyncToFeishu, HandlerPhase
  <2> QED
    BY <1>10, <2>1 DEF SyncToFeishu, HandlerPhase
<1>11. ASSUME NEW w \in Workers, PerformIncrementalSync(w)
       PROVE  OneHandlerPerJob'
  <2>1. worker[w].sync \in Syncs
    BY <1>11, WorkerSync DEF PerformIncrementalSync
  <2> QED
    BY <1>11, <2>1, EngineEffect
<1>12. ASSUME NEW w \in Workers, Finish(w) PROVE OneHandlerPerJob'
  <2>1. worker[w].sync \in Syncs
    BY <1>12, WorkerSync DEF Finish
  <2> QED
    BY <1>12, <2>1 DEF Finish
<1>13. ASSUME NEW w \in Workers, Fail(w) PROVE OneHandlerPerJob'
  <2>1. worker[w].sync \in Syncs
    BY <1>13, WorkerSync DEF Fail
  <2> QED
    BY <1>13, <2>1 DEF Fail
<1>14. ASSUME NEW w \in Workers, Resolve(w) PROVE OneHandlerPerJob'
  <2>1. worker[w].sync \in Syncs
    BY <1>14, WorkerSync DEF Resolve
  <2>2. \A v \in Workers : v # w => worker'[v] = worker[v]
    BY <1>14 DEF Resolve
  <2>3. \A v \in Workers : v # w => worker[v].sync # worker[w].sync
    BY <2>1
  <2>4. \A t \in Syncs : t # worker[w].sync => job'[t] = job[t]
    BY <1>14, <2>1 DEF Resolve
  <2>5. worker'[w].sync = None
    BY <1>14 DEF Resolve
  <2> QED
    BY <2>2, <2>3, <2>4, <2>5
<1>15. ASSUME NEW w \in Workers, Reject(w) PROVE OneHandlerPerJob'
  <2>1. worker[w].sync \in Syncs
    BY <1>15, WorkerSync DEF Reject
  <2>2. \A v \in Workers : v # w => worker'[v] = worker[v]
    BY <1>15 DEF Reject
  <2>3. \A v \in Workers : v # w => worker[v].sync # worker[w].sync
    BY <2>1
  <2>4. \A t \in Syncs : t # worker[w].sync => job'[t] = job[t]
    BY <1>15, <2>1 DEF Reject
  <2>5. worker'[w].sync = None
    BY <1>15 DEF Reject
  <2> QED
    BY <2>2, <2>3, <2>4, <2>5
<1>16. ASSUME NEW w \in Workers, Crash(w) PROVE OneHandlerPerJob'
  <2>1. worker[w].sync \in Syncs
    BY <1>16, WorkerSync DEF Crash
  <2> QED
    BY <1>16, <2>1 DEF Crash
<1>17. CASE UNCHANGED <<worker, job>>
  BY <1>17, SMTT(30)
<1> QED
  BY <1>1, <1>2, <1>3, <1>4, <1>5, <1>6, <1>7, <1>8, <1>9, <1>10, <1>11,
     <1>12, <1>13, <1>14, <1>15, <1>16, <1>17, ZenonT(40)
  DEF Next, Trigger, Cancel, Queue, Integrated, Handler, vars,
      TriggerCheck, TriggerCreate, CancelFind, CancelList, CancelUpdate,
      LateProgress, IntegratedCreate, IntegratedScrape, IntegratedEngine,
      IntegratedFinish, IntegratedFail, IntegratedCrash, Stamp

\* The phase "finish" follows a result of the engine.
LEMMA FinishNext ==
    ASSUME TypeOK, WorkerConsistent, FinishMeansSynced, [Next]_vars
    PROVE  FinishMeansSynced'
<1> USE DEF TypeOK, WorkerConsistent, FinishMeansSynced, Worker
<1>1. ASSUME NEW s \in Syncs, IntegratedCreate(s) PROVE FinishMeansSynced'
  BY <1>1 DEF IntegratedCreate
<1>2. ASSUME NEW s \in Syncs, IntegratedScrape(s) PROVE FinishMeansSynced'
  BY <1>2 DEF IntegratedScrape
<1>3. ASSUME NEW s \in Syncs, IntegratedEngine(s) PROVE FinishMeansSynced'
  BY <1>3 DEF IntegratedEngine
<1>4. ASSUME NEW s \in Syncs, IntegratedFinish(s) PROVE FinishMeansSynced'
  BY <1>4 DEF IntegratedFinish
<1>5. ASSUME NEW s \in Syncs, IntegratedFail(s) PROVE FinishMeansSynced'
  BY <1>5 DEF IntegratedFail
<1>6. ASSUME NEW s \in Syncs, IntegratedCrash(s) PROVE FinishMeansSynced'
  BY <1>6 DEF IntegratedCrash
<1>7. ASSUME NEW w \in Workers, NEW s \in Syncs, TakeJob(w, s)
      PROVE  FinishMeansSynced'
  BY <1>7 DEF TakeJob
<1>8. ASSUME NEW w \in Workers, Start(w) PROVE FinishMeansSynced'
  <2>1. worker[w].sync \in Syncs
    BY <1>8, WorkerSync DEF Start, HandlerPhase
  <2> QED
    BY <1>8, <2>1 DEF Start, HandlerPhase
<1>9. ASSUME NEW w \in Workers, GetUserCredentials(w) PROVE FinishMeansSynced'
  <2>1. worker[w].sync \in Syncs
    BY <1>9, WorkerSync DEF GetUserCredentials, HandlerPhase
  <2> QED
    BY <1>9, <2>1 DEF GetUserCredentials, HandlerPhase
<1>10. ASSUME NEW w \in Workers, FetchDoubanData(w) PROVE FinishMeansSynced'
  <2>1. worker[w].sync \in Syncs
    BY <1>10, WorkerSync DEF FetchDoubanData, HandlerPhase
  <2> QED
    BY <1>10, <2>1 DEF FetchDoubanData, HandlerPhase
<1>11. ASSUME NEW w \in Workers, SyncToFeishu(w) PROVE FinishMeansSynced'
  <2>1. worker[w].sync \in Syncs
    BY <1>11, WorkerSync DEF SyncToFeishu, HandlerPhase
  <2> QED
    BY <1>11, <2>1 DEF SyncToFeishu, HandlerPhase
<1>12. ASSUME NEW w \in Workers, PerformIncrementalSync(w)
       PROVE  FinishMeansSynced'
  <2>1. worker[w].sync \in Syncs
    BY <1>12, WorkerSync DEF PerformIncrementalSync
  <2> QED
    BY <1>12, <2>1, EngineEffect
<1>13. ASSUME NEW w \in Workers, Finish(w) PROVE FinishMeansSynced'
  <2>1. worker[w].sync \in Syncs
    BY <1>13, WorkerSync DEF Finish
  <2> QED
    BY <1>13, <2>1 DEF Finish
<1>14. ASSUME NEW w \in Workers, Fail(w) PROVE FinishMeansSynced'
  <2>1. worker[w].sync \in Syncs
    BY <1>14, WorkerSync DEF Fail
  <2> QED
    BY <1>14, <2>1 DEF Fail
<1>15. ASSUME NEW w \in Workers, Resolve(w) PROVE FinishMeansSynced'
  <2>1. worker[w].sync \in Syncs
    BY <1>15, WorkerSync DEF Resolve
  <2> QED
    BY <1>15, <2>1 DEF Resolve
<1>16. ASSUME NEW w \in Workers, Reject(w) PROVE FinishMeansSynced'
  <2>1. worker[w].sync \in Syncs
    BY <1>16, WorkerSync DEF Reject
  <2> QED
    BY <1>16, <2>1 DEF Reject
<1>17. ASSUME NEW w \in Workers, Crash(w) PROVE FinishMeansSynced'
  <2>1. worker[w].sync \in Syncs
    BY <1>17, WorkerSync DEF Crash
  <2> QED
    BY <1>17, <2>1 DEF Crash
<1>18. CASE UNCHANGED <<worker, direct, synced>>
  BY <1>18, SMTT(30)
<1> QED
  BY <1>1, <1>2, <1>3, <1>4, <1>5, <1>6, <1>7, <1>8, <1>9, <1>10, <1>11,
     <1>12, <1>13, <1>14, <1>15, <1>16, <1>17, <1>18, ZenonT(40)
  DEF Next, Trigger, Cancel, Queue, Integrated, Handler, vars,
      TriggerCheck, TriggerCreate, TriggerAdd, CancelFind, CancelList,
      CancelRemove, CancelUpdate, PromoteDelayed, ExpireLock, StalledCheck,
      LateProgress, Stamp

\* SUCCESS is written only in the phase "finish".
LEMMA SyncedNext ==
    ASSUME TypeOK, WorkerConsistent, FinishMeansSynced, SuccessMeansSynced,
           [Next]_vars
    PROVE  SuccessMeansSynced'
<1> USE DEF TypeOK, FinishMeansSynced, SuccessMeansSynced
<1>1. ASSUME NEW s \in Syncs, TriggerCreate(s) PROVE SuccessMeansSynced'
  BY <1>1, CreateEffect
<1>2. ASSUME NEW s \in Syncs, CancelUpdate(s) PROVE SuccessMeansSynced'
  BY <1>2 DEF CancelUpdate
<1>3. ASSUME NEW s \in Syncs, LateProgress(s) PROVE SuccessMeansSynced'
  BY <1>3, LateEffect
<1>4. ASSUME NEW s \in Syncs, IntegratedCreate(s) PROVE SuccessMeansSynced'
  BY <1>4 DEF IntegratedCreate
<1>5. ASSUME NEW s \in Syncs, IntegratedEngine(s) PROVE SuccessMeansSynced'
  BY <1>5 DEF IntegratedEngine
<1>6. ASSUME NEW s \in Syncs, IntegratedFinish(s) PROVE SuccessMeansSynced'
  BY <1>6 DEF IntegratedFinish
<1>7. ASSUME NEW s \in Syncs, IntegratedFail(s) PROVE SuccessMeansSynced'
  BY <1>7, UpdateEffect DEF IntegratedFail
<1>8. ASSUME NEW w \in Workers, Start(w) PROVE SuccessMeansSynced'
  <2>1. worker[w].sync \in Syncs
    BY <1>8, WorkerSync DEF Start, HandlerPhase
  <2> QED
    BY <1>8, <2>1, UpdateEffect DEF Start, HandlerPhase
<1>9. ASSUME NEW w \in Workers, GetUserCredentials(w)
      PROVE  SuccessMeansSynced'
  <2>1. worker[w].sync \in Syncs
    BY <1>9, WorkerSync DEF GetUserCredentials, HandlerPhase
  <2> QED
    BY <1>9, <2>1, UpdateEffect DEF GetUserCredentials, HandlerPhase
<1>10. ASSUME NEW w \in Workers, FetchDoubanData(w) PROVE SuccessMeansSynced'
  <2>1. worker[w].sync \in Syncs
    BY <1>10, WorkerSync DEF FetchDoubanData, HandlerPhase
  <2> QED
    BY <1>10, <2>1, UpdateEffect DEF FetchDoubanData, HandlerPhase
<1>11. ASSUME NEW w \in Workers, SyncToFeishu(w) PROVE SuccessMeansSynced'
  <2>1. worker[w].sync \in Syncs
    BY <1>11, WorkerSync DEF SyncToFeishu, HandlerPhase
  <2> QED
    BY <1>11, <2>1, UpdateEffect DEF SyncToFeishu, HandlerPhase
<1>12. ASSUME NEW w \in Workers, PerformIncrementalSync(w)
       PROVE  SuccessMeansSynced'
  <2>1. worker[w].sync \in Syncs
    BY <1>12, WorkerSync DEF PerformIncrementalSync
  <2> QED
    BY <1>12, <2>1, EngineEffect
<1>13. ASSUME NEW w \in Workers, Finish(w) PROVE SuccessMeansSynced'
  <2>1. worker[w].sync \in Syncs
    BY <1>13, WorkerSync DEF Finish
  <2> QED
    BY <1>13, <2>1, UpdateEffect DEF Finish
<1>14. ASSUME NEW w \in Workers, Fail(w) PROVE SuccessMeansSynced'
  <2>1. worker[w].sync \in Syncs
    BY <1>14, WorkerSync DEF Fail
  <2> QED
    BY <1>14, <2>1, UpdateEffect DEF Fail
<1>15. CASE UNCHANGED <<row, synced>>
  BY <1>15
<1> QED
  BY <1>1, <1>2, <1>3, <1>4, <1>5, <1>6, <1>7, <1>8, <1>9, <1>10, <1>11,
     <1>12, <1>13, <1>14, <1>15, ZenonT(40)
  DEF Next, Trigger, Cancel, Queue, Integrated, Handler, vars,
      TriggerCheck, TriggerAdd, CancelFind, CancelList, CancelRemove,
      PromoteDelayed, ExpireLock, StalledCheck, IntegratedScrape,
      IntegratedCrash, TakeJob, Resolve, Reject, Crash

\* Every handler that ends writes a final status, unless one of the causes hits.
LEMMA RunningNext ==
    ASSUME TypeOK, WorkerConsistent, RunningExplained, [Next]_vars
    PROVE  RunningExplained'
<1>1. ASSUME NEW s \in Syncs, TriggerCreate(s) PROVE RunningExplained'
  BY <1>1, CreateEffect DEF RunningExplained, Running, Attended
<1>2. ASSUME NEW s \in Syncs, CancelUpdate(s) PROVE RunningExplained'
  BY <1>2
     DEF CancelUpdate, TypeOK, RunningExplained, Running, Attended, Row,
         Worker, Open
<1>3. ASSUME NEW s \in Syncs, LateProgress(s) PROVE RunningExplained'
  BY <1>3, LateEffect DEF RunningExplained, Running, Attended
<1>4. ASSUME NEW s \in Syncs, IntegratedCreate(s) PROVE RunningExplained'
  BY <1>4
     DEF IntegratedCreate, TypeOK, RunningExplained, Running, Attended, Row,
         Worker, Open
<1>5. ASSUME NEW s \in Syncs, IntegratedScrape(s) PROVE RunningExplained'
  BY <1>5
     DEF IntegratedScrape, TypeOK, RunningExplained, Running, Attended, Row,
         Worker, Open
<1>6. ASSUME NEW s \in Syncs, IntegratedEngine(s) PROVE RunningExplained'
  BY <1>6
     DEF IntegratedEngine, TypeOK, RunningExplained, Running, Attended, Row,
         Worker, Open
<1>7. ASSUME NEW s \in Syncs, IntegratedFinish(s) PROVE RunningExplained'
  <2>1. \A t \in Syncs : t # s =>
          row'[t] = row[t] /\ direct'[t] = direct[t]
    BY <1>7 DEF IntegratedFinish, TypeOK
  <2>2. [row[s] EXCEPT !.status = "SUCCESS", !.completedAt = TRUE].status
          = "SUCCESS"
    BY DEF TypeOK, Row
  <2>3. \/ row'[s].status = "SUCCESS"
        \/ row' = row /\ direct'[s] = "fail"
    BY <1>7, <2>2, Zenon DEF IntegratedFinish, TypeOK
  <2>4. UNCHANGED <<worker, cause>>
    BY <1>7 DEF IntegratedFinish
  <2> QED
    BY <2>1, <2>3, <2>4 DEF RunningExplained, Running, Attended, Open
<1>8. ASSUME NEW s \in Syncs, IntegratedFail(s) PROVE RunningExplained'
  <2>1. \A t \in Syncs : t # s => (Attended(t) => Attended(t)')
    BY <1>8 DEF IntegratedFail, Attended, TypeOK
  <2> QED
    BY <1>8, <2>1, FinalRunning DEF IntegratedFail
<1>9. ASSUME NEW s \in Syncs, IntegratedCrash(s) PROVE RunningExplained'
  BY <1>9, Zenon DEF IntegratedCrash, TypeOK, RunningExplained, Running, Attended, Row,
         Worker, Open
<1>10. ASSUME NEW w \in Workers, NEW s \in Syncs, TakeJob(w, s)
       PROVE  RunningExplained'
  BY <1>10, Zenon DEF TakeJob, TypeOK, RunningExplained, Running, Attended, Row, Worker,
         Open
<1>11. ASSUME NEW w \in Workers, Start(w) PROVE RunningExplained'
  BY <1>11, PhaseRunning DEF Start, Open
<1>12. ASSUME NEW w \in Workers, GetUserCredentials(w) PROVE RunningExplained'
  BY <1>12, PhaseRunning DEF GetUserCredentials, Open
<1>13. ASSUME NEW w \in Workers, FetchDoubanData(w) PROVE RunningExplained'
  BY <1>13, PhaseRunning DEF FetchDoubanData, Open
<1>14. ASSUME NEW w \in Workers, SyncToFeishu(w) PROVE RunningExplained'
  BY <1>14, PhaseRunning DEF SyncToFeishu, Open
<1>15. ASSUME NEW w \in Workers, PerformIncrementalSync(w)
       PROVE  RunningExplained'
  <2>1. \A t \in Syncs : Attended(t) => Attended(t)'
    BY <1>15, EngineEffect DEF Attended, Open
  <2> QED
    BY <1>15, <2>1, EngineEffect DEF RunningExplained, Running
<1>16. ASSUME NEW w \in Workers, Finish(w) PROVE RunningExplained'
  <2>1. worker[w].sync \in Syncs
    BY <1>16, WorkerSync DEF Finish
  <2>2. \A v \in Workers : v # w => worker'[v] = worker[v]
    BY <1>16 DEF Finish, TypeOK
  <2>3. \A t \in Syncs : t # worker[w].sync => (Attended(t) => Attended(t)')
    BY <1>16, <2>2 DEF Finish, Attended
  <2> QED
    BY <1>16, <2>1, <2>3, FinalRunning DEF Finish
<1>17. ASSUME NEW w \in Workers, Fail(w) PROVE RunningExplained'
  <2>1. worker[w].sync \in Syncs
    BY <1>17, WorkerSync DEF Fail
  <2>2. \A v \in Workers : v # w => worker'[v] = worker[v]
    BY <1>17 DEF Fail, TypeOK
  <2>3. \A t \in Syncs : t # worker[w].sync => (Attended(t) => Attended(t)')
    BY <1>17, <2>2 DEF Fail, Attended
  <2> QED
    BY <1>17, <2>1, <2>3, FinalRunning DEF Fail
<1>18. ASSUME NEW w \in Workers, Resolve(w) PROVE RunningExplained'
  <2>1. worker[w].sync \in Syncs
    BY <1>18, WorkerSync DEF Resolve
  <2> QED
    BY <1>18, <2>1, Zenon
    DEF Resolve, TypeOK, RunningExplained, Running, Attended, Row, Worker,
           Open
<1>19. ASSUME NEW w \in Workers, Reject(w) PROVE RunningExplained'
  <2>1. worker[w].sync \in Syncs
    BY <1>19, WorkerSync DEF Reject
  <2> QED
    BY <1>19, <2>1, Zenon
    DEF Reject, TypeOK, RunningExplained, Running, Attended, Row, Worker,
           Open
<1>20. ASSUME NEW w \in Workers, Crash(w) PROVE RunningExplained'
  <2>1. worker[w].sync \in Syncs
    BY <1>20, WorkerSync DEF Crash
  <2> QED
    BY <1>20, <2>1, Zenon
    DEF Crash, TypeOK, RunningExplained, Running, Attended, Row, Worker,
           Open
<1>21. CASE UNCHANGED <<row, worker, direct, cause>>
  BY <1>21 DEF RunningExplained, Running, Attended
<1> QED
  BY <1>1, <1>2, <1>3, <1>4, <1>5, <1>6, <1>7, <1>8, <1>9, <1>10, <1>11,
     <1>12, <1>13, <1>14, <1>15, <1>16, <1>17, <1>18, <1>19, <1>20, <1>21, Zenon
  DEF Next, Trigger, Cancel, Queue, Integrated, Handler, vars,
      TriggerCheck, TriggerAdd, CancelFind, CancelList, CancelRemove,
      PromoteDelayed, ExpireLock, StalledCheck

\* A step that leaves a sync's request, cancellation and job alone leaves its
\* counters right.
LEMMA CountedFrame ==
    ASSUME NEW t \in Syncs, Counted(t), job'[t] = job[t], trig'[t] = trig[t],
           cancel'[t] = cancel[t], runs'[t] = runs[t]
    PROVE  Counted(t)'
BY DEF Counted

\* The counters of a job account for the starts of its handler.
LEMMA CountedNext ==
    ASSUME TypeOK, WorkerConsistent, OneHandlerPerJob, RunsCounted, [Next]_vars
    PROVE  RunsCounted'
<1> USE DEF TypeOK, OneHandlerPerJob, RunsCounted, Counted, Job, Unfinished
<1>1. ASSUME NEW s \in Syncs, TriggerCheck(s) PROVE RunsCounted'
  BY <1>1 DEF TriggerCheck
<1>2. ASSUME NEW s \in Syncs, TriggerCreate(s) PROVE RunsCounted'
  BY <1>2 DEF TriggerCreate
<1>3. ASSUME NEW s \in Syncs, TriggerAdd(s) PROVE RunsCounted'
  <2>1. \A t \in Syncs : t # s => job'[t] = job[t] /\ trig'[t] = trig[t]
    BY <1>3 DEF TriggerAdd
  <2>2. /\ job[s].state = "none"
        /\ trig'[s] \in {"accepted", "failed"}
        /\ job'[s].state \in {"none", "waiting", "delayed"}
        /\ job'[s].attempts = job[s].attempts
        /\ job'[s].stalled = job[s].stalled
        /\ runs'[s] = runs[s]
    BY <1>3 DEF TriggerAdd
  <2>3. UNCHANGED <<cancel, runs>>
    BY <1>3 DEF TriggerAdd
  <2>4. Counted(s)
    OBVIOUS
  <2> HIDE DEF TypeOK, OneHandlerPerJob, Job
  <2>5. Counted(s)'
    BY <2>2, <2>3, <2>4
  <2> HIDE DEF Counted
  <2>6. ASSUME NEW t \in Syncs, t # s PROVE Counted(t)'
    BY <2>1, <2>3, <2>6, CountedFrame
  <2> QED
    BY <2>5, <2>6
<1>4. ASSUME NEW s \in Syncs, CancelFind(s) PROVE RunsCounted'
  BY <1>4 DEF CancelFind
<1>5. ASSUME NEW s \in Syncs, CancelList(s) PROVE RunsCounted'
  BY <1>5 DEF CancelList
<1>6. ASSUME NEW s \in Syncs, CancelRemove(s) PROVE RunsCounted'
  <2>1. \A t \in Syncs : t # s => job'[t] = job[t] /\ cancel'[t] = cancel[t]
    BY <1>6 DEF CancelRemove
  <2>2. job[s].state # "none"
    BY <1>6 DEF CancelRemove
  <2>3. job'[s] = job[s] \/ job'[s].state = "removed"
    BY <1>6 DEF CancelRemove
  <2>4. cancel'[s] # "target" /\ UNCHANGED <<trig, runs>>
    BY <1>6 DEF CancelRemove
  <2>5. Counted(s)
    OBVIOUS
  <2> HIDE DEF TypeOK, OneHandlerPerJob, Job
  <2>6. Counted(s)'
    BY <2>2, <2>3, <2>4, <2>5
  <2> HIDE DEF Counted
  <2>7. ASSUME NEW t \in Syncs, t # s PROVE Counted(t)'
    BY <2>1, <2>4, <2>7, CountedFrame
  <2> QED
    BY <2>6, <2>7
<1>7. ASSUME NEW s \in Syncs, CancelUpdate(s) PROVE RunsCounted'
  BY <1>7 DEF CancelUpdate
<1>8. ASSUME NEW s \in Syncs, PromoteDelayed(s) PROVE RunsCounted'
  BY <1>8 DEF PromoteDelayed
<1>9. ASSUME NEW s \in Syncs, ExpireLock(s) PROVE RunsCounted'
  BY <1>9 DEF ExpireLock
<1>10. ASSUME NEW s \in Syncs, StalledCheck(s) PROVE RunsCounted'
  BY <1>10 DEF StalledCheck
<1>11. ASSUME NEW w \in Workers, NEW s \in Syncs, TakeJob(w, s)
       PROVE  RunsCounted'
  BY <1>11 DEF TakeJob
<1>12. ASSUME NEW w \in Workers, Resolve(w) PROVE RunsCounted'
  <2>1. worker[w].sync \in Syncs
    BY <1>12, WorkerSync DEF Resolve
  <2>2. \A t \in Syncs : t # worker[w].sync => job'[t] = job[t]
    BY <1>12, <2>1 DEF Resolve
  <2>3. \A t \in Syncs : t = worker[w].sync =>
          job[t].state = "active" /\ job'[t].state = "completed"
    BY <1>12, <2>1 DEF Resolve
  <2>4. UNCHANGED <<trig, cancel, runs>>
    BY <1>12 DEF Resolve
  <2> HIDE DEF TypeOK, OneHandlerPerJob
  <2> QED
    BY <2>2, <2>3, <2>4
<1>13. ASSUME NEW w \in Workers, Reject(w) PROVE RunsCounted'
  <2>1. worker[w].sync \in Syncs
    BY <1>13, WorkerSync DEF Reject
  <2>2. \A t \in Syncs : t # worker[w].sync => job'[t] = job[t]
    BY <1>13, <2>1 DEF Reject
  <2>3. LET s == worker[w].sync IN
        /\ job[s].state = "active"
        /\ job'[s].attempts = job[s].attempts + 1
        /\ job'[s].stalled = job[s].stalled
        /\ \/ job'[s].state = "delayed" /\ job[s].attempts + 1 < MaxAttempts
           \/ job'[s].state = "failed"
    <3>1. \A a, l, st :
            LET j == [job[worker[w].sync] EXCEPT !.attempts = a, !.lock = l,
                                                 !.state = st]
            IN  /\ j.attempts = a /\ j.state = st
                /\ j.stalled = job[worker[w].sync].stalled
      BY <2>1
    <3>2. job[worker[w].sync].state = "active"
      BY <2>1
    <3> HIDE DEF OneHandlerPerJob, RunsCounted, Job
    <3> QED
      BY <1>13, <2>1, <3>1, <3>2 DEF Reject
  <2>4. UNCHANGED <<trig, cancel, runs>>
    BY <1>13 DEF Reject
  <2>5. ASSUME NEW t \in Syncs, t # worker[w].sync PROVE Counted(t)'
    <3> HIDE DEF TypeOK, OneHandlerPerJob, Job, Counted
    <3> QED
      BY <2>2, <2>4, <2>5, CountedFrame
  <2>6. ASSUME NEW t \in Syncs, t = worker[w].sync PROVE Counted(t)'
    <3>1. Counted(t)
      OBVIOUS
    <3>2. /\ runs[t] \in Nat /\ job[t].attempts \in Nat
          /\ job[t].stalled \in Nat
      OBVIOUS
    <3> HIDE DEF TypeOK, OneHandlerPerJob, RunsCounted, Job
    <3>3. /\ job[t].state = "active"
          /\ job'[t].attempts = job[t].attempts + 1
          /\ job'[t].stalled = job[t].stalled
          /\ \/ job'[t].state = "delayed" /\ job[t].attempts + 1 < MaxAttempts
             \/ job'[t].state = "failed"
      BY <2>3, <2>6
    <3>4. trig'[t] = trig[t] /\ cancel'[t] = cancel[t] /\ runs'[t] = runs[t]
      BY <2>4
    <3>5. CASE job'[t].state = "failed"
      BY <3>1, <3>3, <3>4, <3>5
    <3>6. CASE /\ job'[t].state = "delayed"
               /\ job[t].attempts + 1 < MaxAttempts
      BY <3>1, <3>2, <3>3, <3>4, <3>6
    <3> QED
      BY <3>3, <3>5, <3>6
  <2> HIDE DEF Counted
  <2> QED
    BY <2>5, <2>6
<1>14. CASE UNCHANGED <<trig, cancel, job, runs>>
  BY <1>14, SMTT(30)
<1> QED
  BY <1>1, <1>2, <1>3, <1>4, <1>5, <1>6, <1>7, <1>8, <1>9, <1>10, <1>11,
     <1>12, <1>13, <1>14, ZenonT(40)
  DEF Next, Trigger, Cancel, Queue, Integrated, Handler, vars,
      LateProgress, IntegratedCreate, IntegratedScrape, IntegratedEngine,
      IntegratedFinish, IntegratedFail, IntegratedCrash, Start,
      GetUserCredentials, FetchDoubanData, SyncToFeishu,
      PerformIncrementalSync, Finish, Fail, Crash, Stamp, HandlerPhase

\* The bound on the starts of the handler.
LEMMA BoundNext ==
    ASSUME TypeOK, WorkerConsistent, RunsCounted, RunsBounded, [Next]_vars
    PROVE  RunsBounded'
<1> USE DEF TypeOK, RunsCounted, Counted, RunsBounded, Job, Unfinished
<1>1. ASSUME NEW w \in Workers, NEW s \in Syncs, TakeJob(w, s)
      PROVE  RunsBounded'
  BY <1>1 DEF TakeJob
<1>2. CASE UNCHANGED runs
  BY <1>2
<1> QED
  BY <1>1, <1>2, ZenonT(40) DEF Next, Trigger, Cancel, Queue, Integrated, Handler, vars,
      TriggerCheck, TriggerCreate, TriggerAdd, CancelFind, CancelList,
      CancelRemove, CancelUpdate, PromoteDelayed, ExpireLock, StalledCheck,
      LateProgress, IntegratedCreate, IntegratedScrape, IntegratedEngine,
      IntegratedFinish, IntegratedFail, IntegratedCrash, Start,
      GetUserCredentials, FetchDoubanData, SyncToFeishu,
      PerformIncrementalSync, Finish, Fail, Resolve, Reject, Crash, Stamp,
      HandlerPhase

\* The initial state satisfies the inductive invariant.
LEMMA InitInv == Init => IInv
<1> SUFFICES ASSUME Init PROVE IInv
  OBVIOUS
<1> USE DEF Init
<1>1. TypeOK
  BY DEF TypeOK, Row, Status, Job, JobState, Worker, Phase, DirectPhase
<1>2. WorkerConsistent /\ OneHandlerPerJob /\ FinishMeansSynced
  BY DEF WorkerConsistent, OneHandlerPerJob, FinishMeansSynced
<1>3. RunningExplained /\ SuccessMeansSynced
  BY DEF RunningExplained, Running, SuccessMeansSynced
<1>4. RunsCounted /\ RunsBounded
  BY DEF RunsCounted, Counted, RunsBounded, Unfinished
<1> QED
  BY <1>1, <1>2, <1>3, <1>4 DEF IInv

\* Every step keeps the inductive invariant.
LEMMA NextInv == IInv /\ [Next]_vars => IInv'
BY TypeNext, ConsistentNext, OneHandlerNext, FinishNext, SyncedNext,
   RunningNext, CountedNext, BoundNext DEF IInv

\* The inductive invariant holds in every behaviour.
LEMMA Invariance == Spec => []IInv
BY InitInv, NextInv, PTL DEF Spec

\* Rows, jobs, workers and counters keep their types.
THEOREM TypeCorrect == Spec => []TypeOK
BY Invariance, PTL DEF IInv

\* A row stays RUNNING without a handler only after a late progress update, a
\* lost write of the final status or a crash.
THEOREM RunningIsExplained == Spec => []RunningExplained
BY Invariance, PTL DEF IInv

\* handleSync and executeIntegratedSync report SUCCESS only for a sync whose
\* engine run returned.
THEOREM SuccessIsSynced == Spec => []SuccessMeansSynced
BY Invariance, PTL DEF IInv

\* Bull starts handleSync at most attempts + maxStalledCount times per sync.
THEOREM StartsBounded == Spec => []RunsBounded
BY Invariance, PTL DEF IInv

\* No job has two handlers, and cancelSync never removes one that has a live
\* handler.
THEOREM HandlersExclusive == Spec => []OneHandlerPerJob
BY Invariance, PTL DEF IInv
=============================================================================
