------------------------------ MODULE SyncJobs ------------------------------
(***************************************************************************)
(* Lifecycle of a sync task: SyncService (trigger, cancel, progress        *)
(* updates, integrated sync), SyncProcessor (the queue handler) and the    *)
(* Bull queue between them.  Every await of the code is a point where      *)
(* another actor may run, so a handler is one action per awaited phase.    *)
(*                                                                         *)
(* One element of Syncs stands for one request and for the sync_history    *)
(* row and the queue job that request may create.  Requests in Direct are  *)
(* calls of executeIntegratedSync, which uses no queue; the others are     *)
(* calls of triggerSync.                                                   *)
(***************************************************************************)
EXTENDS Naturals, FiniteSets

CONSTANTS Users,        \* user ids
          Syncs,        \* requests, and the rows and jobs they create
          Direct,       \* the requests that call executeIntegratedSync
          Owner,        \* the user of each request
          Workers,      \* processes that run SyncProcessor.handleSync
          None,         \* "no sync", for an idle worker
          MaxAttempts,  \* the job option "attempts"
          MaxStalled,   \* Bull's maxStalledCount
          MaxLate,      \* bound: progress updates in flight per sync
          MaxLost,      \* bound: database writes that fail
          MaxCrashes    \* bound: processes that die in a handler

ASSUME ConstantsAssumption ==
    /\ Direct \subseteq Syncs
    /\ Owner \in [Syncs -> Users]
    /\ None \notin Syncs
    /\ MaxAttempts \in Nat \ {0}
    /\ MaxStalled \in Nat
    /\ MaxLate \in Nat
    /\ MaxLost \in Nat
    /\ MaxCrashes \in Nat

VARIABLES row,      \* sync_history
          trig,     \* where each triggerSync call is
          cancel,   \* where the cancelSync call for a sync is
          direct,   \* where each executeIntegratedSync call is
          job,      \* the Bull job of each sync
          worker,   \* what each worker is doing
          late,     \* progress updates of a sync that nobody awaits
          lost,     \* number of failed database writes so far
          crashes,  \* number of crashes so far
          synced,   \* history: performIncrementalSync has returned
          runs,     \* history: how often handleSync was started
          cause     \* history: what may have left the row RUNNING

vars == <<row, trig, cancel, direct, job, worker, late, lost, crashes,
          synced, runs, cause>>

Status == {"NONE", "PENDING", "RUNNING", "SUCCESS", "FAILED", "CANCELLED"}

Completed == {"SUCCESS", "FAILED", "CANCELLED"}

Row == [status : Status, completedAt : BOOLEAN, errorMessage : BOOLEAN]

JobState == {"none", "waiting", "delayed", "active", "completed", "failed",
             "removed"}

Unfinished == {"waiting", "delayed", "active"}

Job == [state : JobState, attempts : Nat, stalled : Nat, lock : BOOLEAN]

\* The phases of handleSync that can still write RUNNING or a final status.
Open == {"start", "credentials", "douban", "feishu", "engine", "finish",
         "fail"}

Phase == Open \cup {"idle", "resolve", "reject"}

Worker == [pc : Phase, sync : Syncs \cup {None}]

DirectPhase == {"idle", "scrape", "engine", "finish", "fail", "done"}

-----------------------------------------------------------------------------
Init ==
    /\ row = [s \in Syncs |-> [status |-> "NONE", completedAt |-> FALSE,
                               errorMessage |-> FALSE]]
    /\ trig = [s \in Syncs |-> "idle"]
    /\ cancel = [s \in Syncs |-> "idle"]
    /\ direct = [s \in Syncs |-> "idle"]
    /\ job = [s \in Syncs |-> [state |-> "none", attempts |-> 0,
                               stalled |-> 0, lock |-> FALSE]]
    /\ worker = [w \in Workers |-> [pc |-> "idle", sync |-> None]]
    /\ late = [s \in Syncs |-> 0]
    /\ lost = 0
    /\ crashes = 0
    /\ synced = [s \in Syncs |-> FALSE]
    /\ runs = [s \in Syncs |-> 0]
    /\ cause = [s \in Syncs |-> {}]

-----------------------------------------------------------------------------
(* triggerSync: check, create the row, add the job.                        *)

Busy(s) == \E t \in Syncs : Owner[t] = Owner[s] /\ row[t].status = "RUNNING"

TriggerCheck(s) ==
    /\ s \notin Direct
    /\ trig[s] = "idle"
    /\ trig' = [trig EXCEPT ![s] = IF Busy(s) THEN "rejected" ELSE "checked"]
    /\ UNCHANGED <<row, cancel, direct, job, worker, late, lost, crashes,
                   synced, runs, cause>>

TriggerCreate(s) ==
    /\ trig[s] = "checked"
    /\ \/ /\ row' = [row EXCEPT ![s].status = "PENDING"]
          /\ trig' = [trig EXCEPT ![s] = "created"]
          /\ UNCHANGED lost
       \/ /\ lost < MaxLost
          /\ lost' = lost + 1
          /\ trig' = [trig EXCEPT ![s] = "failed"]
          /\ UNCHANGED row
    /\ UNCHANGED <<cancel, direct, job, worker, late, crashes, synced, runs,
                   cause>>

\* The job starts in the delayed set when the request has a delayMs.  When
\* the queue refuses the job the error is rethrown and the row stays PENDING.
TriggerAdd(s) ==
    /\ trig[s] = "created"
    /\ \/ /\ \E st \in {"waiting", "delayed"} :
                job' = [job EXCEPT ![s].state = st]
          /\ trig' = [trig EXCEPT ![s] = "accepted"]
          /\ UNCHANGED lost
       \/ /\ lost < MaxLost
          /\ lost' = lost + 1
          /\ trig' = [trig EXCEPT ![s] = "failed"]
          /\ UNCHANGED job
    /\ UNCHANGED <<row, cancel, direct, worker, late, crashes, synced, runs,
                   cause>>

-----------------------------------------------------------------------------
(* cancelSync: find the row, look for the job, remove it, update the row.  *)

CancelFind(s) ==
    /\ cancel[s] = "idle"
    /\ row[s].status = "RUNNING"
    /\ cancel' = [cancel EXCEPT ![s] = "found"]
    /\ UNCHANGED <<row, trig, direct, job, worker, late, lost, crashes,
                   synced, runs, cause>>

\* getJobs(['active', 'waiting']) does not return delayed jobs.
CancelList(s) ==
    /\ cancel[s] = "found"
    /\ cancel' = [cancel EXCEPT
                    ![s] = IF job[s].state \in {"active", "waiting"}
                           THEN "target" ELSE "unlinked"]
    /\ UNCHANGED <<row, trig, direct, job, worker, late, lost, crashes,
                   synced, runs, cause>>

\* Mutant: a locked job is removed too.
CancelRemoveForced(s) ==
    /\ cancel[s] = "target"
    /\ job' = [job EXCEPT ![s].state = "removed"]
    /\ cancel' = [cancel EXCEPT ![s] = "unlinked"]
    /\ UNCHANGED <<row, trig, direct, worker, late, lost, crashes, synced,
                   runs, cause>>

\* Bull refuses to remove a locked job; cancelSync then returns false.
CancelRemove(s) ==
    /\ cancel[s] = "target"
    /\ \/ /\ job[s].lock
          /\ cancel' = [cancel EXCEPT ![s] = "idle"]
          /\ UNCHANGED job
       \/ /\ ~job[s].lock
          /\ job' = [job EXCEPT ![s].state = "removed"]
          /\ cancel' = [cancel EXCEPT ![s] = "unlinked"]
    /\ UNCHANGED <<row, trig, direct, worker, late, lost, crashes, synced,
                   runs, cause>>

CancelUpdate(s) ==
    /\ cancel[s] = "unlinked"
    /\ cancel' = [cancel EXCEPT ![s] = "idle"]
    /\ \/ /\ row' = [row EXCEPT ![s] = [status |-> "CANCELLED",
                                        completedAt |-> TRUE,
                                        errorMessage |-> TRUE]]
          /\ UNCHANGED lost
       \/ /\ lost < MaxLost
          /\ lost' = lost + 1
          /\ UNCHANGED row
    /\ UNCHANGED <<trig, direct, job, worker, late, crashes, synced, runs,
                   cause>>

-----------------------------------------------------------------------------
(* updateSyncProgress: an unconditional write of the row, whose failure is *)
(* logged and swallowed.  RUNNING leaves completedAt and errorMessage.     *)

Stamp(r, st) ==
    CASE st = "RUNNING" -> [r EXCEPT !.status = "RUNNING"]
      [] st = "SUCCESS" -> [status |-> "SUCCESS", completedAt |-> TRUE,
                            errorMessage |-> FALSE]
      [] st = "FAILED"  -> [status |-> "FAILED", completedAt |-> TRUE,
                            errorMessage |-> TRUE]

UpdateSyncProgress(s, st) ==
    \/ /\ row' = [row EXCEPT ![s] = Stamp(row[s], st)]
       /\ UNCHANGED <<lost, cause>>
    \/ /\ lost < MaxLost
       /\ lost' = lost + 1
       /\ cause' = IF st \in Completed
                   THEN [cause EXCEPT ![s] = cause[s] \cup {"lost"}]
                   ELSE cause
       /\ UNCHANGED row

\* The onProgress callback starts an update and does not await it.  It can
\* reach the database at any later time, or fail there.
LateProgress(s) ==
    /\ late[s] > 0
    /\ late' = [late EXCEPT ![s] = late[s] - 1]
    /\ \/ /\ row' = [row EXCEPT ![s] = Stamp(row[s], "RUNNING")]
          /\ cause' = IF row[s].status = "RUNNING"
                      THEN cause
                      ELSE [cause EXCEPT ![s] = cause[s] \cup {"late"}]
       \/ UNCHANGED <<row, cause>>
    /\ UNCHANGED <<trig, cancel, direct, job, worker, lost, crashes, synced,
                   runs>>

-----------------------------------------------------------------------------
(* The Bull queue (external): promotion of delayed jobs, delivery to a     *)
(* worker, and the check for jobs whose worker died.                       *)

PromoteDelayed(s) ==
    /\ job[s].state = "delayed"
    /\ job' = [job EXCEPT ![s].state = "waiting"]
    /\ UNCHANGED <<row, trig, cancel, direct, worker, late, lost, crashes,
                   synced, runs, cause>>

TakeJob(w, s) ==
    /\ worker[w].pc = "idle"
    /\ job[s].state = "waiting"
    /\ job' = [job EXCEPT ![s].state = "active", ![s].lock = TRUE]
    /\ worker' = [worker EXCEPT ![w] = [pc |-> "start", sync |-> s]]
    /\ runs' = [runs EXCEPT ![s] = runs[s] + 1]
    /\ UNCHANGED <<row, trig, cancel, direct, late, lost, crashes, synced,
                   cause>>

\* A dead worker no longer renews the lock of its job.
ExpireLock(s) ==
    /\ job[s].state = "active"
    /\ job[s].lock
    /\ \A w \in Workers : worker[w].sync # s
    /\ job' = [job EXCEPT ![s].lock = FALSE]
    /\ UNCHANGED <<row, trig, cancel, direct, worker, late, lost, crashes,
                   synced, runs, cause>>

StalledCheck(s) ==
    /\ job[s].state = "active"
    /\ ~job[s].lock
    /\ job' = [job EXCEPT
                 ![s].stalled = job[s].stalled + 1,
                 ![s].state = IF job[s].stalled + 1 > MaxStalled
                              THEN "failed" ELSE "waiting"]
    /\ UNCHANGED <<row, trig, cancel, direct, worker, late, lost, crashes,
                   synced, runs, cause>>

-----------------------------------------------------------------------------
(* handleSync: one action per awaited phase.                               *)

\* The awaited progress updates of a phase, then the phase's own call, which
\* ends in the next phase or, when it throws, in the catch block.
HandlerPhase(w, from, next) ==
    LET s == worker[w].sync IN
    /\ worker[w].pc = from
    /\ UpdateSyncProgress(s, "RUNNING")
    /\ \E pc \in next : worker' = [worker EXCEPT ![w].pc = pc]
    /\ UNCHANGED <<trig, cancel, direct, job, late, crashes, synced, runs>>

Start(w) == HandlerPhase(w, "start", {"credentials"})

GetUserCredentials(w) == HandlerPhase(w, "credentials", {"douban", "fail"})

\* fetchDoubanData catches the errors of every category.
FetchDoubanData(w) == HandlerPhase(w, "douban", {"feishu"})

\* syncToFeishu up to the call of the engine: configuration and secret.
SyncToFeishu(w) == HandlerPhase(w, "feishu", {"engine", "fail"})

\* Mutant: the handler goes on without the result of the engine.
PerformIncrementalSyncUnchecked(w) ==
    /\ worker[w].pc = "engine"
    /\ worker' = [worker EXCEPT ![w].pc = "finish"]
    /\ UNCHANGED <<row, trig, cancel, direct, job, late, lost, crashes, synced,
                   runs, cause>>

\* performIncrementalSync: any number of progress callbacks, then a result
\* or an error.
PerformIncrementalSync(w) ==
    LET s == worker[w].sync IN
    /\ worker[w].pc = "engine"
    /\ \E n \in late[s] .. MaxLate : late' = [late EXCEPT ![s] = n]
    /\ \/ /\ worker' = [worker EXCEPT ![w].pc = "finish"]
          /\ synced' = [synced EXCEPT ![s] = TRUE]
       \/ /\ worker' = [worker EXCEPT ![w].pc = "fail"]
          /\ UNCHANGED synced
    /\ UNCHANGED <<row, trig, cancel, direct, job, lost, crashes, runs, cause>>

Finish(w) ==
    LET s == worker[w].sync IN
    /\ worker[w].pc = "finish"
    /\ UpdateSyncProgress(s, "SUCCESS")
    /\ worker' = [worker EXCEPT ![w].pc = "resolve"]
    /\ UNCHANGED <<trig, cancel, direct, job, late, crashes, synced, runs>>

\* Mutant: the catch block does not record the failure.
FailWithoutUpdate(w) ==
    /\ worker[w].pc = "fail"
    /\ worker' = [worker EXCEPT ![w].pc = "reject"]
    /\ UNCHANGED <<row, trig, cancel, direct, job, late, lost, crashes, synced,
                   runs, cause>>

Fail(w) ==
    LET s == worker[w].sync IN
    /\ worker[w].pc = "fail"
    /\ UpdateSyncProgress(s, "FAILED")
    /\ worker' = [worker EXCEPT ![w].pc = "reject"]
    /\ UNCHANGED <<trig, cancel, direct, job, late, crashes, synced, runs>>

\* The handler returned: Bull completes the job.
Resolve(w) ==
    LET s == worker[w].sync IN
    /\ worker[w].pc = "resolve"
    /\ job' = [job EXCEPT ![s].state = "completed", ![s].lock = FALSE]
    /\ worker' = [worker EXCEPT ![w] = [pc |-> "idle", sync |-> None]]
    /\ UNCHANGED <<row, trig, cancel, direct, late, lost, crashes, synced,
                   runs, cause>>

\* Mutant: one attempt too many.
RejectOneTooMany(w) ==
    LET s == worker[w].sync
        made == job[s].attempts + 1
    IN
    /\ worker[w].pc = "reject"
    /\ job' = [job EXCEPT
                 ![s].attempts = made,
                 ![s].lock = FALSE,
                 ![s].state = IF made <= MaxAttempts THEN "delayed"
                              ELSE "failed"]
    /\ worker' = [worker EXCEPT ![w] = [pc |-> "idle", sync |-> None]]
    /\ UNCHANGED <<row, trig, cancel, direct, late, lost, crashes, synced,
                   runs, cause>>

\* The handler threw: Bull retries after a backoff while attempts are left.
Reject(w) ==
    LET s == worker[w].sync
        made == job[s].attempts + 1
    IN
    /\ worker[w].pc = "reject"
    /\ job' = [job EXCEPT
                 ![s].attempts = made,
                 ![s].lock = FALSE,
                 ![s].state = IF made < MaxAttempts THEN "delayed"
                              ELSE "failed"]
    /\ worker' = [worker EXCEPT ![w] = [pc |-> "idle", sync |-> None]]
    /\ UNCHANGED <<row, trig, cancel, direct, late, lost, crashes, synced,
                   runs, cause>>

\* The process of a worker dies; its job stays active with its lock held.
Crash(w) ==
    LET s == worker[w].sync IN
    /\ worker[w].pc # "idle"
    /\ crashes < MaxCrashes
    /\ crashes' = crashes + 1
    /\ worker' = [worker EXCEPT ![w] = [pc |-> "idle", sync |-> None]]
    /\ cause' = [cause EXCEPT ![s] = cause[s] \cup {"crash"}]
    /\ UNCHANGED <<row, trig, cancel, direct, job, late, lost, synced, runs>>

-----------------------------------------------------------------------------
(* executeIntegratedSync: the same work inside a request, without the      *)
(* queue, without the check of triggerSync and without retries.            *)

IntegratedCreate(s) ==
    /\ s \in Direct
    /\ direct[s] = "idle"
    /\ row' = [row EXCEPT ![s].status = "RUNNING"]
    /\ direct' = [direct EXCEPT ![s] = "scrape"]
    /\ UNCHANGED <<trig, cancel, job, worker, late, lost, crashes, synced,
                   runs, cause>>

\* scrapeAndTransform, validateArchitectureSafety and getTableIdByCategory:
\* each of them may throw.
IntegratedScrape(s) ==
    /\ direct[s] = "scrape"
    /\ \E pc \in {"engine", "fail"} : direct' = [direct EXCEPT ![s] = pc]
    /\ UNCHANGED <<row, trig, cancel, job, worker, late, lost, crashes,
                   synced, runs, cause>>

IntegratedEngine(s) ==
    /\ direct[s] = "engine"
    /\ \/ /\ direct' = [direct EXCEPT ![s] = "finish"]
          /\ synced' = [synced EXCEPT ![s] = TRUE]
       \/ /\ direct' = [direct EXCEPT ![s] = "fail"]
          /\ UNCHANGED synced
    /\ UNCHANGED <<row, trig, cancel, job, worker, late, lost, crashes, runs,
                   cause>>

\* The final update leaves errorMessage as it is; when it fails the catch
\* block records the sync as FAILED.
IntegratedFinish(s) ==
    /\ direct[s] = "finish"
    /\ \/ /\ row' = [row EXCEPT ![s].status = "SUCCESS",
                                ![s].completedAt = TRUE]
          /\ direct' = [direct EXCEPT ![s] = "done"]
          /\ UNCHANGED lost
       \/ /\ lost < MaxLost
          /\ lost' = lost + 1
          /\ direct' = [direct EXCEPT ![s] = "fail"]
          /\ UNCHANGED row
    /\ UNCHANGED <<trig, cancel, job, worker, late, crashes, synced, runs,
                   cause>>

IntegratedFail(s) ==
    /\ direct[s] = "fail"
    /\ direct' = [direct EXCEPT ![s] = "done"]
    /\ UpdateSyncProgress(s, "FAILED")
    /\ UNCHANGED <<trig, cancel, job, worker, late, crashes, synced, runs>>

IntegratedCrash(s) ==
    /\ direct[s] \in Open \cup {"scrape"}
    /\ crashes < MaxCrashes
    /\ crashes' = crashes + 1
    /\ direct' = [direct EXCEPT ![s] = "done"]
    /\ cause' = [cause EXCEPT ![s] = cause[s] \cup {"crash"}]
    /\ UNCHANGED <<row, trig, cancel, job, worker, late, lost, synced, runs>>

-----------------------------------------------------------------------------
Handler(w) ==
    \/ Start(w)
    \/ GetUserCredentials(w)
    \/ FetchDoubanData(w)
    \/ SyncToFeishu(w)
    \/ PerformIncrementalSync(w)
    \/ Finish(w)
    \/ Fail(w)
    \/ Resolve(w)
    \/ Reject(w)

Integrated(s) ==
    \/ IntegratedScrape(s)
    \/ IntegratedEngine(s)
    \/ IntegratedFinish(s)
    \/ IntegratedFail(s)

Trigger(s) == TriggerCheck(s) \/ TriggerCreate(s) \/ TriggerAdd(s)

Cancel(s) ==
    \/ CancelFind(s)
    \/ CancelList(s)
    \/ CancelRemove(s)
    \/ CancelUpdate(s)

Queue(s) ==
    \/ PromoteDelayed(s)
    \/ ExpireLock(s)
    \/ StalledCheck(s)

Next ==
    \/ \E s \in Syncs : \/ Trigger(s)
                        \/ Cancel(s)
                        \/ Queue(s)
                        \/ LateProgress(s)
                        \/ IntegratedCreate(s)
                        \/ Integrated(s)
                        \/ IntegratedCrash(s)
                        \/ \E w \in Workers : TakeJob(w, s)
    \/ \E w \in Workers : Handler(w) \/ Crash(w)

Spec == Init /\ [][Next]_vars

\* Every await of a handler settles (HTTP calls have a timeout, Redis commands
\* a retry limit; the database is assumed to answer or to fail), the queue
\* moves its jobs, an idle worker takes a waiting job, and a cancelSync
\* that found its row goes on.  Requests, cancellations, crashes and late
\* updates are not required to happen.
Fairness ==
    /\ \A w \in Workers : WF_vars(Handler(w))
    /\ \A s \in Syncs : /\ WF_vars(Queue(s))
                        /\ WF_vars(CancelList(s) \/ CancelRemove(s)
                                     \/ CancelUpdate(s))
    /\ WF_vars(\E w \in Workers, s \in Syncs : TakeJob(w, s))

FairSpec == Spec /\ Fairness

-----------------------------------------------------------------------------
(* Properties.                                                             *)

\* Type invariant of the rows, the queue and the handlers.
TypeOK ==
    /\ row \in [Syncs -> Row]
    /\ trig \in [Syncs -> {"idle", "checked", "created", "accepted",
                           "rejected", "failed"}]
    /\ cancel \in [Syncs -> {"idle", "found", "target", "unlinked"}]
    /\ direct \in [Syncs -> DirectPhase]
    /\ job \in [Syncs -> Job]
    /\ worker \in [Workers -> Worker]
    /\ late \in [Syncs -> Nat]
    /\ lost \in 0 .. MaxLost
    /\ crashes \in 0 .. MaxCrashes
    /\ synced \in [Syncs -> BOOLEAN]
    /\ runs \in [Syncs -> Nat]
    /\ cause \in [Syncs -> SUBSET {"late", "lost", "crash"}]

Running(s) == row[s].status = "RUNNING"

\* A handler that will still write a final status is at work on s.
Attended(s) ==
    \/ \E w \in Workers : worker[w].sync = s /\ worker[w].pc \in Open
    \/ direct[s] \in Open \cup {"scrape"}

\* A row is left RUNNING without a handler only because a progress update
\* that handleSync did not await arrived late, because the write of the final
\* status failed and updateSyncProgress swallowed the error, or because the
\* process died.  No path through handleSync or executeIntegratedSync itself
\* leaves a sync RUNNING.
RunningExplained ==
    \A s \in Syncs : Running(s) => Attended(s) \/ cause[s] # {}

\* A row says SUCCESS only after performIncrementalSync returned for that
\* sync, whatever retries, crashes, cancellations and late updates there were.
SuccessMeansSynced ==
    \A s \in Syncs : row[s].status = "SUCCESS" => synced[s]

\* handleSync is started at most "attempts" times plus once for each time
\* Bull may put a stalled job back, however failures and crashes alternate.
RunsBounded ==
    \A s \in Syncs : runs[s] <= MaxAttempts + MaxStalled

\* A job never has two handlers at once, and a job with a live handler is
\* active and locked, so cancelSync cannot take it away under the handler.
OneHandlerPerJob ==
    /\ \A v, w \in Workers : worker[v].sync = worker[w].sync =>
                                v = w \/ worker[v].sync = None
    /\ \A w \in Workers : worker[w].sync # None =>
          job[worker[w].sync].state = "active" /\ job[worker[w].sync].lock

\* A row that handleSync set to RUNNING does not stay RUNNING, through failed
\* attempts, cancellations and as many crashes as Bull puts a stalled job back,
\* while no write of the row fails and no progress update arrives late.
RunningEnds == \A s \in Syncs : Running(s) ~> ~Running(s)
=============================================================================
