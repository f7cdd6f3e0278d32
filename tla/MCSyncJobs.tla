----------------------------- MODULE MCSyncJobs -----------------------------
(* Instances of SyncJobs for TLC: one user, queued requests and at most one *)
(* integrated request.                                                      *)
EXTENDS SyncJobs, TLC

CONSTANT theUser

MCUsers == {theUser}

\* Workers are interchangeable.
WorkerSymmetry == Permutations(Workers)

MCOwner == [s \in Syncs |-> theUser]
=============================================================================
