------------------------------ MODULE RedisAof ------------------------------
(***************************************************************************)
(* The append only file of Redis (redis-stable/src/aof.c) with its         *)
(* background fsync thread (bio.c): the buffer and the fsync policies, the  *)
(* BASE, INCR and HISTORY files of the manifest, the background rewrite,   *)
(* switching the AOF on and off, and loading it after a crash.             *)
(*                                                                         *)
(* A dataset is the sequence of the writes that made it, each with its     *)
(* database.  An INCR file holds commands: a select, a write, or the MULTI *)
(* and EXEC around a transaction; a BASE file holds a dataset.  A file has *)
(* a part that was fsynced and survives a power failure, and a rest that   *)
(* may not.  The manifest is replaced by writing, fsyncing and renaming;   *)
(* when only the fsync of the directory that follows fails, the manifest   *)
(* is replaced and the caller is told that it is not.  The C functions     *)
(* are operators on w = [p, d].                                            *)
(***************************************************************************)
EXTENDS Integers, Sequences, FiniteSets, SequencesExt

CONSTANTS
    None,
    Dbs,       \* the database numbers
    Scenarios  \* the fsync policy, and the bounds, of a behaviour

ASSUME AofConstants == 0 \in Dbs /\ None \notin Dbs

VARIABLES
    p,      \* the process: the fields of redisServer, and its bio queue
    d,      \* the disk: files by name, and the manifest file
    budget  \* the policy, and what is left of the bounds

vars == <<p, d, budget>>

World == [p |-> p, d |-> d]

Base(k) == <<"base", k>>
Incr(k) == <<"incr", k>>
Temp == <<"temp", 0>>

NoFile == [cmds |-> <<>>, sync |-> 0]

\* Operations on files; a file that is open may have been removed.
Written(w, f, cmds) ==
    IF f \notin DOMAIN w.d.file THEN w ELSE [w EXCEPT !.d.file[f].cmds = @ \o cmds]
Fsynced(w, f) ==
    IF f \notin DOMAIN w.d.file THEN w ELSE [w EXCEPT !.d.file[f].sync = Len(w.d.file[f].cmds)]
Create(w, f, content) ==
    [w EXCEPT !.d.file = [g \in DOMAIN @ \cup {f} |-> IF g = f THEN content ELSE @[g]]]
Unlink(w, gone) ==
    [w EXCEPT !.d.file = [g \in DOMAIN @ \ gone |-> @[g]]]
Rename(w, f, g) ==
    LET moved == Unlink(Create(w, g, w.d.file[f]), {f})
    IN  [moved EXCEPT !.p.fd = IF @ = f THEN g ELSE @,
                      !.p.bio = [i \in DOMAIN @ |-> IF @[i].file = f THEN [@[i] EXCEPT !.file = g]
                                                    ELSE @[i]]]

-----------------------------------------------------------------------------
(* The manifest *)

getNewBaseFileNameAndMarkPreAsHistory(am) ==
    [am EXCEPT !.hist = @ \cup {Base(am.base)}, !.base = am.bseq + 1, !.bseq = @ + 1]

getNewIncrAofName(am) ==
    [am EXCEPT !.incr = Append(@, am.iseq + 1), !.iseq = @ + 1]

getLastIncrAofName(am) == IF am.incr = <<>> THEN getNewIncrAofName(am) ELSE am

\* Mutant: the file that is being written is history too.
MarkAllIncrAsHistory(am, open) ==
    [am EXCEPT !.incr = <<>>,
               !.hist = @ \cup {Incr(am.incr[i]) : i \in 1..Len(am.incr)}]

\* All INCR files but the one that is being written, if one is, become history.
markRewrittenIncrAofAsHistory(am, open) ==
    LET n == IF open THEN Len(am.incr) - 1 ELSE Len(am.incr)
    IN  [am EXCEPT !.incr = SubSeq(am.incr, n + 1, Len(am.incr)),
                   !.hist = @ \cup {Incr(am.incr[i]) : i \in 1..n}]

persistAofManifest(w, am) == [w EXCEPT !.d.manifest = am, !.p.torn = FALSE]

\* The outcomes of a persistAofManifest that returns C_ERR: the old manifest is
\* still there, or writeAofManifestFile has failed after the rename.
persistAofManifestFails(w, am) == {w, [w EXCEPT !.d.manifest = am, !.p.torn = TRUE]}

\* The sequence numbers go on from what the manifest names.
aofLoadManifestFromDisk(m) ==
    [m EXCEPT !.bseq = m.base, !.iseq = IF m.incr = <<>> THEN 0 ELSE m.incr[Len(m.incr)]]

\* The history files are removed, and the manifest in memory forgets them; what
\* has no history is not written again.
UnlinkHistory(w) ==
    [Unlink(w, w.p.manifest.hist) EXCEPT !.p.manifest.hist = {}]
aofDelHistoryFiles(w) ==
    IF w.p.manifest.hist = {} THEN w
    ELSE persistAofManifest(UnlinkHistory(w), UnlinkHistory(w).p.manifest)

-----------------------------------------------------------------------------
(* The background thread *)

aofFsyncInProgress(w) == \E i \in DOMAIN w.p.bio : w.p.bio[i].kind = "fsync"

\* A job fsyncs its file and publishes the offset the job was created at; an
\* fsync that fails stops the writes of the clients.
bioProcessBackgroundJobs(w, ok) ==
    LET job == Head(w.p.bio)
        synced == Fsynced(w, job.file)
    IN  IF ok THEN [synced EXCEPT !.p.bio = Tail(@), !.p.pending = job.off, !.p.ferr = FALSE]
        ELSE [w EXCEPT !.p.bio = Tail(@), !.p.ferr = TRUE]

bioDrainWorker(w) ==
    FoldLeft(LAMBDA x, job : bioProcessBackgroundJobs(x, TRUE), w, w.p.bio)

Submit(w, kind) ==
    [w EXCEPT !.p.bio = Append(@, [kind |-> kind, file |-> w.p.fd, off |-> Len(w.p.data)])]

-----------------------------------------------------------------------------
(* Writing *)

\* aof_buf gets a SELECT when the database changes (MULTI and EXEC have none);
\* while the AOF is being switched on only a rewrite in progress needs the commands.
feedAppendOnlyFile(w, db, cmd) ==
    LET other == db # None /\ db # w.p.seldb
        cmds == IF other THEN << <<"select", db>>, cmd >> ELSE << cmd >>
        on == w.p.state = "on" \/ (w.p.state = "wait" /\ w.p.child # None)
    IN  [w EXCEPT !.p.seldb = IF other THEN db ELSE @, !.p.buf = IF on THEN @ \o cmds ELSE @]

\* Mutant: several commands are not wrapped in a transaction.
PropagateUnwrapped(w, ops) ==
    IF w.p.state = "off" THEN w
    ELSE FoldLeft(LAMBDA x, op : feedAppendOnlyFile(x, op.db, <<"write", [id |-> op.id, part |-> op.part]>>),
                  w, ops)

\* The operations of an execution unit, as a transaction if there are several.
propagatePendingCommands(w, ops) ==
    LET mark(x, name) == IF Len(ops) > 1 THEN feedAppendOnlyFile(x, None, <<name, 0>>) ELSE x
        fed(x) == FoldLeft(LAMBDA y, op :
                      feedAppendOnlyFile(y, op.db, <<"write", [id |-> op.id, part |-> op.part]>>), x, ops)
    IN  IF w.p.state = "off" THEN w ELSE mark(fed(mark(w, "multi")), "exec")

\* Mutant: always is treated as everysec.
FsyncLater(w, sec, busy) ==
    IF budget.policy # "no" /\ sec /\ ~busy
      THEN [Submit(w, "fsync") EXCEPT !.p.fsyncOff = w.p.size]
      ELSE w

\* Mutant: the offset is published when the background fsync is requested.
FsyncAnnounced(w, sec, busy) ==
    IF budget.policy = "always"
      THEN [Fsynced(w, w.p.fd) EXCEPT !.p.fsyncOff = w.p.size, !.p.pending = Len(w.p.data)]
    ELSE IF budget.policy = "everysec" /\ sec /\ ~busy
      THEN [Submit(w, "fsync") EXCEPT !.p.fsyncOff = w.p.size, !.p.pending = Len(w.p.data)]
      ELSE w

\* sec: a second has passed since the last fsync; busy: one was in progress.
tryFsync(w, sec, busy) ==
    IF budget.policy = "always"
      THEN [Fsynced(w, w.p.fd) EXCEPT !.p.fsyncOff = w.p.size, !.p.pending = Len(w.p.data)]
    ELSE IF budget.policy = "everysec" /\ sec /\ ~busy
      THEN [Submit(w, "fsync") EXCEPT !.p.fsyncOff = w.p.size]
      ELSE w

\* The whole buffer is written, or its first k commands remain in the file after
\* an error, or none does; with always an error ends the process.
aofWrite(w, k) ==
    [Written(w, w.p.fd, SubSeq(w.p.buf, 1, k))
        EXCEPT !.p.size = @ + k, !.p.buf = SubSeq(@, k + 1, Len(@)),
               !.p.werr = k < Len(w.p.buf),
               !.p.state = IF k < Len(w.p.buf) /\ budget.policy = "always" THEN "dead" ELSE @]

(***************************************************************************)
(* flushAppendOnlyFile.  late: a postponed write has waited two seconds;   *)
(* k: what aofWrite writes.                                                *)
(***************************************************************************)
flushAppendOnlyFile(w, force, sec, late, k) ==
    LET busy == aofFsyncInProgress(w)
        wrote == aofWrite(w, k)
    IN  IF w.p.buf = <<>>
          THEN IF w.p.fsyncOff = w.p.size
                 THEN IF busy THEN w ELSE [w EXCEPT !.p.pending = Len(w.p.data)]
               ELSE tryFsync(w, sec, busy)
        ELSE IF budget.policy = "everysec" /\ ~force /\ busy /\ ~late THEN w
        ELSE IF k < Len(w.p.buf) THEN wrote
        ELSE tryFsync(wrote, sec, busy)

-----------------------------------------------------------------------------
(* Loading *)

\* A command outside a transaction.
Apply(x, e) ==
    IF e[1] = "select" THEN [x EXCEPT !.db = e[2]]
    ELSE [x EXCEPT !.data = Append(@, [id |-> e[2].id, part |-> e[2].part, db |-> x.db])]

\* One command of a file: inside a MULTI it is queued until the EXEC.
LoadCommand(x, e) ==
    CASE e[1] = "multi" -> [x EXCEPT !.multi = TRUE]
      [] e[1] = "exec"  -> [FoldLeft(Apply, x, x.queue) EXCEPT !.multi = FALSE, !.queue = <<>>]
      [] e[1] \in {"select", "write"} ->
           IF x.multi THEN [x EXCEPT !.queue = Append(@, e)] ELSE Apply(x, e)

\* Each file is executed by a client of its own, in database 0 at first.
loadSingleAppendOnlyFile(data, cmds) ==
    FoldLeft(LoadCommand, [data |-> data, db |-> 0, multi |-> FALSE, queue |-> <<>>], cmds)

\* What the files of a manifest give; a transaction that is not complete is an
\* error unless it ends the last file, and so is a file that is missing.
loadAppendOnlyFiles(file, am) ==
    LET names == [i \in 1..Len(am.incr) |-> Incr(am.incr[i])]
        missing == \/ Base(am.base) \notin DOMAIN file
                   \/ \E i \in DOMAIN names : names[i] \notin DOMAIN file
        upto[i \in 0..Len(names)] ==
            IF i = 0 THEN [data |-> file[Base(am.base)].cmds, failed |-> FALSE]
            ELSE LET x == loadSingleAppendOnlyFile(upto[i - 1].data, file[names[i]].cmds)
                 IN  [data |-> x.data, failed |-> upto[i - 1].failed \/ (x.multi /\ i < Len(names))]
    IN  IF missing THEN [data |-> <<>>, failed |-> TRUE] ELSE upto[Len(names)]

\* A last file that ends inside a transaction is cut before it.
Truncated(cmds) ==
    LET open == {i \in DOMAIN cmds : cmds[i][1] = "multi" /\
                   \A j \in (i + 1)..Len(cmds) : cmds[j][1] # "exec"}
    IN  IF open = {} THEN cmds ELSE SubSeq(cmds, 1, (CHOOSE i \in open : TRUE) - 1)

-----------------------------------------------------------------------------
FirstManifest == [base |-> 1, incr |-> <<1>>, hist |-> {}, bseq |-> 1, iseq |-> 1]

\* The server has started with an empty dataset and with AOF on.
Init ==
    /\ budget \in Scenarios
    /\ p = [state |-> "on", data |-> <<>>, buf |-> <<>>, seldb |-> None, fd |-> Incr(1),
            size |-> 0, fsyncOff |-> 0, manifest |-> FirstManifest, child |-> None,
            bio |-> <<>>, pending |-> 0, fsynced |-> 0, werr |-> FALSE, ferr |-> FALSE,
            scheduled |-> FALSE, replied |-> 0, loaded |-> 0, step |-> "none", torn |-> FALSE,
            clash |-> FALSE]
    /\ d = [file |-> [f \in {Base(1), Incr(1)} |-> NoFile], manifest |-> FirstManifest]

Become(new) == \E w \in {new} : p' = w.p /\ d' = w.d

Spend(what) == budget[what] > 0 /\ budget' = [budget EXCEPT ![what] = @ - 1]

Running == p.state # "dead"

\* The main thread is not inside backgroundRewriteDoneHandler.
Ready == Running /\ p.step = "none"

writeCommandsDeniedByDiskError == p.state # "off" /\ (p.werr \/ p.ferr)

\* A client's command (part 0), or a transaction of two writes (parts 1 and 2).
call(db, tx) ==
    /\ Ready /\ ~writeCommandsDeniedByDiskError
    /\ Spend("writes")
    /\ LET op(part) == [id |-> budget.writes, part |-> part, db |-> db]
           ops == IF tx THEN << op(1), op(2) >> ELSE << op(0) >>
       IN  Become(propagatePendingCommands([World EXCEPT !.p.data = @ \o ops], ops))

\* The outcomes of a flush, without and with a write error.
Flushes(w, force) ==
    {flushAppendOnlyFile(w, force, sec, late, Len(w.p.buf)) : sec \in BOOLEAN, late \in BOOLEAN}
FailedFlushes(w, force) ==
    {flushAppendOnlyFile(w, force, FALSE, TRUE, k) : k \in 0..(Len(w.p.buf) - 1)}

\* The flush, the fsynced offset, and then the replies.
beforeSleep ==
    /\ Ready
    /\ LET after(w) ==
             IF w.p.state = "dead" THEN w
             ELSE [w EXCEPT !.p.fsynced = IF w.p.state = "on" /\ @ # -1 THEN w.p.pending ELSE @,
                            !.p.replied = Len(w.p.data)]
       IN  \/ p.state = "off" /\ Become(after(World)) /\ UNCHANGED budget
           \/ /\ p.state # "off"
              /\ \E w \in Flushes(World, FALSE) : Become(after(w))
              /\ UNCHANGED budget
           \/ /\ p.state # "off"
              /\ Spend("writeErrors")
              /\ \E w \in FailedFlushes(World, FALSE) : Become(after(w))

bioThread(ok) ==
    /\ p.bio # <<>>
    /\ IF ok THEN UNCHANGED budget ELSE Spend("fsyncErrors")
    /\ Become(bioProcessBackgroundJobs(World, ok))

-----------------------------------------------------------------------------
(* The rewrite *)

\* The file and the manifest that openNewIncrAofForAppend is going to use.
NextIncr(w) ==
    IF w.p.state = "wait" THEN [am |-> w.p.manifest, file |-> Temp]
    ELSE LET am == getNewIncrAofName(w.p.manifest) IN [am |-> am, file |-> Incr(am.iseq)]

(***************************************************************************)
(* openNewIncrAofForAppend: a new INCR file that the manifest names first, *)
(* or a temporary one while the AOF is switched on.  The old file is       *)
(* fsynced and closed in the background.                                   *)
(***************************************************************************)
openNewIncrAofForAppend(w) ==
    LET new == NextIncr(w)
        closed == IF w.p.fd = None THEN w ELSE Submit(w, "close")
        made == Create(closed, new.file, NoFile)
        named == IF w.p.state = "wait" THEN made ELSE persistAofManifest(made, new.am)
    IN  IF w.p.state = "off" THEN w
        ELSE [named EXCEPT !.p.fd = new.file, !.p.size = 0, !.p.fsyncOff = 0, !.p.manifest = new.am]

\* Up to the fork.
Prepared(w) ==
    LET opened == openNewIncrAofForAppend(w)
    IN  IF w.p.state # "wait" THEN opened
        ELSE [bioDrainWorker(opened) EXCEPT !.p.pending = Len(w.p.data), !.p.fsynced = 0]

\* After the flush: the child writes the dataset as it is at the fork.
rewriteAppendOnlyFileBackground(w) ==
    IF w.p.state = "dead" THEN w
    ELSE [Prepared(w) EXCEPT !.p.child = w.p.data, !.p.scheduled = FALSE]

\* The file is not opened, persistAofManifest returns an error, or there is no child.
rewriteAppendOnlyFileBackgroundFails(w) ==
    {w, Prepared(w)} \cup
    (IF w.p.state = "on"
       THEN persistAofManifestFails(Create(w, NextIncr(w).file, NoFile), NextIncr(w).am) ELSE {})

\* bgrewriteaofCommand and the rewrites that serverCron starts.
StartRewrite ==
    /\ Ready /\ p.child = None
    /\ LET reset == [World EXCEPT !.p.seldb = None]
       IN  \/ /\ \/ Spend("rewrites")
                 \/ p.scheduled /\ UNCHANGED budget
              /\ \E w \in Flushes(reset, TRUE) : Become(rewriteAppendOnlyFileBackground(w))
           \/ /\ budget.rewrites > 0 /\ Spend("writeErrors")
              /\ \E w \in FailedFlushes(reset, TRUE) : Become(rewriteAppendOnlyFileBackground(w))
           \/ /\ Spend("errors")
              /\ \E w \in Flushes(reset, TRUE) :
                   \E x \in rewriteAppendOnlyFileBackgroundFails(w) : Become(x)

\* The end of the handler: what was collected for an AOF that is not on is dropped.
Cleanup(w) ==
    IF w.p.state # "wait" THEN [w EXCEPT !.p.child = None, !.p.step = "none"]
    ELSE [Unlink(w, {Temp}) EXCEPT !.p.child = None, !.p.step = "none",
                                   !.p.buf = <<>>, !.p.scheduled = TRUE]

\* The manifest that backgroundRewriteDoneHandler makes, and the new files in it.
NewManifest(w) ==
    LET am == getNewBaseFileNameAndMarkPreAsHistory(w.p.manifest)
        both == IF w.p.state = "wait" THEN getNewIncrAofName(am) ELSE am
    IN  markRewrittenIncrAofAsHistory(both, w.p.fd # None)
NewFiles(w) ==
    {Base(NewManifest(w).bseq)} \cup
    (IF w.p.state = "wait" THEN {Incr(NewManifest(w).iseq)} ELSE {})

(***************************************************************************)
(* backgroundRewriteDoneHandler, for a child that has succeeded: the new   *)
(* files get their names, the manifest names them, the history files are   *)
(* removed, and the manifest forgets them.  The process or the machine may *)
(* fail between any two of these, and each may return an error.  A crash   *)
(* between the two renames leaves what one before them does, files that no *)
(* manifest names.                                                         *)
(***************************************************************************)
RenameFiles ==
    /\ Ready /\ p.child # None
    /\ LET am == NewManifest(World)
           base == Create(World, Base(am.bseq), [cmds |-> p.child, sync |-> Len(p.child)])
           files == IF p.state = "wait" THEN Rename(base, Temp, Incr(am.iseq)) ELSE base
       IN  Become([files EXCEPT !.p.step = "renamed"])
    /\ UNCHANGED budget

\* Mutant: the history files are removed before the manifest is written.
UnlinkBeforeManifest ==
    /\ p.step = "renamed"
    /\ LET am == NewManifest(World)
       IN  \/ /\ Become([Unlink(World, am.hist) EXCEPT !.p.step = "named", !.p.manifest = am])
              /\ UNCHANGED budget
           \/ /\ Spend("errors")
              /\ \E w \in persistAofManifestFails(World, am) : Become(Cleanup(Unlink(w, NewFiles(World))))

\* On an error the new files are removed.
PersistManifest ==
    /\ p.step = "renamed"
    /\ LET am == NewManifest(World)
       IN  \/ /\ Become([persistAofManifest(World, am) EXCEPT !.p.manifest = am, !.p.step = "named"])
              /\ UNCHANGED budget
           \/ /\ Spend("errors")
              /\ \E w \in persistAofManifestFails(World, am) : Become(Cleanup(Unlink(w, NewFiles(World))))

RemoveHistory ==
    /\ p.step = "named"
    /\ Become([UnlinkHistory(World) EXCEPT !.p.step = "removed"])
    /\ UNCHANGED budget

\* The result of the second persistAofManifest is not looked at.
RewriteDone ==
    /\ p.step = "removed"
    /\ LET done(w) == Cleanup(IF p.state # "wait" THEN w
                              ELSE [w EXCEPT !.p.state = "on", !.p.fsynced = p.pending])
       IN  \/ Become(done(persistAofManifest(World, p.manifest))) /\ UNCHANGED budget
           \/ Spend("errors") /\ Become(done(World))

\* The child has failed or was killed, or a file is not renamed.
RewriteFails ==
    /\ Ready /\ p.child # None
    /\ Spend("errors")
    /\ Become(Cleanup(World))

-----------------------------------------------------------------------------
(* Switching the AOF off and on with CONFIG SET *)

stopAppendOnly ==
    /\ Ready /\ p.state # "off"
    /\ LET closed(w) ==
             IF w.p.state = "dead" THEN w
             ELSE [Fsynced(w, w.p.fd)
                     EXCEPT !.p.fd = None, !.p.seldb = None, !.p.state = "off",
                            !.p.scheduled = FALSE, !.p.size = 0, !.p.fsyncOff = 0,
                            !.p.fsynced = -1, !.p.pending = 0, !.p.child = None, !.p.buf = <<>>]
       IN  \/ /\ Spend("switches")
              /\ \E w \in Flushes(World, TRUE) : Become(closed(w))
           \/ /\ budget.switches > 0 /\ Spend("writeErrors")
              /\ \E w \in FailedFlushes(World, TRUE) : Become(closed(w))

\* The AOF is on when a rewrite has ended; one that has been running collects no
\* commands, and is stopped.  The buffer is empty, and the flush has no outcome
\* but one.
startAppendOnly ==
    /\ Ready /\ p.state = "off"
    /\ \E w \in Flushes([World EXCEPT !.p.state = "wait", !.p.child = None, !.p.seldb = None], TRUE) :
         \/ /\ Spend("switches")
            /\ Become([rewriteAppendOnlyFileBackground(w) EXCEPT !.p.werr = FALSE, !.p.ferr = FALSE])
         \/ /\ Spend("errors")
            /\ \E x \in rewriteAppendOnlyFileBackgroundFails(w) : Become([x EXCEPT !.p.state = "off"])

-----------------------------------------------------------------------------
(* Crashes *)

(***************************************************************************)
(* The process starts again with AOF on and the files that are left: it    *)
(* loads them, opens the last INCR file for appending and removes what is  *)
(* history.  It does not start if the files cannot be loaded.              *)
(***************************************************************************)
Restarted(file) ==
    LET am == aofLoadManifestFromDisk(d.manifest)
        x == loadAppendOnlyFiles(file, am)
        names == getLastIncrAofName(am)
        f == Incr(names.incr[Len(names.incr)])
        old == IF f \in DOMAIN file THEN file[f] ELSE NoFile
        cmds == Truncated(old.cmds)
        boot == [p EXCEPT !.state = "on", !.data = x.data, !.buf = <<>>, !.seldb = None, !.fd = f,
                          !.size = Len(cmds), !.fsyncOff = Len(cmds), !.manifest = names,
                          !.child = None, !.bio = <<>>, !.pending = 0, !.fsynced = 0,
                          !.werr = FALSE, !.ferr = FALSE, !.scheduled = FALSE, !.step = "none",
                          !.replied = Len(x.data), !.loaded = Len(x.data),
                          !.clash = f \in am.hist]
        opened == Create([p |-> boot, d |-> [d EXCEPT !.file = file]], f,
                         [cmds |-> cmds, sync |-> IF old.sync < Len(cmds) THEN old.sync ELSE Len(cmds)])
    IN  IF x.failed THEN [p |-> [p EXCEPT !.state = "dead", !.step = "none", !.bio = <<>>], d |-> [d EXCEPT !.file = file]]
        ELSE aofDelHistoryFiles(persistAofManifest(opened, names))

\* The process ends; the files are as they were written.
Crash ==
    /\ Spend("crashes")
    /\ Become(Restarted(d.file))

\* The machine fails: a file keeps what was fsynced and any part of the rest.
PowerFailure ==
    /\ Spend("outages")
    /\ LET file == d.file
           loose == {f \in DOMAIN file : file[f].sync < Len(file[f].cmds)}
           cuts == {n \in [loose -> UNION {file[f].sync..Len(file[f].cmds) : f \in loose}] :
                      \A f \in loose : n[f] \in file[f].sync..Len(file[f].cmds)}
           cut(f, k) == [cmds |-> SubSeq(file[f].cmds, 1, k), sync |-> k]
       IN  \E n \in cuts :
             Become(Restarted([f \in DOMAIN file |-> IF f \in loose THEN cut(f, n[f]) ELSE file[f]]))

Next ==
    \/ \E db \in Dbs, tx \in BOOLEAN : call(db, tx)
    \/ beforeSleep
    \/ \E ok \in BOOLEAN : bioThread(ok)
    \/ StartRewrite
    \/ RenameFiles \/ PersistManifest \/ RemoveHistory \/ RewriteDone
    \/ RewriteFails
    \/ stopAppendOnly \/ startAppendOnly
    \/ Crash \/ PowerFailure

Spec == Init /\ [][Next]_vars

-----------------------------------------------------------------------------
Files == {"base", "incr", "temp"} \X Nat

\* The types of the fields of the process and of the disk.
TypeOK ==
    /\ p.state \in {"on", "off", "wait", "dead"}
    /\ p.seldb \in Dbs \cup {None}
    /\ p.fd \in Files \cup {None}
    /\ p.size \in Nat /\ p.fsyncOff \in 0..p.size
    /\ p.pending \in Nat /\ p.fsynced \in Nat \cup {-1}
    /\ p.werr \in BOOLEAN /\ p.ferr \in BOOLEAN /\ p.scheduled \in BOOLEAN
    /\ p.step \in {"none", "renamed", "named", "removed"} /\ p.torn \in BOOLEAN /\ p.clash \in BOOLEAN
    /\ \A i \in DOMAIN p.bio : p.bio[i].kind \in {"fsync", "close"} /\ p.bio[i].file \in Files
    /\ DOMAIN d.file \subseteq Files
    /\ \A f \in DOMAIN d.file : d.file[f].sync \in 0..Len(d.file[f].cmds)

(***************************************************************************)
(* The manifest on the disk is the one the process believes in: the last   *)
(* writeAofManifestFile that failed did not fail after its rename, when    *)
(* the caller removes files that the manifest names; and the start did not *)
(* give the new INCR file the name of a history file that was not removed, *)
(* which happens after a rewrite with the AOF off whose second manifest    *)
(* was not written (the sequence number restarts).                         *)
(***************************************************************************)
ManifestKept == ~p.torn /\ ~p.clash

\* What a start would load now.
Loaded(file) == loadAppendOnlyFiles(file, aofLoadManifestFromDisk(d.manifest))

\* While the AOF is on, the files that the manifest names on the disk and the buffer
\* always rebuild the dataset: every write once, in order and in its database, at
\* every step of a rewrite and after a failed one, the two cases that ManifestKept
\* leaves out excepted.
ReplayExact ==
    p.state = "on" /\ ManifestKept =>
        /\ p.fd \in DOMAIN d.file
        /\ Loaded([d.file EXCEPT ![p.fd].cmds = @ \o p.buf]) = [data |-> p.data, failed |-> FALSE]

\* After the worst power failure the dataset still has the writes at these places.
Survive(places) ==
    LET x == Loaded([f \in DOMAIN d.file |-> [d.file[f] EXCEPT !.cmds = SubSeq(@, 1, d.file[f].sync)]])
    IN  ~x.failed /\ \A i \in places : \E j \in DOMAIN x.data : x.data[j] = p.data[i]

\* fsynced_reploff, that WAITAOF answers with, covers
\* only writes that survive a power failure, as long as no background fsync has
\* failed, the file of before the last rewrite is fsynced, and the manifest is kept.
FsyncedDurable ==
    p.state = "on" /\ ManifestKept /\ ~p.ferr /\ (\A i \in DOMAIN p.bio : p.bio[i].kind # "close")
        => Survive((p.loaded + 1)..p.fsynced)

\* With appendfsync always, a write whose reply was sent survives a power failure,
\* also during and after a rewrite, if the manifest is kept.
AlwaysDurable ==
    p.state = "on" /\ ManifestKept /\ budget.policy = "always" => Survive(1..p.replied)

\* A dataset with both writes of every transaction or none of them.
Whole(data) ==
    \A i \in DOMAIN data :
        LET at(j, part) == j \in DOMAIN data /\ data[j] = [data[i] EXCEPT !.part = part]
        IN  (data[i].part = 1 => at(i + 1, 2)) /\ (data[i].part = 2 => at(i - 1, 1))

\* After a crash or a power failure the server starts, and what it has loaded is
\* the dataset of some earlier moment: nothing is missing in the middle, and no
\* transaction is there by half, although the last write to the file may have been
\* cut between its commands (loadSingleAppendOnlyFile), and although the failure may
\* come between any two steps of backgroundRewriteDoneHandler, if the manifest is kept.
RecoversPrefix ==
    [][budget'.crashes + budget'.outages < budget.crashes + budget.outages /\ Running /\ ManifestKept
          => p'.state = "on" /\ IsPrefix(p'.data, p.data) /\ Whole(p'.data)]_vars
=============================================================================
