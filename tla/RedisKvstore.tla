---------------------------- MODULE RedisKvstore ----------------------------
(***************************************************************************)
(* A Redis database's key space: kvstore.c's array of dicts (one per hash   *)
(* slot in cluster mode) with the totals and the Fenwick tree it keeps over *)
(* them, driven by commands, by databasesCron and by SCAN or the active     *)
(* expire cycle.  A command runs to its end; what interleaves is commands,  *)
(* cron, child processes coming and going, and the calls of one iteration.  *)
(***************************************************************************)
EXTENDS RedisDict

CONSTANTS
  CronDicts,   \* CRON_DICTS_PER_DB, 16
  CronBatch,   \* the 100 of dictRehashMicroseconds
  SparseRatio, \* buckets per key beyond which the expire cycle skips a dict, 100
  Scenarios    \* what a behaviour may do, see Init

VARIABLES
  kvs,     \* the kvstore
  scan,    \* the iteration: its cursor (0: none), the keys it still owes
  budget,  \* what is left of the scenario's bounds
  scene    \* the scenario

vars == <<kvs, scan, budget, scene>>

NumDicts == 2^scene.bits
Indices == 0 .. NumDicts - 1

(***************************************************************************)
(* The Fenwick tree over the dict sizes; its nodes are 1-based.             *)
(***************************************************************************)
LowBit(n) == CHOOSE p \in {2^e : e \in 0 .. scene.bits + 1} :
               n % p = 0 /\ n % (2 * p) # 0

\* The nodes cumulativeKeyCountRead sums for a dict, and the ones
\* cumulativeKeyCountAdd changes.
ReadNodes(i) ==
  LET from[n \in Nat] == IF n = 0 THEN {} ELSE {n} \cup from[n - LowBit(n)]
  IN from[i + 1]
AddNodes(i) ==
  LET from[n \in Nat] == IF n > NumDicts THEN {} ELSE {n} \cup from[n + LowBit(n)]
  IN from[i + 1]

kvstoreSize(w) == IF NumDicts = 1 THEN dictSize(w.dicts[0]) ELSE w.key_count

cumulativeKeyCountRead(w, i) ==
  IF NumDicts = 1 THEN kvstoreSize(w)
  ELSE MapThenSumSet(LAMBDA n : w.index[n], ReadNodes(i))

cumulativeKeyCountAdd(w, i, delta) ==
  LET size == dictSize(w.dicts[i]) IN
  [w EXCEPT !.key_count = @ + delta,
            !.non_empty_dicts = @ + IF size = 1 /\ delta > 0 THEN 1
                                    ELSE IF size = 0 THEN -1 ELSE 0,
            !.index = [n \in 1 .. NumDicts |->
                         IF NumDicts > 1 /\ n \in AddNodes(i)
                         THEN @[n] + delta ELSE @[n]]]

\* From the highest bit down: go past a node whose count the target exceeds.
kvstoreFindDictIndexByKeyIndex(w, target) ==
  LET Go(s, e) ==
        LET n == s.result + 2^(scene.bits - e) IN
        IF s.target > w.index[n]
        THEN [target |-> s.target - w.index[n], result |-> n] ELSE s IN
  IF NumDicts = 1 \/ kvstoreSize(w) = 0 THEN 0
  ELSE FoldLeft(Go, [target |-> target, result |-> 0],
                [e \in 1 .. scene.bits + 1 |-> e - 1]).result

kvstoreGetNextNonEmptyDictIndex(w, i) ==
  LET next == cumulativeKeyCountRead(w, i) + 1 IN
  IF NumDicts = 1 \/ next > kvstoreSize(w) THEN -1
  ELSE kvstoreFindDictIndexByKeyIndex(w, next)

(***************************************************************************)
(* The dicts, allocated on demand; in cluster mode (several dicts) an       *)
(* empty one is freed unless an iteration holds it.                         *)
(***************************************************************************)
createDictIfNeeded(w, i) ==
  IF i \in w.allocated THEN w
  ELSE [w EXCEPT !.allocated = @ \cup {i}, !.allocated_dicts = @ + 1,
                 !.dicts[i] = NewDict]

freeDictIfNeeded(w, i) ==
  IF NumDicts = 1 \/ i \notin w.allocated \/ dictSize(w.dicts[i]) # 0
       \/ w.dicts[i].pauserehash > 0
  THEN w
  ELSE [dictEmpty(w, i) EXCEPT !.allocated = @ \ {i}, !.allocated_dicts = @ - 1]

(***************************************************************************)
(* One operator per operation on a key, i being its dict.                   *)
(***************************************************************************)
kvstoreDictFind(w, i, k) ==
  IF i \notin w.allocated \/ dictSize(w.dicts[i]) = 0 THEN w ELSE AfterLookup(w, i, k)

\* dbAdd: kvstoreDictFindLink, then kvstoreDictSetAtLink for a new item.
kvstoreDictSetAtLink(w, i, k) ==
  LET linked == i \in w.allocated /\ dictSize(w.dicts[i]) # 0
      looked == createDictIfNeeded(kvstoreDictFind(w, i, k), i) IN
  IF linked /\ LookedUp(w, i, k) # {} THEN kvstoreDictFind(w, i, k)
  ELSE cumulativeKeyCountAdd(dictSetKeyAtLink(looked, i, k, linked), i, 1)

\* setExpire: kvstoreDictAddRaw.
kvstoreDictAddRaw(w, i, k) ==
  LET before == createDictIfNeeded(w, i)
      after == dictAddRaw(before, i, k) IN
  IF dictSize(after.dicts[i]) = dictSize(before.dicts[i]) THEN after
  ELSE cumulativeKeyCountAdd(after, i, 1)

Removed(w, i, after) ==
  IF dictSize(after.dicts[i]) = dictSize(w.dicts[i]) THEN after
  ELSE freeDictIfNeeded(cumulativeKeyCountAdd(after, i, -1), i)

kvstoreDictDelete(w, i, k) ==
  IF i \notin w.allocated THEN w ELSE Removed(w, i, dictGenericDelete(w, i, k))

kvstoreDictTwoPhaseUnlink(w, i, k) ==
  IF i \notin w.allocated THEN w ELSE Removed(w, i, dictTwoPhaseUnlink(w, i, k))

kvstoreEmpty(w) ==
  LET Clear(v, i) == IF i - 1 \in v.allocated
                     THEN freeDictIfNeeded(dictEmpty(v, i - 1), i - 1) ELSE v IN
  [FoldLeft(Clear, w, [i \in 1 .. NumDicts |-> i])
     EXCEPT !.rehashing = <<>>, !.key_count = 0, !.non_empty_dicts = 0,
            !.resize_cursor = 0, !.bucket_count = 0, !.overhead = 0,
            !.index = [n \in 1 .. NumDicts |-> 0]]

kvstoreExpand(w, size) ==
  FoldLeft(LAMBDA v, i : IF i - 1 \in v.allocated THEN dictExpand(v, i - 1, size) ELSE v,
           w, [i \in 1 .. NumDicts |-> i])

(***************************************************************************)
(* databasesCron: some dicts are resized, from where the last call stopped; *)
(* then the first dict of the rehashing list is rehashed for a while.       *)
(***************************************************************************)
ResizeNext(w, n) ==
  LET i == w.resize_cursor
      resized == IF i \notin w.allocated THEN w
                 ELSE IF ShrinkSettles(w, i) THEN dictShrinkIfNeeded(w, i)
                 ELSE dictExpandIfNeeded(w, i) IN
  [resized EXCEPT !.resize_cursor = (i + 1) % NumDicts]

kvstoreTryResizeDicts(w) ==
  LET limit == IF CronDicts > NumDicts THEN NumDicts ELSE CronDicts IN
  FoldLeft(ResizeNext, w, [n \in 1 .. limit |-> n])

\* The time allows as many rounds as it allows; one that finds the first
\* dict paused does nothing.
kvstoreIncrementallyRehash(w, rounds) ==
  LET Round(v, n) ==
        IF v.rehashing = <<>> \/ v.dicts[Head(v.rehashing)].pauserehash > 0 THEN v
        ELSE dictRehash(v, Head(v.rehashing), CronBatch) IN
  FoldLeft(Round, w, [n \in 1 .. rounds |-> n])

(***************************************************************************)
(* kvstoreScan: the low bits of a cursor are the dict, the others the       *)
(* cursor in it.                                                            *)
(***************************************************************************)
DictOf(cursor) == cursor % NumDicts

\* The expire cycle passes over a dict with too few keys for its buckets.
isExpiryDictValidForSamplingCb(d) ==
  dictBuckets(d) <= Size(InitialExp) \/ dictSize(d) * SparseRatio >= dictBuckets(d)
Skipped(w, i) ==
  \/ i \notin w.allocated
  \/ scene.store = "expires" /\ ~isExpiryDictValidForSamplingCb(w.dicts[i])

\* The keys dictScan passes to the callback.
Visited(w, cursor) ==
  LET i == DictOf(cursor)
      d == w.dicts[i]
      places == ScanPlaces(d, cursor \div NumDicts) IN
  IF Skipped(w, i) \/ dictSize(d) = 0 THEN <<>>
  ELSE FlattenSeq([n \in 1 .. Len(places) |-> Chain(d, places[n])])

\* The callback removes the keys in gone while dictScan pauses rehashing.
AfterScan(w, cursor, gone) ==
  LET i == DictOf(cursor)
      paused == [w EXCEPT !.dicts[i].pauserehash = @ + 1]
      expired == FoldLeft(LAMBDA v, k : IF k \in gone THEN kvstoreDictDelete(v, i, k) ELSE v,
                          paused, Visited(w, cursor))
      resumed == [expired EXCEPT !.dicts[i].pauserehash = @ - 1] IN
  IF Skipped(w, i) THEN w
  ELSE IF dictSize(w.dicts[i]) = 0 THEN freeDictIfNeeded(w, i)
  ELSE freeDictIfNeeded(resumed, i)

\* The cursor it returns, after being the kvstore the callback left.
ScanReturns(w, cursor, after) ==
  LET i == DictOf(cursor)
      v == IF Skipped(w, i) THEN 0 ELSE ScanCursor(w.dicts[i], cursor \div NumDicts)
      next == IF v = 0 THEN kvstoreGetNextNonEmptyDictIndex(after, i) ELSE i IN
  IF next = -1 THEN 0 ELSE v * NumDicts + next

\* The keys kvstoreIteratorNext returns one after the other (KEYS).
kvstoreWalk(w) ==
  LET Visit(s, n) ==
        IF s.next = -1 THEN s
        ELSE [keys |-> s.keys \o dictWalk(w.dicts[s.next]),
              next |-> kvstoreGetNextNonEmptyDictIndex(w, s.next)] IN
  FoldLeft(Visit, [keys |-> <<>>, next |-> kvstoreFindDictIndexByKeyIndex(w, 1)],
           [n \in 1 .. NumDicts |-> n]).keys

(***************************************************************************)
(* Behaviours.                                                              *)
(***************************************************************************)
KeysIn(d) ==
  UNION {UNION {ToSet(d.table[t][b]) : b \in DOMAIN d.table[t]} : t \in 0 .. 1}
Stored(w) == UNION {KeysIn(w.dicts[i]) : i \in w.allocated}

\* The keys of a database are added by dbAdd, its expires by setExpire.
Added(w, k) ==
  IF scene.store = "keys" THEN kvstoreDictSetAtLink(w, scene.slot[k], k)
  ELSE kvstoreDictAddRaw(w, scene.slot[k], k)

kvstoreCreate ==
  [dicts |-> [i \in Indices |-> NewDict], allocated |-> {}, allocated_dicts |-> 0,
   rehashing |-> <<>>, key_count |-> 0, non_empty_dicts |-> 0, resize_cursor |-> 0,
   index |-> [n \in 1 .. NumDicts |-> 0], bucket_count |-> 0, overhead |-> 0,
   canResize |-> "ENABLE"]

Init ==
  /\ scene \in Scenarios
  /\ kvs = FoldLeft(Added, kvstoreCreate, scene.start)
  /\ scan = [cursor |-> 0, owed |-> {}]
  /\ budget = scene.budget

\* A command leaves the kvstore new; a write that changed the keys is counted.
Commit(new) ==
  \E w \in {new} : \E left \in {Stored(w)} :
    /\ kvs' = w
    /\ scan' = [scan EXCEPT !.owed = @ \cap left]
    /\ IF left = Stored(kvs) THEN UNCHANGED budget
       ELSE budget.writes > 0 /\ budget' = [budget EXCEPT !.writes = @ - 1]
    /\ UNCHANGED scene

Put(k) == Commit(Added(kvs, k))
\* A lookup changes something only while some dict rehashes.
Find(k) == kvs.rehashing # <<>> /\ Commit(kvstoreDictFind(kvs, scene.slot[k], k))
Unlinked(k) == Commit(kvstoreDictTwoPhaseUnlink(kvs, scene.slot[k], k))
Deleted(k) == scene.store = "expires" /\ Commit(kvstoreDictDelete(kvs, scene.slot[k], k))

\* FLUSHALL; or a full resynchronisation, whose RDB file announces a size.
Flush(hint) == Stored(kvs) # {} /\ Commit(kvstoreExpand(kvstoreEmpty(kvs), hint))

\* updateDictResizePolicy when a child process starts and when it is gone.
ForkStarts ==
  /\ kvs.canResize = "ENABLE" /\ budget.forks > 0
  /\ kvs' = [kvs EXCEPT !.canResize = "AVOID"]
  /\ budget' = [budget EXCEPT !.forks = @ - 1]
  /\ UNCHANGED <<scan, scene>>
ForkEnds ==
  /\ kvs.canResize = "AVOID"
  /\ kvs' = [kvs EXCEPT !.canResize = "ENABLE"]
  /\ UNCHANGED <<scan, budget, scene>>

DatabasesCron(rounds) ==
  /\ kvs.canResize = "ENABLE"
  /\ Commit(kvstoreIncrementallyRehash(kvstoreTryResizeDicts(kvs), rounds))

\* One call of the iteration; only the expire cycle's callback removes keys, and
\* only the expire cycle owes nothing for a dict that it skips.
Scan ==
  LET due == IF scan.cursor = 0 THEN Stored(kvs) ELSE scan.owed
      at == DictOf(scan.cursor)
      passed == IF Skipped(kvs, at) THEN KeysIn(kvs.dicts[at]) ELSE {} IN
  \E seen \in {ToSet(Visited(kvs, scan.cursor))} :
  \E gone \in IF scene.store = "keys" THEN {{}} ELSE SUBSET seen :
  \E after \in {AfterScan(kvs, scan.cursor, gone)} :
    /\ scan.cursor = 0 => budget.scans > 0
    /\ kvs' = after
    /\ scan' = [cursor |-> ScanReturns(kvs, scan.cursor, after), owed |-> due \ (seen \cup passed)]
    /\ budget' = [budget EXCEPT !.scans = @ - IF scan.cursor = 0 THEN 1 ELSE 0]
    /\ UNCHANGED scene

Next ==
  \/ \E k \in scene.keys : Put(k) \/ Find(k) \/ Unlinked(k) \/ Deleted(k)
  \/ \E hint \in scene.hints : Flush(hint)
  \/ ForkStarts \/ ForkEnds
  \/ \E rounds \in 0 .. 1 : DatabasesCron(rounds)
  \/ Scan

\* Weak fairness of cron's rehashing and of a child's end, written out: when
\* cron would change something from some moment on, it runs again and again.
Cronned == kvstoreIncrementallyRehash(kvstoreTryResizeDicts(kvs), 1)
Fairness ==
  /\ <>[](kvs.canResize = "ENABLE" /\ Cronned # kvs)
       => []<><<kvs.canResize = "ENABLE" /\ kvs' = Cronned>>_vars
  /\ WF_vars(ForkEnds)

Spec == Init /\ [][Next]_vars /\ Fairness

(***************************************************************************)
(* Properties.                                                              *)
(***************************************************************************)
\* The types of dict.h and kvstore.c: a dict's second table exists exactly
\* while it rehashes, and no dict stays paused between two commands.
TypeOK ==
  /\ kvs.allocated \subseteq Indices
  /\ \A i \in Indices :
       LET d == kvs.dicts[i] IN
       /\ \A t \in 0 .. 1 :
            /\ d.exp[t] \in -1 .. CursorBits /\ d.used[t] \in Nat
            /\ d.table[t] \in [0 .. Size(d.exp[t]) - 1 -> Seq(Key)]
       /\ d.rehashidx \in -1 .. Size(d.exp[0]) /\ d.pauserehash = 0
       /\ dictIsRehashing(d) <=> d.exp[1] # -1
  /\ kvs.rehashing \in Seq(Indices) /\ kvs.resize_cursor \in Indices
  /\ kvs.canResize \in {"ENABLE", "AVOID"}
  /\ scan.cursor \in Nat /\ scan.owed \subseteq Key

Places(d, k) ==
  {p \in {0, 1} \X (0 .. 2^CursorBits) :
     p[2] \in DOMAIN d.table[p[1]] /\ k \in ToSet(d.table[p[1]][p[2]])}

\* However far a rehashing got, by steps from rehashidx and by buckets moved
\* out of turn, a stored key is in one chain of its slot's dict, once, and a
\* lookup (dictFindLinkInternal) goes through that chain; a walk over the
\* database at that moment (kvstoreIteratorNext, dictNext) returns it once too.
Findable ==
  /\ IsInjective(kvstoreWalk(kvs)) /\ ToSet(kvstoreWalk(kvs)) = Stored(kvs)
  /\ \A k \in Stored(kvs) :
    /\ {i \in kvs.allocated : k \in KeysIn(kvs.dicts[i])} = {scene.slot[k]}
    /\ LET d == kvs.dicts[scene.slot[k]] IN
       /\ Cardinality(Places(d, k)) = 1
       /\ \A p \in Places(d, k) : IsInjective(Chain(d, p))
       /\ FoundAt(d, k, Bucket0(d, k)) = Places(d, k)

\* The totals that callbacks and key operations maintain by differences are
\* the dicts': keys per table and in all, buckets, dicts allocated and not
\* empty, and the rehashing list with the size of the tables it will free.  The
\* Fenwick tree, maintained the same way, finds the dict of the n-th key.
Accounted ==
  LET d(i) == kvs.dicts[i]
      rehashes == {i \in kvs.allocated : dictIsRehashing(d(i))} IN
  /\ \A i \in Indices, t \in 0 .. 1 :
       d(i).used[t] = MapThenSumSet(LAMBDA b : Len(d(i).table[t][b]), DOMAIN d(i).table[t])
  /\ kvs.key_count = MapThenSumSet(LAMBDA i : dictSize(d(i)), Indices)
  /\ kvs.bucket_count = MapThenSumSet(LAMBDA i : dictBuckets(d(i)), Indices)
  /\ kvs.allocated_dicts = Cardinality(kvs.allocated)
  /\ kvs.non_empty_dicts = Cardinality({i \in Indices : dictSize(d(i)) > 0})
  /\ IsInjective(kvs.rehashing) /\ ToSet(kvs.rehashing) = rehashes
  /\ kvs.overhead = MapThenSumSet(LAMBDA i : Size(d(i).exp[0]), rehashes)
  /\ \A n \in 1 .. kvstoreSize(kvs) :
       LET upTo(i) == MapThenSumSet(LAMBDA j : dictSize(d(j)), 0 .. i)
           found == kvstoreFindDictIndexByKeyIndex(kvs, n) IN
       found \in Indices /\ upTo(found) >= n /\ upTo(found) - dictSize(d(found)) < n

\* What each operation does to the set of keys, wherever rehashing has got to:
\* an operation on a key changes that key, and no other; rehashing, resizing
\* and cron change none, and a call of the iteration only what its callback removes.
OnlyThatKey ==
  LET now == Stored(kvs) IN
  /\ \A k \in scene.keys :
       /\ Stored(Added(kvs, k)) = now \cup {k}
       /\ Stored(kvstoreDictFind(kvs, scene.slot[k], k)) = now
       /\ Stored(kvstoreDictTwoPhaseUnlink(kvs, scene.slot[k], k)) = now \ {k}
       /\ Stored(kvstoreDictDelete(kvs, scene.slot[k], k)) = now \ {k}
  /\ \A rounds \in 0 .. 1 :
       Stored(kvstoreIncrementallyRehash(kvstoreTryResizeDicts(kvs), rounds)) = now
  /\ \A gone \in {{}, ToSet(Visited(kvs, scan.cursor))} :
       Stored(AfterScan(kvs, scan.cursor, gone)) = now \ gone

\* No operation loses a key that it was not asked to remove, and an iteration
\* that says it is over has returned every key present throughout, whatever grew,
\* shrank or was freed between its calls (dictScan); only the expire cycle's
\* iteration leaves out the dicts that isExpiryDictValidForSamplingCb makes it skip.
Promise == INSTANCE KeyIteration
             WITH keys <- Stored(kvs), scanning <- scan.cursor # 0, owed <- scan.owed
ScanPromise == Promise!AbstractSpec /\ []OnlyThatKey

\* No dict keeps two tables for ever: cron works off the rehashing list,
\* which children interrupt, and buckets emptied by removals do not stop it.
RehashEnds == []<>(kvs.rehashing = <<>>)
=============================================================================
