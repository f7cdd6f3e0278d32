------------------------------ MODULE RedisDict -----------------------------
(***************************************************************************)
(* The hash table of dict.c as a kvstore (kvstore.c) uses it: two tables    *)
(* while it rehashes incrementally, chains, and a reverse-binary cursor.    *)
(* Every C function is an operator on the kvstore record w and the index i  *)
(* of the dict it works on, since the dict type's callbacks change the      *)
(* kvstore's totals.  The sizes are the code's, scaled down.                *)
(***************************************************************************)
EXTENDS Integers, FiniteSets, Sequences, SequencesExt

CONSTANTS
  Key,
  HashOf,       \* Key -> 0 .. 2^CursorBits - 1
  CursorBits,   \* bits of a dict cursor
  InitialExp,   \* DICT_HT_INITIAL_EXP, 2
  MinFill,      \* HASHTABLE_MIN_FILL, 8
  ForceRatio,   \* dict_force_resize_ratio, 4
  EmptyVisits   \* empty buckets a rehash step may visit, 10

ASSUME HashAssumption == HashOf \in [Key -> 0 .. 2^CursorBits - 1]
ASSUME SizeAssumption ==
  /\ CursorBits \in Nat /\ InitialExp \in 0 .. CursorBits
  /\ {MinFill, ForceRatio, EmptyVisits} \subseteq Nat \ {0}

Size(exp) == IF exp = -1 THEN 0 ELSE 2^exp
\* h & DICTHT_SIZE_MASK(exp); a table that is not there has mask 0.
Masked(h, exp) == IF exp = -1 THEN 0 ELSE h % 2^exp

NoTable == [b \in {} |-> <<>>]
NewDict ==
  [table |-> [t \in 0 .. 1 |-> NoTable], exp |-> [t \in 0 .. 1 |-> -1],
   used |-> [t \in 0 .. 1 |-> 0], rehashidx |-> -1, pauserehash |-> 0]

dictSize(d) == d.used[0] + d.used[1]
dictBuckets(d) == Size(d.exp[0]) + Size(d.exp[1])
dictIsRehashing(d) == d.rehashidx # -1

\* Table t of d becomes the given one; _dictReset gives it none.
SetTable(d, t, table, exp, used) ==
  [d EXCEPT !.table[t] = table, !.exp[t] = exp, !.used[t] = used]
dictReset(d, t) == SetTable(d, t, NoTable, -1, 0)

SetDict(w, i, d) == [w EXCEPT !.dicts[i] = d]

(***************************************************************************)
(* The callbacks of the dict type.                                          *)
(***************************************************************************)
kvstoreDictRehashingStarted(w, i) ==
  [w EXCEPT !.rehashing = Append(@, i),
            !.overhead = @ + Size(w.dicts[i].exp[0])]

kvstoreDictRehashingCompleted(w, i) ==
  [w EXCEPT !.rehashing = SelectSeq(@, LAMBDA j : j # i),
            !.overhead = @ - Size(w.dicts[i].exp[0])]

kvstoreDictBucketChanged(w, delta) == [w EXCEPT !.bucket_count = @ + delta]

(***************************************************************************)
(* Resizing.                                                                *)
(***************************************************************************)
dictNextExp(size) ==
  CHOOSE e \in InitialExp .. InitialExp + size :
    2^e >= size /\ \A f \in InitialExp .. e - 1 : 2^f < size

\* Table 0 is given up and table 1 takes its place.
SecondTakesOver(w, i) ==
  LET d == w.dicts[i]
      over == kvstoreDictBucketChanged(kvstoreDictRehashingCompleted(w, i),
                                       -Size(d.exp[0])) IN
  SetDict(over, i,
          [dictReset(SetTable(d, 0, d.table[1], d.exp[1], d.used[1]), 1)
             EXCEPT !.rehashidx = -1])

\* A dict whose first table holds nothing is not rehashed: the new table
\* replaces it, after the callbacks have been told of a start and an end.
ResizeNoEnd(w, i, size) ==
  LET d == w.dicts[i]
      e == dictNextExp(size)
      begun == kvstoreDictBucketChanged(
                 kvstoreDictRehashingStarted(
                   SetDict(w, i, [SetTable(d, 1, [b \in 0 .. 2^e - 1 |-> <<>>], e, 0)
                                    EXCEPT !.rehashidx = 0]), i), 2^e) IN
  IF e = d.exp[0] THEN w
  ELSE IF d.used[0] = 0
  THEN [SecondTakesOver(begun, i) EXCEPT !.overhead = begun.overhead]
  ELSE begun
dictResize(w, i, size) ==
  LET d == w.dicts[i]
      e == dictNextExp(size)
      begun == kvstoreDictBucketChanged(
                 kvstoreDictRehashingStarted(
                   SetDict(w, i, [SetTable(d, 1, [b \in 0 .. 2^e - 1 |-> <<>>], e, 0)
                                    EXCEPT !.rehashidx = 0]), i), 2^e) IN
  IF e = d.exp[0] THEN w
  ELSE IF d.used[0] = 0 THEN SecondTakesOver(begun, i)
  ELSE begun

dictExpand(w, i, size) ==
  LET d == w.dicts[i] IN
  IF dictIsRehashing(d) \/ d.used[0] > size \/ Size(d.exp[0]) >= size THEN w
  ELSE dictResize(w, i, size)

dictShrink(w, i, size) ==
  LET d == w.dicts[i] IN
  IF dictIsRehashing(d) \/ d.used[0] > size \/ Size(d.exp[0]) <= size THEN w
  ELSE dictResize(w, i, size)

dictExpandIfNeeded(w, i) ==
  LET d == w.dicts[i]
      ratio == IF w.canResize = "ENABLE" THEN 1 ELSE ForceRatio IN
  IF dictIsRehashing(d) THEN w
  ELSE IF d.exp[0] = -1 THEN dictExpand(w, i, 2^InitialExp)
  ELSE IF d.used[0] >= ratio * Size(d.exp[0]) THEN dictExpand(w, i, d.used[0] + 1)
  ELSE w

\* DICT_OK of dictShrinkIfNeeded: there is nothing else to do about the dict.
ShrinkSettles(w, i) ==
  LET d == w.dicts[i]
      ratio == IF w.canResize = "ENABLE" THEN 1 ELSE ForceRatio IN
  \/ dictIsRehashing(d)
  \/ Size(d.exp[0]) <= 2^InitialExp
  \/ d.used[0] * MinFill * ratio <= Size(d.exp[0])

dictShrinkIfNeeded(w, i) ==
  LET d == w.dicts[i] IN
  IF ShrinkSettles(w, i) /\ Size(d.exp[0]) > 2^InitialExp
  THEN dictShrink(w, i, d.used[0]) ELSE w

(***************************************************************************)
(* Incremental rehashing.                                                   *)
(***************************************************************************)
\* Bucket b of table 0 moves, entry by entry, to the heads of chains of
\* table 1: by its hash when the table grows, by its bucket when it shrinks.
rehashEntriesInBucketAtIndex(d, b) ==
  LET To(k) == IF d.exp[1] > d.exp[0] THEN Masked(HashOf[k], d.exp[1])
               ELSE Masked(b, d.exp[1])
      Move(e, k) == [e EXCEPT !.table[1][To(k)] = <<k>> \o @,
                              !.used[0] = @ - 1, !.used[1] = @ + 1] IN
  [FoldLeft(Move, d, d.table[0][b]) EXCEPT !.table[0][b] = <<>>]

dictCheckRehashingCompleted(w, i) ==
  IF w.dicts[i].used[0] # 0 THEN w ELSE SecondTakesOver(w, i)

\* dictRehash and _dictBucketRehash refuse: no rehashing, or a child process
\* shares the memory and the two tables are not far enough apart.
RehashRefused(w, i) ==
  LET d == w.dicts[i]
      s0 == Size(d.exp[0])
      s1 == Size(d.exp[1]) IN
  \/ ~dictIsRehashing(d)
  \/ /\ w.canResize = "AVOID"
     /\ \/ s1 > s0 /\ s1 < ForceRatio * s0
        \/ s1 < s0 /\ s0 < MinFill * ForceRatio * s1

\* One round of dictRehash: s.d is the dict, s.visits the empty buckets it may
\* still visit (0: it gave up).
RehashRound(s, n) ==
  LET d == s.d
      next == CHOOSE b \in d.rehashidx .. Size(d.exp[0]) - 1 :
                /\ d.table[0][b] # <<>>
                /\ \A c \in d.rehashidx .. b - 1 : d.table[0][c] = <<>> IN
  IF s.visits = 0 \/ d.used[0] = 0 THEN s
  ELSE IF next - d.rehashidx >= s.visits
  THEN [d |-> [d EXCEPT !.rehashidx = @ + s.visits], visits |-> 0]
  ELSE [d |-> [rehashEntriesInBucketAtIndex(d, next) EXCEPT !.rehashidx = next + 1],
        visits |-> s.visits - (next - d.rehashidx)]

RehashNeverDone(w, i, n) ==
  LET done == FoldLeft(RehashRound, [d |-> w.dicts[i], visits |-> n * EmptyVisits],
                       [r \in 1 .. n |-> r])
      next == SetDict(w, i, done.d) IN
  IF RehashRefused(w, i) \/ w.dicts[i].used[0] = 0 THEN w
  ELSE IF done.visits = 0 THEN next ELSE dictCheckRehashingCompleted(next, i)
dictRehash(w, i, n) ==
  LET done == FoldLeft(RehashRound, [d |-> w.dicts[i], visits |-> n * EmptyVisits],
                       [r \in 1 .. n |-> r])
      next == SetDict(w, i, done.d) IN
  IF RehashRefused(w, i) THEN w
  ELSE IF done.visits = 0 THEN next ELSE dictCheckRehashingCompleted(next, i)

dictRehashStep(w, i) ==
  IF w.dicts[i].pauserehash = 0 THEN dictRehash(w, i, 1) ELSE w

dictBucketRehash(w, i, b) ==
  IF RehashRefused(w, i) THEN w
  ELSE dictCheckRehashingCompleted(
         SetDict(w, i, rehashEntriesInBucketAtIndex(w.dicts[i], b)), i)

\* Before bucket b of table 0 is used: move it if it still holds something,
\* else take a step from rehashidx.
dictRehashStepIfNeeded(w, i, b) ==
  LET d == w.dicts[i] IN
  IF ~dictIsRehashing(d) \/ d.pauserehash # 0 THEN w
  ELSE IF b >= d.rehashidx /\ d.table[0][b] # <<>> THEN dictBucketRehash(w, i, b)
  ELSE dictRehash(w, i, 1)

(***************************************************************************)
(* Looking up, inserting, removing.  A place is a table and a bucket.       *)
(***************************************************************************)
\* The places a search for k goes through, b being k's bucket of table 0
\* when the search began.
Searched(d, k, b) ==
  {<<t, Masked(HashOf[k], d.exp[t])>> :
     t \in (IF b < d.rehashidx THEN {} ELSE {0})
             \cup (IF dictIsRehashing(d) THEN {1} ELSE {})}

Chain(d, place) ==
  IF d.exp[place[1]] = -1 THEN <<>> ELSE d.table[place[1]][place[2]]

FoundAt(d, k, b) == {p \in Searched(d, k, b) : k \in ToSet(Chain(d, p))}

Bucket0(d, k) == Masked(HashOf[k], d.exp[0])

\* What dictFindLinkInternal does to the kvstore, and where it finds k.
AfterLookup(w, i, k) == dictRehashStepIfNeeded(w, i, Bucket0(w.dicts[i], k))
LookedUp(w, i, k) == FoundAt(AfterLookup(w, i, k).dicts[i], k, Bucket0(w.dicts[i], k))

\* An insertion that keeps to table 0 until the first one is full.
InsertFirst(w, i, k) ==
  LET d == w.dicts[i] IN
  SetDict(w, i, [d EXCEPT !.table[0][Masked(HashOf[k], d.exp[0])] = <<k>> \o @,
                          !.used[0] = @ + 1])
\* The bucket that dictInsertKeyAtLink asserts it was given.
dictInsertKeyAtLink(w, i, k) ==
  LET d == w.dicts[i]
      t == IF dictIsRehashing(d) THEN 1 ELSE 0 IN
  SetDict(w, i, [d EXCEPT !.table[t][Masked(HashOf[k], d.exp[t])] = <<k>> \o @,
                          !.used[t] = @ + 1])

\* k, not found before, is added; the bucket is looked up again when the
\* tables changed or none was found.
dictSetKeyAtLink(w, i, k, linkKnown) ==
  LET roomy == dictExpandIfNeeded(w, i) IN
  IF roomy.dicts[i].exp = w.dicts[i].exp /\ linkKnown
  THEN dictInsertKeyAtLink(roomy, i, k)
  ELSE dictInsertKeyAtLink(AfterLookup(roomy, i, k), i, k)

dictFindLinkForInsert(w, i, k) ==
  dictExpandIfNeeded(dictRehashStepIfNeeded(w, i, Bucket0(w.dicts[i], k)), i)

dictAddRaw(w, i, k) ==
  LET ready == dictFindLinkForInsert(w, i, k) IN
  IF FoundAt(ready.dicts[i], k, Bucket0(w.dicts[i], k)) # {} THEN ready
  ELSE dictInsertKeyAtLink(ready, i, k)

\* k leaves the chain it was found in, and the table may be too large now.
Unlink(w, i, k, place) ==
  LET t == place[1] IN
  dictShrinkIfNeeded(
    [w EXCEPT !.dicts[i].table[t][place[2]] = SelectSeq(@, LAMBDA o : o # k),
              !.dicts[i].used[t] = @ - 1], i)

dictGenericDelete(w, i, k) ==
  LET stepped == AfterLookup(w, i, k)
      at == LookedUp(w, i, k) IN
  IF dictSize(w.dicts[i]) = 0 THEN w
  ELSE IF at = {} THEN stepped
  ELSE Unlink(stepped, i, k, CHOOSE p \in at : TRUE)

\* dictTwoPhaseUnlinkFind steps from rehashidx, and computes k's bucket after
\* that; rehashing is paused until dictTwoPhaseUnlinkFree.
dictTwoPhaseUnlink(w, i, k) ==
  LET stepped == IF dictIsRehashing(w.dicts[i]) THEN dictRehashStep(w, i) ELSE w
      d == stepped.dicts[i]
      at == FoundAt(d, k, Bucket0(d, k)) IN
  IF dictSize(w.dicts[i]) = 0 THEN w
  ELSE IF at = {} THEN stepped
  ELSE Unlink(stepped, i, k, CHOOSE p \in at : TRUE)

\* dictEmpty; dictRelease then frees the dict as well.
dictEmpty(w, i) ==
  LET d == w.dicts[i]
      told == IF dictIsRehashing(d) THEN kvstoreDictRehashingCompleted(w, i) ELSE w IN
  SetDict(kvstoreDictBucketChanged(told, -dictBuckets(d)), i, NewDict)

(***************************************************************************)
(* Cursors and iterators.                                                   *)
(***************************************************************************)
Words == 0 .. 2^CursorBits - 1

rev ==
  [v \in Words |->
     FoldLeft(LAMBDA r, b : 2 * r + ((v \div 2^(b - 1)) % 2), 0,
              [b \in 1 .. CursorBits |-> b])]

\* v |= ~mask; v = rev(v); v++; v = rev(v).
NextCursor(v, exp) ==
  LET unmasked == (v % 2^exp) + 2^CursorBits - 2^exp IN
  rev[(rev[unmasked] + 1) % 2^CursorBits]

\* The cursors of the larger table's buckets that the smaller table's bucket
\* of v expands to, and the one after them.
Expansions(v, small, large) ==
  LET cursor[n \in Nat] == IF n = 0 THEN v ELSE NextCursor(cursor[n - 1], large)
      last == CHOOSE n \in 1 .. 2^large :
                /\ cursor[n] % 2^large < 2^small
                /\ \A m \in 1 .. n - 1 : cursor[m] % 2^large >= 2^small IN
  [n \in 1 .. last + 1 |-> cursor[n - 1]]

\* The places a call of dictScanDefrag visits with cursor v, and the cursor
\* it returns.
PlacesOnce(d, v) ==
  LET small == IF Size(d.exp[0]) > Size(d.exp[1]) THEN 1 ELSE 0 IN
  IF ~dictIsRehashing(d) THEN <<<<0, Masked(v, d.exp[0])>>>>
  ELSE <<<<small, Masked(v, d.exp[small])>>, <<1 - small, Masked(v, d.exp[1 - small])>>>>
ScanPlaces(d, v) ==
  LET small == IF Size(d.exp[0]) > Size(d.exp[1]) THEN 1 ELSE 0
      large == 1 - small
      more == Expansions(v, d.exp[small], d.exp[large]) IN
  IF ~dictIsRehashing(d) THEN <<<<0, Masked(v, d.exp[0])>>>>
  ELSE <<<<small, Masked(v, d.exp[small])>>>>
         \o [n \in 1 .. Len(more) - 1 |-> <<large, Masked(more[n], d.exp[large])>>]

ScanCursor(d, v) ==
  LET small == IF Size(d.exp[0]) > Size(d.exp[1]) THEN 1 ELSE 0 IN
  IF dictSize(d) = 0 THEN 0
  ELSE IF ~dictIsRehashing(d) THEN NextCursor(v, d.exp[0])
  ELSE Last(Expansions(v, d.exp[small], d.exp[1 - small]))

\* The entries a full walk with dictNext returns: table 0 from rehashidx on,
\* then table 1.
dictWalk(d) ==
  LET start == IF dictIsRehashing(d) THEN d.rehashidx ELSE 0
      first == [b \in 1 .. Size(d.exp[0]) - start |-> d.table[0][start + b - 1]]
      second == [b \in 1 .. Size(d.exp[1]) |-> d.table[1][b - 1]] IN
  FlattenSeq(first \o second)
=============================================================================
