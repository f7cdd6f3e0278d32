-------------------------- MODULE SyncEngineProofs --------------------------
(***************************************************************************)
(* performIncrementalSync: what a call counts adds up, it deletes only     *)
(* orphans, and undisturbed calls leave no subject twice and a table in    *)
(* sync alone.                                                             *)
(***************************************************************************)
EXTENDS SyncEngine, FiniteSetTheorems, WellFoundedInduction, TLAPS

-----------------------------------------------------------------------------
(* Positions in a sequence. *)

\* Numbers are well-founded.
LEMMA Least ==
    ASSUME NEW S, S \subseteq Nat, S # {}
    PROVE  \E n \in S : \A m \in S : n <= m
  <1> DEFINE R == OpToRel(<, Nat)
  <1>1. \A n, m \in Nat : n < m => <<n, m>> \in R
    BY DEF OpToRel
  <1>2. IsWellFoundedOn(R, Nat)
    BY NatLessThanWellFounded, Zenon
  <1> HIDE DEF R
  <1>3. PICK n \in S : \A m \in S : ~(<<m, n>> \in R)
    BY <1>2, WFMin, Zenon
  <1>4. ASSUME NEW m \in S PROVE n <= m
    <2>1. m \in Nat /\ n \in Nat /\ ~(m < n)
      BY <1>1, <1>3, Zenon
    <2> QED BY <2>1
  <1> QED BY <1>4

\* The least upper bound of positions is one of them.
LEMMA Greatest ==
    ASSUME NEW n \in Nat, NEW S, S \subseteq 1 .. n, S # {}
    PROVE  \E b \in S : \A x \in S : x <= b
  <1> DEFINE U == {u \in Nat : \A x \in S : x <= u}
  <1>1. n \in U /\ U \subseteq Nat
    OBVIOUS
  <1>2. PICK u \in U : \A v \in U : u <= v
    <2> HIDE DEF U
    <2> QED BY <1>1, Least, Zenon
  <1>3. u \in S
    <2> SUFFICES ASSUME u \notin S PROVE FALSE
      OBVIOUS
    <2>1. PICK x \in S : TRUE
      BY Zenon
    <2>2. x \in Nat /\ x >= 1 /\ x <= u
      BY <1>2
    <2>3. u - 1 \in Nat
      BY <1>2, <2>2
    <2>4. ASSUME NEW y \in S PROVE y <= u - 1
      <3>1. y \in Nat /\ y <= u /\ y # u /\ u \in Nat
        BY <1>2
      <3> QED BY <3>1
    <2>5. u - 1 \in U
      BY <2>3, <2>4
    <2>6. u \in Nat /\ u <= u - 1
      BY <1>2, <2>5
    <2> QED BY <2>6
  <1> QED BY <1>2, <1>3

\* Max of positions that are there.
LEMMA MaxIs ==
    ASSUME NEW n \in Nat, NEW S, S \subseteq 1 .. n, S # {}
    PROVE  Max(S) \in S /\ \A x \in S : x <= Max(S)
  <1>1. \E x \in S : \A y \in S : x >= y
    <2>1. PICK b \in S : \A x \in S : x <= b
      BY Greatest, Zenon
    <2>2. \A y \in S : b >= y
      BY <2>1
    <2> QED BY <2>2
  <1>2. Max(S) \in S /\ \A x \in S : Max(S) >= x
    BY <1>1, Zenon DEF Max
  <1> QED BY <1>2

\* The positions of a sequence are finitely many.
LEMMA Positions ==
    ASSUME NEW R, NEW s \in Seq(R), NEW S, S \subseteq DOMAIN s
    PROVE  /\ Len(s) \in Nat /\ DOMAIN s = 1 .. Len(s)
           /\ IsFiniteSet(S) /\ Cardinality(S) \in Nat
           /\ S # {} => Max(S) \in S /\ \A x \in S : x <= Max(S)
  <1>1. Len(s) \in Nat /\ DOMAIN s = 1 .. Len(s)
    OBVIOUS
  <1>2. 1 \in Int /\ Len(s) \in Int
    BY <1>1
  <1>3. IsFiniteSet(1 .. Len(s)) /\ S \in SUBSET (1 .. Len(s))
    BY <1>1, <1>2, FS_Interval, Zenon
  <1>4. IsFiniteSet(S)
    BY <1>3, FS_Subset
  <1>5. Cardinality(S) \in Nat
    BY <1>4, FS_CardinalityType
  <1> QED BY <1>1, <1>3, <1>4, <1>5, MaxIs

\* Ranks: a set of positions is numbered by how many are not above a position.
LEMMA Ranks ==
    ASSUME NEW n \in Nat, NEW S, S \subseteq 1 .. n,
           NEW k \in 1 .. Cardinality(S)
    PROVE  \E i \in S : Cardinality({j \in S : j <= i}) = k
  <1> DEFINE UpTo(i) == {j \in S : j <= i}
             rank == [i \in S |-> Cardinality(UpTo(i))]
             K == 1 .. Cardinality(S)
  <1>1. IsFiniteSet(S) /\ Cardinality(S) \in Nat
    <2>1. IsFiniteSet(1 .. n)
      BY FS_Interval
    <2>2. S \in SUBSET (1 .. n)
      OBVIOUS
    <2>3. IsFiniteSet(S)
      BY <2>1, <2>2, FS_Subset, Zenon
    <2> QED BY <2>3, FS_CardinalityType
  <1>2. ASSUME NEW i \in S
        PROVE  /\ IsFiniteSet(UpTo(i)) /\ i \in UpTo(i)
               /\ Cardinality(UpTo(i)) \in K
    <2>1. UpTo(i) \in SUBSET S /\ i \in UpTo(i)
      OBVIOUS
    <2> HIDE DEF UpTo
    <2>2. /\ IsFiniteSet(UpTo(i)) /\ Cardinality(UpTo(i)) <= Cardinality(S)
          /\ Cardinality(UpTo(i)) \in Nat
      BY <1>1, <2>1, FS_Subset, FS_CardinalityType
    <2>3. Cardinality(UpTo(i)) # 0
      BY <2>1, <2>2, FS_EmptySet
    <2> QED BY <1>1, <2>1, <2>2, <2>3
  <1>3. ASSUME NEW i \in S, NEW j \in S, i < j
        PROVE  Cardinality(UpTo(i)) # Cardinality(UpTo(j))
    <2>0. i \in Nat /\ j \in Nat /\ \A m \in S : m \in Nat
      OBVIOUS
    <2>1. UpTo(i) \in SUBSET UpTo(j) /\ j \notin UpTo(i)
      <3>1. \A m \in Nat : m <= i => m <= j
        BY <1>3, <2>0
      <3>2. ~(j <= i)
        BY <1>3, <2>0
      <3> QED BY <2>0, <3>1, <3>2, Zenon
    <2>2. UpTo(i) # UpTo(j)
      BY <2>1, <1>2
    <2> HIDE DEF UpTo
    <2> QED BY <1>2, <2>1, <2>2, FS_Subset
  <1>4. rank \in Injection(S, K)
    <2>1. rank \in [S -> K]
      BY <1>2
    <2>2. ASSUME NEW i \in S, NEW j \in S, rank[i] = rank[j] PROVE i = j
      <3>1. Cardinality(UpTo(i)) = Cardinality(UpTo(j)) /\ i \in Nat /\ j \in Nat
        BY <2>2
      <3>2. ~(i < j) /\ ~(j < i)
        <4> HIDE DEF UpTo, rank
        <4> QED BY <1>3, <3>1
      <3> QED BY <3>1, <3>2
    <2> HIDE DEF rank
    <2> QED BY <2>1, <2>2 DEF Injection, IsInjective
  <1>5. IsFiniteSet(K) /\ Cardinality(K) = Cardinality(S)
    <2>1. IsFiniteSet(K) /\ Cardinality(K) = IF 1 > Cardinality(S) THEN 0
                                             ELSE Cardinality(S) - 1 + 1
      BY ONLY <1>1, FS_Interval, SMTT(30)
    <2> QED BY <1>1, <2>1
  <1>6. rank \in Surjection(S, K)
    <2> HIDE DEF rank, K
    <2> QED BY <1>4, <1>5, FS_Injection
  <1>7. PICK i \in S : rank[i] = k
    <2> HIDE DEF rank
    <2> QED BY <1>6 DEF Surjection
  <1> QED BY <1>7

\* Pick takes elements of s, those of different positions.
LEMMA PickIs ==
    ASSUME NEW R, NEW s \in Seq(R), NEW S, S \subseteq DOMAIN s
    PROVE  /\ Pick(s, S) \in Seq(R)
           /\ Len(Pick(s, S)) = Cardinality(S) /\ Cardinality(S) \in Nat
           /\ DOMAIN Pick(s, S) = 1 .. Cardinality(S)
           /\ \E at \in [1 .. Cardinality(S) -> S] :
                /\ \A j, k \in 1 .. Cardinality(S) : at[j] = at[k] => j = k
                /\ \A k \in 1 .. Cardinality(S) : Pick(s, S)[k] = s[at[k]]
  <1> DEFINE UpTo(i) == {j \in S : j <= i}
             K == 1 .. Cardinality(S)
             Nth(k) == CHOOSE i \in S : Cardinality(UpTo(i)) = k
             at == [k \in K |-> Nth(k)]
  <1>1. /\ Len(s) \in Nat /\ S \subseteq 1 .. Len(s) /\ Cardinality(S) \in Nat
    BY Positions
  <1>2. Pick(s, S) = [k \in K |-> s[Nth(k)]]
    BY DEF Pick
  <1>3. ASSUME NEW k \in K PROVE Nth(k) \in S /\ Cardinality(UpTo(Nth(k))) = k
    <2>1. \E i \in S : Cardinality(UpTo(i)) = k
      <3>1. PICK n \in Nat : S \subseteq 1 .. n
        BY <1>1
      <3>2. k \in 1 .. Cardinality(S)
        OBVIOUS
      <3>3. \E i \in S : Cardinality({j \in S : j <= i}) = k
        BY ONLY <3>1, <3>2, Ranks, ZenonT(40)
      <3> QED BY ONLY <3>3, Zenon
    <2> HIDE DEF UpTo
    <2> QED BY <2>1
  <1> HIDE DEF Nth, UpTo
  <1>4. at \in [K -> S]
    BY <1>3
  <1>5. \A j, k \in K : at[j] = at[k] => j = k
    BY <1>3, Zenon
  <1>6. \A k \in K : Pick(s, S)[k] = s[at[k]]
    BY <1>2
  <1>7. \A k \in K : s[Nth(k)] \in R
    BY <1>1, <1>3
  <1> HIDE DEF at
  <1>8. Pick(s, S) \in Seq(R) /\ Len(Pick(s, S)) = Cardinality(S)
    BY <1>1, <1>2, <1>7
  <1>9. DOMAIN Pick(s, S) = K
    BY <1>2
  <1> QED BY <1>1, <1>4, <1>5, <1>6, <1>8, <1>9, ZenonT(40)

-----------------------------------------------------------------------------
(* Batches. *)

\* The size of the next batch.
Size(s) == Min({scene.batchSize, Len(s)})

\* createBatches takes the next slice and leaves what follows it.
LEMMA BatchIs ==
    ASSUME NEW R, NEW s \in Seq(R), s # <<>>, scene.batchSize \in Nat \ {0}
    PROVE  /\ Size(s) \in 1 .. Len(s)
           /\ Batch(s) \in Seq(R) /\ Len(Batch(s)) = Size(s)
           /\ Rest(s) \in Seq(R) /\ Len(Rest(s)) = Len(s) - Size(s)
           /\ \A i \in 1 .. Size(s) : Batch(s)[i] = s[i]
           /\ \A i \in 1 .. Len(s) - Size(s) : Rest(s)[i] = s[Size(s) + i]
  <1>1. Len(s) \in Nat \ {0} /\ DOMAIN s = 1 .. Len(s)
    OBVIOUS
  <1>2. \E x \in {scene.batchSize, Len(s)} : \A y \in {scene.batchSize, Len(s)} : x <= y
    BY <1>1
  <1>3. /\ Size(s) \in {scene.batchSize, Len(s)}
        /\ \A y \in {scene.batchSize, Len(s)} : Size(s) <= y
    BY <1>2 DEF Size, Min
  <1>4. Size(s) \in 1 .. Len(s)
    BY <1>1, <1>3
  <1>5. Batch(s) = SubSeq(s, 1, Size(s)) /\ Rest(s) = SubSeq(s, Size(s) + 1, Len(s))
    BY DEF Batch, Rest, Size
  <1> HIDE DEF Size
  <1>6. /\ Batch(s) \in Seq(R) /\ Len(Batch(s)) = Size(s)
        /\ \A i \in 1 .. Size(s) : Batch(s)[i] = s[i]
    BY <1>1, <1>4, <1>5
  <1>7. /\ Rest(s) \in Seq(R) /\ Len(Rest(s)) = Len(s) - Size(s)
        /\ \A i \in 1 .. Len(s) - Size(s) : Rest(s)[i] = s[Size(s) + i]
    BY ONLY <1>1, <1>4, <1>5, SMTT(30)
  <1> QED BY <1>4, <1>6, <1>7

\* A batch that takes effect n times is a sequence of its elements.
LEMMA TimesIs ==
    ASSUME NEW R, NEW s \in Seq(R), s # <<>>, NEW n \in Nat
    PROVE  /\ Times(s, n) \in Seq(R)
           /\ n = 0 => Times(s, n) = <<>>
           /\ n = 1 => Times(s, n) = s
  <1> DEFINE L == Len(s)
             at(i) == 1 + ((i - 1) % L)
  <1>1. L \in Nat \ {0} /\ DOMAIN s = 1 .. L /\ n * L \in Nat
    OBVIOUS
  <1>2. Times(s, n) = [i \in 1 .. n * L |-> s[at(i)]]
    BY DEF Times
  <1>3. ASSUME NEW i \in Nat \ {0} PROVE at(i) \in 1 .. L
    <2> HIDE DEF L
    <2> QED BY <1>1
  <1>4. ASSUME NEW i \in 1 .. L PROVE at(i) = i
    <2> HIDE DEF L
    <2> QED BY <1>1
  <1> HIDE DEF at
  <1>5. Times(s, n) \in Seq(R)
    <2>1. \A i \in 1 .. n * L : s[at(i)] \in R
      BY <1>1, <1>3
    <2> QED BY <1>1, <1>2, <2>1
  <1>6. ASSUME n = 0 PROVE Times(s, n) = <<>>
    <2>1. n * L = 0
      BY <1>1, <1>6
    <2> QED BY <1>2, <2>1
  <1>7. ASSUME n = 1 PROVE Times(s, n) = s
    <2>1. n * L = L
      <3> HIDE DEF L
      <3> QED BY <1>1, <1>7
    <2>2. Times(s, n) = [i \in 1 .. L |-> s[i]]
      BY <1>2, <1>4, <2>1
    <2> QED BY <1>1, <2>2
  <1> QED BY <1>5, <1>6, <1>7

-----------------------------------------------------------------------------
(* What the parts of a call are. *)

\* The places of a call.
Steps == {"idle", "index", "analyze", "create", "update", "delete", "done",
          "failed"}

\* What a call is given.
Options == [data : Seq(Item), fullSync : BOOLEAN, deleteOrphans : BOOLEAN]

\* What the index has of a record.
Entry(ids) == [id : ids, value : Values]

\* What a call has left to do.
Todo(ids) == [create : Seq(Item), update : Seq(Entry(ids)), delete : SUBSET ids]

\* The counts of a call.
Summary == [total : Nat, created : Nat, updated : Nat, deleted : Nat,
            failed : Nat, unchanged : Nat]

\* An index of records of the table.
Index(ix, ids) ==
    DOMAIN ix \subseteq Keys /\ \A k \in DOMAIN ix : ix[k] \in Entry(ids)

\* TypeOK, with the domains of the functions.
Types ==
    /\ TypeOK
    /\ scene \in Scenarios
    /\ index = [e \in Engines |-> index[e]]

\* The table keeps its records, their subjects, and what is deleted.
Grows ==
    /\ table' \in Seq(Record)
    /\ DOMAIN table \subseteq DOMAIN table'
    /\ \A i \in DOMAIN table : /\ table'[i].subject = table[i].subject
                               /\ table'[i].live => table[i].live

\* A step of e alone.
Moves(e) ==
    /\ pc' = [pc EXCEPT ![e] = pc'[e]] /\ pc'[e] \in Steps
    /\ opts' = [opts EXCEPT ![e] = opts'[e]] /\ opts'[e] \in Options
    /\ cursor' = [cursor EXCEPT ![e] = cursor'[e]] /\ cursor'[e] \in Nat
    /\ index' = [index EXCEPT ![e] = index'[e]] /\ Index(index'[e], DOMAIN table')
    /\ todo' = [todo EXCEPT ![e] = todo'[e]] /\ todo'[e] \in Todo(DOMAIN table')
    /\ summary' = [summary EXCEPT ![e] = summary'[e]] /\ summary'[e] \in Summary

\* The state of the table's sync and the counters.
Rests ==
    /\ scene' = scene
    /\ syncState' \in {"none", "initializing", "completed"}
    /\ runs' \in [Engines -> 0 .. scene.runs]
    /\ faults' \in [page : 0 .. scene.page, refused : 0 .. scene.refused,
                    unheard : 0 .. scene.unheard]

\* The types, in these words.
LEMMA TypesAre ==
    ASSUME Types, NEW e \in Engines
    PROVE  /\ table \in Seq(Record)
           /\ Len(table) \in Nat /\ DOMAIN table = 1 .. Len(table)
           /\ \A i \in DOMAIN table : table[i] \in Record
           /\ pc[e] \in Steps /\ opts[e] \in Options /\ cursor[e] \in Nat
           /\ Index(index[e], DOMAIN table) /\ todo[e] \in Todo(DOMAIN table)
           /\ summary[e] \in Summary
           /\ opts[e].data \in Seq(Item)
           /\ todo[e].create \in Seq(Item) /\ todo[e].update \in Seq(Entry(DOMAIN table))
           /\ todo[e].delete \subseteq DOMAIN table
  <1>1. table \in Seq(Record)
    BY DEF Types, TypeOK
  <1>2. Len(table) \in Nat /\ DOMAIN table = 1 .. Len(table)
        /\ \A i \in DOMAIN table : table[i] \in Record
    BY <1>1
  <1>3. pc[e] \in Steps /\ opts[e] \in Options /\ cursor[e] \in Nat
    BY DEF Types, TypeOK, Steps, Options
  <1>4. Index(index[e], DOMAIN table)
    BY ZenonT(40) DEF Types, TypeOK, Index, Entry
  <1>5. todo[e] \in Todo(DOMAIN table) /\ summary[e] \in Summary
    BY Zenon DEF Types, TypeOK, Todo, Entry, Summary
  <1>6. opts[e].data \in Seq(Item)
    BY <1>3 DEF Options
  <1>7. /\ todo[e].create \in Seq(Item) /\ todo[e].update \in Seq(Entry(DOMAIN table))
        /\ todo[e].delete \subseteq DOMAIN table
    BY <1>5 DEF Todo
  <1> QED BY <1>1, <1>2, <1>3, <1>4, <1>5, <1>6, <1>7, ZenonT(40)

\* The sizes and bounds of a scenario are numbers.
LEMMA SceneTypes ==
    ASSUME Types
    PROVE  /\ scene.pageSize \in Nat \ {0} /\ scene.batchSize \in Nat \ {0}
           /\ scene.retryAttempts \in Nat /\ scene.runs \in Nat /\ scene.page \in Nat
           /\ scene.refused \in Nat /\ scene.unheard \in Nat
           /\ scene.engines \subseteq Engines
           /\ \A data \in scene.inputs : data \in Seq(Item)
           /\ \A t \in scene.tables : t \in Seq(Record)
  BY EngineAssumption DEF Types

\* What has the types keeps them when the table grows.
LEMMA Wider ==
    ASSUME NEW D, NEW E, D \subseteq E, NEW t, NEW ix
    PROVE  /\ t \in Todo(D) => t \in Todo(E)
           /\ Index(ix, D) => Index(ix, E)
  <1>1. Entry(D) \subseteq Entry(E)
    BY DEF Entry
  <1>2. Seq(Entry(D)) \subseteq Seq(Entry(E))
    <2> HIDE DEF Entry
    <2>1. SUFFICES ASSUME NEW s \in Seq(Entry(D)) PROVE s \in Seq(Entry(E))
      OBVIOUS
    <2>2. Len(s) \in Nat /\ s \in [1 .. Len(s) -> Entry(D)]
      OBVIOUS
    <2>3. s \in [1 .. Len(s) -> Entry(E)]
      BY <1>1, <2>2
    <2> QED BY <2>2, <2>3
  <1>3. t \in Todo(D) => t \in Todo(E)
    BY <1>2 DEF Todo
  <1>4. Index(ix, D) => Index(ix, E)
    BY <1>1 DEF Index
  <1> QED BY <1>3, <1>4

\* A step of one call keeps the types.
LEMMA TypesStep ==
    ASSUME Types, NEW e \in Engines, Grows, Moves(e), Rests
    PROVE  Types'
  <1>1. ASSUME NEW f \in Engines
        PROVE  Index(index'[f], DOMAIN table') /\ todo'[f] \in Todo(DOMAIN table')
    <2>1. CASE f = e
      BY <2>1 DEF Moves
    <2>2. CASE f # e
      <3>1. index'[f] = index[f] /\ todo'[f] = todo[f]
        BY <2>2, Zenon DEF Moves, Types, TypeOK
      <3>2. Index(index[f], DOMAIN table) /\ todo[f] \in Todo(DOMAIN table)
        BY TypesAre
      <3> QED BY <3>1, <3>2, Wider, Zenon DEF Grows
    <2> QED BY <2>1, <2>2
  <1>2. todo' \in [Engines -> Todo(DOMAIN table')]
    <2>1. todo' = [f \in Engines |-> todo'[f]]
      BY DEF Moves, Types, TypeOK
    <2> QED BY <1>1, <2>1
  <1>3. index' = [f \in Engines |-> index'[f]]
    BY DEF Moves, Types
  <1>4. pc' \in [Engines -> Steps] /\ opts' \in [Engines -> Options]
    BY Zenon DEF Moves, Types, TypeOK, Steps, Options
  <1>5. cursor' \in [Engines -> Nat] /\ summary' \in [Engines -> Summary]
    BY Zenon DEF Moves, Types, TypeOK, Summary
  <1>6. table' \in Seq(Record)
    BY DEF Grows
  <1>7. TypeOK'
    BY <1>1, <1>2, <1>4, <1>5, <1>6, Zenon
    DEF TypeOK, Rests, Steps, Options, Summary, Todo, Entry, Index
  <1>8. (scene \in Scenarios)'
    BY DEF Types, Rests
  <1> QED BY <1>3, <1>7, <1>8 DEF Types

-----------------------------------------------------------------------------
(* The operators of the model. *)

\* The records of ids that have key k.
Of(ids, k) == {i \in ids : table[i].subject # NoSubject /\ Key(table[i]) = k}

\* getExistingRecordsIndex: the entry of a key is of the last record of the page
\* that has it, or else the one there was.
LEMMA IndexWithIs ==
    ASSUME Types, NEW old, Index(old, DOMAIN table), NEW ids, ids \subseteq DOMAIN table
    PROVE  LET ix == IndexWith(old, ids) IN
           /\ Index(ix, DOMAIN table)
           /\ DOMAIN old \subseteq DOMAIN ix
           /\ \A k : Of(ids, k) # {} => k \in DOMAIN ix
           /\ \A k \in DOMAIN ix :
                \/ /\ Of(ids, k) = {} /\ k \in DOMAIN old /\ ix[k] = old[k]
                \/ \E i \in Of(ids, k) :
                     ix[k] = [id |-> i, value |-> ReadBack(table[i].value)]
  <1> DEFINE keyed == {i \in ids : table[i].subject # NoSubject}
             K == DOMAIN old \cup {Key(table[i]) : i \in keyed}
             ix == [k \in K |-> IF Of(ids, k) = {} THEN old[k]
                                ELSE [id |-> Max(Of(ids, k)),
                                      value |-> ReadBack(table[Max(Of(ids, k))].value)]]
  <1>1. IndexWith(old, ids) = ix
    <2>1. \A k : Of(ids, k) = {i \in keyed : Key(table[i]) = k}
      BY DEF Of
    <2> QED BY <2>1, Zenon DEF IndexWith
  <1>2. table \in Seq(Record)
    BY DEF Types, TypeOK
  <1>3. ASSUME NEW k, Of(ids, k) # {}
        PROVE  Max(Of(ids, k)) \in Of(ids, k) /\ k \in K
    <2>1. Of(ids, k) \subseteq DOMAIN table /\ \A i \in Of(ids, k) : i \in keyed /\ Key(table[i]) = k
      BY DEF Of
    <2> HIDE DEF keyed
    <2> QED BY <1>2, <1>3, <2>1, Positions
  <1>4. ASSUME NEW k \in K, Of(ids, k) = {} PROVE k \in DOMAIN old
    BY <1>4 DEF Of
  <1>5. ASSUME NEW i \in keyed
        PROVE  Key(table[i]) \in Keys /\ ReadBack(table[i].value) \in Values
    <2>1. table[i] \in Record /\ table[i].subject # NoSubject
      BY <1>2
    <2>2. table[i].subject \in Subjects /\ table[i].value \in Values
      BY <2>1 DEF Record
    <2> QED BY <2>2, EngineAssumption DEF Key, ReadBack, Keys
  <1>6. K \subseteq Keys
    BY <1>5, ZenonT(40) DEF Index
  <1>7. ASSUME NEW k \in K
        PROVE  \/ /\ Of(ids, k) = {} /\ k \in DOMAIN old /\ ix[k] = old[k]
               \/ \E i \in Of(ids, k) :
                    ix[k] = [id |-> i, value |-> ReadBack(table[i].value)]
    BY <1>3, <1>4
  <1>8. \A k \in K : ix[k] \in Entry(DOMAIN table)
    <2> TAKE k \in K
    <2>1. CASE Of(ids, k) = {} /\ k \in DOMAIN old /\ ix[k] = old[k]
      BY <2>1 DEF Index
    <2>2. ASSUME NEW i \in Of(ids, k),
                 ix[k] = [id |-> i, value |-> ReadBack(table[i].value)]
          PROVE  ix[k] \in Entry(DOMAIN table)
      <3>1. i \in keyed /\ i \in DOMAIN table
        BY DEF Of
      <3>2. ReadBack(table[i].value) \in Values
        BY <1>5, <3>1
      <3> HIDE DEF ix
      <3> QED BY <2>2, <3>1, <3>2 DEF Entry
    <2> HIDE DEF ix
    <2> QED BY <1>7, <2>1, <2>2, Zenon
  <1>9. DOMAIN ix = K /\ DOMAIN old \subseteq K
    OBVIOUS
  <1> HIDE DEF ix, K
  <1> QED BY <1>1, <1>3, <1>6, <1>7, <1>8, <1>9, ZenonT(40) DEF Index

\* The records of the next page are records of the table.
LEMMA PageTypes ==
    ASSUME Types, NEW e \in Engines
    PROVE  Page(e) \subseteq DOMAIN table /\ After(e) \subseteq DOMAIN table
  BY DEF Page, After

\* analyzeChanges plans operations on the data and on records of the index.
LEMMA PlanTypes ==
    ASSUME NEW data \in Seq(Item), NEW ix, NEW D, Index(ix, D), NEW full
    PROVE  /\ ToCreate(data, ix) \in Seq(Item)
           /\ ToUpdate(data, ix, full) \in Seq(Entry(D))
           /\ ToDelete(data, ix) \subseteq D
           /\ Unchanged(data, ix, full) \in Nat
  <1> DEFINE C == {i \in DOMAIN data : /\ data[i].subject # NoSubject
                                       /\ data[i].subject \notin DOMAIN ix}
             U == {i \in DOMAIN data : NeedsUpdate(data[i], ix, full)}
             V == {i \in DOMAIN data : /\ data[i].subject \in DOMAIN ix
                                       /\ ~NeedsUpdate(data[i], ix, full)}
             changed == Pick(data, U)
  <1>1. C \subseteq DOMAIN data /\ U \subseteq DOMAIN data /\ V \subseteq DOMAIN data
    OBVIOUS
  <1>2. ToCreate(data, ix) = Pick(data, C)
    BY DEF ToCreate
  <1>3. ToUpdate(data, ix, full) = [k \in DOMAIN changed |->
                                      [id |-> ix[changed[k].subject].id,
                                       value |-> changed[k].value]]
    BY DEF ToUpdate
  <1>4. Unchanged(data, ix, full) = Cardinality(V)
    BY DEF Unchanged
  <1>5. \A i \in U : /\ data[i] \in Item /\ data[i].value \in Values
                     /\ ix[data[i].subject].id \in D
    <2>1. \A i \in U : data[i] \in Item /\ data[i].subject \in DOMAIN ix
      BY DEF NeedsUpdate
    <2> HIDE DEF U
    <2> QED BY <2>1 DEF Item, Index, Entry
  <1> HIDE DEF C, U, V
  <1>6. ToCreate(data, ix) \in Seq(Item)
    BY <1>1, <1>2, PickIs
  <1>7. /\ changed \in Seq(Item) /\ Cardinality(U) \in Nat
        /\ DOMAIN changed = 1 .. Cardinality(U)
    BY <1>1, PickIs
  <1>8. \A k \in DOMAIN changed : \E i \in U : changed[k] = data[i]
    <2>1. PICK at \in [1 .. Cardinality(U) -> U] :
            \A k \in 1 .. Cardinality(U) : changed[k] = data[at[k]]
      BY <1>1, PickIs
    <2> HIDE DEF changed
    <2> QED BY <1>7, <2>1
  <1> HIDE DEF changed
  <1>9. \A k \in DOMAIN changed :
          [id |-> ix[changed[k].subject].id, value |-> changed[k].value] \in Entry(D)
    BY <1>5, <1>8 DEF Entry
  <1>10. ToUpdate(data, ix, full) \in Seq(Entry(D))
    <2> DEFINE g(k) == [id |-> ix[changed[k].subject].id, value |-> changed[k].value]
    <2>1. /\ ToUpdate(data, ix, full) = [k \in DOMAIN changed |-> g(k)]
          /\ \A k \in DOMAIN changed : g(k) \in Entry(D)
      BY <1>3, <1>9
    <2> HIDE DEF g
    <2> QED BY ONLY <1>7, <2>1, SMTT(30)
  <1>11. ToDelete(data, ix) \subseteq D
    BY DEF ToDelete, Index, Entry
  <1>12. Unchanged(data, ix, full) \in Nat
    BY <1>1, <1>4, Positions
  <1> QED BY <1>6, <1>10, <1>11, <1>12

\* transformRecordForFeishu makes records of the table.
LEMMA NewTypes ==
    ASSUME NEW batch \in Seq(Item), NEW new,
           new = [i \in DOMAIN batch |-> NewRecord(batch[i])]
    PROVE  /\ new \in Seq(Record) /\ Len(new) = Len(batch)
           /\ \A i \in DOMAIN batch : /\ new[i].subject = batch[i].subject
                                      /\ new[i].live
  <1>1. \A d \in Item : /\ NewRecord(d) \in Record
                        /\ NewRecord(d).subject = d.subject /\ NewRecord(d).live
    BY EngineAssumption DEF NewRecord, Item, Record, Merge, Format
  <1>2. Len(batch) \in Nat /\ DOMAIN batch = 1 .. Len(batch)
        /\ \A i \in DOMAIN batch : batch[i] \in Item
    OBVIOUS
  <1> QED BY <1>1, <1>2, SMTT(30)

\* An update writes values alone.
LEMMA WriteIs ==
    ASSUME Types, NEW u \in Seq(Entry(DOMAIN table)), NEW ids, ids \subseteq DOMAIN u
    PROVE  /\ Write(u, ids) \in Seq(Record)
           /\ DOMAIN Write(u, ids) = DOMAIN table
           /\ \A r \in DOMAIN table : /\ Write(u, ids)[r].subject = table[r].subject
                                      /\ Write(u, ids)[r].live = table[r].live
  <1> DEFINE of(r) == {i \in ids : u[i].id = r /\ u[i].value # Undefined}
             new(r) == IF of(r) = {} THEN table[r]
                       ELSE [table[r] EXCEPT !.value = Merge(@, u[Max(of(r))].value)]
  <1>1. Write(u, ids) = [r \in DOMAIN table |-> new(r)]
    BY DEF Write
  <1>2. /\ table \in Seq(Record) /\ Len(table) \in Nat /\ DOMAIN table = 1 .. Len(table)
        /\ \A r \in DOMAIN table : table[r] \in Record
    BY DEF Types, TypeOK
  <1>3. ASSUME NEW r \in DOMAIN table
        PROVE  /\ new(r) \in Record /\ new(r).subject = table[r].subject
               /\ new(r).live = table[r].live
    <2>1. CASE of(r) = {}
      <3>1. new(r) = table[r]
        BY <2>1
      <3> QED BY <1>2, <3>1
    <2>2. CASE of(r) # {}
      <3>1. of(r) \subseteq DOMAIN u
        OBVIOUS
      <3> DEFINE v == u[Max(of(r))].value
      <3>2. new(r) = [table[r] EXCEPT !.value = Merge(@, v)]
        BY <2>2
      <3> HIDE DEF of, new
      <3>3. Max(of(r)) \in DOMAIN u
        <4> DEFINE S == of(r)
        <4>1. S \subseteq DOMAIN u /\ S # {}
          BY <2>2, <3>1
        <4> HIDE DEF S
        <4>2. Max(S) \in S
          BY <4>1, Positions
        <4> QED BY <4>1, <4>2 DEF S
      <3>4. v \in Values
        <4>1. \A i \in DOMAIN u : u[i] \in Entry(DOMAIN table)
          OBVIOUS
        <4>2. \A x \in Entry(DOMAIN table) : x.value \in Values
          BY DEF Entry
        <4> QED BY <3>3, <4>1, <4>2, Zenon
      <3> HIDE DEF v
      <3>5. \A old \in Values : Merge(old, v) \in Values
        BY <3>4, EngineAssumption DEF Merge, Format
      <3> QED BY <1>2, <3>2, <3>5 DEF Record
    <2> QED BY <2>1, <2>2
  <1> HIDE DEF new
  <1> QED BY <1>1, <1>2, <1>3

-----------------------------------------------------------------------------
(* The inductive invariant, of any calls. *)

\* The index has the records under their subjects.
IndexOK(e) ==
    ~scene.richText => \A k \in DOMAIN index[e] : table[index[e][k].id].subject = k

\* What a call is to delete are orphans.
Orphans(e) ==
    pc[e] \in {"create", "update", "delete"} /\ ~scene.richText =>
      \A i \in todo[e].delete : table[i].subject \notin SubjectsOf(opts[e].data)

\* Nothing is counted before the analysis.
Uncounted(e) == pc[e] \in {"index", "analyze"} => summary[e] = NoSummary

\* The operations that were counted.
Sum(s) == s.created + s.updated + s.deleted + s.failed

\* CountsAddUp, of one call.
Counted(e) ==
    pc[e] \in {"create", "update", "delete", "done"} =>
      Sum(summary[e]) + Left(e) + Spared(e) = summary[e].total

\* One call, wherever the others are.
Good(e) == IndexOK(e) /\ Orphans(e) /\ Uncounted(e) /\ Counted(e)

\* What a step of a call does to it, and leaves of the others.
Does(e) == Grows /\ Moves(e) /\ Rests /\ Good(e)'

\* A call keeps the invariant over the steps of others.
LEMMA OthersStep ==
    ASSUME Types, NEW e \in Engines, Does(e), NEW f \in Engines, f # e, Good(f)
    PROVE  Good(f)'
  <1>1. /\ pc'[f] = pc[f] /\ opts'[f] = opts[f] /\ index'[f] = index[f]
        /\ todo'[f] = todo[f] /\ summary'[f] = summary[f]
    BY ZenonT(40) DEF Does, Moves, Types, TypeOK
  <1>2. scene' = scene
    BY DEF Does, Rests
  <1>3. \A i \in DOMAIN table : table'[i].subject = table[i].subject
    BY DEF Does, Grows
  <1>4. /\ \A k \in DOMAIN index[f] : index[f][k].id \in DOMAIN table
        /\ todo[f].delete \subseteq DOMAIN table
    BY TypesAre, ZenonT(40) DEF Index, Entry
  <1>5. IndexOK(f)'
    BY <1>1, <1>2, <1>3, <1>4, ZenonT(40) DEF Good, IndexOK
  <1>6. Orphans(f)'
    BY <1>1, <1>2, <1>3, <1>4, ZenonT(40) DEF Good, Orphans
  <1>7. Uncounted(f)'
    BY <1>1 DEF Good, Uncounted
  <1>8. Left(f)' = Left(f) /\ Spared(f)' = Spared(f)
    BY <1>1 DEF Left, Spared
  <1>9. Counted(f)'
    BY <1>1, <1>8 DEF Good, Counted
  <1> QED BY <1>5, <1>6, <1>7, <1>9, ZenonT(40) DEF Good

\* searchRecords: the next page is what is there up to its last record; it is
\* not empty unless nothing follows.
LEMMA PageIs ==
    ASSUME Types, NEW e \in Engines
    PROVE  /\ After(e) # {} => Page(e) # {}
           /\ Page(e) # {} =>
                /\ Max(Page(e)) \in Page(e)
                /\ \A i \in After(e) : i <= Max(Page(e)) => i \in Page(e)
  <1> DEFINE A == After(e)
             UpTo(i) == {j \in A : j <= i}
  <1>1. A \subseteq 1 .. Len(table) /\ Len(table) \in Nat /\ IsFiniteSet(A)
    BY PageTypes, TypesAre, Positions
  <1>2. Page(e) = {i \in A : Cardinality(UpTo(i)) <= scene.pageSize}
    BY DEF Page
  <1>3. scene.pageSize \in Nat \ {0}
    BY SceneTypes
  <1> HIDE DEF A
  <1>4. ASSUME NEW i \in A, NEW j \in A, i <= j
        PROVE  /\ IsFiniteSet(UpTo(j)) /\ UpTo(i) \in SUBSET UpTo(j)
               /\ Cardinality(UpTo(i)) \in Nat /\ Cardinality(UpTo(j)) \in Nat
               /\ Cardinality(UpTo(i)) <= Cardinality(UpTo(j))
    <2>1. UpTo(i) \in SUBSET A /\ UpTo(j) \in SUBSET A /\ UpTo(i) \in SUBSET UpTo(j)
      <3>1. \A m \in A : m <= i => m <= j
        BY <1>1, <1>4
      <3> QED BY <3>1
    <2> HIDE DEF UpTo
    <2>2. IsFiniteSet(UpTo(i)) /\ IsFiniteSet(UpTo(j))
      BY <1>1, <2>1, FS_Subset
    <2> QED BY <2>1, <2>2, FS_Subset, FS_CardinalityType, ZenonT(40)
  <1>5. ASSUME A # {} PROVE Page(e) # {}
    <2>0. A \subseteq Nat
      BY <1>1
    <2>1. PICK a \in A : \A x \in A : a <= x
      BY <1>5, <2>0, Least, Zenon
    <2>2. UpTo(a) = {a}
      <3>1. a \in UpTo(a) /\ \A x \in UpTo(a) : x = a
        BY <2>0, <2>1
      <3> HIDE DEF UpTo
      <3> QED BY <3>1
    <2>3. Cardinality(UpTo(a)) = 1
      BY <2>2, FS_Singleton
    <2> HIDE DEF UpTo
    <2> QED BY ONLY <1>2, <1>3, <2>1, <2>3, SMTT(30)
  <1>6. ASSUME Page(e) # {}
        PROVE  /\ Max(Page(e)) \in Page(e)
               /\ \A i \in A : i <= Max(Page(e)) => i \in Page(e)
    <2>1. Page(e) \subseteq A /\ Max(Page(e)) \in Page(e)
      BY <1>2, <1>6, PageTypes, TypesAre, Positions, Zenon
    <2>2. ASSUME NEW i \in A, i <= Max(Page(e)) PROVE i \in Page(e)
      <3>1. Cardinality(UpTo(Max(Page(e)))) <= scene.pageSize
        BY <1>2, <2>1
      <3>2. /\ Cardinality(UpTo(i)) <= Cardinality(UpTo(Max(Page(e))))
            /\ Cardinality(UpTo(i)) \in Nat /\ Cardinality(UpTo(Max(Page(e)))) \in Nat
        BY <1>4, <2>1, <2>2, Zenon
      <3> HIDE DEF UpTo
      <3>3. Cardinality(UpTo(i)) <= scene.pageSize
        BY ONLY <1>3, <3>1, <3>2, SMTT(30)
      <3> QED BY <1>2, <3>3
    <2> QED BY <2>1, <2>2
  <1> QED BY <1>5, <1>6, ZenonT(40) DEF A

-----------------------------------------------------------------------------
(* The steps. *)

\* What a step does not assign has its types, and is a step of any call.
LEMMA Same ==
    ASSUME Types, NEW e \in Engines
    PROVE  /\ pc = [pc EXCEPT ![e] = pc[e]] /\ pc[e] \in Steps
           /\ opts = [opts EXCEPT ![e] = opts[e]] /\ opts[e] \in Options
           /\ cursor = [cursor EXCEPT ![e] = cursor[e]] /\ cursor[e] \in Nat
           /\ index = [index EXCEPT ![e] = index[e]] /\ Index(index[e], DOMAIN table)
           /\ todo = [todo EXCEPT ![e] = todo[e]] /\ todo[e] \in Todo(DOMAIN table)
           /\ summary = [summary EXCEPT ![e] = summary[e]] /\ summary[e] \in Summary
  <1>1. /\ pc = [pc EXCEPT ![e] = pc[e]] /\ opts = [opts EXCEPT ![e] = opts[e]]
        /\ cursor = [cursor EXCEPT ![e] = cursor[e]]
    BY DEF Types, TypeOK
  <1>2. index = [index EXCEPT ![e] = index[e]]
    BY DEF Types
  <1>3. todo = [todo EXCEPT ![e] = todo[e]] /\ summary = [summary EXCEPT ![e] = summary[e]]
    BY DEF Types, TypeOK
  <1> QED BY <1>1, <1>2, <1>3, TypesAre

\* Every call has its parts.
LEMMA At ==
    ASSUME Types, NEW e \in Engines
    PROVE  /\ e \in DOMAIN pc /\ e \in DOMAIN opts /\ e \in DOMAIN cursor
           /\ e \in DOMAIN index /\ e \in DOMAIN todo /\ e \in DOMAIN summary
  <1>1. e \in DOMAIN pc /\ e \in DOMAIN opts /\ e \in DOMAIN cursor /\ e \in DOMAIN todo
        /\ e \in DOMAIN summary
    BY DEF Types, TypeOK
  <1>2. e \in DOMAIN index
    BY DEF Types
  <1> QED BY <1>1, <1>2

\* A step that leaves the table alone.
LEMMA TableSame == ASSUME Types, table' = table PROVE Grows
  BY DEF Types, TypeOK, Grows

\* A step that leaves the counters alone.
LEMMA RestsSame ==
    ASSUME Types, UNCHANGED <<syncState, runs, scene>>
    PROVE  /\ scene' = scene /\ syncState' \in {"none", "initializing", "completed"}
           /\ runs' \in [Engines -> 0 .. scene.runs]
           /\ faults' = faults => Rests
  BY DEF Types, TypeOK, Rests

\* performIncrementalSync begins.
LEMMA DoesBegin ==
    ASSUME Types, NEW e \in Engines, Good(e), Begin(e)
    PROVE  Does(e)
  <1>1. Grows
    BY TableSame, ZenonT(40) DEF Begin
  <1>2. Moves(e)
    <2>1. pc' = [pc EXCEPT ![e] = pc'[e]] /\ pc'[e] \in Steps
      BY At DEF Begin, Steps
    <2>2. opts' = [opts EXCEPT ![e] = opts'[e]] /\ opts'[e] \in Options
      <3>1. PICK d \in scene.inputs, f, o \in BOOLEAN :
              opts' = [opts EXCEPT ![e] = [data |-> d, fullSync |-> f,
                                           deleteOrphans |-> o]]
        BY Zenon DEF Begin
      <3>2. opts'[e] = [data |-> d, fullSync |-> f, deleteOrphans |-> o]
        BY <3>1, At, ZenonT(40)
      <3>3. opts'[e] \in Options
        BY <3>2, SceneTypes DEF Options
      <3> QED BY <3>1, <3>2, <3>3, Zenon
    <2>3. cursor' = [cursor EXCEPT ![e] = cursor'[e]] /\ cursor'[e] \in Nat
      BY At, Zenon DEF Begin
    <2>4. index' = [index EXCEPT ![e] = index'[e]] /\ Index(index'[e], DOMAIN table')
      BY At, Zenon DEF Begin, Index, NoIndex
    <2>5. todo' = [todo EXCEPT ![e] = todo'[e]] /\ todo'[e] \in Todo(DOMAIN table')
      <3>1. todo' = [todo EXCEPT ![e] = NoTodo]
        BY DEF Begin
      <3>2. NoTodo \in Todo(DOMAIN table')
        BY DEF Todo, NoTodo
      <3> QED BY <3>1, <3>2, At, Zenon
    <2>6. summary' = [summary EXCEPT ![e] = summary'[e]] /\ summary'[e] \in Summary
      BY At, Zenon DEF Begin, Summary, NoSummary
    <2> QED BY <2>1, <2>2, <2>3, <2>4, <2>5, <2>6, ZenonT(40) DEF Moves
  <1>3. Rests
    <2>1. runs' \in [Engines -> 0 .. scene.runs]
      <3>1. /\ runs' = [runs EXCEPT ![e] = runs[e] + 1] /\ runs[e] < scene.runs
            /\ runs \in [Engines -> 0 .. scene.runs] /\ scene.runs \in Nat
        BY SceneTypes, Zenon DEF Begin, Types, TypeOK
      <3>2. runs[e] + 1 \in 0 .. scene.runs
        BY <3>1
      <3> QED BY <3>1, <3>2
    <2>2. syncState' \in {"none", "initializing", "completed"} /\ scene' = scene
      BY DEF Begin, Types, TypeOK
    <2>3. faults' \in [page : 0 .. scene.page, refused : 0 .. scene.refused,
                       unheard : 0 .. scene.unheard]
      BY DEF Begin, Types, TypeOK
    <2> QED BY <2>1, <2>2, <2>3, ZenonT(40) DEF Rests
  <1>4. Good(e)'
    <2>1. /\ pc'[e] \in {"failed", "index"} /\ index'[e] = NoIndex
          /\ summary'[e] = NoSummary
      BY At DEF Begin
    <2> QED BY <2>1, ZenonT(40) DEF Good, IndexOK, Orphans, Uncounted, Counted, NoIndex
  <1> QED BY <1>1, <1>2, <1>3, <1>4, ZenonT(40) DEF Does

\* The steps that only go on.
LEMMA DoesPass ==
    ASSUME Types, NEW e \in Engines, Good(e),
           UNCHANGED <<table, opts, cursor, index, todo, summary, scene>>, Rests,
           pc' = [pc EXCEPT ![e] = pc'[e]],
           \/ pc[e] = "index" /\ pc'[e] = "analyze"
           \/ pc[e] = "create" /\ pc'[e] = "update"
           \/ pc[e] = "update" /\ pc'[e] = "delete"
           \/ pc[e] = "delete" /\ pc'[e] \in {"done", "failed"}
           \/ pc[e] = "analyze" /\ pc'[e] = "failed"
    PROVE  Does(e)
  <1>1. Grows
    BY TableSame, ZenonT(40)
  <1>2. Moves(e)
    BY Same, ZenonT(40) DEF Moves, Steps
  <1>3. IndexOK(e)' /\ Orphans(e)' /\ Uncounted(e)'
    BY ZenonT(40) DEF Good, IndexOK, Orphans, Uncounted
  <1>4. Counted(e)'
    <2>1. Left(e)' = Left(e) /\ Spared(e)' = Spared(e)
      BY DEF Left, Spared
    <2> QED BY <2>1, ZenonT(40) DEF Good, Counted
  <1> QED BY <1>1, <1>2, <1>3, <1>4 DEF Does, Good

\* getExistingRecordsIndex reads a page.
LEMMA DoesFetchPage ==
    ASSUME Types, NEW e \in Engines, Good(e), FetchPage(e)
    PROVE  Does(e)
  <1> DEFINE ix == IndexWith(index[e], Page(e))
  <1>1. /\ Index(ix, DOMAIN table)
        /\ \A k \in DOMAIN ix :
             \/ k \in DOMAIN index[e] /\ ix[k] = index[e][k]
             \/ \E i \in Of(Page(e), k) :
                  ix[k] = [id |-> i, value |-> ReadBack(table[i].value)]
    BY PageTypes, TypesAre, IndexWithIs, SMTT(30)
  <1>2. index' = [index EXCEPT ![e] = ix]
    BY DEF FetchPage
  <1>3. index'[e] = ix
    BY <1>2, At
  <1> HIDE DEF ix
  <1>4. pc' = [pc EXCEPT ![e] = pc'[e]] /\ pc[e] = "index" /\ pc'[e] \in {"index", "analyze"}
    BY At, Same DEF FetchPage
  <1>5. cursor' = [cursor EXCEPT ![e] = cursor'[e]] /\ cursor'[e] \in Nat
    <2>1. CASE Page(e) = After(e)
      BY <2>1, Same DEF FetchPage
    <2>2. CASE Page(e) # After(e)
      <3>1. Page(e) # {}
        BY <2>2, PageIs, Zenon DEF Page
      <3>2. Max(Page(e)) \in Nat
        <4>1. Max(Page(e)) \in DOMAIN table
          BY <3>1, PageIs, PageTypes
        <4> QED BY <4>1, TypesAre
      <3>3. cursor' = [cursor EXCEPT ![e] = Max(Page(e))]
        BY <2>2, ZenonT(40) DEF FetchPage
      <3> QED BY <3>2, <3>3, At, Zenon
    <2> QED BY <2>1, <2>2, ZenonT(40)
  <1>6. Moves(e)
    <2>1. UNCHANGED <<table, opts, todo, summary>>
      BY DEF FetchPage
    <2> QED BY <1>1, <1>2, <1>3, <1>4, <1>5, <2>1, Same, ZenonT(40) DEF Moves, Steps
  <1>7. Grows /\ Rests
    BY TableSame, RestsSame, ZenonT(40) DEF FetchPage
  <1>8. IndexOK(e)'
    <2> SUFFICES ASSUME ~scene.richText, NEW k \in DOMAIN ix
                 PROVE  table[ix[k].id].subject = k
      BY <1>3 DEF IndexOK, FetchPage
    <2>1. CASE k \in DOMAIN index[e] /\ ix[k] = index[e][k]
      BY <2>1 DEF Good, IndexOK
    <2>2. ASSUME NEW i \in Of(Page(e), k), ix[k].id = i
          PROVE  table[ix[k].id].subject = k
      BY <2>2, ZenonT(40) DEF Of, Key
    <2> QED BY ONLY <1>1, <2>1, <2>2, SMTT(30)
  <1>9. Orphans(e)' /\ Uncounted(e)' /\ Counted(e)'
    <2>1. summary' = summary
      BY DEF FetchPage
    <2> QED BY <1>4, <2>1 DEF Good, Orphans, Uncounted, Counted
  <1> QED BY <1>6, <1>7, <1>8, <1>9, ZenonT(40) DEF Does, Good

\* analyzeChanges makes the plan, and the total.
LEMMA DoesAnalyze ==
    ASSUME Types, NEW e \in Engines, Good(e), Analyze(e)
    PROVE  Does(e)
  <1> DEFINE data == opts[e].data
             full == opts[e].fullSync
             create == ToCreate(data, index[e])
             update == ToUpdate(data, index[e], full)
             delete == ToDelete(data, index[e])
             some == IF opts[e].deleteOrphans THEN delete ELSE {}
             total == Len(create) + Len(update) + Cardinality(delete)
             rest == Unchanged(data, index[e], full)
             plan == [create |-> create, update |-> update, delete |-> some]
  <1>1. Grows /\ Rests
    BY TableSame, RestsSame DEF Analyze
  <1>2. /\ pc[e] = "analyze" /\ summary[e] = NoSummary
        /\ UNCHANGED <<table, opts, cursor, index, scene>>
    BY DEF Analyze, Good, Uncounted
  <1>3. CASE \E i \in DOMAIN data : ~data[i].valid
    <2>1. pc' = [pc EXCEPT ![e] = "failed"] /\ UNCHANGED <<todo, summary>>
      BY <1>3 DEF Analyze
    <2>2. pc'[e] = "failed"
      BY <2>1, At
    <2> QED BY <1>1, <1>2, <2>1, <2>2, DoesPass, Zenon
  <1>4. CASE ~\E i \in DOMAIN data : ~data[i].valid
    <2>1. /\ pc' = [pc EXCEPT ![e] = "create"]
          /\ todo' = [todo EXCEPT ![e] = plan]
          /\ summary' = [summary EXCEPT ![e].total = total, ![e].unchanged = rest]
      BY <1>4 DEF Analyze
    <2>2. /\ create \in Seq(Item) /\ update \in Seq(Entry(DOMAIN table))
          /\ delete \subseteq DOMAIN table /\ rest \in Nat
      BY TypesAre, PlanTypes, ZenonT(40)
    <2>3. Cardinality(delete) \in Nat
      BY <2>2, TypesAre, Positions
    <2> HIDE DEF create, update, delete, rest
    <2>4. total \in Nat /\ Len(create) \in Nat /\ Len(update) \in Nat
      BY ONLY <2>2, <2>3, SMTT(30)
    <2>5. some \subseteq DOMAIN table /\ plan \in Todo(DOMAIN table)
      BY <2>2 DEF Todo
    <2> HIDE DEF total, plan, some
    <2>6. /\ pc'[e] = "create" /\ todo'[e] = plan
          /\ summary'[e] = [NoSummary EXCEPT !.total = total, !.unchanged = rest]
          /\ summary' = [summary EXCEPT ![e] = summary'[e]]
      <3> DEFINE new == [NoSummary EXCEPT !.total = total, !.unchanged = rest]
      <3>1. pc'[e] = "create" /\ todo'[e] = plan
        BY <2>1, At
      <3>2. summary' = [summary EXCEPT ![e] = new]
        BY <1>2, <2>1, At, Zenon
      <3> HIDE DEF new
      <3>3. summary'[e] = new
        BY <3>2, At
      <3> QED BY <3>1, <3>2, <3>3, Zenon DEF new
    <2>7. summary'[e] \in Summary
      <3>1. NoSummary \in Summary
        BY DEF Summary, NoSummary
      <3>2. \A x \in Summary : \A m, n \in Nat :
              [x EXCEPT !.total = m, !.unchanged = n] \in Summary
        BY Zenon DEF Summary
      <3>3. [NoSummary EXCEPT !.total = total, !.unchanged = rest] \in Summary
        BY <2>2, <2>4, <3>1, <3>2, Zenon
      <3> QED BY <2>6, <3>3, Zenon
    <2>8. Moves(e)
      BY <1>2, <2>1, <2>5, <2>6, <2>7, Same, ZenonT(40) DEF Moves, Steps
    <2>9. IndexOK(e)' /\ Uncounted(e)'
      BY <1>2, <2>6, ZenonT(40) DEF Good, IndexOK, Uncounted
    <2>10. Orphans(e)'
      <3> SUFFICES ASSUME ~scene.richText, NEW i \in some
                   PROVE  table[i].subject \notin SubjectsOf(data)
        BY <1>2, <2>6, SMTT(30) DEF Orphans, plan
      <3>1. PICK k \in DOMAIN index[e] \ SubjectsOf(data) : i = index[e][k].id
        BY DEF some, delete, ToDelete
      <3> QED BY <3>1 DEF Good, IndexOK
    <2>11. Counted(e)'
      <3>1. Left(e)' = Len(create) + Len(update) + Cardinality(some)
        BY ONLY <2>6, SMTT(30) DEF Left, plan
      <3>2. Spared(e)' = IF opts[e].deleteOrphans THEN 0 ELSE Cardinality(delete)
        BY <1>2 DEF Spared, delete
      <3>3. Cardinality({}) = 0
        BY FS_EmptySet
      <3>4. Sum(summary'[e]) = 0 /\ summary'[e].total = total
        BY ONLY <2>6, SMTT(30) DEF Sum, NoSummary
      <3>5. Left(e)' + Spared(e)' = total
        BY ONLY <2>3, <2>4, <3>1, <3>2, <3>3, SMTT(30) DEF total, some
      <3>6. Left(e)' \in Nat /\ Spared(e)' \in Nat
        BY ONLY <2>3, <2>4, <3>1, <3>2, <3>3, SMTT(30) DEF some
      <3>7. Sum(summary'[e]) + Left(e)' + Spared(e)' = summary'[e].total
        BY ONLY <3>4, <3>5, <3>6, SMTT(30)
      <3> QED BY <3>7 DEF Counted, Sum
    <2> QED BY <1>1, <2>8, <2>9, <2>10, <2>11, ZenonT(40) DEF Does, Good
  <1> QED BY <1>3, <1>4

\* What is left is counted in numbers.
LEMMA LeftTypes ==
    ASSUME Types, NEW e \in Engines
    PROVE  /\ Len(todo[e].create) \in Nat /\ Len(todo[e].update) \in Nat
           /\ Cardinality(todo[e].delete) \in Nat /\ Spared(e) \in Nat
           /\ Sum(summary[e]) \in Nat /\ summary[e].total \in Nat
  <1>1. Len(todo[e].create) \in Nat /\ Len(todo[e].update) \in Nat
    BY ONLY TypesAre, SMTT(30)
  <1>2. Cardinality(todo[e].delete) \in Nat
    BY TypesAre, Positions
  <1>3. Spared(e) \in Nat
    <2>1. ToDelete(opts[e].data, index[e]) \subseteq DOMAIN table
      BY TypesAre, PlanTypes, ZenonT(40)
    <2>2. Cardinality(ToDelete(opts[e].data, index[e])) \in Nat
      BY <2>1, TypesAre, Positions, ZenonT(40)
    <2> QED BY <2>2, ZenonT(40) DEF Spared
  <1>4. Sum(summary[e]) \in Nat /\ summary[e].total \in Nat
    <2>1. summary[e] \in Summary
      BY TypesAre, ZenonT(40)
    <2> QED BY ONLY <2>1, SMTT(30) DEF Summary, Sum
  <1> QED BY <1>1, <1>2, <1>3, <1>4, ZenonT(40)

\* The steps that write a batch: what they count is what they do.
LEMMA DoesWrite ==
    ASSUME Types, NEW e \in Engines, Good(e),
           UNCHANGED <<pc, opts, cursor, index, scene>>, Rests,
           pc[e] \in {"create", "update", "delete"},
           Grows,
           todo' = [todo EXCEPT ![e] = todo'[e]], todo'[e] \in Todo(DOMAIN table'),
           todo'[e].delete \subseteq todo[e].delete,
           summary' = [summary EXCEPT ![e] = summary'[e]], summary'[e] \in Summary,
           summary'[e].total = summary[e].total,
           Sum(summary'[e]) + Left(e)' = Sum(summary[e]) + Left(e)
    PROVE  Does(e)
  <1>1. Index(index'[e], DOMAIN table')
    BY TypesAre, Wider, ZenonT(40) DEF Grows
  <1>2. Moves(e)
    BY <1>1, Same, ZenonT(40) DEF Moves
  <1>3. \A i \in DOMAIN table : table'[i].subject = table[i].subject
    BY ZenonT(40) DEF Grows
  <1>4. /\ \A k \in DOMAIN index[e] : index[e][k].id \in DOMAIN table
        /\ todo[e].delete \subseteq DOMAIN table
    BY TypesAre, ZenonT(40) DEF Index, Entry
  <1>5. IndexOK(e)'
    BY <1>3, <1>4, ZenonT(40) DEF Good, IndexOK
  <1>6. Orphans(e)'
    BY <1>3, <1>4, ZenonT(40) DEF Good, Orphans
  <1>7. Uncounted(e)'
    BY ZenonT(40) DEF Uncounted
  <1>8. Counted(e)'
    <2>1. Spared(e)' = Spared(e)
      BY ZenonT(40) DEF Spared
    <2>2. Sum(summary[e]) + Left(e) + Spared(e) = summary[e].total
      BY ZenonT(40) DEF Good, Counted
    <2>3. Sum(summary'[e]) + Left(e)' + Spared(e)' = summary'[e].total
      BY <2>1, <2>2
    <2> QED BY <2>3, ZenonT(40) DEF Counted, Sum
  <1> QED BY <1>2, <1>5, <1>6, <1>7, <1>8 DEF Does, Good

\* Counting n operations adds n to the sum.
LEMMA Counting ==
    ASSUME NEW x \in Summary, NEW n \in Nat, NEW y,
           \/ y = [x EXCEPT !.created = @ + n] \/ y = [x EXCEPT !.failed = @ + n]
           \/ y = [x EXCEPT !.updated = @ + n] \/ y = [x EXCEPT !.deleted = @ + n]
    PROVE  y \in Summary /\ Sum(y) = Sum(x) + n /\ y.total = x.total
  <1>1. CASE y = [x EXCEPT !.created = @ + n]
    BY <1>1 DEF Summary, Sum
  <1>2. CASE y = [x EXCEPT !.failed = @ + n]
    BY <1>2 DEF Summary, Sum
  <1>3. CASE y = [x EXCEPT !.updated = @ + n]
    BY <1>3 DEF Summary, Sum
  <1>4. CASE y = [x EXCEPT !.deleted = @ + n]
    BY ONLY <1>4, SMTT(30) DEF Summary, Sum
  <1> QED BY <1>1, <1>2, <1>3, <1>4, ZenonT(40)

\* Records that are added are no change of the others.
LEMMA AddGrows ==
    ASSUME Types, NEW x \in Seq(Record), table' = table \o x
    PROVE  /\ Grows /\ Len(table') = Len(table) + Len(x)
           /\ \A i \in DOMAIN table : table'[i] = table[i]
           /\ \A i \in DOMAIN table' \ DOMAIN table :
                i - Len(table) \in DOMAIN x /\ table'[i] = x[i - Len(table)]
  <1>1. /\ table \in Seq(Record) /\ Len(table) \in Nat /\ DOMAIN table = 1 .. Len(table)
        /\ Len(x) \in Nat /\ DOMAIN x = 1 .. Len(x)
    BY DEF Types, TypeOK
  <1>2. /\ table' \in Seq(Record) /\ Len(table') = Len(table) + Len(x)
        /\ DOMAIN table' = 1 .. Len(table) + Len(x)
    BY <1>1
  <1>3. \A i \in DOMAIN table : i \in DOMAIN table' /\ table'[i] = table[i]
    BY <1>1
  <1>4. \A i \in DOMAIN table' \ DOMAIN table :
          i - Len(table) \in DOMAIN x /\ table'[i] = x[i - Len(table)]
    BY <1>1, <1>2
  <1> QED BY <1>2, <1>3, <1>4, ZenonT(40) DEF Grows

\* What a batch creates.
Created(e) == [i \in DOMAIN Batch(todo[e].create) |-> NewRecord(Batch(todo[e].create)[i])]

\* CreateBatch: a number of copies of the batch are added; without lost answers
\* there is none or one.
LEMMA CreateIs ==
    ASSUME Types, NEW e \in Engines, CreateBatch(e)
    PROVE  /\ Batch(todo[e].create) \in Seq(Item)
           /\ Created(e) \in Seq(Record) /\ Created(e) # <<>>
           /\ \E m \in Nat : /\ table' = table \o Times(Created(e), m)
                             /\ scene.unheard = 0 => m \in {0, 1}
           /\ LET n == Len(Batch(todo[e].create)) IN
              \/ summary' = [summary EXCEPT ![e].created = @ + n]
              \/ summary' = [summary EXCEPT ![e].failed = @ + n]
           /\ Rests
  <1> DEFINE c == todo[e].create
             n == Len(Batch(c))
             new == Created(e)
  <1>1. c \in Seq(Item) /\ c # <<>>
    BY TypesAre DEF CreateBatch
  <1>2. scene.batchSize \in Nat \ {0}
    BY SceneTypes
  <1> HIDE DEF c
  <1>3. Batch(c) \in Seq(Item) /\ n \in Nat \ {0}
    BY ONLY <1>1, <1>2, BatchIs, SMTT(30)
  <1>4. new = [i \in DOMAIN Batch(c) |-> NewRecord(Batch(c)[i])]
    BY DEF Created, c
  <1> HIDE DEF new
  <1>5. new \in Seq(Record) /\ Len(new) = n
    <2> DEFINE b == Batch(c)
    <2> HIDE DEF b
    <2> QED BY <1>3, <1>4, NewTypes, ZenonT(40) DEF b
  <1>6. new # <<>>
    BY <1>3, <1>5, ZenonT(40)
  <1>7. PICK lost \in 0 .. scene.unheard - faults.unheard :
         \/ /\ lost <= scene.retryAttempts
            /\ table' = table \o Times(new, lost + 1)
            /\ summary' = [summary EXCEPT ![e].created = @ + n]
            /\ faults' = [faults EXCEPT !.unheard = @ + lost]
         \/ /\ \/ /\ lost <= scene.retryAttempts
                  /\ faults.refused < scene.refused
                  /\ faults' = [faults EXCEPT !.unheard = @ + lost,
                                              !.refused = @ + 1]
               \/ /\ lost = scene.retryAttempts + 1
                  /\ faults' = [faults EXCEPT !.unheard = @ + lost]
            /\ table' = table \o Times(new, lost)
            /\ summary' = [summary EXCEPT ![e].failed = @ + n]
    BY Zenon DEF CreateBatch, new, Created, c
  <1>8. /\ scene.unheard \in Nat /\ scene.refused \in Nat
        /\ faults \in [page : 0 .. scene.page, refused : 0 .. scene.refused,
                       unheard : 0 .. scene.unheard]
    BY SceneTypes, Zenon DEF Types, TypeOK
  <1>9. lost \in Nat /\ faults.unheard + lost \in 0 .. scene.unheard
        /\ (scene.unheard = 0 => lost = 0)
    BY <1>8
  <1>10. \E m \in Nat : /\ table' = table \o Times(new, m)
                        /\ scene.unheard = 0 => m \in {0, 1}
    <2>1. CASE table' = table \o Times(new, lost + 1)
      <3>1. lost + 1 \in Nat /\ (scene.unheard = 0 => lost + 1 \in {0, 1})
        BY <1>9
      <3> QED BY <2>1, <3>1, ZenonT(40)
    <2>2. CASE table' = table \o Times(new, lost)
      BY <1>9, <2>2, ZenonT(40)
    <2> QED BY <1>7, <2>1, <2>2, Zenon
  <1>11. Rests
    <2>1. faults' \in [page : 0 .. scene.page, refused : 0 .. scene.refused,
                       unheard : 0 .. scene.unheard]
      <3>1. \/ faults' = [faults EXCEPT !.unheard = @ + lost]
            \/ /\ faults' = [faults EXCEPT !.unheard = @ + lost, !.refused = @ + 1]
               /\ faults.refused < scene.refused
        BY <1>7
      <3>2. faults.refused < scene.refused => faults.refused + 1 \in 0 .. scene.refused
        BY <1>8
      <3> QED BY <1>8, <1>9, <3>1, <3>2, Zenon
    <2> QED BY <2>1, RestsSame DEF CreateBatch, Rests
  <1>12. \/ summary' = [summary EXCEPT ![e].created = @ + n]
         \/ summary' = [summary EXCEPT ![e].failed = @ + n]
    BY <1>7
  <1> QED BY <1>3, <1>5, <1>6, <1>10, <1>11, <1>12, ZenonT(40) DEF c, new

\* batchCreateRecords.
LEMMA DoesCreateBatch ==
    ASSUME Types, NEW e \in Engines, Good(e), CreateBatch(e)
    PROVE  Does(e)
  <1> DEFINE c == todo[e].create
             n == Len(Batch(c))
             x == summary[e]
  <1>1. c \in Seq(Item) /\ c # <<>> /\ x \in Summary
    BY TypesAre, ZenonT(40) DEF CreateBatch
  <1>2. Rest(c) \in Seq(Item) /\ n \in Nat /\ Len(Rest(c)) = Len(c) - n /\ Len(c) \in Nat
    <2>1. scene.batchSize \in Nat \ {0}
      BY SceneTypes, ZenonT(40)
    <2> HIDE DEF c
    <2> QED BY ONLY <1>1, <2>1, BatchIs, SMTT(30) DEF n
  <1>3. Grows
    <2>1. PICK m \in Nat : table' = table \o Times(Created(e), m)
      BY CreateIs, ZenonT(40)
    <2>2. Times(Created(e), m) \in Seq(Record)
      BY CreateIs, TimesIs, ZenonT(40)
    <2> QED BY <2>1, <2>2, AddGrows, ZenonT(40)
  <1>4. /\ todo' = [todo EXCEPT ![e] = todo'[e]]
        /\ todo'[e] = [todo[e] EXCEPT !.create = Rest(c)]
    BY At, Zenon DEF CreateBatch
  <1>5. todo[e] \in Todo(DOMAIN table')
    BY <1>3, TypesAre, Wider, Zenon DEF Grows
  <1>6. todo'[e] \in Todo(DOMAIN table') /\ todo'[e].delete = todo[e].delete
        /\ todo'[e].update = todo[e].update /\ todo'[e].create = Rest(c)
    BY <1>2, <1>4, <1>5, ZenonT(40) DEF Todo
  <1>7. /\ summary' = [summary EXCEPT ![e] = summary'[e]]
        /\ \/ summary'[e] = [x EXCEPT !.created = @ + n]
           \/ summary'[e] = [x EXCEPT !.failed = @ + n]
    <2>1. \/ summary' = [summary EXCEPT ![e].created = @ + n]
          \/ summary' = [summary EXCEPT ![e].failed = @ + n]
      BY CreateIs, ZenonT(40)
    <2> HIDE DEF c
    <2> QED BY <2>1, At, ZenonT(40)
  <1>8. summary'[e] \in Summary /\ Sum(summary'[e]) = Sum(x) + n
        /\ summary'[e].total = x.total
    <2> DEFINE y == summary'[e]
    <2>1. \/ y = [x EXCEPT !.created = @ + n] \/ y = [x EXCEPT !.failed = @ + n]
      BY <1>7
    <2> HIDE DEF c, x, y
    <2>2. y \in Summary /\ Sum(y) = Sum(x) + n /\ y.total = x.total
      <3> HIDE DEF n
      <3> QED BY <1>1, <1>2, <2>1, Counting, ZenonT(40)
    <2> QED BY <2>2 DEF y
  <1>9. Sum(summary'[e]) + Left(e)' = Sum(x) + Left(e)
    <2>1. Left(e)' = Len(Rest(c)) + Len(todo[e].update) + Cardinality(todo[e].delete)
      BY <1>6 DEF Left
    <2>2. Left(e) = Len(c) + Len(todo[e].update) + Cardinality(todo[e].delete)
      BY DEF Left
    <2>3. Len(todo[e].update) \in Nat /\ Cardinality(todo[e].delete) \in Nat /\ Sum(x) \in Nat
      BY LeftTypes
    <2> HIDE DEF c, x
    <2> QED BY ONLY <1>2, <1>8, <2>1, <2>2, <2>3, SMTT(30)
  <1>10. Rests
    BY CreateIs, ZenonT(40)
  <1>11. UNCHANGED <<pc, opts, cursor, index, scene>> /\ pc[e] = "create"
    BY DEF CreateBatch
  <1> HIDE DEF c, n
  <1> QED BY <1>3, <1>4, <1>6, <1>7, <1>8, <1>9, <1>10, <1>11, DoesWrite, ZenonT(40)

\* The positions of a sequence that are in a set, and the others.
LEMMA Parts ==
    ASSUME NEW R, NEW s \in Seq(R), NEW S, S \subseteq DOMAIN s
    PROVE  /\ Cardinality(S) \in Nat /\ Cardinality(DOMAIN s \ S) \in Nat
           /\ Cardinality(DOMAIN s \ S) + Cardinality(S) = Len(s)
  <1>1. /\ Len(s) \in Nat /\ DOMAIN s = 1 .. Len(s)
        /\ IsFiniteSet(DOMAIN s) /\ IsFiniteSet(S) /\ Cardinality(S) \in Nat
    BY Positions, ZenonT(40)
  <1>2. Cardinality(DOMAIN s \ S) \in Nat
    <2>1. DOMAIN s \ S \subseteq DOMAIN s
      OBVIOUS
    <2> QED BY <2>1, Positions, ZenonT(40)
  <1>3. Cardinality(DOMAIN s) = Len(s)
    <2>1. 1 \in Int /\ Len(s) \in Int
      BY <1>1
    <2>2. Cardinality(1 .. Len(s)) = IF 1 > Len(s) THEN 0 ELSE Len(s) - 1 + 1
      BY <2>1, FS_Interval, Zenon
    <2> QED BY ONLY <1>1, <2>2, SMTT(30)
  <1>4. Cardinality(DOMAIN s \ S) = Cardinality(DOMAIN s) - Cardinality(DOMAIN s \cap S)
    BY <1>1, FS_Difference, Zenon
  <1>5. DOMAIN s \cap S = S
    OBVIOUS
  <1>6. Cardinality(DOMAIN s \ S) = Len(s) - Cardinality(S)
    BY <1>3, <1>4, <1>5, Zenon
  <1> QED BY ONLY <1>1, <1>2, <1>6, SMTT(30)

\* UpdateBatch: values are written, and every update is counted.
LEMMA UpdateIs ==
    ASSUME Types, NEW e \in Engines, UpdateBatch(e)
    PROVE  LET u == Batch(todo[e].update) IN
           /\ u \in Seq(Entry(DOMAIN table)) /\ Rest(todo[e].update) \in Seq(Entry(DOMAIN table))
           /\ Len(u) \in Nat /\ Len(todo[e].update) \in Nat
           /\ Len(Rest(todo[e].update)) = Len(todo[e].update) - Len(u)
           /\ \E ids \in SUBSET DOMAIN u : table' = Write(u, ids)
           /\ \E m, n \in Nat :
                /\ m + n = Len(u)
                /\ \/ summary' = [summary EXCEPT ![e].updated = @ + n] /\ m = 0
                   \/ summary' = [summary EXCEPT ![e].updated = @ + m, ![e].failed = @ + n]
           /\ Rests
  <1> DEFINE c == todo[e].update
             u == Batch(c)
             gone == {i \in DOMAIN u : ~Live(u[i].id)}
  <1>1. c \in Seq(Entry(DOMAIN table)) /\ c # <<>>
    BY TypesAre, Zenon DEF UpdateBatch
  <1> HIDE DEF c
  <1>2. /\ u \in Seq(Entry(DOMAIN table)) /\ Rest(c) \in Seq(Entry(DOMAIN table))
        /\ Len(u) \in Nat /\ Len(c) \in Nat /\ Len(Rest(c)) = Len(c) - Len(u)
    <2> DEFINE E == Entry(DOMAIN table)
    <2> HIDE DEF E
    <2>1. c \in Seq(E)
      BY <1>1, ZenonT(40) DEF E
    <2>2. scene.batchSize \in Nat \ {0}
      BY SceneTypes, ZenonT(40)
    <2>3. /\ u \in Seq(E) /\ Rest(c) \in Seq(E) /\ Len(u) \in Nat /\ Len(c) \in Nat
          /\ Len(Rest(c)) = Len(c) - Len(u)
      BY ONLY <1>1, <2>1, <2>2, BatchIs, SMTT(30) DEF u
    <2> QED BY <2>3 DEF E
  <1>3. CASE /\ table' = Write(u, DOMAIN u)
             /\ summary' = [summary EXCEPT ![e].updated = @ + Len(u)]
             /\ UNCHANGED faults
    <2>1. Rests
      BY <1>3, RestsSame, Zenon DEF UpdateBatch
    <2>2. 0 \in Nat /\ 0 + Len(u) = Len(u)
      BY <1>2
    <2>3. \E m, n \in Nat :
            /\ m + n = Len(u)
            /\ summary' = [summary EXCEPT ![e].updated = @ + n] /\ m = 0
      BY <1>2, <1>3, <2>2, Zenon
    <2>4. \E ids \in SUBSET DOMAIN u : table' = Write(u, ids)
      BY <1>3
    <2> QED BY <1>2, <2>1, <2>3, <2>4, Zenon DEF c
  <1>4. ASSUME NEW bad \in SUBSET DOMAIN u, NEW hit \in SUBSET (bad \ gone), NEW cost,
               cost = Cardinality(bad \ gone) + (IF gone = {} THEN 1 ELSE 0),
               faults.refused + cost <= scene.refused,
               faults.unheard + Cardinality(hit) <= scene.unheard,
               table' = Write(u, (DOMAIN u \ bad) \cup hit),
               summary' = [summary EXCEPT ![e].updated = @ + Cardinality(DOMAIN u \ bad),
                                          ![e].failed = @ + Cardinality(bad)],
               faults' = [faults EXCEPT !.refused = @ + cost,
                                        !.unheard = @ + Cardinality(hit)]
        PROVE  /\ \E ids \in SUBSET DOMAIN u : table' = Write(u, ids)
               /\ \E m, n \in Nat :
                    /\ m + n = Len(u)
                    /\ summary' = [summary EXCEPT ![e].updated = @ + m,
                                                  ![e].failed = @ + n]
               /\ Rests
    <2> HIDE DEF u
    <2>1. /\ Cardinality(bad) \in Nat /\ Cardinality(DOMAIN u \ bad) \in Nat
          /\ Cardinality(DOMAIN u \ bad) + Cardinality(bad) = Len(u)
      BY <1>2, Parts, Zenon
    <2>2. Cardinality(bad \ gone) \in Nat /\ Cardinality(hit) \in Nat
      <3>1. bad \ gone \subseteq DOMAIN u /\ hit \subseteq DOMAIN u
        OBVIOUS
      <3> HIDE DEF gone
      <3> QED BY <1>2, <3>1, Positions, ZenonT(40)
    <2>3. cost \in Nat
      BY ONLY <1>4, <2>2, SMTT(30)
    <2>4. faults' \in [page : 0 .. scene.page, refused : 0 .. scene.refused,
                       unheard : 0 .. scene.unheard]
      <3>1. /\ faults \in [page : 0 .. scene.page, refused : 0 .. scene.refused,
                           unheard : 0 .. scene.unheard]
            /\ scene.refused \in Nat /\ scene.unheard \in Nat
        BY SceneTypes, ZenonT(40) DEF Types, TypeOK
      <3>2. /\ faults.refused + cost \in 0 .. scene.refused
            /\ faults.unheard + Cardinality(hit) \in 0 .. scene.unheard
        BY ONLY <1>4, <2>2, <2>3, <3>1, SMTT(30)
      <3> QED BY <1>4, <3>1, <3>2, Zenon
    <2>5. Rests
      BY <2>4, RestsSame, Zenon DEF UpdateBatch, Rests
    <2>6. (DOMAIN u \ bad) \cup hit \in SUBSET DOMAIN u
      OBVIOUS
    <2>7. \E m, n \in Nat :
            /\ m + n = Len(u)
            /\ summary' = [summary EXCEPT ![e].updated = @ + m, ![e].failed = @ + n]
      BY <1>4, <2>1, Zenon
    <2> QED BY <1>4, <2>5, <2>6, <2>7, Zenon
  <1>5. \/ /\ table' = Write(u, DOMAIN u)
           /\ summary' = [summary EXCEPT ![e].updated = @ + Len(u)]
           /\ UNCHANGED faults
        \/ \E bad \in SUBSET DOMAIN u : \E hit \in SUBSET (bad \ gone) :
             LET cost == Cardinality(bad \ gone) + (IF gone = {} THEN 1 ELSE 0)
             IN  /\ faults.refused + cost <= scene.refused
                 /\ faults.unheard + Cardinality(hit) <= scene.unheard
                 /\ table' = Write(u, (DOMAIN u \ bad) \cup hit)
                 /\ summary' = [summary EXCEPT
                                  ![e].updated = @ + Cardinality(DOMAIN u \ bad),
                                  ![e].failed = @ + Cardinality(bad)]
                 /\ faults' = [faults EXCEPT !.refused = @ + cost,
                                             !.unheard = @ + Cardinality(hit)]
    BY Zenon DEF UpdateBatch, c
  <1>6. CASE ~(/\ table' = Write(u, DOMAIN u)
               /\ summary' = [summary EXCEPT ![e].updated = @ + Len(u)]
               /\ UNCHANGED faults)
    <2> HIDE DEF gone, u
    <2>1. /\ \E ids \in SUBSET DOMAIN u : table' = Write(u, ids)
          /\ \E m, n \in Nat :
               /\ m + n = Len(u)
               /\ summary' = [summary EXCEPT ![e].updated = @ + m, ![e].failed = @ + n]
          /\ Rests
      BY <1>4, <1>5, <1>6, Zenon
    <2> QED BY <1>2, <2>1, Zenon DEF u, c
  <1> QED BY <1>3, <1>6, ZenonT(40)

\* batchUpdateRecords.
LEMMA DoesUpdateBatch ==
    ASSUME Types, NEW e \in Engines, Good(e), UpdateBatch(e)
    PROVE  Does(e)
  <1> DEFINE c == todo[e].update
             u == Batch(c)
             x == summary[e]
             y == summary'[e]
  <1>1. /\ u \in Seq(Entry(DOMAIN table)) /\ Rest(c) \in Seq(Entry(DOMAIN table))
        /\ Len(u) \in Nat /\ Len(c) \in Nat /\ Len(Rest(c)) = Len(c) - Len(u) /\ Rests
    BY UpdateIs, ZenonT(40)
  <1>2. Grows /\ DOMAIN table' = DOMAIN table
    <2>1. PICK ids \in SUBSET DOMAIN u : table' = Write(u, ids)
      BY UpdateIs, Zenon
    <2> HIDE DEF u
    <2> QED BY <1>1, <2>1, WriteIs, ZenonT(40) DEF Grows
  <1>3. /\ todo' = [todo EXCEPT ![e] = todo'[e]]
        /\ todo'[e] = [todo[e] EXCEPT !.update = Rest(c)]
    BY At, Zenon DEF UpdateBatch
  <1>4. todo'[e] \in Todo(DOMAIN table') /\ todo'[e].delete = todo[e].delete
        /\ todo'[e].update = Rest(c) /\ todo'[e].create = todo[e].create
    BY <1>1, <1>2, <1>3, TypesAre, Zenon DEF Todo
  <1>5. PICK m, n \in Nat :
          /\ m + n = Len(u)
          /\ \/ summary' = [summary EXCEPT ![e].updated = @ + n] /\ m = 0
             \/ summary' = [summary EXCEPT ![e].updated = @ + m, ![e].failed = @ + n]
    BY UpdateIs, ZenonT(40)
  <1>6. /\ summary' = [summary EXCEPT ![e] = y]
        /\ \/ y = [x EXCEPT !.updated = @ + n] /\ m = 0
           \/ y = [x EXCEPT !.updated = @ + m, !.failed = @ + n]
    BY <1>5, At, Zenon
  <1>7. x \in Summary /\ Sum(x) \in Nat
    BY TypesAre, LeftTypes
  <1>8. y \in Summary /\ Sum(y) = Sum(x) + m + n /\ y.total = x.total
    <2>1. m \in Nat /\ n \in Nat
      BY <1>5
    <2> HIDE DEF x, y
    <2>2. CASE y = [x EXCEPT !.updated = @ + n] /\ m = 0
      <3>1. y \in Summary /\ Sum(y) = Sum(x) + n /\ y.total = x.total
        BY <1>7, <2>1, <2>2, Counting, ZenonT(40)
      <3> QED BY ONLY <1>7, <2>1, <2>2, <3>1, SMTT(30)
    <2>3. CASE y = [x EXCEPT !.updated = @ + m, !.failed = @ + n]
      <3> DEFINE z == [x EXCEPT !.updated = @ + m]
      <3>1. y = [z EXCEPT !.failed = @ + n]
        BY <1>7, <2>3 DEF Summary
      <3>2. z \in Summary /\ Sum(z) = Sum(x) + m /\ z.total = x.total
        BY <1>7, <2>1, Counting, ZenonT(40)
      <3> HIDE DEF z
      <3>3. y \in Summary /\ Sum(y) = Sum(z) + n /\ y.total = z.total
        BY <2>1, <3>1, <3>2, Counting, ZenonT(40)
      <3> QED BY <1>7, <2>1, <3>2, <3>3, ZenonT(40)
    <2> QED BY <1>6, <2>2, <2>3
  <1>9. Sum(y) + Left(e)' = Sum(x) + Left(e)
    <2>1. Left(e)' = Len(todo[e].create) + Len(Rest(c)) + Cardinality(todo[e].delete)
      BY <1>4 DEF Left
    <2>2. Left(e) = Len(todo[e].create) + Len(c) + Cardinality(todo[e].delete)
      BY DEF Left
    <2>3. Len(todo[e].create) \in Nat /\ Cardinality(todo[e].delete) \in Nat
      BY LeftTypes
    <2> DEFINE C == Len(todo[e].create)
               U == Len(c)
               D == Cardinality(todo[e].delete)
               l == Len(u)
               S == Sum(x)
    <2>4. C \in Nat /\ U \in Nat /\ D \in Nat /\ l \in Nat /\ S \in Nat /\ m + n = l
      BY <1>1, <1>5, <1>7, <2>3, Zenon
    <2> HIDE DEF C, U, D, l, S
    <2>5. S + m + n + (C + (U - l) + D) = S + (C + U + D)
      BY ONLY <2>4, SMTT(30)
    <2> QED BY <1>1, <1>8, <2>1, <2>2, <2>5, Zenon DEF C, U, D, l, S
  <1>10. UNCHANGED <<pc, opts, cursor, index, scene>> /\ pc[e] = "update"
    BY Zenon DEF UpdateBatch
  <1> HIDE DEF c, u
  <1> QED BY <1>1, <1>2, <1>3, <1>4, <1>6, <1>8, <1>9, <1>10, DoesWrite, Zenon

\* DeleteRecord: a record of those to delete, counted once.
LEMMA DeleteIs ==
    ASSUME Types, NEW e \in Engines, DeleteRecord(e)
    PROVE  /\ \E i \in todo[e].delete :
                /\ todo' = [todo EXCEPT ![e].delete = @ \ {i}]
                /\ \/ Live(i) /\ table' = [table EXCEPT ![i].live = FALSE]
                   \/ table' = table
           /\ \/ summary' = [summary EXCEPT ![e].deleted = @ + 1]
              \/ summary' = [summary EXCEPT ![e].failed = @ + 1]
           /\ Rests
  <1>1. /\ faults \in [page : 0 .. scene.page, refused : 0 .. scene.refused,
                       unheard : 0 .. scene.unheard]
        /\ scene.refused \in Nat /\ scene.unheard \in Nat
    BY SceneTypes, Zenon DEF Types, TypeOK
  <1>2. \E i \in todo[e].delete :
          /\ todo' = [todo EXCEPT ![e].delete = @ \ {i}]
          /\ \/ Live(i) /\ table' = [table EXCEPT ![i].live = FALSE]
             \/ table' = table
    BY Zenon DEF DeleteRecord
  <1>3. \/ summary' = [summary EXCEPT ![e].deleted = @ + 1]
        \/ summary' = [summary EXCEPT ![e].failed = @ + 1]
    BY DEF DeleteRecord
  <1>4. \/ faults' = faults
        \/ faults.unheard < scene.unheard /\ faults' = [faults EXCEPT !.unheard = @ + 1]
        \/ faults.refused < scene.refused /\ faults' = [faults EXCEPT !.refused = @ + 1]
    BY <1>1 DEF DeleteRecord
  <1>5. faults' \in [page : 0 .. scene.page, refused : 0 .. scene.refused,
                     unheard : 0 .. scene.unheard]
    <2>1. /\ faults.unheard < scene.unheard => faults.unheard + 1 \in 0 .. scene.unheard
          /\ faults.refused < scene.refused => faults.refused + 1 \in 0 .. scene.refused
      BY <1>1
    <2> QED BY <1>1, <1>4, <2>1, ZenonT(40)
  <1>6. Rests
    BY <1>5, RestsSame DEF DeleteRecord, Rests
  <1> QED BY <1>2, <1>3, <1>6, Zenon

\* batchDeleteRecords.
LEMMA DoesDeleteRecord ==
    ASSUME Types, NEW e \in Engines, Good(e), DeleteRecord(e)
    PROVE  Does(e)
  <1> DEFINE d == todo[e].delete
             x == summary[e]
             y == summary'[e]
  <1>1. PICK i \in d :
          /\ todo' = [todo EXCEPT ![e].delete = @ \ {i}]
          /\ \/ Live(i) /\ table' = [table EXCEPT ![i].live = FALSE]
             \/ table' = table
    BY DeleteIs, ZenonT(40)
  <1>2. d \subseteq DOMAIN table /\ IsFiniteSet(d) /\ Cardinality(d) \in Nat
    BY TypesAre, Positions
  <1>3. Grows /\ DOMAIN table' = DOMAIN table
    <2>1. CASE table' = table
      BY <2>1, TableSame, ZenonT(40)
    <2>2. CASE table' = [table EXCEPT ![i].live = FALSE]
      <3>1. /\ table \in Seq(Record) /\ i \in DOMAIN table
            /\ Len(table) \in Nat /\ DOMAIN table = 1 .. Len(table)
        BY <1>2, TypesAre, ZenonT(40)
      <3>2. ASSUME NEW r \in Record
            PROVE  /\ [r EXCEPT !.live = FALSE] \in Record
                   /\ [r EXCEPT !.live = FALSE].subject = r.subject
                   /\ [r EXCEPT !.live = FALSE].live = FALSE
        BY Zenon DEF Record
      <3> QED BY ONLY <2>2, <3>1, <3>2, SMTT(30) DEF Grows
    <2> QED BY <1>1, <2>1, <2>2, ZenonT(40)
  <1>4. /\ todo' = [todo EXCEPT ![e] = todo'[e]]
        /\ todo'[e] = [todo[e] EXCEPT !.delete = d \ {i}]
    BY <1>1, At, Zenon
  <1>5. todo'[e] \in Todo(DOMAIN table') /\ todo'[e].delete = d \ {i}
        /\ todo'[e].update = todo[e].update /\ todo'[e].create = todo[e].create
    BY <1>2, <1>3, <1>4, TypesAre, ZenonT(40) DEF Todo
  <1>6. /\ summary' = [summary EXCEPT ![e] = y]
        /\ y = [x EXCEPT !.deleted = @ + 1] \/ y = [x EXCEPT !.failed = @ + 1]
    BY DeleteIs, At, ZenonT(40)
  <1>7. x \in Summary /\ Sum(x) \in Nat
    BY TypesAre, LeftTypes, ZenonT(40)
  <1>8. y \in Summary /\ Sum(y) = Sum(x) + 1 /\ y.total = x.total
    <2> HIDE DEF x, y
    <2> QED BY <1>6, <1>7, Counting, 1 \in Nat, ZenonT(40)
  <1>9. Cardinality(d \ {i}) = Cardinality(d) - 1
    <2> HIDE DEF d
    <2> QED BY <1>1, <1>2, FS_RemoveElement, Zenon
  <1>10. Sum(y) + Left(e)' = Sum(x) + Left(e)
    <2>1. Left(e)' = Len(todo[e].create) + Len(todo[e].update) + Cardinality(d \ {i})
      BY <1>5, ZenonT(40) DEF Left
    <2>2. Left(e) = Len(todo[e].create) + Len(todo[e].update) + Cardinality(d)
      BY DEF Left
    <2>3. Len(todo[e].create) \in Nat /\ Len(todo[e].update) \in Nat
      BY LeftTypes
    <2> DEFINE C == Len(todo[e].create)
               U == Len(todo[e].update)
               D == Cardinality(d)
               S == Sum(x)
    <2>4. C \in Nat /\ U \in Nat /\ D \in Nat /\ S \in Nat
      BY <1>2, <1>7, <2>3, Zenon
    <2> HIDE DEF C, U, D, S
    <2>5. S + 1 + (C + U + (D - 1)) = S + (C + U + D)
      BY ONLY <2>4, SMTT(30)
    <2> QED BY <1>8, <1>9, <2>1, <2>2, <2>5, Zenon DEF C, U, D, S
  <1>11. UNCHANGED <<pc, opts, cursor, index, scene>> /\ pc[e] = "delete" /\ Rests
    BY DeleteIs, ZenonT(40) DEF DeleteRecord
  <1> QED BY <1>3, <1>4, <1>5, <1>6, <1>8, <1>10, <1>11, DoesWrite, Zenon

-----------------------------------------------------------------------------
(* Of any calls. *)

\* All the calls.
Inv == Types /\ \A e \in Engines : Good(e)

\* Before any call.
LEMMA InitInv == ASSUME Init PROVE Inv
  <1>1. Types
    <2>1. scene \in Scenarios /\ table \in Seq(Record)
      BY EngineAssumption DEF Init
    <2>2. scene.runs \in Nat /\ scene.page \in Nat /\ scene.refused \in Nat
          /\ scene.unheard \in Nat
      BY <2>1, EngineAssumption, ZenonT(40)
    <2>3. pc \in [Engines -> Steps] /\ opts \in [Engines -> Options]
          /\ cursor \in [Engines -> Nat] /\ summary \in [Engines -> Summary]
      BY SMTT(30) DEF Init, Steps, Options, Summary, NoSummary
    <2>4. index = [e \in Engines |-> NoIndex] /\ \A e \in Engines : index[e] = NoIndex
      BY DEF Init
    <2>5. \A e \in Engines : Index(index[e], DOMAIN table)
      BY <2>4, ZenonT(40) DEF Index, NoIndex
    <2>6. todo \in [Engines -> Todo(DOMAIN table)]
      <3>1. NoTodo \in Todo(DOMAIN table)
        BY ONLY SMTT(30) DEF Todo, NoTodo
      <3> QED BY <3>1, ZenonT(40) DEF Init
    <2>7. /\ syncState \in {"none", "initializing", "completed"}
          /\ runs \in [Engines -> 0 .. scene.runs]
          /\ faults \in [page : 0 .. scene.page, refused : 0 .. scene.refused,
                         unheard : 0 .. scene.unheard]
      BY <2>2, SMTT(30) DEF Init
    <2>8. TypeOK
      BY <2>1, <2>3, <2>5, <2>6, <2>7, ZenonT(40)
      DEF TypeOK, Steps, Options, Summary, Todo, Entry, Index
    <2> QED BY <2>1, <2>4, <2>8, ZenonT(40) DEF Types
  <1>2. \A e \in Engines : pc[e] = "idle" /\ index[e] = NoIndex
    BY ZenonT(40) DEF Init
  <1>3. \A e \in Engines : Good(e)
    BY <1>2 DEF Good, IndexOK, Orphans, Uncounted, Counted, NoIndex
  <1> QED BY <1>1, <1>3 DEF Inv

\* Every step is one of a call.
LEMMA StepDoes ==
    ASSUME Types, NEW e \in Engines, Good(e), Begin(e) \/ Work(e)
    PROVE  Does(e)
  <1>1. CASE Begin(e)
    BY <1>1, DoesBegin, ZenonT(40)
  <1>2. CASE FetchPage(e)
    BY <1>2, DoesFetchPage, ZenonT(40)
  <1>3. CASE FetchPageFails(e)
    <2>1. Rests
      <3>1. /\ faults \in [page : 0 .. scene.page, refused : 0 .. scene.refused,
                           unheard : 0 .. scene.unheard]
            /\ scene.page \in Nat /\ faults.page < scene.page
            /\ faults' = [faults EXCEPT !.page = faults.page + 1]
        BY <1>3, SceneTypes, Zenon DEF FetchPageFails, Types, TypeOK
      <3>2. faults.page + 1 \in 0 .. scene.page
        BY <3>1
      <3>3. faults' \in [page : 0 .. scene.page, refused : 0 .. scene.refused,
                         unheard : 0 .. scene.unheard]
        BY <3>1, <3>2, ZenonT(40)
      <3> QED BY <1>3, <3>3, RestsSame, ZenonT(40) DEF FetchPageFails, Rests
    <2>2. /\ pc' = [pc EXCEPT ![e] = pc'[e]] /\ pc[e] = "index" /\ pc'[e] = "analyze"
          /\ UNCHANGED <<table, opts, cursor, index, todo, summary, scene>>
      BY <1>3, At, ZenonT(40) DEF FetchPageFails
    <2> QED BY <2>1, <2>2, DoesPass, ZenonT(40)
  <1>4. CASE Analyze(e)
    BY <1>4, DoesAnalyze, ZenonT(40)
  <1>5. CASE CreateBatch(e)
    BY <1>5, DoesCreateBatch
  <1>6. CASE CreateEnd(e)
    <2>1. Rests
      BY <1>6, RestsSame, ZenonT(40) DEF CreateEnd
    <2>2. /\ pc' = [pc EXCEPT ![e] = pc'[e]] /\ pc[e] = "create" /\ pc'[e] = "update"
          /\ UNCHANGED <<table, opts, cursor, index, todo, summary, scene>>
      BY <1>6, At, Zenon DEF CreateEnd
    <2> QED BY <2>1, <2>2, DoesPass, ZenonT(40)
  <1>7. CASE UpdateBatch(e)
    BY <1>7, DoesUpdateBatch
  <1>8. CASE UpdateEnd(e)
    <2>1. Rests
      BY <1>8, RestsSame DEF UpdateEnd
    <2>2. /\ pc' = [pc EXCEPT ![e] = pc'[e]] /\ pc[e] = "update" /\ pc'[e] = "delete"
          /\ UNCHANGED <<table, opts, cursor, index, todo, summary, scene>>
      BY <1>8, At, Zenon DEF UpdateEnd
    <2> QED BY <2>1, <2>2, DoesPass, ZenonT(40)
  <1>9. CASE DeleteRecord(e)
    BY <1>9, DoesDeleteRecord, ZenonT(40)
  <1>10. CASE Finish(e)
    <2>1. Rests
      BY <1>10, ZenonT(40) DEF Finish, Rests, Types, TypeOK
    <2>2. /\ pc' = [pc EXCEPT ![e] = pc'[e]] /\ pc[e] = "delete"
          /\ pc'[e] \in {"done", "failed"}
          /\ UNCHANGED <<table, opts, cursor, index, todo, summary, scene>>
      BY <1>10, At, ZenonT(40) DEF Finish
    <2> QED BY <2>1, <2>2, DoesPass, ZenonT(40)
  <1> QED BY <1>1, <1>2, <1>3, <1>4, <1>5, <1>6, <1>7, <1>8, <1>9, <1>10, ZenonT(40)
          DEF Work

\* Every step of every call keeps the invariant.
LEMMA NextInv == ASSUME Inv, [Next]_vars PROVE Inv'
  <1>1. ASSUME NEW e \in Engines, Begin(e) \/ Work(e) PROVE Inv'
    <2>1. Types /\ Good(e)
      BY DEF Inv
    <2>2. Does(e)
      BY <1>1, <2>1, StepDoes, ZenonT(40)
    <2>3. Types'
      BY <2>1, <2>2, TypesStep, ZenonT(40) DEF Does
    <2>4. \A f \in Engines : Good(f)'
      BY <2>1, <2>2, OthersStep, ZenonT(40) DEF Inv, Does
    <2> QED BY <2>3, <2>4, ZenonT(40) DEF Inv
  <1>2. CASE UNCHANGED vars
    BY <1>2, Zenon
    DEF vars, Inv, Types, TypeOK, Good, IndexOK, Orphans, Uncounted, Counted,
                Left, Spared, Sum
  <1> QED BY <1>1, <1>2, ZenonT(40) DEF Next

\* The type invariant of performIncrementalSync holds for any tables, data, faults
\* and number of concurrent calls.
THEOREM EngineTypes == Spec => []TypeOK
  <1>1. Init => Inv
    BY InitInv
  <1>2. Inv /\ [Next]_vars => Inv'
    BY NextInv
  <1>3. Inv => TypeOK
    BY DEF Inv, Types
  <1> QED BY <1>1, <1>2, <1>3, PTL DEF Spec

\* CountsAddUp: executeSyncOperations counts every planned operation once, whatever
\* batches fail and whoever else writes to the table.
THEOREM CountsHold == Spec => []CountsAddUp
  <1>1. Init => Inv
    BY InitInv
  <1>2. Inv /\ [Next]_vars => Inv'
    BY NextInv, ZenonT(40)
  <1>3. Inv => CountsAddUp
    <2> SUFFICES ASSUME Inv, NEW e \in Engines,
                        pc[e] \in {"create", "update", "delete", "done"}
                 PROVE  Sum(summary[e]) + Left(e) + Spared(e) = summary[e].total
      BY ZenonT(40) DEF CountsAddUp, Sum
    <2> QED BY DEF Inv, Good, Counted
  <1> QED BY <1>1, <1>2, <1>3, PTL DEF Spec

\* Only DeleteRecord takes a record away.
LEMMA StepKeeps ==
    ASSUME Inv, NEW e \in Engines, Begin(e) \/ Work(e), ~DeleteRecord(e),
           NEW i \in DOMAIN table
    PROVE  table'[i].live = table[i].live
  <1>1. Types
    BY ZenonT(40) DEF Inv
  <1>2. CASE CreateBatch(e)
    <2>1. PICK m \in Nat : table' = table \o Times(Created(e), m)
      BY <1>1, <1>2, CreateIs, Zenon
    <2>2. Times(Created(e), m) \in Seq(Record)
      BY <1>1, <1>2, CreateIs, TimesIs, ZenonT(40)
    <2> QED BY <1>1, <2>1, <2>2, AddGrows, ZenonT(40)
  <1>3. CASE UpdateBatch(e)
    <2>1. PICK ids \in SUBSET DOMAIN Batch(todo[e].update) :
            table' = Write(Batch(todo[e].update), ids)
      BY <1>1, <1>3, UpdateIs, ZenonT(40)
    <2>2. Batch(todo[e].update) \in Seq(Entry(DOMAIN table))
      BY <1>1, <1>3, UpdateIs, ZenonT(40)
    <2> QED BY <1>1, <2>1, <2>2, WriteIs, ZenonT(40)
  <1>4. CASE ~CreateBatch(e) /\ ~UpdateBatch(e)
    <2>1. table' = table
      BY <1>4 DEF Work, Begin, FetchPage, FetchPageFails, Analyze, CreateEnd, UpdateEnd,
                  Finish
    <2> QED BY <2>1, ZenonT(40)
  <1> QED BY <1>2, <1>3, <1>4, ZenonT(40)

\* OnlyOrphansDeleted: batchDeleteRecords takes away records whose subjects the data
\* of the call does not have, however the table changed since it was read.
THEOREM OrphansHold == Spec => OnlyOrphansDeleted
  <1> DEFINE A == \A i \in DOMAIN table :
                    Live(i) /\ ~Live(i)' /\ ~scene.richText =>
                      \E e \in Engines :
                        /\ i \in todo[e].delete \ todo'[e].delete
                        /\ table[i].subject \notin SubjectsOf(opts[e].data)
  <1>1. Init => Inv
    BY InitInv
  <1>2. Inv /\ [Next]_vars => Inv'
    BY NextInv
  <1>3. ASSUME Inv, [Next]_vars PROVE [A]_vars
    <2> SUFFICES ASSUME Next, NEW i \in DOMAIN table, table[i].live, ~table'[i].live,
                        ~scene.richText
                 PROVE  \E e \in Engines :
                          /\ i \in todo[e].delete \ todo'[e].delete
                          /\ table[i].subject \notin SubjectsOf(opts[e].data)
      BY <1>3, ZenonT(40) DEF Live
    <2>1. PICK e \in Engines : Begin(e) \/ Work(e)
      BY DEF Next
    <2>2. DeleteRecord(e)
      BY <1>3, <2>1, StepKeeps, ZenonT(40)
    <2>3. Types /\ Good(e)
      BY <1>3 DEF Inv
    <2>4. PICK d \in todo[e].delete :
            /\ todo' = [todo EXCEPT ![e].delete = @ \ {d}]
            /\ table' = [table EXCEPT ![d].live = FALSE] \/ table' = table
      BY <2>2, <2>3, DeleteIs, ZenonT(40)
    <2>5. i = d
      BY <2>4
    <2>6. todo'[e].delete = todo[e].delete \ {d}
      <3>1. todo'[e] = [todo[e] EXCEPT !.delete = @ \ {d}] /\ todo[e] \in Todo(DOMAIN table)
        BY <2>3, <2>4, At, TypesAre, Zenon
      <3> QED BY <3>1 DEF Todo
    <2>7. table[i].subject \notin SubjectsOf(opts[e].data)
      <3>1. pc[e] = "delete"
        BY <2>2, ZenonT(40) DEF DeleteRecord
      <3> QED BY <2>3, <2>4, <2>5, <3>1, ZenonT(40) DEF Good, Orphans
    <2> QED BY <2>4, <2>5, <2>6, <2>7, ZenonT(40)
  <1>4. Inv /\ [Next]_vars => [A]_vars
    BY <1>3, ZenonT(40)
  <1>5. [][A]_vars <=> OnlyOrphansDeleted
    BY DEF OnlyOrphansDeleted
  <1> HIDE DEF A
  <1> QED BY <1>1, <1>2, <1>4, <1>5, PTL DEF Spec

-----------------------------------------------------------------------------
(* Calls one after the other, undisturbed: the index is exact, so what is
   created is new. *)

\* The records up to last that are there are in the index.
Indexed(ix, last) ==
    \A i \in DOMAIN table : Live(i) /\ i <= last /\ table[i].subject # NoSubject =>
      table[i].subject \in DOMAIN ix /\ ix[table[i].subject].id = i

\* The entries of the index are those of the table.
Exact(ix) ==
    \A k \in DOMAIN ix :
      k # NoSubject /\ Live(ix[k].id) /\ ix[k].value = table[ix[k].id].value

\* What is to be created has different subjects, none of them in the table.
Fresh(c) ==
    /\ \A i, j \in DOMAIN c : c[i].subject = c[j].subject => i = j
    /\ \A i \in DOMAIN c : \A j \in DOMAIN table :
         Live(j) => table[j].subject # c[i].subject

\* Where a single call is with its index and its plan.
Single(e) ==
    /\ pc[e] = "index" => Indexed(index[e], cursor[e]) /\ Exact(index[e])
    /\ pc[e] = "analyze" => Indexed(index[e], Len(table)) /\ Exact(index[e])
    /\ pc[e] = "create" => Fresh(todo[e].create)
    /\ opts[e].data \in scene.inputs \cup {<<>>}

\* The one call of an undisturbed table, and that table.
Alone ==
    Undisturbed =>
      /\ Distinct(table)
      /\ \A e \in Engines : pc[e] # "idle" => e \in scene.engines
      /\ \A e \in scene.engines : Single(e)

\* There is one call.
LEMMA OneCall ==
    ASSUME Types, Undisturbed, NEW e \in scene.engines, NEW f \in scene.engines
    PROVE  e = f
  <1>1. IsFiniteSet(scene.engines) /\ Cardinality(scene.engines) = 1
    BY EngineAssumption DEF Types, Undisturbed
  <1>2. PICK x : scene.engines = {x}
    BY <1>1, FS_Singleton, ZenonT(40)
  <1> QED BY <1>2, ZenonT(40)

\* Its data have no subject twice.
LEMMA InputsInjective ==
    ASSUME Undisturbed, NEW data \in scene.inputs \cup {<<>>}
    PROVE  IsInjective([i \in DOMAIN data |-> data[i].subject])
  <1>1. CASE data \in scene.inputs
    BY <1>1, Zenon DEF Undisturbed
  <1>2. CASE data = <<>>
    <2>1. DOMAIN data = {}
      BY ONLY <1>2
    <2> QED BY ONLY <2>1 DEF IsInjective
  <1> QED BY <1>1, <1>2

\* getExistingRecordsIndex: with a page more, the index is exact further on.
LEMMA PageIndexed ==
    ASSUME Types, NEW e \in Engines, ~scene.richText, Distinct(table),
           Indexed(index[e], cursor[e]), Exact(index[e]),
           NEW last \in Nat, \A i \in After(e) : i <= last => i \in Page(e)
    PROVE  LET ix == IndexWith(index[e], Page(e)) IN Indexed(ix, last) /\ Exact(ix)
  <1> DEFINE old == index[e]
             ids == Page(e)
             ix == IndexWith(old, ids)
  <1>1. /\ \A k : Of(ids, k) # {} => k \in DOMAIN ix
        /\ DOMAIN old \subseteq DOMAIN ix
        /\ \A k \in DOMAIN ix :
             \/ Of(ids, k) = {} /\ k \in DOMAIN old /\ ix[k] = old[k]
             \/ \E i \in Of(ids, k) : ix[k] = [id |-> i, value |-> ReadBack(table[i].value)]
    <2>1. Index(old, DOMAIN table) /\ ids \subseteq DOMAIN table
      BY PageTypes, TypesAre, Zenon
    <2> HIDE DEF old, ids
    <2> QED BY ONLY Types, <2>1, IndexWithIs, SMTT(30)
  <1>2. ids \subseteq DOMAIN table /\ \A i \in ids : Live(i)
    BY PageTypes, Zenon DEF Page, After
  <1>3. \A k : \A i \in Of(ids, k) : i \in ids /\ table[i].subject = k /\ k # NoSubject
    BY ZenonT(40) DEF Of, Key
  <1>4. \A v : ReadBack(v) = v
    BY DEF ReadBack
  <1> HIDE DEF ix, ids, old
  <1>5. ASSUME NEW i \in DOMAIN table, Live(i), i <= last, table[i].subject # NoSubject
        PROVE  table[i].subject \in DOMAIN ix /\ ix[table[i].subject].id = i
    <2> DEFINE k == table[i].subject
    <2>1. CASE Of(ids, k) # {}
      <3>1. PICK j \in Of(ids, k) : ix[k] = [id |-> j, value |-> ReadBack(table[j].value)]
        BY <1>1, <2>1, Zenon
      <3>2. j \in DOMAIN table /\ Live(j) /\ table[j].subject = k
        BY <1>2, <1>3, ZenonT(40)
      <3>3. j = i
        BY <1>5, <3>2, ZenonT(40) DEF Distinct, Live
      <3> QED BY ONLY <1>1, <2>1, <3>1, <3>3, SMTT(30)
    <2>2. CASE Of(ids, k) = {}
      <3>1. i \notin ids
        BY <1>5, <2>2, ZenonT(40) DEF Of, Key
      <3>2. i \notin After(e)
        BY <1>5, <3>1, ZenonT(40) DEF ids
      <3>3. i <= cursor[e]
        <4>1. i \in 1 .. Len(table) /\ Len(table) \in Nat /\ cursor[e] \in Nat
          BY <1>5, TypesAre, ZenonT(40)
        <4>2. ~(i > cursor[e])
          BY <1>5, <3>2, ZenonT(40) DEF After
        <4> QED BY ONLY <4>1, <4>2, SMTT(30)
      <3>4. k \in DOMAIN old /\ old[k].id = i
        BY <1>5, <3>3, ZenonT(40) DEF Indexed, old
      <3> QED BY <1>1, <2>2, <3>4, ZenonT(40)
    <2> QED BY <2>1, <2>2, ZenonT(40)
  <1>6. ASSUME NEW k \in DOMAIN ix
        PROVE  k # NoSubject /\ Live(ix[k].id) /\ ix[k].value = table[ix[k].id].value
    <2>1. CASE k \in DOMAIN old /\ ix[k] = old[k]
      BY <2>1, ZenonT(40) DEF Exact, old
    <2>2. CASE \E i \in Of(ids, k) : ix[k] = [id |-> i, value |-> ReadBack(table[i].value)]
      BY ONLY <2>2, <1>2, <1>3, <1>4, SMTT(30)
    <2> QED BY <1>1, <2>1, <2>2, ZenonT(40)
  <1>7. Indexed(ix, last) /\ Exact(ix)
    BY <1>5, <1>6, ZenonT(40) DEF Indexed, Exact
  <1> QED BY <1>7, ZenonT(40) DEF ix, ids, old

\* analyzeChanges: what it has created of data without repetition is new to an
\* exact index.
LEMMA PlanFresh ==
    ASSUME Types, NEW data \in Seq(Item), NEW ix, Indexed(ix, Len(table)),
           IsInjective([i \in DOMAIN data |-> data[i].subject])
    PROVE  Fresh(ToCreate(data, ix))
  <1> DEFINE S == {i \in DOMAIN data : /\ data[i].subject # NoSubject
                                       /\ data[i].subject \notin DOMAIN ix}
             c == Pick(data, S)
  <1>1. \A i, j \in DOMAIN data : data[i].subject = data[j].subject => i = j
    BY DEF IsInjective
  <1>2. \A j \in DOMAIN table : Live(j) /\ table[j].subject # NoSubject =>
                                  table[j].subject \in DOMAIN ix
    <2>1. \A j \in DOMAIN table : j <= Len(table)
      BY ONLY SMTT(30) DEF Types, TypeOK
    <2> QED BY <2>1, ZenonT(40) DEF Indexed
  <1>3. S \subseteq DOMAIN data /\ \A i \in S : data[i].subject # NoSubject
                                             /\ data[i].subject \notin DOMAIN ix
    OBVIOUS
  <1>4. ToCreate(data, ix) = c
    BY ZenonT(40) DEF ToCreate
  <1> HIDE DEF S
  <1>5. PICK at \in [1 .. Cardinality(S) -> S] :
          /\ \A j, k \in 1 .. Cardinality(S) : at[j] = at[k] => j = k
          /\ \A k \in 1 .. Cardinality(S) : c[k] = data[at[k]]
    <2>1. S \subseteq DOMAIN data
      BY <1>3, ZenonT(40)
    <2>2. data \in Seq(Item)
      OBVIOUS
    <2>3. \E at \in [1 .. Cardinality(S) -> S] :
            /\ \A j, k \in 1 .. Cardinality(S) : at[j] = at[k] => j = k
            /\ \A k \in 1 .. Cardinality(S) : Pick(data, S)[k] = data[at[k]]
      BY ONLY <2>1, <2>2, PickIs, SMTT(30)
    <2> QED BY <2>3, ZenonT(40)
  <1>6. DOMAIN c = 1 .. Cardinality(S)
    BY <1>3, PickIs
  <1> HIDE DEF c
  <1>7. \A k \in DOMAIN c : at[k] \in S /\ c[k] = data[at[k]]
    BY <1>5, <1>6, ZenonT(40)
  <1>8. \A i, j \in DOMAIN c : c[i].subject = c[j].subject => i = j
    BY ONLY <1>1, <1>3, <1>5, <1>6, <1>7, SMTT(30)
  <1>9. \A i \in DOMAIN c : \A j \in DOMAIN table : Live(j) => table[j].subject # c[i].subject
    BY ONLY <1>2, <1>3, <1>7, SMTT(30)
  <1> QED BY <1>4, <1>8, <1>9, ZenonT(40) DEF Fresh

\* batchCreateRecords: with every answer heard, a batch is created once or not at
\* all, and what is left to create is still new.
LEMMA CreatesNew ==
    ASSUME Types, scene.unheard = 0, NEW e \in Engines, CreateBatch(e),
           Distinct(table), Fresh(todo[e].create)
    PROVE  Distinct(table') /\ Fresh(todo[e].create)'
  <1> DEFINE c == todo[e].create
             L == Len(table)
             n == Size(c)
             at(i) == i - L
  <1>1. c \in Seq(Item) /\ c # <<>>
    BY TypesAre, ZenonT(40) DEF CreateBatch
  <1>2. L \in Nat /\ DOMAIN table = 1 .. L
    BY TypesAre, Zenon
  <1>3. todo'[e].create = Rest(c)
    <2>1. todo[e] \in Todo(DOMAIN table) /\ todo'[e] = [todo[e] EXCEPT !.create = Rest(c)]
      BY TypesAre, At DEF CreateBatch
    <2> QED BY <2>1, ZenonT(40) DEF Todo
  <1>4. /\ n \in 1 .. Len(c) /\ Len(c) \in Nat /\ DOMAIN c = 1 .. Len(c)
        /\ Batch(c) \in Seq(Item) /\ Len(Batch(c)) = n
        /\ Rest(c) \in Seq(Item) /\ Len(Rest(c)) = Len(c) - n
        /\ \A i \in 1 .. n : Batch(c)[i] = c[i]
        /\ \A i \in 1 .. Len(c) - n : Rest(c)[i] = c[n + i]
    <2>1. Len(c) \in Nat /\ DOMAIN c = 1 .. Len(c)
      <3> HIDE DEF c
      <3> QED BY ONLY <1>1, SMTT(30)
    <2>2. scene.batchSize \in Nat \ {0}
      BY SceneTypes
    <2> HIDE DEF c
    <2>3. /\ Size(c) \in 1 .. Len(c)
          /\ Batch(c) \in Seq(Item) /\ Len(Batch(c)) = Size(c)
          /\ Rest(c) \in Seq(Item) /\ Len(Rest(c)) = Len(c) - Size(c)
          /\ \A i \in 1 .. Size(c) : Batch(c)[i] = c[i]
          /\ \A i \in 1 .. Len(c) - Size(c) : Rest(c)[i] = c[Size(c) + i]
      BY <1>1, <2>2, BatchIs, Zenon
    <2> QED BY <2>1, <2>3, Zenon
  <1>5. /\ Created(e) \in Seq(Record) /\ Len(Created(e)) = n
        /\ \A i \in 1 .. n : Created(e)[i].subject = c[i].subject
    <2>1. Created(e) = [i \in DOMAIN Batch(c) |-> NewRecord(Batch(c)[i])]
      BY ZenonT(40) DEF Created
    <2>2. DOMAIN Batch(c) = 1 .. n
      <3> HIDE DEF n, c
      <3> QED BY <1>4
    <2> HIDE DEF n, c
    <2>3. /\ Created(e) \in Seq(Record) /\ Len(Created(e)) = Len(Batch(c))
          /\ \A i \in DOMAIN Batch(c) : Created(e)[i].subject = Batch(c)[i].subject
      <3> DEFINE b == Batch(c)
                 new == Created(e)
      <3>1. b \in Seq(Item) /\ new = [i \in DOMAIN b |-> NewRecord(b[i])]
        BY <1>4, <2>1, ZenonT(40)
      <3> HIDE DEF b, new
      <3>2. /\ new \in Seq(Record) /\ Len(new) = Len(b)
            /\ \A i \in DOMAIN b : new[i].subject = b[i].subject
        BY <3>1, NewTypes, ZenonT(40)
      <3> QED BY <3>2, Zenon DEF b, new
    <2> QED BY <1>4, <2>2, <2>3, ZenonT(40)
  <1>6. PICK m \in {0, 1} : table' = table \o Times(Created(e), m)
    BY CreateIs, Zenon
  <1>7. Times(Created(e), m) \in {<<>>, Created(e)}
    <2>1. Created(e) \in Seq(Record) /\ Created(e) # <<>>
      BY CreateIs, ZenonT(40)
    <2>2. m \in Nat /\ (m = 0 \/ m = 1)
      OBVIOUS
    <2> QED BY <2>1, <2>2, TimesIs, ZenonT(40)
  <1>8. PICK x \in Seq(Record) : x \in {<<>>, Created(e)} /\ table' = table \o x
    <2>1. <<>> \in Seq(Record)
      OBVIOUS
    <2> QED BY <1>5, <1>6, <1>7, <2>1, Zenon
  <1>9. /\ \A i \in DOMAIN table : table'[i] = table[i]
        /\ \A i \in DOMAIN table' \ DOMAIN table : at(i) \in DOMAIN x /\ table'[i] = x[at(i)]
    BY <1>8, AddGrows, ZenonT(40)
  <1>10. DOMAIN table' \subseteq Nat
    BY ONLY <1>8, AddGrows, SMTT(30) DEF Grows
  <1>11. DOMAIN x \subseteq 1 .. n /\ \A i \in DOMAIN x : x[i].subject = c[i].subject
    BY <1>5, <1>8, SMTT(30)
  <1>12. \A i \in DOMAIN table' \ DOMAIN table :
           at(i) \in 1 .. n /\ table'[i].subject = c[at(i)].subject
    BY <1>9, <1>11, ZenonT(40)
  <1>13. 1 .. n \subseteq DOMAIN c /\ \A i \in DOMAIN Rest(c) : /\ n + i \in DOMAIN c
                                                                /\ n + i \notin 1 .. n
                                                                /\ Rest(c)[i] = c[n + i]
    <2> HIDE DEF n, c
    <2>1. DOMAIN Rest(c) = 1 .. Len(c) - n
      BY ONLY <1>4, SMTT(30)
    <2> QED BY ONLY <1>4, <2>1, SMTT(30)
  <1>14. /\ \A i, j \in DOMAIN c : c[i].subject = c[j].subject => i = j
         /\ \A i \in DOMAIN c : \A j \in DOMAIN table :
              table[j].live => table[j].subject # c[i].subject
    BY ZenonT(40) DEF Fresh, Live
  <1>15. Distinct(table')
    <2>1. SUFFICES ASSUME NEW i \in DOMAIN table', NEW j \in DOMAIN table',
                          table'[i].live, table'[j].live,
                          table'[i].subject = table'[j].subject, table'[i].subject # NoSubject
                   PROVE  i = j
      BY ZenonT(40) DEF Distinct
    <2> HIDE DEF n, c, at
    <2>2. CASE i \in DOMAIN table /\ j \in DOMAIN table
      BY <1>9, <2>1, <2>2, ZenonT(40) DEF Distinct
    <2>3. CASE i \in DOMAIN table /\ j \notin DOMAIN table
      BY ONLY <1>9, <1>12, <1>13, <1>14, <2>1, <2>3, SMTT(30)
    <2>4. CASE i \notin DOMAIN table /\ j \in DOMAIN table
      BY ONLY <1>9, <1>12, <1>13, <1>14, <2>1, <2>4, SMTT(30)
    <2>5. CASE i \notin DOMAIN table /\ j \notin DOMAIN table
      <3>1. at(i) = at(j)
        BY ONLY <1>12, <1>13, <1>14, <2>1, <2>5, SMTT(30)
      <3>2. i \in Nat /\ j \in Nat
        BY ONLY <1>10, <2>1
      <3> QED BY ONLY <1>2, <3>1, <3>2, SMTT(30) DEF at
    <2> QED BY <2>2, <2>3, <2>4, <2>5, ZenonT(40)
  <1>16. \A i, j \in DOMAIN Rest(c) : Rest(c)[i].subject = Rest(c)[j].subject => i = j
    <2>1. SUFFICES ASSUME NEW i \in DOMAIN Rest(c), NEW j \in DOMAIN Rest(c),
                          Rest(c)[i].subject = Rest(c)[j].subject
                   PROVE  i = j
      BY ZenonT(40)
    <2> HIDE DEF n, c
    <2>2. n + i = n + j
      BY ONLY <1>13, <1>14, <2>1, SMTT(30)
    <2>3. n \in Nat /\ i \in Nat /\ j \in Nat
      BY <1>4, SMTT(30)
    <2> QED BY ONLY <2>2, <2>3, SMTT(30)
  <1>17. \A i \in DOMAIN Rest(c) : \A j \in DOMAIN table' :
           table'[j].live => table'[j].subject # Rest(c)[i].subject
    <2>1. SUFFICES ASSUME NEW i \in DOMAIN Rest(c), NEW j \in DOMAIN table', table'[j].live
                   PROVE  table'[j].subject # Rest(c)[i].subject
      BY ZenonT(40)
    <2> HIDE DEF n, c, at
    <2>2. CASE j \in DOMAIN table
      BY ONLY <1>9, <1>13, <1>14, <2>1, <2>2, SMTT(30)
    <2>3. CASE j \notin DOMAIN table
      BY ONLY <1>12, <1>13, <1>14, <2>1, <2>3, SMTT(30)
    <2> QED BY <2>2, <2>3, ZenonT(40)
  <1> QED BY <1>3, <1>15, <1>16, <1>17, ZenonT(40) DEF Fresh, Live

\* A step that neither adds a record nor brings one back leaves subjects unique.
LEMMA DistinctKept ==
    ASSUME Grows, DOMAIN table' = DOMAIN table, Distinct(table)
    PROVE  Distinct(table')
  BY ZenonT(40) DEF Grows, Distinct

\* Before the first of the calls.
LEMMA InitAlone == ASSUME Init PROVE Alone
  <1> SUFFICES ASSUME Undisturbed
               PROVE  /\ Distinct(table)
                      /\ \A e \in Engines : pc[e] # "idle" => e \in scene.engines
                      /\ \A e \in scene.engines : Single(e)
    BY ZenonT(40) DEF Alone
  <1>1. Distinct(table)
    BY ZenonT(40) DEF Undisturbed, Init
  <1>2. \A e \in Engines : pc[e] = "idle" /\ opts[e].data = <<>>
    BY ZenonT(40) DEF Init
  <1>3. scene.engines \subseteq Engines
    BY EngineAssumption, ZenonT(40) DEF Init
  <1> QED BY <1>1, <1>2, <1>3, ZenonT(40) DEF Single

\* A single call keeps its index exact and its plan new.
LEMMA StepSingle ==
    ASSUME Inv, Undisturbed, NEW e \in Engines, e \in scene.engines, Begin(e) \/ Work(e),
           Distinct(table), Single(e)
    PROVE  Distinct(table') /\ Single(e)'
  <1>1. Types /\ Good(e) /\ Does(e)
    BY StepDoes, ZenonT(40) DEF Inv
  <1>2. scene' = scene /\ ~scene.richText /\ scene.page = 0 /\ scene.unheard = 0
    BY <1>1, ZenonT(40) DEF Does, Rests, Undisturbed
  <1>3. CASE Begin(e)
    <2>1. table' = table /\ pc'[e] \in {"failed", "index"} /\ cursor'[e] = 0
          /\ index'[e] = NoIndex
      <3>1. e \in DOMAIN pc /\ e \in DOMAIN cursor /\ e \in DOMAIN index
        BY <1>1, At, Zenon
      <3> QED BY ONLY <1>3, <3>1, ZenonT(40) DEF Begin
    <2>2. opts'[e].data \in scene.inputs
      <3>1. PICK d \in scene.inputs, f \in BOOLEAN, o \in BOOLEAN :
              opts' = [opts EXCEPT ![e] = [data |-> d, fullSync |-> f, deleteOrphans |-> o]]
        BY <1>3, Zenon DEF Begin
      <3>2. e \in DOMAIN opts
        BY <1>1, At, Zenon
      <3> QED BY <3>1, <3>2, ZenonT(40)
    <2>3. Indexed(NoIndex, 0)' /\ Exact(NoIndex)'
      <3>1. \A i \in DOMAIN table : ~(i <= 0)
        <4>1. Len(table) \in Nat /\ DOMAIN table = 1 .. Len(table)
          BY <1>1, TypesAre, ZenonT(40)
        <4> QED BY ONLY <4>1
      <3> QED BY <2>1, <3>1, ZenonT(40) DEF Indexed, Exact, NoIndex
    <2>4. (Indexed(index[e], cursor[e]) /\ Exact(index[e]))'
      BY <2>1, <2>3, ZenonT(40) DEF Indexed, Exact
    <2> QED BY <1>2, <2>1, <2>2, <2>4, ZenonT(40) DEF Single
  <1>4. CASE FetchPage(e)
    <2> DEFINE ix == IndexWith(index[e], Page(e))
    <2>1. pc[e] = "index" /\ table' = table /\ opts' = opts /\ index'[e] = ix
      BY <1>1, <1>4, At, ZenonT(40) DEF FetchPage
    <2>2. Indexed(index[e], cursor[e]) /\ Exact(index[e])
      BY <2>1, ZenonT(40) DEF Single
    <2>3. CASE Page(e) = After(e)
      <3>1. pc'[e] = "analyze"
        BY <1>1, <1>4, <2>3, At, ZenonT(40) DEF FetchPage
      <3>2. Len(table) \in Nat
        BY <1>1, TypesAre, ZenonT(40)
      <3>3. Indexed(ix, Len(table)) /\ Exact(ix)
        BY <1>1, <1>2, <2>2, <2>3, <3>2, PageIndexed, ZenonT(40)
      <3> HIDE DEF ix
      <3>4. (Indexed(index[e], Len(table)) /\ Exact(index[e]))'
        BY <2>1, <3>3, ZenonT(40) DEF Indexed, Exact, Live
      <3> QED BY <1>2, <2>1, <3>1, <3>4, ZenonT(40) DEF Single
    <2>4. CASE Page(e) # After(e)
      <3>1. pc'[e] = "index" /\ cursor'[e] = Max(Page(e))
        BY <1>1, <1>4, <2>1, <2>4, At, ZenonT(40) DEF FetchPage
      <3>2. Page(e) # {}
        BY <1>1, <2>4, PageIs, ZenonT(40) DEF Page
      <3>3. Max(Page(e)) \in Nat
        BY <1>1, <3>1, ZenonT(40) DEF Does, Moves
      <3>4. Indexed(ix, Max(Page(e))) /\ Exact(ix)
        BY <1>1, <1>2, <2>2, <3>2, <3>3, PageIs, PageIndexed, ZenonT(40)
      <3> HIDE DEF ix
      <3>5. (Indexed(index[e], cursor[e]) /\ Exact(index[e]))'
        BY <2>1, <3>1, <3>4, ZenonT(40) DEF Indexed, Exact, Live
      <3> QED BY <1>2, <2>1, <3>1, <3>5, ZenonT(40) DEF Single
    <2> QED BY <2>3, <2>4, ZenonT(40)
  <1>5. CASE FetchPageFails(e)
    <2>1. faults.page \in 0 .. scene.page /\ faults.page < scene.page
      BY <1>1, <1>5, ZenonT(40) DEF FetchPageFails, Types, TypeOK
    <2> QED BY ONLY <1>2, <2>1, SMTT(30)
  <1>6. CASE Analyze(e)
    <2>1. table' = table /\ opts' = opts /\ pc[e] = "analyze"
      BY <1>6, ZenonT(40) DEF Analyze
    <2>2. CASE \E i \in DOMAIN opts[e].data : ~opts[e].data[i].valid
      <3>1. pc'[e] = "failed"
        BY <1>1, <1>6, <2>2, At, ZenonT(40) DEF Analyze
      <3> QED BY <1>2, <2>1, <3>1, ZenonT(40) DEF Single
    <2>3. CASE ~\E i \in DOMAIN opts[e].data : ~opts[e].data[i].valid
      <3>1. pc'[e] = "create" /\ todo'[e].create = ToCreate(opts[e].data, index[e])
        BY ONLY <1>1, <1>6, <2>3, At, SMTT(30) DEF Analyze
      <3>2. opts[e].data \in Seq(Item) /\ Indexed(index[e], Len(table))
            /\ opts[e].data \in scene.inputs \cup {<<>>}
        BY <1>1, <2>1, TypesAre, ZenonT(40) DEF Single
      <3>3. IsInjective([i \in DOMAIN opts[e].data |-> opts[e].data[i].subject])
        BY <3>2, InputsInjective, Zenon
      <3>4. Fresh(ToCreate(opts[e].data, index[e]))
        BY <1>1, <3>2, <3>3, PlanFresh, ZenonT(40)
      <3>5. Fresh(todo[e].create)'
        <4> DEFINE c == ToCreate(opts[e].data, index[e])
        <4>1. todo'[e].create = c
          BY <3>1, ZenonT(40)
        <4>2. Fresh(c)
          BY <3>4, ZenonT(40)
        <4> HIDE DEF c
        <4> QED BY <2>1, <4>1, <4>2, ZenonT(40) DEF Fresh, Live
      <3> QED BY <1>2, <2>1, <3>1, <3>5, ZenonT(40) DEF Single
    <2> QED BY <2>2, <2>3, ZenonT(40)
  <1>7. CASE CreateBatch(e)
    <2>1. pc[e] = "create" /\ pc' = pc /\ opts' = opts
      BY <1>7, ZenonT(40) DEF CreateBatch
    <2>2. Fresh(todo[e].create)
      BY <2>1, ZenonT(40) DEF Single
    <2>3. Distinct(table') /\ Fresh(todo[e].create)'
      BY <1>1, <1>2, <1>7, <2>2, CreatesNew, ZenonT(40)
    <2> QED BY <1>2, <2>1, <2>3, ZenonT(40) DEF Single
  <1>8. CASE CreateEnd(e) \/ UpdateEnd(e) \/ Finish(e)
    <2>1. table' = table /\ opts' = opts /\ pc'[e] \in {"update", "delete", "done", "failed"}
      BY <1>1, <1>8, At, ZenonT(40) DEF CreateEnd, UpdateEnd, Finish
    <2> QED BY <1>2, <2>1, ZenonT(40) DEF Single
  <1>9. CASE UpdateBatch(e) \/ DeleteRecord(e)
    <2>1. opts' = opts /\ pc' = pc /\ pc[e] \in {"update", "delete"}
      BY <1>9, ZenonT(40) DEF UpdateBatch, DeleteRecord
    <2>2. DOMAIN table' = DOMAIN table
      <3>1. CASE UpdateBatch(e)
        <4>1. PICK ids \in SUBSET DOMAIN Batch(todo[e].update) :
                table' = Write(Batch(todo[e].update), ids)
          BY <1>1, <3>1, UpdateIs, ZenonT(40)
        <4>2. Batch(todo[e].update) \in Seq(Entry(DOMAIN table))
          BY <1>1, <3>1, UpdateIs, ZenonT(40)
        <4> QED BY <1>1, <4>1, <4>2, WriteIs, ZenonT(40)
      <3>2. CASE DeleteRecord(e)
        BY <1>1, <3>2, DeleteIs, ZenonT(40)
      <3> QED BY <1>9, <3>1, <3>2, ZenonT(40)
    <2>3. Distinct(table')
      BY <1>1, <2>2, DistinctKept, ZenonT(40) DEF Does
    <2> QED BY <1>2, <2>1, <2>3, ZenonT(40) DEF Single
  <1> QED BY <1>3, <1>4, <1>5, <1>6, <1>7, <1>8, <1>9, ZenonT(40) DEF Work

\* Every step of the one call keeps the table without repetition.
LEMMA NextAlone == ASSUME Inv, Alone, [Next]_vars PROVE Alone'
  <1>1. ASSUME NEW e \in Engines, Begin(e) \/ Work(e), Undisturbed'
        PROVE  /\ Distinct(table')
               /\ \A f \in Engines : pc'[f] # "idle" => f \in scene'.engines
               /\ \A f \in scene'.engines : Single(f)'
    <2>1. Types /\ Does(e)
      BY <1>1, StepDoes, ZenonT(40) DEF Inv
    <2>2. scene' = scene
      BY <2>1, ZenonT(40) DEF Does, Rests
    <2>3. Undisturbed
      BY <1>1, <2>2, ZenonT(40) DEF Undisturbed, Distinct
    <2>4. /\ Distinct(table)
          /\ \A f \in Engines : pc[f] # "idle" => f \in scene.engines
          /\ \A f \in scene.engines : Single(f)
      BY <2>3, ZenonT(40) DEF Alone
    <2>5. e \in scene.engines
      <3>1. CASE Begin(e)
        BY <3>1, ZenonT(40) DEF Begin
      <3>2. CASE Work(e)
        <4>1. pc[e] # "idle"
          BY <3>2, ZenonT(40)
          DEF Work, FetchPage, FetchPageFails, Analyze, CreateBatch, CreateEnd,
                      UpdateBatch, UpdateEnd, DeleteRecord, Finish
        <4> QED BY <2>4, <4>1, ZenonT(40)
      <3> QED BY <1>1, <3>1, <3>2, ZenonT(40)
    <2>6. Distinct(table') /\ Single(e)'
      BY <1>1, <2>3, <2>4, <2>5, StepSingle, ZenonT(40)
    <2>7. \A f \in scene.engines : f = e
      BY <2>1, <2>3, <2>5, OneCall, ZenonT(40)
    <2>8. \A f \in Engines : f # e => pc'[f] = pc[f]
      BY <2>1, ZenonT(40) DEF Does, Moves, Types, TypeOK
    <2>9. \A f \in Engines : pc'[f] # "idle" => f \in scene'.engines
      BY <2>2, <2>4, <2>5, <2>8, ZenonT(40)
    <2>10. \A f \in scene'.engines : Single(f)'
      BY <2>2, <2>6, <2>7, ZenonT(40)
    <2> QED BY <2>6, <2>9, <2>10, ZenonT(40)
  <1>2. CASE UNCHANGED vars
    <2>1. scene' = scene /\ table' = table /\ pc' = pc /\ opts' = opts /\ cursor' = cursor
          /\ index' = index /\ todo' = todo
      BY <1>2, ZenonT(40) DEF vars
    <2>2. (Undisturbed' <=> Undisturbed) /\ (Distinct(table') <=> Distinct(table))
      BY <2>1 DEF Undisturbed, Distinct
    <2>3. ASSUME NEW e PROVE Single(e)' <=> Single(e)
      <3>1. /\ Indexed(index[e], cursor[e])' <=> Indexed(index[e], cursor[e])
            /\ Indexed(index[e], Len(table))' <=> Indexed(index[e], Len(table))
        BY <2>1, Zenon DEF Indexed, Live
      <3>2. Exact(index[e])' <=> Exact(index[e])
        BY <2>1, Zenon DEF Exact, Live
      <3>3. Fresh(todo[e].create)' <=> Fresh(todo[e].create)
        BY <2>1, Zenon DEF Fresh, Live
      <3> QED BY <2>1, <3>1, <3>2, <3>3, Zenon DEF Single
    <2> QED BY <2>1, <2>2, <2>3, ZenonT(40) DEF Alone
  <1>3. CASE Next
    BY <1>1, <1>3, ZenonT(40) DEF Alone, Next
  <1> QED BY <1>2, <1>3, ZenonT(40)

\* UniqueSubject: calls of performIncrementalSync one after the other, whatever
\* writes are refused, leave no two records of one subject, for any data and table
\* without repetition and any sizes of pages and batches.
THEOREM UniqueHolds == Spec => []UniqueSubject
  <1>1. Init => Inv /\ Alone
    BY InitInv, InitAlone, ZenonT(40)
  <1>2. Inv /\ Alone /\ [Next]_vars => Inv' /\ Alone'
    BY NextInv, NextAlone, ZenonT(40)
  <1>3. Alone => UniqueSubject
    BY DEF Alone, UniqueSubject
  <1> QED BY <1>1, <1>2, <1>3, PTL DEF Spec

\* Nothing is picked of no positions.
LEMMA PickNone ==
    ASSUME NEW R, NEW s \in Seq(R)
    PROVE  Pick(s, {}) = <<>>
  <1>1. Pick(s, {}) \in Seq(R) /\ Len(Pick(s, {})) = Cardinality({})
    BY PickIs, ZenonT(40)
  <1> HIDE DEF Pick
  <1> QED BY ONLY <1>1, FS_EmptySet, SMTT(30)

\* Of data without repetition, a subject has the one value.
LEMMA OnlyValue ==
    ASSUME NEW data \in Seq(Item), IsInjective([i \in DOMAIN data |-> data[i].subject]),
           NEW i \in DOMAIN data
    PROVE  LastValue(data, data[i].subject) = data[i].value
  <1> DEFINE S == {j \in DOMAIN data : data[j].subject = data[i].subject}
  <1>1. S = {i}
    BY DEF IsInjective
  <1>2. Max(S) \in S
    BY <1>1, Positions, Zenon
  <1>3. Max(S) = i
    BY <1>1, <1>2, ZenonT(40)
  <1>4. LastValue(data, data[i].subject) = data[Max(S)].value
    BY Zenon DEF LastValue
  <1> QED BY <1>3, <1>4, ZenonT(40)

\* analyzeChanges: nothing is to be done of data the table has, when the index is
\* that of the table.
LEMMA PlansNothing ==
    ASSUME Types, NEW data \in Seq(Item), InSync(data),
           IsInjective([i \in DOMAIN data |-> data[i].subject]),
           NEW ix, Index(ix, DOMAIN table), Indexed(ix, Len(table)), Exact(ix),
           \A k \in DOMAIN ix : table[ix[k].id].subject = k
    PROVE  /\ ToCreate(data, ix) = <<>> /\ ToUpdate(data, ix, FALSE) = <<>>
           /\ ToDelete(data, ix) = {}
  <1>1. \A s \in SubjectsOf(data) : s \in DOMAIN ix
    <2>1. \A j \in DOMAIN table : j <= Len(table)
      BY DEF Types, TypeOK
    <2>2. ASSUME NEW s \in SubjectsOf(data) PROVE s \in DOMAIN ix
      <3>1. s # NoSubject
        BY <2>2, ZenonT(40) DEF SubjectsOf
      <3>2. PICK i \in DOMAIN table : Live(i) /\ table[i].subject = s
        BY <2>2, ZenonT(40) DEF InSync
      <3> QED BY <2>1, <3>1, <3>2, ZenonT(40) DEF Indexed
    <2> QED BY <2>2, ZenonT(40)
  <1>2. \A k \in DOMAIN ix : /\ ix[k].id \in DOMAIN table /\ Live(ix[k].id)
                             /\ ix[k].value = table[ix[k].id].value
                             /\ table[ix[k].id].subject = k
    BY ZenonT(40) DEF Exact, Index, Entry
  <1>3. \A k \in DOMAIN ix : k \in SubjectsOf(data)
    BY <1>2, ZenonT(40) DEF InSync
  <1>4. ToCreate(data, ix) = <<>>
    <2>1. {i \in DOMAIN data : data[i].subject # NoSubject /\ data[i].subject \notin DOMAIN ix}
            = {}
      BY <1>1 DEF SubjectsOf
    <2> QED BY <2>1, PickNone, ZenonT(40) DEF ToCreate
  <1>5. ASSUME NEW i \in DOMAIN data PROVE ~NeedsUpdate(data[i], ix, FALSE)
    <2> SUFFICES ASSUME data[i].subject \in DOMAIN ix
                 PROVE  Normal(data[i].value) = Normal(ix[data[i].subject].value)
      BY ZenonT(40) DEF NeedsUpdate, Changed
    <2> DEFINE r == ix[data[i].subject].id
    <2>1. r \in DOMAIN table /\ Live(r) /\ ix[data[i].subject].value = table[r].value
          /\ table[r].subject = data[i].subject
      BY <1>2, ZenonT(40)
    <2>2. Normal(table[r].value) = Normal(LastValue(data, table[r].subject))
      BY <2>1, ZenonT(40) DEF InSync, Mirrored
    <2> HIDE DEF r
    <2> QED BY <2>1, <2>2, OnlyValue, ZenonT(40)
  <1>6. ToUpdate(data, ix, FALSE) = <<>>
    <2> DEFINE changed == Pick(data, {i \in DOMAIN data : NeedsUpdate(data[i], ix, FALSE)})
    <2>1. {i \in DOMAIN data : NeedsUpdate(data[i], ix, FALSE)} = {}
      BY <1>5, Zenon
    <2>2. changed = <<>>
      BY <2>1, PickNone, Zenon
    <2>3. ToUpdate(data, ix, FALSE) = [i \in DOMAIN changed |->
            [id |-> ix[changed[i].subject].id, value |-> changed[i].value]]
      BY ZenonT(40) DEF ToUpdate
    <2> HIDE DEF changed
    <2>4. DOMAIN changed = {}
      BY <2>2
    <2>5. DOMAIN ToUpdate(data, ix, FALSE) = {}
      BY <2>3, <2>4, Zenon
    <2> DEFINE u == ToUpdate(data, ix, FALSE)
    <2>6. u \in Seq(Entry(DOMAIN table))
      BY PlanTypes, Zenon
    <2>7. DOMAIN u = {}
      BY <2>5, ZenonT(40)
    <2> HIDE DEF u
    <2>8. u = <<>>
      <3>1. Len(u) \in Nat /\ 1 \notin 1 .. Len(u)
        BY ONLY <2>6, <2>7, SMTT(30)
      <3>2. Len(u) = 0
        BY ONLY <3>1, SMTT(30)
      <3> QED BY ONLY <2>6, <3>2, SMTT(30)
    <2> QED BY <2>8, Zenon DEF u
  <1>7. ToDelete(data, ix) = {}
    BY <1>3, ZenonT(40) DEF ToDelete
  <1> QED BY <1>4, <1>6, <1>7, ZenonT(40)

\* NothingToDo: a call that finds its data in the table plans no operation, for any
\* data and table without repetition and any size of the pages.
THEOREM IncrementalHolds == Spec => NothingToDo
  <1> DEFINE A == \A e \in Engines :
                    /\ pc[e] = "analyze" /\ pc'[e] = "create"
                    /\ ~opts[e].fullSync
                    /\ Undisturbed
                    /\ InSync(opts[e].data)
                    => todo'[e] = NoTodo /\ summary'[e].total = 0
  <1>1. Init => Inv /\ Alone
    BY InitInv, InitAlone, ZenonT(40)
  <1>2. Inv /\ Alone /\ [Next]_vars => Inv' /\ Alone'
    BY NextInv, NextAlone, ZenonT(40)
  <1>3. ASSUME Inv, Alone, [Next]_vars PROVE [A]_vars
    <2> SUFFICES ASSUME Next, NEW e \in Engines, pc[e] = "analyze", pc'[e] = "create",
                        ~opts[e].fullSync, Undisturbed, InSync(opts[e].data)
                 PROVE  todo'[e] = NoTodo /\ summary'[e].total = 0
      BY <1>3, ZenonT(40)
    <2> DEFINE data == opts[e].data
               ix == index[e]
    <2>1. Types /\ Good(e) /\ Single(e)
      BY <1>3, ZenonT(40) DEF Inv, Alone
    <2>2. Analyze(e)
      <3>1. PICK f \in Engines : Begin(f) \/ Work(f)
        BY ZenonT(40) DEF Next
      <3>2. f = e
        <4>1. Does(f)
          BY <1>3, <3>1, StepDoes, ZenonT(40) DEF Inv
        <4>2. f # e => pc'[e] = pc[e]
          BY <2>1, <4>1, ZenonT(40) DEF Does, Moves, Types, TypeOK
        <4> QED BY <4>2, ZenonT(40)
      <3>3. pc'[e] # "create" \/ ~FetchPageFails(e)
        BY <2>1, At, ZenonT(40) DEF FetchPageFails
      <3> QED BY <3>1, <3>2, <3>3, ZenonT(40)
              DEF Work, Begin, FetchPage, CreateBatch, CreateEnd, UpdateBatch, UpdateEnd,
              DeleteRecord, Finish
    <2>3. data \in Seq(Item) /\ Index(ix, DOMAIN table) /\ summary[e] \in Summary
          /\ Indexed(ix, Len(table)) /\ Exact(ix) /\ data \in scene.inputs \cup {<<>>}
      BY <2>1, TypesAre, ZenonT(40) DEF Single
    <2>4. IsInjective([i \in DOMAIN data |-> data[i].subject])
      BY <2>3, InputsInjective, Zenon
    <2>5. \A k \in DOMAIN ix : table[ix[k].id].subject = k
      BY <2>1, ZenonT(40) DEF Good, IndexOK, Undisturbed
    <2>6. /\ ToCreate(data, ix) = <<>> /\ ToUpdate(data, ix, FALSE) = <<>>
          /\ ToDelete(data, ix) = {}
      <3> HIDE DEF data, ix
      <3>1. InSync(data)
        BY ZenonT(40) DEF data
      <3> QED BY <2>1, <2>3, <2>4, <2>5, <3>1, PlansNothing, ZenonT(40)
    <2>7. opts[e].fullSync = FALSE
      BY <2>1, TypesAre, ZenonT(40) DEF Options
    <2> DEFINE x == summary[e]
               u == Unchanged(data, ix, FALSE)
    <2>8. /\ todo'[e] = [create |-> <<>>, update |-> <<>>,
                         delete |-> IF opts[e].deleteOrphans THEN {} ELSE {}]
          /\ summary'[e] = [x EXCEPT !.total = Len(<<>>) + Len(<<>>) + Cardinality({}),
                                     !.unchanged = u]
      <3>1. e \in DOMAIN pc /\ e \in DOMAIN todo /\ e \in DOMAIN summary
        BY <2>1, At, ZenonT(40)
      <3>2. ~\E i \in DOMAIN opts[e].data : ~opts[e].data[i].valid
        BY <2>2, <3>1, ZenonT(40) DEF Analyze
      <3> DEFINE c == ToCreate(data, ix)
                 p == ToUpdate(data, ix, FALSE)
                 d == ToDelete(data, ix)
      <3>3. /\ todo'[e] = [create |-> c, update |-> p,
                           delete |-> IF opts[e].deleteOrphans THEN d ELSE {}]
            /\ summary' = [summary EXCEPT ![e].total = Len(c) + Len(p) + Cardinality(d),
                                          ![e].unchanged = u]
        BY <2>2, <2>7, <3>1, <3>2, Zenon DEF Analyze
      <3>4. c = <<>> /\ p = <<>> /\ d = {}
        BY <2>6, ZenonT(40)
      <3> HIDE DEF c, p, d, u
      <3>5. summary'[e] = [x EXCEPT !.total = Len(c) + Len(p) + Cardinality(d),
                                    !.unchanged = u]
        <4> DEFINE l == Len(c) + Len(p) + Cardinality(d)
        <4> HIDE DEF l
        <4>1. summary' = [summary EXCEPT ![e].total = l, ![e].unchanged = u]
          BY <3>3 DEF l
        <4>2. summary'[e] = [x EXCEPT !.total = l, !.unchanged = u]
          BY <3>1, <4>1, ZenonT(40)
        <4> QED BY <4>2 DEF l
      <3> QED BY <3>3, <3>4, <3>5, Zenon
    <2>9. Len(<<>>) + Len(<<>>) + Cardinality({}) = 0
      BY ONLY FS_EmptySet, SMTT(30)
    <2>10. x \in Summary
      BY <2>3, ZenonT(40)
    <2> HIDE DEF x, u
    <2>11. summary'[e].total = 0
      BY ONLY <2>8, <2>9, <2>10, SMTT(30) DEF Summary
    <2> QED BY <2>8, <2>11, ZenonT(40) DEF NoTodo
  <1>4. Inv /\ Alone /\ [Next]_vars => [A]_vars
    BY <1>3, ZenonT(40)
  <1>5. [][A]_vars <=> NothingToDo
    BY DEF NothingToDo
  <1> HIDE DEF A
  <1> QED BY <1>1, <1>2, <1>4, <1>5, PTL DEF Spec

=============================================================================
