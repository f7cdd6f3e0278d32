------------------------- MODULE FieldMappingProofs -------------------------
(***************************************************************************)
(* Mappings of Douban fields to Feishu fields are sound, and only saved    *)
(* ones are served, for any number of calls, tables and fields.            *)
(***************************************************************************)
EXTENDS FieldMapping, FiniteSetTheorems, WellFoundedInduction, TLAPS

-----------------------------------------------------------------------------
(* The greatest and the least of a set of positions. *)

\* Numbers are well-founded.
LEMMA Least ==
    ASSUME NEW S, S \subseteq Nat, S # {}
    PROVE  \E n \in S : \A m \in S : n <= m
  <1> DEFINE R == OpToRel(<, Nat)
  <1>1. \A n, m \in Nat : n < m => <<n, m>> \in R
    BY DEF OpToRel
  <1>2. IsWellFoundedOn(R, Nat)
    BY NatLessThanWellFounded, Zenon
  <1> HIDE DEF R
  <1>3. PICK n \in S : \A m \in S : ~(<<m, n>> \in R)
    BY <1>2, WFMin, Zenon
  <1>4. ASSUME NEW m \in S PROVE n <= m
    <2>1. m \in Nat /\ n \in Nat /\ ~(m < n)
      BY <1>1, <1>3, Zenon
    <2> QED BY <2>1
  <1> QED BY <1>4

\* The least upper bound of positions is one of them.
LEMMA Greatest ==
    ASSUME NEW n \in Nat, NEW S, S \subseteq 1 .. n, S # {}
    PROVE  \E b \in S : \A x \in S : x <= b
  <1> DEFINE U == {u \in Nat : \A x \in S : x <= u}
  <1>1. n \in U /\ U \subseteq Nat
    OBVIOUS
  <1>2. PICK u \in U : \A v \in U : u <= v
    <2> HIDE DEF U
    <2> QED BY <1>1, Least, Zenon
  <1>3. u \in S
    <2> SUFFICES ASSUME u \notin S PROVE FALSE
      OBVIOUS
    <2>1. PICK x \in S : TRUE
      BY Zenon
    <2>2. x \in Nat /\ x >= 1 /\ x <= u
      BY <1>2
    <2>3. u - 1 \in Nat
      BY <1>2, <2>2
    <2>4. ASSUME NEW y \in S PROVE y <= u - 1
      <3>1. y \in Nat /\ y <= u /\ y # u /\ u \in Nat
        BY <1>2
      <3> QED BY <3>1
    <2>5. u - 1 \in U
      BY <2>3, <2>4
    <2>6. u \in Nat /\ u <= u - 1
      BY <1>2, <2>5
    <2> QED BY <2>6
  <1> QED BY <1>2, <1>3

\* Max and Min of positions that are there.
LEMMA MaxMin ==
    ASSUME NEW n \in Nat, NEW S, S \subseteq 1 .. n, S # {}
    PROVE  Max(S) \in S /\ Min(S) \in S
  <1>1. \E x \in S : \A y \in S : x >= y
    <2>1. PICK b \in S : \A x \in S : x <= b
      BY Greatest, Zenon
    <2>2. \A y \in S : b >= y
      BY <2>1
    <2> QED BY <2>2
  <1>2. \E x \in S : \A y \in S : x <= y
    <2>1. S \subseteq Nat
      OBVIOUS
    <2> QED BY <2>1, Least, Zenon
  <1> QED BY <1>1, <1>2, Zenon DEF Max, Min

-----------------------------------------------------------------------------
(* Mappings and the fields that are missing. *)

\* The mappings, as a set.
Mapping == UNION {[D -> Nat] : D \in SUBSET DoubanFields}

\* The mappings of some tables, as a set.
Mappings == UNION {[T -> Mapping] : T \in SUBSET Tables}

\* The sets and the predicates agree.
LEMMA MappingIs ==
    ASSUME NEW m
    PROVE  m \in Mapping <=> IsMapping(m)
  BY DEF Mapping, IsMapping

\* The same for the mappings of tables.
LEMMA MappingsAre ==
    ASSUME NEW ms
    PROVE  ms \in Mappings <=> AreMappings(ms)
  <1>1. ASSUME ms \in Mappings PROVE AreMappings(ms)
    <2>1. PICK T \in SUBSET Tables : ms \in [T -> Mapping]
      BY <1>1 DEF Mappings
    <2> QED BY <2>1, MappingIs DEF AreMappings
  <1>2. ASSUME AreMappings(ms) PROVE ms \in Mappings
    <2>1. ms \in [DOMAIN ms -> Mapping]
      BY <1>2, MappingIs DEF AreMappings
    <2> QED BY <1>2, <2>1 DEF AreMappings, Mappings
  <1> QED BY <1>1, <1>2

\* No mapping is a mapping.
LEMMA Nothing ==
    /\ NoMap \in Mapping /\ DOMAIN NoMap = {}
    /\ NoMaps \in Mappings /\ DOMAIN NoMaps = {}
  <1>1. NoMap \in [{} -> Nat]
    BY DEF NoMap
  <1>2. NoMaps \in [{} -> Mapping]
    BY DEF NoMaps
  <1> QED BY <1>1, <1>2, Zenon DEF Mapping, Mappings

\* Put replaces one entry.
LEMMA PutIs ==
    ASSUME NEW m, NEW d, NEW v
    PROVE  /\ DOMAIN Put(m, d, v) = DOMAIN m \cup {d}
           /\ Put(m, d, v)[d] = v
           /\ \A e \in DOMAIN m : e # d => Put(m, d, v)[e] = m[e]
  BY DEF Put

\* Put keeps a mapping a mapping.
LEMMA PutMapping ==
    ASSUME NEW m \in Mapping, NEW d \in DoubanFields, NEW v \in Nat
    PROVE  Put(m, d, v) \in Mapping
  <1>1. PICK D \in SUBSET DoubanFields : m \in [D -> Nat]
    BY DEF Mapping
  <1>2. Put(m, d, v) \in [D \cup {d} -> Nat]
    BY <1>1 DEF Put
  <1> QED BY <1>1, <1>2 DEF Mapping

\* The same for the mapping of a table.
LEMMA PutMappings ==
    ASSUME NEW ms \in Mappings, NEW t \in Tables, NEW m \in Mapping
    PROVE  Put(ms, t, m) \in Mappings
  <1>1. PICK T \in SUBSET Tables : ms \in [T -> Mapping]
    BY DEF Mappings
  <1>2. Put(ms, t, m) \in [T \cup {t} -> Mapping]
    BY <1>1 DEF Put
  <1> QED BY <1>1, <1>2 DEF Mappings

\* The ids of a name are positions.
LEMMA IdsAre ==
    ASSUME NEW fs \in Seq(Field), NEW d
    PROVE  /\ Len(fs) \in Nat
           /\ IdsOf(fs, d) \subseteq 1 .. Len(fs)
           /\ IdsOf(fs, d) # {} =>
                /\ Max(IdsOf(fs, d)) \in IdsOf(fs, d)
                /\ Min(IdsOf(fs, d)) \in IdsOf(fs, d)
  <1>1. Len(fs) \in Nat /\ IdsOf(fs, d) \subseteq 1 .. Len(fs)
    BY DEF IdsOf
  <1> QED BY <1>1, MaxMin

\* The fields of a table that are found are mapped to fields of their names.
LEMMA MatchedIs ==
    ASSUME NEW fs \in Seq(Field)
    PROVE  /\ Matched(fs) \in Mapping
           /\ DOMAIN Matched(fs) = {d \in DoubanFields : IdsOf(fs, d) # {}}
           /\ \A d \in DOMAIN Matched(fs) :
                Matched(fs)[d] \in DOMAIN fs /\ fs[Matched(fs)[d]].name = d
  <1> DEFINE D == {d \in DoubanFields : IdsOf(fs, d) # {}}
  <1>1. DOMAIN Matched(fs) = D
    BY DEF Matched
  <1>2. ASSUME NEW d \in D
        PROVE  /\ Matched(fs)[d] \in IdsOf(fs, d)
               /\ Matched(fs)[d] \in Nat
    <2>1. Matched(fs)[d] = Max(IdsOf(fs, d))
      BY DEF Matched
    <2>2. Max(IdsOf(fs, d)) \in IdsOf(fs, d) /\ IdsOf(fs, d) \subseteq 1 .. Len(fs)
      BY IdsAre
    <2> QED BY <2>1, <2>2
  <1>3. \A d \in D : Matched(fs)[d] \in DOMAIN fs /\ fs[Matched(fs)[d]].name = d
    BY <1>2 DEF IdsOf
  <1>4. Matched(fs) \in [D -> Nat]
    <2>1. Matched(fs) = [d \in D |-> Matched(fs)[d]]
      BY DEF Matched
    <2> QED BY <1>2, <2>1, Zenon
  <1>5. Matched(fs) \in Mapping
    BY <1>4, Zenon DEF Mapping
  <1> QED BY <1>1, <1>3, <1>5

\* Ranks: a set of positions is numbered by how many are not above a position.
LEMMA Ranks ==
    ASSUME NEW n \in Nat, NEW S, S \subseteq 1 .. n,
           NEW k \in 1 .. Cardinality(S)
    PROVE  \E i \in S : Cardinality({j \in S : j <= i}) = k
  <1> DEFINE UpTo(i) == {j \in S : j <= i}
             rank == [i \in S |-> Cardinality(UpTo(i))]
             K == 1 .. Cardinality(S)
  <1>1. IsFiniteSet(S) /\ Cardinality(S) \in Nat
    <2>1. IsFiniteSet(1 .. n)
      BY FS_Interval
    <2>2. S \in SUBSET (1 .. n)
      OBVIOUS
    <2>3. IsFiniteSet(S)
      BY <2>1, <2>2, FS_Subset, Zenon
    <2> QED BY <2>3, FS_CardinalityType
  <1>2. ASSUME NEW i \in S
        PROVE  /\ IsFiniteSet(UpTo(i)) /\ i \in UpTo(i)
               /\ Cardinality(UpTo(i)) \in K
    <2>1. UpTo(i) \in SUBSET S /\ i \in UpTo(i)
      OBVIOUS
    <2> HIDE DEF UpTo
    <2>2. /\ IsFiniteSet(UpTo(i)) /\ Cardinality(UpTo(i)) <= Cardinality(S)
          /\ Cardinality(UpTo(i)) \in Nat
      BY <1>1, <2>1, FS_Subset, FS_CardinalityType
    <2>3. Cardinality(UpTo(i)) # 0
      BY <2>1, <2>2, FS_EmptySet
    <2> QED BY <1>1, <2>1, <2>2, <2>3
  <1>3. ASSUME NEW i \in S, NEW j \in S, i < j
        PROVE  Cardinality(UpTo(i)) # Cardinality(UpTo(j))
    <2>0. i \in Nat /\ j \in Nat /\ \A m \in S : m \in Nat
      OBVIOUS
    <2>1. UpTo(i) \in SUBSET UpTo(j) /\ j \notin UpTo(i)
      <3>1. \A m \in Nat : m <= i => m <= j
        BY <1>3, <2>0
      <3>2. ~(j <= i)
        BY <1>3, <2>0
      <3> QED BY <2>0, <3>1, <3>2, Zenon
    <2>2. UpTo(i) # UpTo(j)
      BY <2>1, <1>2
    <2> HIDE DEF UpTo
    <2> QED BY <1>2, <2>1, <2>2, FS_Subset
  <1>4. rank \in Injection(S, K)
    <2>1. rank \in [S -> K]
      BY <1>2
    <2>2. ASSUME NEW i \in S, NEW j \in S, rank[i] = rank[j] PROVE i = j
      <3>1. Cardinality(UpTo(i)) = Cardinality(UpTo(j)) /\ i \in Nat /\ j \in Nat
        BY <2>2
      <3>2. ~(i < j) /\ ~(j < i)
        <4> HIDE DEF UpTo, rank
        <4> QED BY <1>3, <3>1
      <3> QED BY <3>1, <3>2
    <2> HIDE DEF rank
    <2> QED BY <2>1, <2>2 DEF Injection, IsInjective
  <1>5. IsFiniteSet(K) /\ Cardinality(K) = Cardinality(S)
    <2>1. IsFiniteSet(K) /\ Cardinality(K) = IF 1 > Cardinality(S) THEN 0
                                             ELSE Cardinality(S) - 1 + 1
      BY <1>1, FS_Interval, SMTT(30)
    <2> QED BY <1>1, <2>1
  <1>6. rank \in Surjection(S, K)
    <2> HIDE DEF rank, K
    <2> QED BY <1>4, <1>5, FS_Injection
  <1>7. PICK i \in S : rank[i] = k
    <2> HIDE DEF rank
    <2> QED BY <1>6 DEF Surjection
  <1> QED BY <1>7

\* The fields not found, each once.
LEMMA MissingIs ==
    ASSUME NEW fs \in Seq(Field)
    PROVE  /\ Missing(fs) \in Seq(DoubanFields)
           /\ IsInjective(Missing(fs))
           /\ Range(Missing(fs)) = {d \in DoubanFields : IdsOf(fs, d) = {}}
  <1> DEFINE left == {i \in DOMAIN Config : IdsOf(fs, Config[i]) = {}}
             UpTo(i) == {j \in left : j <= i}
             K == Cardinality(left)
             At(k) == CHOOSE i \in left : Cardinality(UpTo(i)) = k
  <1>1. /\ Config \in Seq(DoubanFields) /\ IsInjective(Config)
        /\ Len(Config) \in Nat /\ DOMAIN Config = 1 .. Len(Config)
    BY MappingAssumption
  <1>2. Missing(fs) = [k \in 1 .. K |-> Config[At(k)]]
    BY DEF Missing
  <1>3. left \subseteq 1 .. Len(Config)
    BY <1>1
  <1>4. IsFiniteSet(left) /\ K \in Nat
    <2>1. IsFiniteSet(1 .. Len(Config)) /\ left \in SUBSET (1 .. Len(Config))
      BY <1>1, <1>3, FS_Interval
    <2>2. IsFiniteSet(left)
      BY <2>1, FS_Subset
    <2> QED BY <2>2, FS_CardinalityType
  <1>5. ASSUME NEW k \in 1 .. K
        PROVE  At(k) \in left /\ Cardinality(UpTo(At(k))) = k
    <2>1. \E i \in left : Cardinality(UpTo(i)) = k
      <3> HIDE DEF left
      <3> QED BY <1>1, <1>3, Ranks, ZenonT(40)
    <2> HIDE DEF left, UpTo
    <2> QED BY <2>1
  <1>6. ASSUME NEW i \in left
        PROVE  Cardinality(UpTo(i)) \in 1 .. K /\ i \in UpTo(i)
    <2>1. UpTo(i) \in SUBSET left /\ i \in UpTo(i)
      BY <1>3
    <2> HIDE DEF left, UpTo
    <2>2. /\ IsFiniteSet(UpTo(i)) /\ Cardinality(UpTo(i)) <= K
          /\ Cardinality(UpTo(i)) \in Nat
      BY <1>4, <2>1, FS_Subset, FS_CardinalityType
    <2>3. Cardinality(UpTo(i)) # 0
      BY <2>1, <2>2, FS_EmptySet
    <2> QED BY <1>4, <2>1, <2>2, <2>3
  <1>7. ASSUME NEW i \in left, NEW j \in left, i < j
        PROVE  Cardinality(UpTo(i)) # Cardinality(UpTo(j))
    <2>0. \A m \in left : m \in Nat
      BY <1>1
    <2>1. UpTo(i) \in SUBSET UpTo(j) /\ j \notin UpTo(i)
      <3> HIDE DEF left
      <3> QED BY <1>7, <2>0
    <2>2. UpTo(i) # UpTo(j) /\ UpTo(j) \in SUBSET left
      <3> HIDE DEF left
      <3> QED BY <2>1, <1>6, Zenon
    <2> HIDE DEF left, UpTo
    <2> QED BY <1>4, <2>1, <2>2, FS_Subset
  <1>8. ASSUME NEW i \in left
        PROVE  At(Cardinality(UpTo(i))) = i
    <2> DEFINE j == At(Cardinality(UpTo(i)))
    <2>1. j \in left /\ Cardinality(UpTo(j)) = Cardinality(UpTo(i))
      <3> HIDE DEF At, UpTo, left
      <3> QED BY <1>5, <1>6
    <2>2. i \in Nat /\ j \in Nat
      <3>1. \A m \in 1 .. Len(Config) : m \in Nat
        OBVIOUS
      <3> HIDE DEF j, left, UpTo
      <3> QED BY <1>3, <2>1, <3>1
    <2> HIDE DEF j, UpTo, left
    <2>3. ~(i < j) /\ ~(j < i)
      BY <1>7, <2>1
    <2>4. i = j
      BY <2>2, <2>3
    <2> QED BY <2>4 DEF j
  <1>9. Range(Config) = DoubanFields /\ \A i \in left : i \in DOMAIN Config /\ IdsOf(fs, Config[i]) = {}
    BY DEF DoubanFields
  <1>10. Missing(fs) \in Seq(DoubanFields)
    <2>1. \A k \in 1 .. K : Config[At(k)] \in DoubanFields
      <3> HIDE DEF left, UpTo, At
      <3> QED BY <1>1, <1>5, <1>9
    <2> HIDE DEF At, K
    <2> QED BY <1>2, <1>4, <2>1
  <1>11. IsInjective(Missing(fs))
    <2> SUFFICES ASSUME NEW k \in 1 .. K, NEW n \in 1 .. K,
                        Config[At(k)] = Config[At(n)]
                 PROVE  k = n
      <3> HIDE DEF At, K
      <3> QED BY <1>2 DEF IsInjective
    <2>1. At(k) \in DOMAIN Config /\ At(n) \in DOMAIN Config
      <3> HIDE DEF left, UpTo, At
      <3> QED BY <1>5, <1>9
    <2>2. At(k) = At(n)
      <3> HIDE DEF left, UpTo, At
      <3> QED BY <1>1, <2>1 DEF IsInjective
    <2> HIDE DEF left, UpTo, At
    <2> QED BY <1>5, <2>2
  <1>12. ASSUME NEW d \in Range(Missing(fs))
         PROVE  d \in DoubanFields /\ IdsOf(fs, d) = {}
    <2> HIDE DEF left, UpTo, At, K
    <2>1. PICK k \in 1 .. K : d = Config[At(k)]
      BY <1>2 DEF Range
    <2>2. At(k) \in left
      BY <1>5 DEF K
    <2> QED BY <1>1, <1>9, <2>1, <2>2
  <1>13. ASSUME NEW d \in DoubanFields, IdsOf(fs, d) = {}
         PROVE  d \in Range(Missing(fs))
    <2>1. PICK i \in DOMAIN Config : Config[i] = d
      BY DEF DoubanFields, Range
    <2>2. i \in left
      BY <2>1, <1>13
    <2> DEFINE k == Cardinality(UpTo(i))
    <2> HIDE DEF left, UpTo, At
    <2>3. k \in 1 .. K /\ At(k) = i
      BY <1>6, <1>8, <2>2
    <2> HIDE DEF k, K
    <2>4. k \in DOMAIN Missing(fs) /\ Missing(fs)[k] = d
      BY <1>2, <2>1, <2>3
    <2> QED BY <2>4 DEF Range
  <1> QED BY <1>10, <1>11, <1>12, <1>13

-----------------------------------------------------------------------------
(* The inductive invariant.                                                *)
(*                                                                         *)
(* F is the sequence of fields of a call's table, w the place of the call  *)
(* and l its variables.                                                    *)

\* The id i names a field called d.
Named(F, i, d) == i \in DOMAIN F /\ F[i].name = d

\* What was read from the table is still there, under the same names.
Agrees(fs, F) == \A i \in DOMAIN fs : Named(F, i, fs[i].name)

\* Every entry names a field of its name.
Right(m, F) == \A d \in DOMAIN m : Named(F, m[d], d)

\* Nothing was planned or made yet.
Fresh(l) == ~l.ensure /\ l.made = <<>> /\ ~l.refused /\ l.errors = {}

\* The plan of autoConfigureFieldMappings: the fields not in the mapping, of
\* which todo is the rest; unless a field was refused, the fields made are
\* those of the plan before the rest.
Planned(l, F) ==
    /\ IsInjective(l.plan)
    /\ DOMAIN l.map = DoubanFields \ Range(l.plan)
    /\ Right(l.map, F)
    /\ Len(l.made) + Len(l.todo) <= Len(l.plan)
    /\ \A i \in 1 .. Len(l.todo) :
         l.todo[i] = l.plan[Len(l.plan) - Len(l.todo) + i]
    /\ ~l.refused => /\ Len(l.made) + Len(l.todo) = Len(l.plan)
                     /\ \A i \in 1 .. Len(l.made) :
                          Named(F, l.made[i], l.plan[i])

\* A call in the loop over the fields to create.
Ready(l, F) ==
    /\ Agrees(l.known, F)
    /\ \/ l.kind = "auto" /\ ~l.ensure /\ Planned(l, F)
       \/ l.kind = "enhanced" /\ l.ensure /\ Right(l.map, F)

\* What autoConfigureFieldMappings reports in the end.
Reported(l, F) ==
    /\ ~l.refused => Right(l.map, F)
    /\ DOMAIN l.map \cup l.errors = DoubanFields
    /\ DOMAIN l.map \cap l.errors = {}
    /\ l.errors # {} => l.refused

\* What holds of a call at its place.
CallOK(w, l, F) ==
    /\ Agrees(l.known, F)
    /\ l.ensure => l.kind = "enhanced"
    /\ l.kind = "sync" => Fresh(l)
    /\ l.kind = "enhanced" => Right(l.map, F)
    /\ w \in {"cached", "query"} => l.kind \in {"get", "sync"}
    /\ w \in {"fields", "fetch", "store"} =>
         \/ l.ensure /\ l.todo # <<>>
         \/ l.kind \in {"auto", "enhanced"} /\ Fresh(l)
    /\ w \in {"create", "drop", "update", "clear"} =>
         l.todo # <<>> /\ Ready(l, F)
    /\ w \in {"drop", "update", "clear"} => Named(F, l.id, Head(l.todo))
    /\ w \in {"update", "clear"} => l.ensure
    /\ w \in {"read", "write", "cache", "done"} /\ l.kind = "auto" =>
         Reported(l, F)

\* All the mappings of ms were saved.
WereSaved(ms) == \A t \in DOMAIN ms : ms[t] \in saved[t]

\* The cached fields are still there and every call is as its place demands.
CallsOK ==
    /\ \A t \in Tables : Agrees(fieldCache[t].fields, fields[t])
    /\ \A c \in Calls : CallOK(pc[c], loc[c], fields[loc[c].table])

\* A mapping that is cached, in the row, read from it, or served was saved.
SavedOK ==
    /\ \A t \in Tables : mapCache[t].hit => mapCache[t].map \in saved[t]
    /\ WereSaved(row.maps)
    /\ \A c \in Calls :
         /\ WereSaved(loc[c].old)
         /\ pc[c] \in {"cache", "done"} => loc[c].map \in saved[loc[c].table]

\* The variables of a call.
Call == [kind : {"none", "auto", "enhanced", "set", "get", "sync"},
         table : Tables, map : Mapping, ensure : BOOLEAN,
         plan : Seq(DoubanFields), todo : Seq(DoubanFields), made : Seq(Nat),
         id : Nat, errors : SUBSET DoubanFields, refused : BOOLEAN,
         known : Seq(Field), old : Mappings]

\* TypeOK, with sets of records.
Types ==
    /\ fields \in [Tables -> Seq(Field)]
    /\ fieldCache \in [Tables -> [hit : BOOLEAN, fields : Seq(Field)]]
    /\ mapCache \in [Tables -> [hit : BOOLEAN, map : Mapping]]
    /\ row \in [there : BOOLEAN, maps : Mappings]
    /\ pc \in [Calls -> Places]
    /\ loc \in [Calls -> Call]
    /\ begun \in 0 .. MaxCalls
    /\ faults \in [api : 0 .. MaxApiFaults, redis : 0 .. MaxRedisFaults]
    /\ saved \in [Tables -> SUBSET Mapping]

\* The inductive invariant.
Inv == Types /\ CallsOK /\ SavedOK

\* Fields are added to a table and keep their names.
Grows(F, G) == \A i \in DOMAIN F : Named(G, i, F[i].name)

\* Call c goes to place w with the variables l.
Moves(c, w, l) ==
    /\ pc' = [pc EXCEPT ![c] = w]
    /\ loc' = [loc EXCEPT ![c] = l]

\* Call c takes a step that leaves its table and what it read of the row, and
\* does not end it.
Worked(c, F) ==
    \E w \in Places \ {"cache", "done"} : \E l \in Call :
      /\ Moves(c, w, l)
      /\ l.table = loc[c].table /\ l.old = loc[c].old
      /\ CallOK(w, l, F)

-----------------------------------------------------------------------------
(* The variables of one call. *)

\* Names stay as a table grows.
LEMMA NamedGrows ==
    ASSUME NEW F, NEW G, Grows(F, G), NEW i, NEW d, Named(F, i, d)
    PROVE  Named(G, i, d)
  BY DEF Grows, Named

\* A call stays right as its table grows.
LEMMA CallGrows ==
    ASSUME NEW F, NEW G, Grows(F, G), NEW w, NEW l, CallOK(w, l, F)
    PROVE  CallOK(w, l, G)
  <1>1. ASSUME NEW fs, Agrees(fs, F) PROVE Agrees(fs, G)
    BY <1>1, NamedGrows DEF Agrees
  <1>2. ASSUME NEW m, Right(m, F) PROVE Right(m, G)
    BY <1>2, NamedGrows DEF Right
  <1>3. ASSUME Planned(l, F) PROVE Planned(l, G)
    BY <1>2, <1>3, NamedGrows, Zenon DEF Planned
  <1>4. ASSUME Ready(l, F) PROVE Ready(l, G)
    BY <1>1, <1>2, <1>3, <1>4 DEF Ready
  <1>5. ASSUME Reported(l, F) PROVE Reported(l, G)
    BY <1>2, <1>5 DEF Reported
  <1> QED BY <1>1, <1>2, <1>4, <1>5, NamedGrows DEF CallOK

\* The rest after a field.
LEMMA RestIs ==
    ASSUME NEW l \in Call, l.todo # <<>>
    PROVE  /\ Rest(l) \in Call
           /\ Rest(l).todo = Tail(l.todo)
           /\ Rest(l).kind = l.kind /\ Rest(l).table = l.table
           /\ Rest(l).map = l.map /\ Rest(l).ensure = l.ensure
           /\ Rest(l).plan = l.plan /\ Rest(l).made = l.made
           /\ Rest(l).errors = l.errors /\ Rest(l).refused = l.refused
           /\ Rest(l).known = l.known /\ Rest(l).old = l.old
  <1>1. Tail(l.todo) \in Seq(DoubanFields)
    BY DEF Call
  <1> QED BY <1>1, Zenon DEF Rest, Call

\* The end of a sequence.
LEMMA SubSeqEnd ==
    ASSUME NEW S, NEW s \in Seq(S), NEW n \in Nat, n <= Len(s)
    PROVE  LET q == SubSeq(s, n + 1, Len(s))
           IN /\ Len(q) = Len(s) - n
              /\ DOMAIN q = 1 .. (Len(s) - n)
              /\ \A i \in 1 .. (Len(s) - n) : q[i] = s[n + i]
  <1>1. Len(s) \in Nat
    OBVIOUS
  <1> QED BY <1>1

\* The end of autoConfigureFieldMappings: what was created is paired with
\* the plan, the rest of the plan is reported.
LEMMA AlignedIs ==
    ASSUME NEW l \in Call, NEW F, l.todo = <<>>, Planned(l, F)
    PROVE  /\ Aligned(l) \in Call
           /\ Reported(Aligned(l), F)
           /\ Aligned(l).kind = l.kind /\ Aligned(l).table = l.table
           /\ Aligned(l).ensure = l.ensure /\ Aligned(l).known = l.known
           /\ Aligned(l).old = l.old
  <1> DEFINE n == Len(l.made)
             At(d) == {i \in DOMAIN l.made : l.plan[i] = d}
             P == {l.plan[i] : i \in DOMAIN l.made}
             M == [d \in P \cup DOMAIN l.map |->
                     IF d \in P THEN l.made[Max(At(d))] ELSE l.map[d]]
             E == Range(Unmade(l))
  <1>1. Aligned(l) = [l EXCEPT !.map = M, !.errors = E]
    BY DEF Aligned
  <1>2. /\ l.made \in Seq(Nat) /\ l.plan \in Seq(DoubanFields)
        /\ l.map \in Mapping /\ l.refused \in BOOLEAN
    BY DEF Call
  <1>3. /\ n \in Nat /\ Len(l.plan) \in Nat /\ n <= Len(l.plan)
        /\ DOMAIN l.made = 1 .. n /\ DOMAIN l.plan = 1 .. Len(l.plan)
        /\ ~l.refused => n = Len(l.plan)
    <2>1. Len(l.todo) = 0
      OBVIOUS
    <2>2. n \in Nat /\ Len(l.plan) \in Nat
      BY <1>2
    <2> QED BY <1>2, <2>1, <2>2 DEF Planned
  <1>4. ASSUME NEW d \in P
        PROVE  /\ d \in DoubanFields
               /\ Max(At(d)) \in 1 .. n /\ l.plan[Max(At(d))] = d
    <2>1. PICK i \in DOMAIN l.made : d = l.plan[i]
      OBVIOUS
    <2>2. i \in DOMAIN l.plan
      BY <1>3
    <2>3. At(d) \subseteq 1 .. n /\ At(d) # {}
      BY <1>3, <2>1
    <2>4. Max(At(d)) \in At(d)
      <3> HIDE DEF At, n
      <3> QED BY <1>3, <2>3, MaxMin
    <2> QED BY <1>2, <1>3, <2>1, <2>2, <2>4
  <1>5. DOMAIN l.map = DoubanFields \ Range(l.plan)
    BY DEF Planned
  <1>6. M \in Mapping /\ DOMAIN M = P \cup DOMAIN l.map
    <2>1. \A d \in P : l.made[Max(At(d))] \in Nat
      <3>1. \A i \in 1 .. n : l.made[i] \in Nat
        BY <1>2, <1>3
      <3> HIDE DEF P, At, n
      <3> QED BY <1>4, <3>1
    <2>2. \A d \in DOMAIN l.map : d \in DoubanFields /\ l.map[d] \in Nat
      BY <1>2 DEF Mapping
    <2>3. P \subseteq DoubanFields
      BY <1>4, Zenon
    <2> DEFINE D == P \cup DOMAIN l.map
    <2>4. D \subseteq DoubanFields
      BY <2>2, <2>3
    <2>5. M \in [D -> Nat]
      <3> HIDE DEF P, At
      <3> QED BY <2>1, <2>2
    <2> HIDE DEF D, M
    <2>6. M \in Mapping
      BY <2>4, <2>5 DEF Mapping
    <2> QED BY <2>5, <2>6 DEF D
  <1>7. E = {l.plan[i] : i \in (n + 1) .. Len(l.plan)}
    <2>1. /\ Len(Unmade(l)) = Len(l.plan) - n
          /\ \A i \in 1 .. (Len(l.plan) - n) : Unmade(l)[i] = l.plan[n + i]
          /\ DOMAIN Unmade(l) = 1 .. (Len(l.plan) - n)
      <3> HIDE DEF n
      <3>1. Unmade(l) = SubSeq(l.plan, n + 1, Len(l.plan))
        BY DEF Unmade, n
      <3> QED BY <1>2, <1>3, <3>1, SubSeqEnd
    <2>2. ASSUME NEW d \in E PROVE \E i \in (n + 1) .. Len(l.plan) : d = l.plan[i]
      <3>1. PICK j \in 1 .. (Len(l.plan) - n) : d = Unmade(l)[j]
        BY <2>1, Zenon DEF Range
      <3>2. n + j \in (n + 1) .. Len(l.plan)
        <4> HIDE DEF n
        <4> QED BY <1>3
      <3> QED BY <2>1, <3>1, <3>2
    <2>3. ASSUME NEW i \in (n + 1) .. Len(l.plan) PROVE l.plan[i] \in E
      <3>1. i - n \in 1 .. (Len(l.plan) - n) /\ n + (i - n) = i
        BY <1>3
      <3>2. i - n \in DOMAIN Unmade(l) /\ Unmade(l)[i - n] = l.plan[i]
        BY <2>1, <3>1
      <3> QED BY <3>2 DEF Range
    <2> HIDE DEF E
    <2> QED BY <2>2, <2>3
  <1>8. E \subseteq DoubanFields
    BY <1>2, <1>3, <1>7
  <1>9. P \cup DOMAIN l.map \cup E = DoubanFields
    <2>1. ASSUME NEW d \in Range(l.plan) PROVE d \in P \cup E
      <3>1. PICK i \in 1 .. Len(l.plan) : d = l.plan[i]
        BY <1>3 DEF Range
      <3>2. i \in 1 .. n \/ i \in (n + 1) .. Len(l.plan)
        BY <1>3
      <3> HIDE DEF E
      <3> QED BY <1>3, <1>7, <3>1, <3>2
    <2>2. P \subseteq DoubanFields
      BY <1>4, ZenonT(40)
    <2> HIDE DEF P, E
    <2> QED BY <1>5, <1>8, <2>1, <2>2
  <1>10. (P \cup DOMAIN l.map) \cap E = {}
    <2>1. ASSUME NEW d \in E PROVE d \notin P /\ d \in Range(l.plan)
      <3>1. PICK i \in (n + 1) .. Len(l.plan) : d = l.plan[i]
        BY <1>7
      <3>2. i \in DOMAIN l.plan /\ i \notin 1 .. n
        BY <1>3
      <3>3. ASSUME NEW j \in 1 .. n PROVE l.plan[j] # d
        <4>1. j \in DOMAIN l.plan /\ j # i
          BY <1>3, <3>2
        <4> QED BY <3>1, <3>2, <4>1 DEF Planned, IsInjective
      <3> QED BY <1>3, <3>1, <3>2, <3>3 DEF Range
    <2> HIDE DEF P, E
    <2> QED BY <1>5, <2>1
  <1>11. ASSUME ~l.refused PROVE Right(M, F) /\ E = {}
    <2>1. \A d \in P : Named(F, l.made[Max(At(d))], d)
      BY <1>3, <1>4, <1>11, Zenon DEF Planned
    <2>2. \A d \in DOMAIN l.map : Named(F, l.map[d], d)
      BY DEF Planned, Right
    <2>3. Right(M, F)
      <3> HIDE DEF P, At
      <3> QED BY <2>1, <2>2 DEF Right
    <2>4. E = {}
      <3> HIDE DEF E
      <3>1. (n + 1) .. Len(l.plan) = {}
        BY <1>3, <1>11
      <3> QED BY <1>7, <3>1
    <2> QED BY <2>3, <2>4
  <1> HIDE DEF M, E, P
  <1>12. /\ Aligned(l) \in Call /\ Aligned(l).map = M /\ Aligned(l).errors = E
         /\ Aligned(l).refused = l.refused
         /\ Aligned(l).kind = l.kind /\ Aligned(l).table = l.table
         /\ Aligned(l).ensure = l.ensure /\ Aligned(l).known = l.known
         /\ Aligned(l).old = l.old
    BY <1>1, <1>6, <1>8, ZenonT(40) DEF Call
  <1>13. Reported(Aligned(l), F)
    BY <1>2, <1>6, <1>9, <1>10, <1>11, <1>12 DEF Reported
  <1> QED BY <1>12, <1>13

\* The plan after one field: what the loops keep.
LEMMA PlannedRest ==
    ASSUME NEW l \in Call, NEW F, NEW k \in Call, l.todo # <<>>,
           Planned(l, F),
           k.plan = l.plan, k.map = l.map, k.todo = Tail(l.todo),
           \/ k.refused /\ k.made = l.made
           \/ /\ k.refused = l.refused /\ k.made = Append(l.made, l.id)
              /\ Named(F, l.id, Head(l.todo))
    PROVE  Planned(k, F)
  <1> DEFINE n == Len(l.made)
             t == Len(l.todo)
             p == Len(l.plan)
  <1>1. /\ l.made \in Seq(Nat) /\ l.id \in Nat /\ l.refused \in BOOLEAN
        /\ l.todo \in Seq(DoubanFields) /\ l.plan \in Seq(DoubanFields)
    BY DEF Call
  <1>0. /\ Len(k.todo) = t - 1 /\ Head(l.todo) = l.todo[1]
        /\ \A i \in 1 .. (t - 1) : k.todo[i] = l.todo[i + 1]
    <2>1. k.todo = Tail(l.todo) /\ l.todo \in Seq(DoubanFields) /\ l.todo # <<>>
      BY <1>1
    <2> QED BY <2>1
  <1>2. /\ n \in Nat /\ t \in Nat /\ p \in Nat /\ t > 0 /\ n + t <= p
        /\ Len(k.plan) = p
    <2>1. n \in Nat /\ t \in Nat /\ p \in Nat /\ Len(k.plan) = p
      BY <1>1
    <2>2. t # 0
      BY <1>1
    <2>3. n + t <= p
      BY Zenon DEF Planned
    <2> HIDE DEF n, t, p
    <2> QED BY <2>1, <2>2, <2>3
  <1>3. \A i \in 1 .. t : l.todo[i] = l.plan[p - t + i]
    BY Zenon DEF Planned
  <1> HIDE DEF n, t, p
  <1>4. \A i \in 1 .. Len(k.todo) : k.todo[i] = k.plan[Len(k.plan) - Len(k.todo) + i]
    <2> SUFFICES ASSUME NEW i \in 1 .. (t - 1)
                 PROVE  k.todo[i] = l.plan[p - (t - 1) + i]
      BY <1>0, <1>2, Zenon
    <2>1. i + 1 \in 1 .. t /\ p - t + (i + 1) = p - (t - 1) + i
      BY <1>2
    <2> QED BY <1>0, <1>3, <2>1
  <1>5. /\ IsInjective(k.plan)
        /\ DOMAIN k.map = DoubanFields \ Range(k.plan)
        /\ Right(k.map, F)
    BY DEF Planned
  <1>6. CASE k.refused /\ k.made = l.made
    <2>0. Len(k.made) = n
      BY <1>6 DEF n
    <2>1. Len(k.made) + Len(k.todo) <= Len(k.plan)
      BY <1>0, <1>2, <2>0
    <2> QED BY <1>4, <1>5, <1>6, <2>1, Zenon DEF Planned
  <1>7. CASE /\ k.refused = l.refused /\ k.made = Append(l.made, l.id)
             /\ Named(F, l.id, Head(l.todo))
    <2>0. Len(k.made) = n + 1
      BY <1>1, <1>7 DEF n
    <2>1. /\ k.made[n + 1] = l.id
          /\ \A i \in 1 .. n : k.made[i] = l.made[i]
      BY <1>1, <1>2, <1>7 DEF n
    <2>2. Len(k.made) + Len(k.todo) <= Len(k.plan)
      <3>1. (n + 1) + (t - 1) <= p
        BY <1>2
      <3> QED BY <1>0, <1>2, <2>0, <3>1, Zenon
    <2>3. ASSUME ~l.refused
          PROVE  /\ Len(k.made) + Len(k.todo) = Len(k.plan)
                 /\ \A i \in 1 .. Len(k.made) : Named(F, k.made[i], k.plan[i])
      <3>1. n + t = p /\ \A i \in 1 .. n : Named(F, l.made[i], l.plan[i])
        BY <2>3, Zenon DEF Planned, n, t, p
      <3>2. Head(l.todo) = l.plan[n + 1]
        <4>1. 1 \in 1 .. t /\ p - t + 1 = n + 1
          BY <1>2, <3>1
        <4> QED BY <1>0, <1>3, <4>1
      <3>3. ASSUME NEW i \in 1 .. (n + 1) PROVE Named(F, k.made[i], l.plan[i])
        <4>1. i \in 1 .. n \/ i = n + 1
          BY <1>2
        <4> QED BY <1>7, <2>1, <3>1, <3>2, <4>1, Zenon
      <3>4. Len(k.made) + Len(k.todo) = Len(k.plan)
        <4>1. (n + 1) + (t - 1) = p
          BY <1>2, <3>1
        <4> QED BY <1>0, <1>2, <2>0, <4>1, Zenon
      <3> QED BY <2>0, <3>3, <3>4
    <2> QED BY <1>4, <1>5, <1>7, <2>2, <2>3, Zenon DEF Planned
  <1> QED BY <1>6, <1>7

\* The loop over the fields goes on, or the call saves its mapping.
LEMMA ProceedWorks ==
    ASSUME NEW c \in Calls, NEW l \in Call, NEW F,
           l.todo # <<>>, Ready(Rest(l), F), Proceed(c, l),
           l.table = loc[c].table, l.old = loc[c].old
    PROVE  Worked(c, F)
  <1> DEFINE r == Rest(l)
  <1>1. /\ r \in Call /\ r.kind = l.kind /\ r.table = l.table /\ r.old = l.old
    BY RestIs
  <1>2. r \in Call /\ Ready(r, F) /\ r.todo \in Seq(DoubanFields)
    BY <1>1 DEF Call
  <1> HIDE DEF r
  <1>3. CASE r.todo # <<>> /\ l.kind = "auto"
    <2>1. Moves(c, "create", r)
      BY <1>3, ZenonT(40) DEF Proceed, Moves, Go, r
    <2>2. CallOK("create", r, F)
      BY <1>1, <1>2, <1>3 DEF CallOK, Ready
    <2>3. "create" \in Places \ {"cache", "done"}
      BY DEF Places
    <2> QED BY <1>1, <2>1, <2>2, <2>3 DEF Worked
  <1>4. CASE r.todo # <<>> /\ l.kind # "auto"
    <2>1. Moves(c, "fields", r)
      BY <1>4, ZenonT(40) DEF Proceed, Moves, Go, r
    <2>2. CallOK("fields", r, F)
      BY <1>1, <1>2, <1>4 DEF CallOK, Ready
    <2>3. "fields" \in Places \ {"cache", "done"}
      BY DEF Places
    <2> QED BY <1>1, <2>1, <2>2, <2>3 DEF Worked
  <1>5. CASE r.todo = <<>> /\ l.kind = "auto"
    <2>1. Moves(c, "read", Aligned(r))
      BY <1>5 DEF Proceed, Moves, Go, r
    <2>2. Planned(r, F) /\ ~r.ensure /\ Agrees(r.known, F)
      BY <1>1, <1>2, <1>5 DEF Ready
    <2>3. /\ Aligned(r) \in Call /\ Reported(Aligned(r), F)
          /\ Aligned(r).kind = r.kind /\ Aligned(r).table = r.table
          /\ Aligned(r).ensure = r.ensure /\ Aligned(r).known = r.known
          /\ Aligned(r).old = r.old
      BY <1>1, <1>5, <2>2, AlignedIs, ZenonT(40)
    <2>4. CallOK("read", Aligned(r), F)
      BY <1>1, <1>5, <2>2, <2>3 DEF CallOK
    <2>5. "read" \in Places \ {"cache", "done"}
      BY DEF Places
    <2> QED BY <1>1, <2>1, <2>3, <2>4, <2>5 DEF Worked
  <1>6. CASE r.todo = <<>> /\ l.kind # "auto"
    <2>1. Moves(c, "read", r)
      BY <1>6, ZenonT(40) DEF Proceed, Moves, Go, r
    <2>2. CallOK("read", r, F)
      BY <1>1, <1>2, <1>6 DEF CallOK, Ready
    <2>3. "read" \in Places \ {"cache", "done"}
      BY DEF Places
    <2> QED BY <1>1, <2>1, <2>2, <2>3 DEF Worked
  <1> QED BY <1>3, <1>4, <1>5, <1>6

\* A field that could not be created.
LEMMA GiveUpWorks ==
    ASSUME NEW c \in Calls, NEW F, loc[c] \in Call, loc[c].todo # <<>>,
           Ready(loc[c], F), GiveUp(c)
    PROVE  Worked(c, F)
  <1> DEFINE l == loc[c]
             r == [l EXCEPT !.refused = TRUE]
             e == [r EXCEPT !.errors = @ \cup {Head(r.todo)}]
  <1>1. l \in Call /\ l.todo # <<>> /\ Ready(l, F)
    OBVIOUS
  <1>2. Head(l.todo) \in DoubanFields
    <2>1. l.todo \in Seq(DoubanFields) /\ l.todo # <<>>
      BY DEF Call
    <2> HIDE DEF l
    <2> QED BY <2>1
  <1>3. Proceed(c, IF r.kind = "auto" THEN r ELSE e)
    BY DEF GiveUp
  <1>4. /\ r \in Call /\ r.kind = l.kind /\ r.table = l.table /\ r.map = l.map
        /\ r.ensure = l.ensure /\ r.plan = l.plan /\ r.todo = l.todo
        /\ r.made = l.made /\ r.refused = TRUE /\ r.known = l.known
        /\ r.old = l.old /\ r.errors = l.errors
    <2> HIDE DEF l
    <2> QED BY <1>1, Zenon DEF Call
  <1> HIDE DEF l, r
  <1>5. /\ e \in Call /\ e.kind = l.kind /\ e.table = l.table /\ e.map = l.map
        /\ e.ensure = l.ensure /\ e.todo = l.todo /\ e.known = l.known
        /\ e.old = l.old
    <2>1. r.errors \cup {Head(r.todo)} \in SUBSET DoubanFields
      BY <1>2, <1>4 DEF Call
    <2> QED BY <1>4, <2>1, Zenon DEF Call
  <1> HIDE DEF e
  <1>6. CASE l.kind = "auto"
    <2>1. Ready(Rest(r), F)
      <3>1. Planned(l, F)
        BY <1>1, <1>6, ZenonT(40) DEF Ready
      <3>2. Planned(Rest(r), F)
        BY <1>1, <1>4, <3>1, RestIs, PlannedRest
      <3> QED BY <1>1, <1>4, <1>6, <3>2, RestIs DEF Ready
    <2> QED BY <1>1, <1>3, <1>4, <1>6, <2>1, ProceedWorks, ZenonT(40) DEF l
  <1>7. CASE l.kind # "auto"
    <2>1. Ready(Rest(e), F)
      BY <1>1, <1>5, <1>7, RestIs, ZenonT(40) DEF Ready
    <2> QED BY <1>1, <1>3, <1>4, <1>5, <1>7, <2>1, ProceedWorks, ZenonT(40)
            DEF l
  <1> QED BY <1>6, <1>7

\* A field that was created or updated.
LEMMA SucceedWorks ==
    ASSUME NEW c \in Calls, NEW F, loc[c] \in Call, loc[c].todo # <<>>,
           Ready(loc[c], F), Named(F, loc[c].id, Head(loc[c].todo)), Succeed(c)
    PROVE  Worked(c, F)
  <1> DEFINE l == loc[c]
             a == [l EXCEPT !.made = Append(@, l.id)]
             m == Put(l.map, Head(l.todo), l.id)
             e == Taken(l, l.id)
  <1>1. l \in Call /\ l.todo # <<>> /\ Ready(l, F) /\ Named(F, l.id, Head(l.todo))
    OBVIOUS
  <1>2. Proceed(c, IF l.kind = "auto" THEN a ELSE e)
    BY DEF Succeed
  <1> HIDE DEF l
  <1>3. Head(l.todo) \in DoubanFields /\ l.id \in Nat /\ l.made \in Seq(Nat)
    <2>1. l.todo \in Seq(DoubanFields)
      BY <1>1 DEF Call
    <2> QED BY <1>1, <2>1 DEF Call
  <1>4. /\ a \in Call /\ a.kind = l.kind /\ a.table = l.table /\ a.map = l.map
        /\ a.ensure = l.ensure /\ a.plan = l.plan /\ a.todo = l.todo
        /\ a.made = Append(l.made, l.id) /\ a.refused = l.refused
        /\ a.known = l.known /\ a.old = l.old
    <2>1. Append(l.made, l.id) \in Seq(Nat)
      BY <1>3
    <2> QED BY <1>1, <2>1, ZenonT(40) DEF Call
  <1>5. m \in Mapping
    <2>1. l.map \in Mapping
      BY <1>1 DEF Call
    <2> QED BY <1>3, <2>1, PutMapping
  <1>6. e = [l EXCEPT !.map = m]
    BY DEF Taken
  <1>7. ASSUME Right(l.map, F) PROVE Right(m, F)
    <2>1. /\ DOMAIN m = DOMAIN l.map \cup {Head(l.todo)} /\ m[Head(l.todo)] = l.id
          /\ \A d \in DOMAIN l.map : d # Head(l.todo) => m[d] = l.map[d]
      BY DEF Put
    <2> HIDE DEF m
    <2> QED BY <1>1, <1>7, <2>1 DEF Right
  <1> HIDE DEF a, m, e
  <1>8. /\ e \in Call /\ e.kind = l.kind /\ e.table = l.table /\ e.map = m
        /\ e.ensure = l.ensure /\ e.todo = l.todo /\ e.known = l.known
        /\ e.old = l.old
    BY <1>1, <1>5, <1>6, ZenonT(40) DEF Call
  <1>9. CASE l.kind = "auto"
    <2>1. Ready(Rest(a), F)
      <3>1. Planned(l, F)
        BY <1>1, <1>9, ZenonT(40) DEF Ready
      <3>2. Planned(Rest(a), F)
        BY <1>1, <1>4, <3>1, RestIs, PlannedRest, ZenonT(40)
      <3> QED BY <1>1, <1>4, <1>9, <3>2, RestIs DEF Ready
    <2> QED BY <1>1, <1>2, <1>4, <1>9, <2>1, ProceedWorks, ZenonT(40) DEF l
  <1>10. CASE l.kind # "auto"
    <2>1. Ready(Rest(e), F)
      BY <1>1, <1>7, <1>8, <1>10, RestIs DEF Ready
    <2> QED BY <1>1, <1>2, <1>8, <1>10, <2>1, ProceedWorks, ZenonT(40) DEF l
  <1> QED BY <1>9, <1>10

\* What is made of the fields read from the table or from the cache.
LEMMA LearnWorks ==
    ASSUME NEW c \in Calls, NEW fs \in Seq(Field), NEW F, Agrees(fs, F),
           loc \in [Calls -> Call], CallOK("fields", loc[c], F), Learn(c, fs)
    PROVE  Worked(c, F)
  <1> DEFINE l == loc[c]
             q == Missing(fs)
             s == [l EXCEPT !.map = Matched(fs), !.plan = q, !.todo = q,
                            !.ensure = l.kind = "enhanced"]
             found == IdsOf(fs, Head(l.todo))
             first == Min(found)
  <1>1. l \in Call /\ CallOK("fields", l, F)
    OBVIOUS
  <1>2. /\ q \in Seq(DoubanFields) /\ IsInjective(q)
        /\ Range(q) = {d \in DoubanFields : IdsOf(fs, d) = {}}
    BY MissingIs
  <1>3. /\ Matched(fs) \in Mapping
        /\ DOMAIN Matched(fs) = DoubanFields \ Range(q)
        /\ Right(Matched(fs), F)
    <2>1. Right(Matched(fs), F)
      BY MatchedIs, Zenon DEF Right, Agrees, Named
    <2> QED BY <1>2, <2>1, MatchedIs, Zenon
  <1>4. "create" \in Places /\ "fields" \in Places /\ "read" \in Places
        /\ "update" \in Places
    BY DEF Places
  <1>5. /\ ~l.ensure =>
             \/ q = <<>> /\ Moves(c, "read", s)
             \/ q # <<>> /\ l.kind = "auto" /\ Moves(c, "create", s)
             \/ q # <<>> /\ l.kind # "auto" /\ Moves(c, "fields", s)
             \/ /\ l.kind # "auto"
                /\ Moves(c, "read", [s EXCEPT !.errors = Range(q),
                                              !.refused = TRUE])
        /\ l.ensure =>
             \/ pc' = [pc EXCEPT ![c] = "create"] /\ loc' = loc
             \/ found # {} /\ Proceed(c, l)
             \/ found # {} /\ Moves(c, "update", [l EXCEPT !.id = first])
    BY DEF Learn, Moves, Go
  <1> HIDE DEF l, q
  <1>6. /\ s \in Call /\ s.kind = l.kind /\ s.table = l.table
        /\ s.map = Matched(fs) /\ s.ensure = (l.kind = "enhanced")
        /\ s.plan = q /\ s.todo = q /\ s.made = l.made /\ s.errors = l.errors
        /\ s.refused = l.refused /\ s.known = l.known /\ s.old = l.old
    <2>1. (l.kind = "enhanced") \in BOOLEAN
      OBVIOUS
    <2> QED BY <1>1, <1>2, <1>3, <2>1, ZenonT(40) DEF Call
  <1> HIDE DEF s, found, first
  <1>7. CASE ~l.ensure
    <2>1. l.kind \in {"auto", "enhanced"} /\ Fresh(l) /\ Agrees(l.known, F)
      BY <1>1, <1>7, ZenonT(40) DEF CallOK
    <2>2. CASE q = <<>> /\ Moves(c, "read", s)
      <3>1. Range(q) = {}
        BY <2>2 DEF Range
      <3>2. Reported(s, F)
        BY <1>3, <1>6, <2>1, <3>1, ZenonT(40) DEF Reported, Fresh
      <3>3. CallOK("read", s, F)
        BY <1>3, <1>6, <2>1, <3>2, ZenonT(40) DEF CallOK
      <3> QED BY <1>4, <1>6, <2>2, <3>3 DEF Worked, l
    <2>3. CASE q # <<>> /\ l.kind = "auto" /\ Moves(c, "create", s)
      <3>1. Planned(s, F)
        <4>1. Len(s.made) = 0 /\ Len(q) \in Nat
          BY <1>2, <1>6, <2>1 DEF Fresh
        <4>2. Len(s.made) + Len(s.todo) = Len(s.plan)
          BY <1>6, <4>1
        <4>3. \A i \in 1 .. Len(s.todo) : Len(s.plan) - Len(s.todo) + i = i
          BY <1>6, <4>1
        <4>4. \A i \in 1 .. Len(s.made) : FALSE
          BY <4>1
        <4>5. Len(s.made) + Len(s.todo) <= Len(s.plan)
          BY <1>6, <4>1, SMTT(30)
        <4> QED BY <1>2, <1>3, <1>6, <4>2, <4>3, <4>4, <4>5, ZenonT(40) DEF Planned
      <3>2. CallOK("create", s, F)
        BY <1>6, <2>1, <2>3, <3>1, ZenonT(40) DEF CallOK, Ready
      <3> QED BY <1>4, <1>6, <2>3, <3>2 DEF Worked, l
    <2>4. CASE q # <<>> /\ l.kind # "auto" /\ Moves(c, "fields", s)
      <3>1. CallOK("fields", s, F)
        BY <1>3, <1>6, <2>1, <2>4, Zenon DEF CallOK
      <3> QED BY <1>4, <1>6, <2>4, <3>1 DEF Worked, l
    <2>5. CASE /\ l.kind # "auto"
               /\ Moves(c, "read", [s EXCEPT !.errors = Range(q),
                                             !.refused = TRUE])
      <3> DEFINE e == [s EXCEPT !.errors = Range(q), !.refused = TRUE]
      <3>1. Range(q) \in SUBSET DoubanFields
        BY <1>2
      <3>2. /\ e \in Call /\ e.kind = s.kind /\ e.table = s.table
            /\ e.map = s.map /\ e.ensure = s.ensure /\ e.known = s.known
            /\ e.old = s.old
        BY <1>6, <3>1, ZenonT(40) DEF Call
      <3>3. Moves(c, "read", e)
        BY <2>5
      <3> HIDE DEF e
      <3>4. CallOK("read", e, F)
        BY <1>3, <1>6, <2>1, <2>5, <3>2 DEF CallOK
      <3> QED BY <1>4, <1>6, <3>2, <3>3, <3>4 DEF Worked, l
    <2> QED BY <1>5, <1>7, <2>2, <2>3, <2>4, <2>5, ZenonT(40)
  <1>8. CASE l.ensure
    <2>1. /\ l.todo # <<>> /\ l.kind = "enhanced" /\ Agrees(l.known, F)
          /\ Right(l.map, F)
      BY <1>1, <1>8, ZenonT(40) DEF CallOK, Fresh
    <2>2. Ready(l, F)
      BY <1>8, <2>1 DEF Ready
    <2>3. CASE pc' = [pc EXCEPT ![c] = "create"] /\ loc' = loc
      <3>1. Moves(c, "create", l)
        BY <2>3, ZenonT(40) DEF Moves, l
      <3>2. CallOK("create", l, F)
        BY <1>8, <2>1, <2>2, ZenonT(40) DEF CallOK
      <3> QED BY <1>1, <1>4, <3>1, <3>2 DEF Worked, l
    <2>4. CASE found # {} /\ Proceed(c, l)
      <3>1. Ready(Rest(l), F)
        BY <1>1, <2>1, <1>8, RestIs DEF Ready
      <3> QED BY <1>1, <2>1, <2>4, <3>1, ProceedWorks, ZenonT(40) DEF l
    <2>5. CASE found # {} /\ Moves(c, "update", [l EXCEPT !.id = first])
      <3> DEFINE u == [l EXCEPT !.id = first]
      <3>1. first \in IdsOf(fs, Head(l.todo)) /\ first \in Nat
        BY <2>5, IdsAre DEF found, first
      <3>2. Named(F, first, Head(l.todo))
        BY <3>1 DEF IdsOf, Agrees, Named
      <3>3. /\ u \in Call /\ u.kind = l.kind /\ u.table = l.table
            /\ u.map = l.map /\ u.ensure = l.ensure /\ u.todo = l.todo
            /\ u.known = l.known /\ u.old = l.old /\ u.id = first
        BY <1>1, <3>1, Zenon DEF Call
      <3>4. Moves(c, "update", u)
        BY <2>5, ZenonT(40)
      <3> HIDE DEF u
      <3>5. CallOK("update", u, F)
        BY <1>8, <2>1, <3>2, <3>3, ZenonT(40) DEF CallOK, Ready
      <3> QED BY <1>1, <1>4, <3>3, <3>4, <3>5 DEF Worked, l
    <2> QED BY <1>5, <1>8, <2>3, <2>4, <2>5, ZenonT(40)
  <1>9. l.ensure \in BOOLEAN
    BY <1>1 DEF Call
  <1> QED BY <1>7, <1>8, <1>9

-----------------------------------------------------------------------------
(* The steps. *)

\* The tables keep their fields, of any types.
TablesGrow ==
    /\ fields' \in [Tables -> Seq(Field)]
    /\ \A t \in Tables : Grows(fields[t], fields'[t])

\* The cached fields are typed and still there.
CacheKept ==
    /\ fieldCache' \in [Tables -> [hit : BOOLEAN, fields : Seq(Field)]]
    /\ \A t \in Tables : Agrees(fieldCache'[t].fields, fields'[t])

\* No failure beyond the bounds.
FaultsKept ==
    faults' \in [api : 0 .. MaxApiFaults, redis : 0 .. MaxRedisFaults]

\* An unchanged table agrees with itself.
LEMMA NoGrowth ==
    ASSUME Types, UNCHANGED fields
    PROVE  TablesGrow
  BY DEF Types, TablesGrow, Grows, Named

\* A cache of fields that only loses entries.
LEMMA CacheStays ==
    ASSUME Inv, TablesGrow,
           \/ UNCHANGED fieldCache
           \/ \E t \in Tables : fieldCache' = [fieldCache EXCEPT ![t] = NoFields]
    PROVE  CacheKept
  <1>1. NoFields \in [hit : BOOLEAN, fields : Seq(Field)]
    BY DEF NoFields
  <1>2. ASSUME NEW F PROVE Agrees(NoFields.fields, F)
    BY DEF NoFields, Agrees
  <1>3. fieldCache \in [Tables -> [hit : BOOLEAN, fields : Seq(Field)]]
    BY DEF Inv, Types
  <1>4. \A t \in Tables : Agrees(fieldCache[t].fields, fields'[t])
    <2> SUFFICES ASSUME NEW t \in Tables
                 PROVE  Agrees(fieldCache[t].fields, fields'[t])
      OBVIOUS
    <2>1. Agrees(fieldCache[t].fields, fields[t]) /\ Grows(fields[t], fields'[t])
      BY DEF Inv, CallsOK, TablesGrow
    <2> QED BY <2>1, NamedGrows DEF Agrees
  <1> HIDE DEF NoFields
  <1> QED BY <1>1, <1>2, <1>3, <1>4, Zenon DEF CacheKept

\* Failures are counted up to their bounds.
LEMMA Faults ==
    ASSUME Types, UNCHANGED faults \/ ApiFails \/ RedisFails
    PROVE  FaultsKept
  <1>1. faults \in [api : 0 .. MaxApiFaults, redis : 0 .. MaxRedisFaults]
        /\ MaxApiFaults \in Nat /\ MaxRedisFaults \in Nat
    BY MappingAssumption DEF Types
  <1> QED BY <1>1 DEF ApiFails, RedisFails, FaultsKept

\* A step of a call that does not end it keeps the invariant.
LEMMA WorkedNext ==
    ASSUME Inv, NEW c \in Calls, Worked(c, fields'[loc[c].table]),
           TablesGrow, CacheKept, FaultsKept,
           UNCHANGED <<mapCache, row, begun, saved>>
    PROVE  Inv'
  <1>1. PICK w \in Places \ {"cache", "done"}, l \in Call :
          /\ Moves(c, w, l)
          /\ l.table = loc[c].table /\ l.old = loc[c].old
          /\ CallOK(w, l, fields'[loc[c].table])
    BY DEF Worked
  <1>2. pc \in [Calls -> Places] /\ loc \in [Calls -> Call]
    BY DEF Inv, Types
  <1>3. /\ pc' \in [Calls -> Places] /\ loc' \in [Calls -> Call]
        /\ pc'[c] = w /\ loc'[c] = l
        /\ \A x \in Calls : x # c => pc'[x] = pc[x] /\ loc'[x] = loc[x]
    BY <1>1, <1>2, ZenonT(40) DEF Moves
  <1>4. Types'
    BY <1>3, ZenonT(40) DEF Inv, Types, TablesGrow, CacheKept, FaultsKept
  <1>5. CallsOK'
    <2>1. ASSUME NEW x \in Calls, x # c
          PROVE  CallOK(pc'[x], loc'[x], fields'[loc'[x].table])
      <3>1. CallOK(pc[x], loc[x], fields[loc[x].table])
        BY DEF Inv, CallsOK
      <3>2. loc[x].table \in Tables
        BY <1>2 DEF Call
      <3>3. Grows(fields[loc[x].table], fields'[loc[x].table])
        BY <3>2 DEF TablesGrow
      <3>4. CallOK(pc[x], loc[x], fields'[loc[x].table])
        BY <3>1, <3>3, CallGrows
      <3> QED BY <1>3, <2>1, <3>4
    <2>2. CallOK(pc'[c], loc'[c], fields'[loc'[c].table])
      BY <1>1, <1>3, ZenonT(40)
    <2> QED BY <2>1, <2>2 DEF CallsOK, CacheKept
  <1>6. SavedOK'
    <2>1. ASSUME NEW x \in Calls
          PROVE  /\ loc'[x].old = loc[x].old
                 /\ pc'[x] \in {"cache", "done"} => x # c
      BY <1>1, <1>3
    <2> QED BY <1>3, <2>1, ZenonT(40) DEF Inv, SavedOK, WereSaved
  <1> QED BY <1>4, <1>5, <1>6 DEF Inv

\* A list of fields is read from the cache.
LEMMA GetCachedFieldsStep ==
    ASSUME Inv, NEW c \in Calls, GetCachedFields(c)
    PROVE  Inv'
  <1>1. /\ Types /\ UNCHANGED <<fields, fieldCache, mapCache, row, begun, saved>>
        /\ loc \in [Calls -> Call] /\ loc[c] \in Call /\ loc[c].table \in Tables
    BY ZenonT(40) DEF Inv, Types, GetCachedFields, Call
  <1> DEFINE t == loc[c].table
  <1>2. /\ CallOK("fields", loc[c], fields[t])
        /\ Agrees(fieldCache[t].fields, fields[t])
        /\ fieldCache[t].fields \in Seq(Field)
    BY <1>1 DEF Inv, CallsOK, GetCachedFields, Types
  <1>3. TablesGrow
    BY <1>1, NoGrowth
  <1>4. CacheKept
    BY <1>1, <1>3, CacheStays
  <1>5. FaultsKept
    BY <1>1, Faults, ZenonT(40) DEF GetCachedFields
  <1>6. CASE Learn(c, fieldCache[t].fields)
    BY <1>1, <1>2, <1>3, <1>4, <1>5, <1>6, LearnWorks, WorkedNext, ZenonT(40)
  <1>7. CASE pc' = [pc EXCEPT ![c] = "fetch"] /\ loc' = loc
    <2>1. Moves(c, "fetch", loc[c])
      BY <1>1, <1>7, ZenonT(40) DEF Moves
    <2>2. CallOK("fetch", loc[c], fields[t])
      BY <1>2, Zenon DEF CallOK
    <2>3. "fetch" \in Places \ {"cache", "done"}
      BY DEF Places
    <2>4. Worked(c, fields'[t])
      BY <1>1, <2>1, <2>2, <2>3 DEF Worked
    <2> QED BY <1>1, <1>3, <1>4, <1>5, <2>4, WorkedNext
  <1> QED BY <1>6, <1>7, ZenonT(40) DEF GetCachedFields, Table, Go

\* A list of fields is fetched from Feishu.
LEMMA FetchFieldsStep ==
    ASSUME Inv, NEW c \in Calls, FetchFields(c)
    PROVE  Inv'
  <1>1. /\ Types /\ UNCHANGED <<fields, fieldCache, mapCache, row, begun, saved>>
        /\ loc \in [Calls -> Call] /\ loc[c] \in Call /\ loc[c].table \in Tables
    BY DEF Inv, Types, FetchFields, Call
  <1> DEFINE t == loc[c].table
             l == loc[c]
  <1>2. CallOK("fetch", l, fields[t]) /\ fields[t] \in Seq(Field)
    BY <1>1 DEF Inv, CallsOK, FetchFields, Types
  <1>3. TablesGrow
    BY <1>1, NoGrowth
  <1>4. CacheKept
    BY <1>1, <1>3, CacheStays
  <1>5. FaultsKept
    BY <1>1, Faults DEF FetchFields
  <1> SUFFICES Worked(c, fields'[t])
    BY <1>1, <1>3, <1>4, <1>5, WorkedNext
  <1>6. {"store", "failed"} \subseteq Places \ {"cache", "done"}
    BY ZenonT(40) DEF Places
  <1>7. CASE loc' = [loc EXCEPT ![c].known = fields[t]]
             /\ pc' = [pc EXCEPT ![c] = "store"]
    <2> DEFINE k == [l EXCEPT !.known = fields[t]]
    <2>1. /\ k \in Call /\ k.known = fields[t] /\ k.kind = l.kind
          /\ k.table = l.table /\ k.map = l.map /\ k.ensure = l.ensure
          /\ k.todo = l.todo /\ k.made = l.made /\ k.errors = l.errors
          /\ k.refused = l.refused /\ k.old = l.old
      <3> HIDE DEF l, t
      <3>1. l \in Call
        BY <1>1 DEF l
      <3> QED BY <1>2, <3>1, Zenon DEF Call
    <2>2. Moves(c, "store", k)
      BY <1>1, <1>7 DEF Moves
    <2>3. Agrees(fields[t], fields[t])
      BY ZenonT(40) DEF Agrees, Named
    <2> HIDE DEF k
    <2>4. CallOK("store", k, fields[t])
      BY <1>2, <2>1, <2>3, ZenonT(40) DEF CallOK, Fresh
    <2> QED BY <1>1, <1>6, <2>1, <2>2, <2>4 DEF Worked
  <1>8. CASE l.ensure /\ GiveUp(c)
    <2>1. l.todo # <<>> /\ Ready(l, fields[t])
      BY <1>2, <1>8, ZenonT(40) DEF CallOK, Fresh, Ready
    <2> QED BY <1>1, <1>8, <2>1, GiveUpWorks, ZenonT(40)
  <1>9. CASE pc' = [pc EXCEPT ![c] = "failed"] /\ loc' = loc
    <2>1. Moves(c, "failed", l)
      BY <1>1, <1>9, ZenonT(40) DEF Moves
    <2>2. CallOK("failed", l, fields[t])
      BY <1>2 DEF CallOK
    <2> QED BY <1>1, <1>6, <2>1, <2>2 DEF Worked
  <1> QED BY <1>7, <1>8, <1>9 DEF FetchFields, Table, Go

\* The fetched list is cached and used.
LEMMA CacheFieldsStep ==
    ASSUME Inv, NEW c \in Calls, CacheFields(c)
    PROVE  Inv'
  <1>1. /\ Types /\ UNCHANGED <<fields, mapCache, row, begun, saved>>
        /\ loc \in [Calls -> Call] /\ loc[c] \in Call /\ loc[c].table \in Tables
        /\ loc[c].known \in Seq(Field)
    BY ZenonT(40) DEF Inv, Types, CacheFields, Call
  <1> DEFINE t == loc[c].table
             l == loc[c]
  <1>2. CallOK("fields", l, fields[t]) /\ Agrees(l.known, fields[t])
    BY <1>1, Zenon DEF Inv, CallsOK, CallOK, CacheFields
  <1>3. TablesGrow
    BY <1>1, NoGrowth
  <1>4. CacheKept
    <2>1. CASE UNCHANGED fieldCache
      BY <1>3, <2>1, CacheStays, ZenonT(40)
    <2>2. CASE fieldCache' = [fieldCache EXCEPT
                                ![t] = [hit |-> TRUE, fields |-> l.known]]
      <3>1. /\ fieldCache \in [Tables -> [hit : BOOLEAN, fields : Seq(Field)]]
            /\ \A x \in Tables : Agrees(fieldCache[x].fields, fields[x])
        BY DEF Inv, Types, CallsOK
      <3> HIDE DEF l, t
      <3>2. l.known \in Seq(Field) /\ t \in Tables
        BY <1>1 DEF l, t
      <3> QED BY <1>1, <1>2, <2>2, <3>1, <3>2, ZenonT(40) DEF CacheKept
    <2> QED BY <2>1, <2>2 DEF CacheFields, Table
  <1>5. FaultsKept
    BY <1>1, Faults DEF CacheFields
  <1>6. Learn(c, l.known)
    BY ZenonT(40) DEF CacheFields
  <1>7. Worked(c, fields'[t])
    BY <1>1, <1>2, <1>6, LearnWorks
  <1> QED BY <1>1, <1>3, <1>4, <1>5, <1>7, WorkedNext, ZenonT(40)

\* A new field lets its table grow.
LEMMA AppendGrows ==
    ASSUME Types, NEW t \in Tables, NEW f \in Field,
           fields' = [fields EXCEPT ![t] = Append(@, f)]
    PROVE  /\ TablesGrow
           /\ Len(fields'[t]) \in Nat
           /\ Named(fields'[t], Len(fields'[t]), f.name)
  <1>1. /\ fields \in [Tables -> Seq(Field)] /\ fields[t] \in Seq(Field)
        /\ fields'[t] = Append(fields[t], f)
        /\ \A x \in Tables : x # t => fields'[x] = fields[x]
    BY DEF Types
  <1> DEFINE F == fields[t]
             G == Append(F, f)
  <1>2. F \in Seq(Field) /\ fields'[t] = G
    BY <1>1
  <1> HIDE DEF F
  <1>3. /\ G \in Seq(Field) /\ Len(G) = Len(F) + 1 /\ Len(F) \in Nat
        /\ DOMAIN F = 1 .. Len(F) /\ DOMAIN G = 1 .. Len(G)
        /\ G[Len(G)] = f /\ \A i \in 1 .. Len(F) : G[i] = F[i]
    BY <1>2
  <1> HIDE DEF G
  <1>4. Grows(F, G) /\ Named(G, Len(G), f.name) /\ Len(G) \in Nat
    BY <1>3 DEF Grows, Named
  <1>5. \A x \in Tables : x # t => Grows(fields[x], fields'[x])
    BY <1>1 DEF Grows, Named
  <1>6. fields' \in [Tables -> Seq(Field)]
    <2>1. Append(fields[t], f) \in Seq(Field)
      BY <1>1
    <2> QED BY <1>1, <2>1
  <1> QED BY <1>2, <1>4, <1>5, <1>6, Zenon DEF TablesGrow, F

\* An update of a field keeps its name.
LEMMA UpdateGrows ==
    ASSUME Types, NEW t \in Tables, NEW i \in DOMAIN fields[t],
           fields' = [fields EXCEPT ![t][i].match = TRUE]
    PROVE  TablesGrow
  <1>1. /\ fields \in [Tables -> Seq(Field)] /\ fields[t] \in Seq(Field)
    BY DEF Types
  <1> DEFINE F == fields[t]
             g == [F[i] EXCEPT !.match = TRUE]
             G == [F EXCEPT ![i] = g]
  <1>2. /\ fields'[t] = G
        /\ \A x \in Tables : x # t => fields'[x] = fields[x]
        /\ fields' = [fields EXCEPT ![t] = G]
    BY <1>1
  <1>3. F \in Seq(Field) /\ i \in DOMAIN F
    BY <1>1
  <1> HIDE DEF F
  <1>4. F[i] \in Field
    BY <1>3
  <1>5. g \in Field /\ g.name = F[i].name
    BY <1>4, Zenon DEF Field
  <1> HIDE DEF g
  <1>6. /\ G \in Seq(Field) /\ DOMAIN G = DOMAIN F
        /\ G[i] = g /\ \A j \in DOMAIN F : j # i => G[j] = F[j]
    BY <1>3, <1>5
  <1> HIDE DEF G
  <1>7. Grows(F, G)
    BY <1>5, <1>6 DEF Grows, Named
  <1>8. \A x \in Tables : x # t => Grows(fields[x], fields'[x])
    BY <1>2 DEF Grows, Named
  <1>9. fields' \in [Tables -> Seq(Field)]
    BY <1>1, <1>2, <1>6, ZenonT(40)
  <1> QED BY <1>2, <1>7, <1>8, <1>9, Zenon DEF TablesGrow, F

\* A call that is right at its place is ready to go on in a table that grew.
LEMMA ReadyLater ==
    ASSUME Inv, TablesGrow, NEW c \in Calls,
           pc[c] \in {"create", "drop", "update", "clear"}
    PROVE  LET l == loc[c]
               G == fields'[l.table]
           IN /\ loc \in [Calls -> Call] /\ l \in Call /\ l.table \in Tables
              /\ CallOK(pc[c], l, fields[l.table])
              /\ CallOK(pc[c], l, G)
              /\ l.todo # <<>> /\ Ready(l, G)
              /\ pc[c] # "create" => Named(fields[l.table], l.id, Head(l.todo))
              /\ pc[c] # "create" => Named(G, l.id, Head(l.todo))
  <1>1. loc \in [Calls -> Call] /\ loc[c] \in Call /\ loc[c].table \in Tables
    BY ZenonT(40) DEF Inv, Types, Call
  <1>2. CallOK(pc[c], loc[c], fields[loc[c].table])
    BY ZenonT(40) DEF Inv, CallsOK
  <1>3. CallOK(pc[c], loc[c], fields'[loc[c].table])
    BY <1>1, <1>2, CallGrows DEF TablesGrow
  <1> QED BY <1>1, <1>2, <1>3, ZenonT(40) DEF CallOK

\* The POST of createTableField.
LEMMA CreateFieldStep ==
    ASSUME Inv, NEW c \in Calls, CreateField(c)
    PROVE  Inv'
  <1> DEFINE l == loc[c]
             t == l.table
             d == Head(l.todo)
             new == [name |-> d, match |-> d \in AsTemplate]
             grown == [fields EXCEPT ![t] = Append(@, new)]
  <1>1. /\ Types /\ UNCHANGED <<fieldCache, mapCache, row, begun, saved>>
        /\ pc[c] = "create"
        /\ l \in Call /\ t \in Tables /\ l.todo # <<>>
    BY ZenonT(40) DEF Inv, Types, CreateField, Call, CallsOK, CallOK
  <1>2. new \in Field /\ new.name = d
    <2>1. l.todo \in Seq(DoubanFields) /\ l.todo # <<>>
      BY <1>1 DEF Call
    <2> HIDE DEF l
    <2>2. d \in DoubanFields
      BY <2>1
    <2> QED BY <2>2 DEF Field
  <1>3. \/ /\ fields' = grown
           /\ loc' = [loc EXCEPT ![c].id = Len(fields'[t])]
           /\ pc' = [pc EXCEPT ![c] = "drop"]
           /\ UNCHANGED faults
        \/ fields' = grown /\ GiveUp(c) /\ ApiFails
        \/ UNCHANGED fields /\ GiveUp(c) /\ (UNCHANGED faults \/ ApiFails)
    BY Zenon DEF CreateField, Table, Go
  <1> HIDE DEF new
  <1>4. /\ TablesGrow
        /\ fields' = grown => /\ Len(fields'[t]) \in Nat
                              /\ Named(fields'[t], Len(fields'[t]), d)
    BY <1>1, <1>2, <1>3, NoGrowth, AppendGrows, ZenonT(40)
  <1>5. CacheKept /\ FaultsKept
    BY <1>1, <1>3, <1>4, CacheStays, Faults, ZenonT(40)
  <1> SUFFICES Worked(c, fields'[t])
    BY <1>1, <1>4, <1>5, WorkedNext, ZenonT(40)
  <1>6. l.todo # <<>> /\ Ready(l, fields'[t]) /\ CallOK("create", l, fields'[t])
        /\ loc \in [Calls -> Call]
    BY <1>1, <1>4, ReadyLater, ZenonT(40)
  <1>7. CASE GiveUp(c)
    BY <1>1, <1>6, <1>7, GiveUpWorks, ZenonT(40)
  <1>8. CASE /\ fields' = grown
             /\ loc' = [loc EXCEPT ![c].id = Len(fields'[t])]
             /\ pc' = [pc EXCEPT ![c] = "drop"]
    <2> DEFINE n == Len(fields'[t])
               k == [l EXCEPT !.id = n]
    <2>1. n \in Nat /\ Named(fields'[t], n, d)
      BY <1>4, <1>8
    <2>2. Moves(c, "drop", k)
      BY <1>6, <1>8 DEF Moves
    <2> HIDE DEF n
    <2>3. /\ k \in Call /\ k.id = n /\ k.kind = l.kind /\ k.table = l.table
          /\ k.map = l.map /\ k.ensure = l.ensure /\ k.plan = l.plan
          /\ k.todo = l.todo /\ k.made = l.made /\ k.errors = l.errors
          /\ k.refused = l.refused /\ k.known = l.known /\ k.old = l.old
      <3>1. l \in Call
        BY <1>1
      <3> HIDE DEF l
      <3> QED BY <2>1, <3>1, Zenon DEF Call
    <2> HIDE DEF k
    <2>4. Ready(k, fields'[t])
      BY <1>6, <2>3, ZenonT(40) DEF Ready, Planned
    <2>5. CallOK("drop", k, fields'[t])
      BY <1>6, <2>1, <2>3, <2>4, ZenonT(40) DEF CallOK, Fresh
    <2>6. "drop" \in Places \ {"cache", "done"}
      BY DEF Places
    <2> QED BY <2>2, <2>3, <2>5, <2>6 DEF Worked
  <1> QED BY <1>3, <1>7, <1>8

\* The cache is cleared after a creation.
LEMMA DropCacheStep ==
    ASSUME Inv, NEW c \in Calls, DropCache(c)
    PROVE  Inv'
  <1> DEFINE l == loc[c]
             t == l.table
  <1>1. /\ Types /\ UNCHANGED <<fields, mapCache, row, begun, saved>>
        /\ pc[c] = "drop" /\ l \in Call /\ t \in Tables
    BY Zenon DEF Inv, Types, DropCache, Call
  <1>2. TablesGrow
    BY <1>1, NoGrowth, ZenonT(40)
  <1>3. CacheKept
    BY <1>1, <1>2, CacheStays DEF DropCache, Table
  <1>4. FaultsKept
    BY <1>1, Faults, ZenonT(40) DEF DropCache
  <1>5. /\ l.todo # <<>> /\ Ready(l, fields'[t])
        /\ Named(fields'[t], l.id, Head(l.todo))
    BY <1>1, <1>2, ReadyLater
  <1>6. Succeed(c) \/ GiveUp(c)
    BY ZenonT(40) DEF DropCache
  <1>7. Worked(c, fields'[t])
    BY <1>1, <1>5, <1>6, SucceedWorks, GiveUpWorks, ZenonT(40)
  <1> QED BY <1>1, <1>2, <1>3, <1>4, <1>7, WorkedNext, ZenonT(40)

\* The PUT of updateFieldInternal.
LEMMA UpdateFieldStep ==
    ASSUME Inv, NEW c \in Calls, UpdateField(c)
    PROVE  Inv'
  <1> DEFINE l == loc[c]
             t == l.table
             updated == [fields EXCEPT ![t][l.id].match = TRUE]
  <1>1. /\ Types /\ UNCHANGED <<fieldCache, mapCache, row, begun, saved>>
        /\ pc[c] = "update" /\ l \in Call /\ t \in Tables
        /\ l.id \in DOMAIN fields[t]
    BY ZenonT(40) DEF Inv, Types, UpdateField, Call, CallsOK, CallOK, Named
  <1>2. \/ /\ fields' = updated /\ pc' = [pc EXCEPT ![c] = "clear"]
           /\ UNCHANGED <<loc, faults>>
        \/ /\ fields' = updated \/ UNCHANGED fields
           /\ ApiFails /\ GiveUp(c)
    BY DEF UpdateField, Table, Go
  <1>3. TablesGrow
    BY <1>1, <1>2, NoGrowth, UpdateGrows, ZenonT(40)
  <1>4. CacheKept /\ FaultsKept
    BY <1>1, <1>2, <1>3, CacheStays, Faults, ZenonT(40)
  <1> SUFFICES Worked(c, fields'[t])
    BY <1>1, <1>3, <1>4, WorkedNext, ZenonT(40)
  <1>5. /\ l.todo # <<>> /\ Ready(l, fields'[t])
        /\ Named(fields'[t], l.id, Head(l.todo))
        /\ CallOK("update", l, fields'[t]) /\ loc \in [Calls -> Call]
    BY <1>1, <1>3, ReadyLater, ZenonT(40)
  <1>6. CASE GiveUp(c)
    BY <1>1, <1>5, <1>6, GiveUpWorks, ZenonT(40)
  <1>7. CASE pc' = [pc EXCEPT ![c] = "clear"] /\ UNCHANGED loc
    <2>1. Moves(c, "clear", l)
      BY <1>5, <1>7, ZenonT(40) DEF Moves
    <2>2. CallOK("clear", l, fields'[t])
      BY <1>5, Zenon DEF CallOK
    <2>3. "clear" \in Places \ {"cache", "done"}
      BY ZenonT(40) DEF Places
    <2> QED BY <1>1, <2>1, <2>2, <2>3, ZenonT(40) DEF Worked
  <1> QED BY <1>2, <1>6, <1>7

\* The cache is cleared after an update.
LEMMA ClearFieldCacheStep ==
    ASSUME Inv, NEW c \in Calls, ClearFieldCache(c)
    PROVE  Inv'
  <1> DEFINE l == loc[c]
             t == l.table
  <1>1. /\ Types /\ UNCHANGED <<fields, mapCache, row, begun, saved>>
        /\ pc[c] = "clear" /\ l \in Call /\ t \in Tables
    BY Zenon DEF Inv, Types, ClearFieldCache, Call
  <1>2. TablesGrow
    BY <1>1, NoGrowth
  <1>3. CacheKept
    BY <1>1, <1>2, CacheStays DEF ClearFieldCache, Table
  <1>4. FaultsKept
    BY <1>1, Faults, ZenonT(40) DEF ClearFieldCache
  <1>5. /\ l.todo # <<>> /\ Ready(l, fields'[t])
        /\ Named(fields'[t], l.id, Head(l.todo))
    BY <1>1, <1>2, ReadyLater
  <1>6. Succeed(c)
    BY ZenonT(40) DEF ClearFieldCache
  <1>7. Worked(c, fields'[t])
    BY <1>1, <1>5, <1>6, SucceedWorks, ZenonT(40)
  <1> QED BY <1>1, <1>2, <1>3, <1>4, <1>7, WorkedNext, ZenonT(40)

\* A step of a call that leaves the fields: what it must show of the saved
\* mappings.
LEMMA MovedNext ==
    ASSUME Inv, NEW c \in Calls, NEW w \in Places, NEW l \in Call,
           Moves(c, w, l), CallOK(w, l, fields[l.table]),
           UNCHANGED <<fields, fieldCache>>, FaultsKept,
           begun' \in 0 .. MaxCalls,
           mapCache' \in [Tables -> [hit : BOOLEAN, map : Mapping]],
           row' \in [there : BOOLEAN, maps : Mappings],
           saved' \in [Tables -> SUBSET Mapping],
           \A t \in Tables : saved[t] \subseteq saved'[t],
           \A t \in Tables : mapCache'[t].hit => mapCache'[t].map \in saved'[t],
           \A t \in DOMAIN row'.maps : row'.maps[t] \in saved'[t],
           \A t \in DOMAIN l.old : l.old[t] \in saved'[t],
           w \in {"cache", "done"} => l.map \in saved'[l.table]
    PROVE  Inv'
  <1>1. pc \in [Calls -> Places] /\ loc \in [Calls -> Call]
    BY ZenonT(40) DEF Inv, Types
  <1>2. /\ pc' \in [Calls -> Places] /\ loc' \in [Calls -> Call]
        /\ pc'[c] = w /\ loc'[c] = l
        /\ \A x \in Calls : x # c => pc'[x] = pc[x] /\ loc'[x] = loc[x]
    BY <1>1, ZenonT(40) DEF Moves
  <1>3. Types'
    BY <1>2, ZenonT(40) DEF Inv, Types, FaultsKept
  <1>4. CallsOK'
    BY <1>2, ZenonT(40) DEF Inv, CallsOK
  <1>5. ASSUME NEW x \in Calls
        PROVE  /\ \A t \in DOMAIN loc'[x].old : loc'[x].old[t] \in saved'[t]
               /\ pc'[x] \in {"cache", "done"} =>
                    loc'[x].map \in saved'[loc'[x].table]
    <2>1. CASE x = c
      BY <1>2, <2>1, ZenonT(40)
    <2>2. CASE x # c
      <3>1. /\ \A t \in DOMAIN loc[x].old : loc[x].old[t] \in saved[t]
            /\ pc[x] \in {"cache", "done"} => loc[x].map \in saved[loc[x].table]
        BY DEF Inv, SavedOK, WereSaved
      <3>2. loc[x].table \in Tables /\ loc[x].old \in Mappings
        BY <1>1, ZenonT(40) DEF Call
      <3>3. DOMAIN loc[x].old \subseteq Tables
        BY <3>2 DEF Mappings
      <3> QED BY <1>2, <2>2, <3>1, <3>2, <3>3, ZenonT(40)
    <2> QED BY <2>1, <2>2, ZenonT(40)
  <1>6. SavedOK'
    BY <1>5, ZenonT(40) DEF SavedOK, WereSaved
  <1> QED BY <1>3, <1>4, <1>6, ZenonT(40) DEF Inv

\* What the invariant says of one call and of the saved mappings.
LEMMA InvCall ==
    ASSUME Inv, NEW c \in Calls
    PROVE  LET l == loc[c] IN
           /\ l \in Call /\ l.table \in Tables /\ l.map \in Mapping
           /\ loc \in [Calls -> Call]
           /\ CallOK(pc[c], l, fields[l.table])
           /\ \A t \in DOMAIN l.old : l.old[t] \in saved[t]
           /\ pc[c] \in {"cache", "done"} => l.map \in saved[l.table]
  BY ZenonT(40) DEF Inv, Types, CallsOK, SavedOK, WereSaved, Call

\* The same of what all calls share.
LEMMA InvShared ==
    ASSUME Inv
    PROVE  /\ mapCache \in [Tables -> [hit : BOOLEAN, map : Mapping]]
           /\ row \in [there : BOOLEAN, maps : Mappings]
           /\ saved \in [Tables -> SUBSET Mapping]
           /\ begun \in 0 .. MaxCalls
           /\ \A t \in Tables : mapCache[t].hit => mapCache[t].map \in saved[t]
           /\ \A t \in DOMAIN row.maps : row.maps[t] \in saved[t]
           /\ row.maps \in Mappings /\ DOMAIN row.maps \subseteq Tables
  <1>1. row.maps \in Mappings
    BY DEF Inv, Types
  <1>2. DOMAIN row.maps \subseteq Tables
    BY <1>1 DEF Mappings
  <1> QED BY <1>1, <1>2 DEF Inv, Types, SavedOK, WereSaved

\* The mappings of the row are read.
LEMMA ReadRowStep ==
    ASSUME Inv, NEW c \in Calls, ReadRow(c)
    PROVE  Inv'
  <1> DEFINE l == loc[c]
             k == [l EXCEPT !.old = row.maps]
  <1>1. /\ l \in Call /\ loc \in [Calls -> Call] /\ pc[c] = "read"
        /\ CallOK("read", l, fields[l.table])
        /\ \A t \in DOMAIN l.old : l.old[t] \in saved[t]
    BY InvCall DEF ReadRow
  <1>2. /\ UNCHANGED <<fields, fieldCache, mapCache, row, begun, saved>>
        /\ FaultsKept
    BY Faults DEF ReadRow, Inv
  <1>3. {"write", "failed"} \subseteq Places
    BY ZenonT(40) DEF Places
  <1>4. CASE loc' = [loc EXCEPT ![c].old = row.maps]
             /\ pc' = [pc EXCEPT ![c] = "write"]
    <2>1. Moves(c, "write", k)
      BY <1>1, <1>4 DEF Moves
    <2>2. /\ k \in Call /\ k.old = row.maps /\ k.kind = l.kind
          /\ k.table = l.table /\ k.map = l.map /\ k.ensure = l.ensure
          /\ k.made = l.made /\ k.errors = l.errors
          /\ k.refused = l.refused /\ k.known = l.known
      <3> HIDE DEF l
      <3> QED BY <1>1, InvShared, ZenonT(40) DEF Call
    <2> HIDE DEF k, l
    <2>3. CallOK("write", k, fields[l.table])
      BY <1>1, <2>2, ZenonT(40) DEF CallOK, Reported, Fresh
    <2> QED BY <1>2, <1>3, <2>1, <2>2, <2>3, InvShared, MovedNext
  <1>5. CASE pc' = [pc EXCEPT ![c] = "failed"] /\ loc' = loc
    <2>1. Moves(c, "failed", l)
      BY <1>1, <1>5, ZenonT(40) DEF Moves
    <2>2. CallOK("failed", l, fields[l.table])
      BY <1>1, ZenonT(40) DEF CallOK
    <2> HIDE DEF l
    <2> QED BY <1>1, <1>2, <1>3, <2>1, <2>2, InvShared, MovedNext
  <1> QED BY <1>4, <1>5 DEF ReadRow, Go

\* The mapping is saved.
LEMMA SaveMappingsStep ==
    ASSUME Inv, NEW c \in Calls, SaveMappings(c)
    PROVE  Inv'
  <1> DEFINE l == loc[c]
             t == l.table
             base == IF row.there THEN l.old ELSE NoMaps
             maps == Put(base, t, l.map)
  <1>1. /\ l \in Call /\ t \in Tables /\ l.map \in Mapping /\ pc[c] = "write"
        /\ loc \in [Calls -> Call] /\ CallOK("write", l, fields[t])
        /\ \A x \in DOMAIN l.old : l.old[x] \in saved[x]
    BY InvCall, ZenonT(40) DEF SaveMappings
  <1>2. /\ UNCHANGED <<fields, fieldCache, mapCache, loc, begun>>
        /\ FaultsKept
    BY Faults DEF SaveMappings, Inv
  <1>3. {"cache", "failed"} \subseteq Places
    BY DEF Places
  <1>4. CASE /\ row' = [there |-> TRUE, maps |-> maps]
             /\ saved' = [saved EXCEPT ![t] = @ \cup {l.map}]
             /\ pc' = [pc EXCEPT ![c] = "cache"]
    <2>1. Moves(c, "cache", l)
      BY <1>1, <1>2, <1>4, ZenonT(40) DEF Moves
    <2>2. CallOK("cache", l, fields[t])
      BY <1>1, ZenonT(40) DEF CallOK
    <2>3. /\ base \in Mappings /\ DOMAIN base \subseteq Tables
          /\ \A x \in DOMAIN base : base[x] \in saved[x]
      <3>1. l.old \in Mappings
        BY <1>1, ZenonT(40) DEF Call
      <3>2. base \in Mappings /\ \A x \in DOMAIN base : base[x] \in saved[x]
        <4> HIDE DEF l
        <4> QED BY <1>1, <3>1, Nothing, ZenonT(40)
      <3> HIDE DEF base
      <3> QED BY <3>2, ZenonT(40) DEF Mappings
    <2> HIDE DEF base, l, t
    <2>4. /\ maps \in Mappings /\ DOMAIN maps = DOMAIN base \cup {t}
          /\ maps[t] = l.map
          /\ \A x \in DOMAIN base : x # t => maps[x] = base[x]
      <3>1. maps \in Mappings
        BY <1>1, <2>3, PutMappings, ZenonT(40)
      <3> QED BY <3>1, ZenonT(40) DEF Put
    <2>5. /\ saved' \in [Tables -> SUBSET Mapping]
          /\ l.map \in saved'[t]
          /\ \A x \in Tables : saved[x] \subseteq saved'[x]
      BY <1>1, <1>4, InvShared, ZenonT(40)
    <2> HIDE DEF maps
    <2>6. /\ row' \in [there : BOOLEAN, maps : Mappings]
          /\ \A x \in DOMAIN row'.maps : row'.maps[x] \in saved'[x]
      BY <1>4, <2>3, <2>4, <2>5, ZenonT(40)
    <2>7. /\ \A x \in Tables : mapCache'[x].hit => mapCache'[x].map \in saved'[x]
          /\ mapCache' \in [Tables -> [hit : BOOLEAN, map : Mapping]]
          /\ begun' \in 0 .. MaxCalls
      BY <1>2, <2>5, InvShared, ZenonT(40)
    <2>8. \A x \in DOMAIN l.old : l.old[x] \in saved'[x]
      <3>1. DOMAIN l.old \subseteq Tables
        BY <1>1 DEF Call, Mappings
      <3> QED BY <1>1, <2>5, <3>1, ZenonT(40)
    <2> QED BY <1>1, <1>2, <1>3, <2>1, <2>2, <2>5, <2>6, <2>7, <2>8,
               MovedNext, ZenonT(40) DEF t
  <1>5. CASE pc' = [pc EXCEPT ![c] = "failed"] /\ UNCHANGED <<row, saved>>
    <2>1. Moves(c, "failed", l)
      BY <1>1, <1>2, <1>5, ZenonT(40) DEF Moves
    <2>2. CallOK("failed", l, fields[t])
      BY <1>1, ZenonT(40) DEF CallOK
    <2> HIDE DEF l
    <2> QED BY <1>1, <1>2, <1>3, <1>5, <2>1, <2>2, InvShared, MovedNext, ZenonT(40)
  <1> QED BY <1>4, <1>5, ZenonT(40) DEF SaveMappings, Go, Table

\* The saved mapping is cached.
LEMMA CacheMappingsStep ==
    ASSUME Inv, NEW c \in Calls, CacheMappings(c)
    PROVE  Inv'
  <1> DEFINE l == loc[c]
             t == l.table
  <1>1. /\ l \in Call /\ t \in Tables /\ l.map \in Mapping /\ pc[c] = "cache"
        /\ loc \in [Calls -> Call] /\ CallOK("cache", l, fields[t])
        /\ \A x \in DOMAIN l.old : l.old[x] \in saved[x]
        /\ l.map \in saved[t]
    BY InvCall DEF CacheMappings
  <1>2. /\ UNCHANGED <<fields, fieldCache, row, loc, begun, saved>>
        /\ FaultsKept /\ pc' = [pc EXCEPT ![c] = "done"]
        /\ \/ mapCache' = [mapCache EXCEPT ![t] = [hit |-> TRUE, map |-> l.map]]
           \/ UNCHANGED mapCache
    BY Faults DEF CacheMappings, Inv, Go, Table
  <1>3. "done" \in Places
    BY DEF Places
  <1>4. Moves(c, "done", l)
    BY <1>1, <1>2, ZenonT(40) DEF Moves
  <1>5. CallOK("done", l, fields[t])
    BY <1>1, ZenonT(40) DEF CallOK
  <1> HIDE DEF l, t
  <1>6. /\ mapCache' \in [Tables -> [hit : BOOLEAN, map : Mapping]]
        /\ \A x \in Tables : mapCache'[x].hit => mapCache'[x].map \in saved'[x]
    <2>1. /\ mapCache \in [Tables -> [hit : BOOLEAN, map : Mapping]]
          /\ \A x \in Tables : mapCache[x].hit => mapCache[x].map \in saved[x]
      BY InvShared, ZenonT(40)
    <2>2. CASE UNCHANGED mapCache
      BY <1>2, <2>1, <2>2, ZenonT(40)
    <2>3. CASE mapCache' = [mapCache EXCEPT ![t] = [hit |-> TRUE, map |-> l.map]]
      BY <1>1, <1>2, <2>1, <2>3
    <2> QED BY <1>2, <2>2, <2>3, ZenonT(40)
  <1> QED BY <1>1, <1>2, <1>3, <1>4, <1>5, <1>6, InvShared, MovedNext, ZenonT(40)
          DEF t

\* A cached mapping is served.
LEMMA GetCachedMappingsStep ==
    ASSUME Inv, NEW c \in Calls, GetCachedMappings(c)
    PROVE  Inv'
  <1> DEFINE l == loc[c]
             t == l.table
             m == mapCache[t].map
             k == [l EXCEPT !.map = m]
  <1>1. /\ l \in Call /\ t \in Tables /\ pc[c] = "cached"
        /\ loc \in [Calls -> Call] /\ CallOK("cached", l, fields[t])
        /\ \A x \in DOMAIN l.old : l.old[x] \in saved[x]
    BY InvCall DEF GetCachedMappings
  <1>2. /\ UNCHANGED <<fields, fieldCache, mapCache, row, begun, saved>>
        /\ FaultsKept
    BY Faults DEF GetCachedMappings, Inv
  <1>3. {"done", "query"} \subseteq Places
    BY ZenonT(40) DEF Places
  <1>4. CASE /\ mapCache[t].hit
             /\ loc' = [loc EXCEPT ![c].map = m]
             /\ pc' = [pc EXCEPT ![c] = "done"]
    <2>1. Moves(c, "done", k)
      BY <1>1, <1>4 DEF Moves
    <2>2. m \in Mapping /\ m \in saved[t]
      BY <1>1, <1>4, InvShared
    <2> HIDE DEF l, m
    <2>3. /\ k \in Call /\ k.old = l.old /\ k.kind = l.kind
          /\ k.table = l.table /\ k.map = m /\ k.ensure = l.ensure
          /\ k.made = l.made /\ k.errors = l.errors
          /\ k.refused = l.refused /\ k.known = l.known
      BY <1>1, <2>2, ZenonT(40) DEF Call
    <2> HIDE DEF k
    <2>4. CallOK("done", k, fields[t])
      BY <1>1, <2>3, ZenonT(40) DEF CallOK, Fresh
    <2> QED BY <1>1, <1>2, <1>3, <2>1, <2>2, <2>3, <2>4, InvShared, MovedNext, ZenonT(40)
  <1>5. CASE pc' = [pc EXCEPT ![c] = "query"] /\ loc' = loc
    <2>1. Moves(c, "query", l)
      BY <1>1, <1>5, ZenonT(40) DEF Moves
    <2>2. CallOK("query", l, fields[t])
      BY <1>1, Zenon DEF CallOK
    <2> HIDE DEF l
    <2> QED BY <1>1, <1>2, <1>3, <2>1, <2>2, InvShared, MovedNext, ZenonT(40)
  <1> QED BY <1>4, <1>5 DEF GetCachedMappings, Go, Table

\* The mapping of the row is used, or configured anew by a sync.
LEMMA GetFieldMappingsStep ==
    ASSUME Inv, NEW c \in Calls, GetFieldMappings(c)
    PROVE  Inv'
  <1> DEFINE l == loc[c]
             t == l.table
  <1>1. /\ l \in Call /\ t \in Tables /\ pc[c] = "query"
        /\ loc \in [Calls -> Call] /\ CallOK("query", l, fields[t])
        /\ \A x \in DOMAIN l.old : l.old[x] \in saved[x]
    BY InvCall DEF GetFieldMappings
  <1>2. /\ UNCHANGED <<fields, fieldCache, mapCache, row, begun, saved>>
        /\ FaultsKept
    BY Faults DEF GetFieldMappings, Inv
  <1>3. {"cache", "fields", "failed"} \subseteq Places
    BY ZenonT(40) DEF Places
  <1>4. CASE /\ t \in DOMAIN row.maps
             /\ loc' = [loc EXCEPT ![c].map = row.maps[t]]
             /\ pc' = [pc EXCEPT ![c] = "cache"]
    <2> DEFINE m == row.maps[t]
               k == [l EXCEPT !.map = m]
    <2>1. Moves(c, "cache", k)
      BY <1>1, <1>4 DEF Moves
    <2>2. m \in Mapping /\ m \in saved[t]
      <3>1. m \in saved[t] /\ saved[t] \subseteq Mapping
        BY <1>1, <1>4, InvShared
      <3> QED BY <3>1
    <2> HIDE DEF l, m
    <2>3. /\ k \in Call /\ k.old = l.old /\ k.kind = l.kind
          /\ k.table = l.table /\ k.map = m /\ k.ensure = l.ensure
          /\ k.made = l.made /\ k.errors = l.errors
          /\ k.refused = l.refused /\ k.known = l.known
      BY <1>1, <2>2, ZenonT(40) DEF Call
    <2> HIDE DEF k
    <2>4. CallOK("cache", k, fields[t])
      BY <1>1, <2>3, ZenonT(40) DEF CallOK, Fresh
    <2> QED BY <1>1, <1>2, <1>3, <2>1, <2>2, <2>3, <2>4, InvShared, MovedNext, ZenonT(40)
  <1>5. CASE /\ l.kind = "sync"
             /\ loc' = [loc EXCEPT ![c].kind = "auto"]
             /\ pc' = [pc EXCEPT ![c] = "fields"]
    <2> DEFINE k == [l EXCEPT !.kind = "auto"]
    <2>1. Moves(c, "fields", k)
      BY <1>1, <1>5 DEF Moves
    <2>2. l.kind = "sync"
      BY <1>5
    <2> HIDE DEF l
    <2>3. /\ k \in Call /\ k.old = l.old /\ k.kind = "auto"
          /\ k.table = l.table /\ k.map = l.map /\ k.ensure = l.ensure
          /\ k.made = l.made /\ k.errors = l.errors
          /\ k.refused = l.refused /\ k.known = l.known
      BY <1>1, ZenonT(40) DEF Call
    <2> HIDE DEF k
    <2>4. CallOK("fields", k, fields[t])
      BY <1>1, <2>2, <2>3, ZenonT(40) DEF CallOK, Fresh
    <2> QED BY <1>1, <1>2, <1>3, <2>1, <2>3, <2>4, InvShared, MovedNext, ZenonT(40)
  <1>6. CASE pc' = [pc EXCEPT ![c] = "failed"] /\ loc' = loc
    <2>1. Moves(c, "failed", l)
      BY <1>1, <1>6, ZenonT(40) DEF Moves
    <2>2. CallOK("failed", l, fields[t])
      BY <1>1, ZenonT(40) DEF CallOK
    <2> HIDE DEF l
    <2> QED BY <1>1, <1>2, <1>3, <2>1, <2>2, InvShared, MovedNext, ZenonT(40)
  <1> QED BY <1>4, <1>5, <1>6 DEF GetFieldMappings, Go, Table

\* A call of a mapping that may be used starts right.
LEMMA NewCallIs ==
    ASSUME NEW k \in {"auto", "enhanced", "set", "get", "sync", "none"},
           NEW t \in Tables, NEW m \in Mapping, NEW F, NEW w,
           \/ w = "fields" /\ k \in {"auto", "enhanced"} /\ m = NoMap
           \/ w \in {"idle", "read", "failed"} /\ k \in {"set", "none"}
           \/ w = "cached" /\ k \in {"get", "sync"}
    PROVE  /\ NewCall(k, t, m) \in Call
           /\ NewCall(k, t, m).table = t
           /\ NewCall(k, t, m).old = NoMaps
           /\ CallOK(w, NewCall(k, t, m), F)
  <1> DEFINE l == NewCall(k, t, m)
  <1>1. l \in Call
    <2>1. <<>> \in Seq(DoubanFields) /\ <<>> \in Seq(Nat) /\ <<>> \in Seq(Field)
          /\ {} \in SUBSET DoubanFields /\ 0 \in Nat
      BY SMTT(30)
    <2> QED BY <2>1, Nothing DEF NewCall, Call
  <1>2. /\ l.kind = k /\ l.table = t /\ l.map = m /\ l.ensure = FALSE
        /\ l.made = <<>> /\ l.errors = {} /\ l.refused = FALSE
        /\ l.known = <<>> /\ l.old = NoMaps
    BY DEF NewCall
  <1>3. Agrees(<<>>, F) /\ (m = NoMap => Right(m, F))
    BY Nothing, SMTT(30) DEF Agrees, Right
  <1> HIDE DEF l
  <1>4. CallOK(w, l, F)
    BY <1>2, <1>3, ZenonT(40) DEF CallOK, Fresh
  <1> QED BY <1>1, <1>2, <1>4, ZenonT(40) DEF l

\* A request begins.
LEMMA BeginStep ==
    ASSUME Inv, NEW c \in Calls, Begin(c)
    PROVE  Inv'
  <1>1. /\ UNCHANGED <<fields, fieldCache, mapCache, row, faults, saved>>
        /\ begun' \in 0 .. MaxCalls
    BY MappingAssumption DEF Begin, Inv, Types
  <1>2. PICK t \in Tables :
          \/ \E k \in {"auto", "enhanced"} :
               Moves(c, "fields", NewCall(k, t, NoMap))
          \/ \E m \in SetInputs :
               Moves(c, IF Valid(m) THEN "read" ELSE "failed",
                     NewCall("set", t, IF Valid(m) THEN m ELSE NoMap))
          \/ \E k \in {"get", "sync"} :
               Moves(c, "cached", NewCall(k, t, NoMap))
    BY DEF Begin, Moves, Go
  <1>3. PICK k \in {"auto", "enhanced", "set", "get", "sync", "none"},
             m \in Mapping, w \in {"fields", "read", "failed", "cached"} :
          /\ Moves(c, w, NewCall(k, t, m))
          /\ \/ w = "fields" /\ k \in {"auto", "enhanced"} /\ m = NoMap
             \/ w \in {"idle", "read", "failed"} /\ k \in {"set", "none"}
             \/ w = "cached" /\ k \in {"get", "sync"}
    <2>1. ASSUME NEW m \in SetInputs, Valid(m) PROVE m \in Mapping
      BY <2>1, MappingAssumption, MappingIs, ZenonT(40) DEF Valid, IsMapping
    <2> QED BY <1>2, <2>1, Nothing
  <1> DEFINE l == NewCall(k, t, m)
  <1>4. /\ l \in Call /\ l.table = t /\ l.old = NoMaps
        /\ CallOK(w, l, fields[t])
    BY <1>3, NewCallIs
  <1>5. w \in Places /\ w \notin {"cache", "done"}
    BY DEF Places
  <1>6. Moves(c, w, l)
    BY <1>3, ZenonT(40)
  <1> HIDE DEF l
  <1>7. \A x \in DOMAIN l.old : l.old[x] \in saved'[x]
    BY <1>4, Nothing
  <1>8. FaultsKept
    BY <1>1, Faults DEF Inv
  <1> QED BY <1>1, <1>4, <1>5, <1>6, <1>7, <1>8, InvShared, MovedNext, ZenonT(40)

\* Steps of no call: the caches lose entries, the row is replaced or deleted.
LEMMA SharedStep ==
    ASSUME Inv,
           \/ \E t \in Tables : ClearMappingsCache(t) \/ ExpireFields(t)
           \/ UpdateSyncConfig
           \/ DeleteSyncConfig
    PROVE  Inv'
  <1>1. NoMapping \in [hit : BOOLEAN, map : Mapping] /\ ~NoMapping.hit
    BY Nothing, ZenonT(40) DEF NoMapping
  <1>2. ASSUME NEW t \in Tables, ClearMappingsCache(t) PROVE Inv'
    <2> HIDE DEF NoMapping
    <2>1. /\ mapCache' \in [Tables -> [hit : BOOLEAN, map : Mapping]]
          /\ \A x \in Tables : mapCache'[x].hit => mapCache'[x].map \in saved[x]
      BY <1>1, <1>2, InvShared, ZenonT(40) DEF ClearMappingsCache
    <2>2. UNCHANGED <<fields, fieldCache, row, pc, loc, begun, faults, saved>>
      BY <1>2, ZenonT(40) DEF ClearMappingsCache
    <2> QED BY <2>1, <2>2, ZenonT(40) DEF Inv, Types, CallsOK, SavedOK, WereSaved
  <1>3. ASSUME NEW t \in Tables, ExpireFields(t) PROVE Inv'
    <2>1. UNCHANGED <<fields, mapCache, row, pc, loc, begun, faults, saved>>
      BY <1>3 DEF ExpireFields
    <2>2. TablesGrow
      BY <2>1, NoGrowth DEF Inv
    <2>3. CacheKept
      BY <1>3, <2>2, CacheStays, Zenon DEF ExpireFields
    <2> QED BY <2>1, <2>3, ZenonT(40)
            DEF Inv, Types, CallsOK, SavedOK, WereSaved, CacheKept
  <1>4. ASSUME UpdateSyncConfig PROVE Inv'
    <2>1. UNCHANGED <<fields, fieldCache, mapCache, pc, loc, faults>>
          /\ begun' \in 0 .. MaxCalls
      BY <1>4, MappingAssumption, SMTT(30) DEF UpdateSyncConfig, Inv, Types
    <2>2. PICK ms \in SavedInputs :
            /\ row' = [there |-> TRUE, maps |-> ms]
            /\ saved' = [t \in Tables |-> IF t \in DOMAIN ms
                                          THEN saved[t] \cup {ms[t]} ELSE saved[t]]
      BY <1>4, ZenonT(40) DEF UpdateSyncConfig
    <2>3. /\ ms \in Mappings /\ DOMAIN ms \subseteq Tables
          /\ \A t \in DOMAIN ms : ms[t] \in Mapping
      BY MappingAssumption, MappingsAre, MappingIs DEF AreMappings
    <2>4. /\ saved' \in [Tables -> SUBSET Mapping]
          /\ \A t \in Tables : saved[t] \subseteq saved'[t]
          /\ \A t \in DOMAIN ms : ms[t] \in saved'[t]
      BY <2>2, <2>3, InvShared
    <2>5. /\ row' \in [there : BOOLEAN, maps : Mappings] /\ row'.maps = ms
      BY <2>2, <2>3, ZenonT(40)
    <2>6. Types'
      BY <2>1, <2>4, <2>5, ZenonT(40) DEF Inv, Types
    <2>7. CallsOK'
      BY <2>1, ZenonT(40) DEF Inv, CallsOK
    <2>8. ASSUME NEW c \in Calls
          PROVE  /\ \A t \in DOMAIN loc[c].old : loc[c].old[t] \in saved'[t]
                 /\ pc[c] \in {"cache", "done"} =>
                      loc[c].map \in saved'[loc[c].table]
      <3>1. /\ loc[c].table \in Tables /\ loc[c].old \in Mappings
            /\ \A t \in DOMAIN loc[c].old : loc[c].old[t] \in saved[t]
            /\ pc[c] \in {"cache", "done"} => loc[c].map \in saved[loc[c].table]
        BY InvCall, Zenon DEF Call
      <3>2. DOMAIN loc[c].old \subseteq Tables
        BY <3>1, ZenonT(40) DEF Mappings
      <3> QED BY <2>4, <3>1, <3>2, ZenonT(40)
    <2>9. SavedOK'
      BY <2>1, <2>4, <2>5, <2>8, InvShared, ZenonT(40) DEF SavedOK, WereSaved
    <2> QED BY <2>6, <2>7, <2>9 DEF Inv
  <1>5. ASSUME DeleteSyncConfig PROVE Inv'
    <2>1. /\ UNCHANGED <<fields, fieldCache, mapCache, pc, loc, begun, faults, saved>>
          /\ row' = [there |-> FALSE, maps |-> NoMaps]
      BY <1>5, ZenonT(40) DEF DeleteSyncConfig
    <2>2. row' \in [there : BOOLEAN, maps : Mappings] /\ DOMAIN row'.maps = {}
      BY <2>1, Nothing
    <2> QED BY <2>1, <2>2, ZenonT(40) DEF Inv, Types, CallsOK, SavedOK, WereSaved
  <1> QED BY <1>2, <1>3, <1>4, <1>5

-----------------------------------------------------------------------------
(* The theorems. *)

\* At the start nothing is cached, saved or under way.
LEMMA InitInv == Init => Inv
  <1> SUFFICES ASSUME Init PROVE Inv
    OBVIOUS
  <1> DEFINE t0 == CHOOSE t \in Tables : TRUE
             l == NewCall("none", t0, NoMap)
  <1>1. t0 \in Tables
    BY MappingAssumption
  <1>2. \A F : l \in Call /\ l.table = t0 /\ l.old = NoMaps /\ CallOK("idle", l, F)
    BY <1>1, NewCallIs, Nothing, ZenonT(40)
  <1>3. /\ fields \in [Tables -> Seq(Field)]
        /\ fieldCache = [t \in Tables |-> NoFields]
        /\ mapCache = [t \in Tables |-> NoMapping]
        /\ row = [there |-> FALSE, maps |-> NoMaps]
        /\ pc = [c \in Calls |-> "idle"] /\ loc = [c \in Calls |-> l]
        /\ begun = 0 /\ faults = [api |-> 0, redis |-> 0]
        /\ saved = [t \in Tables |-> {}]
    <2>1. InitFields \subseteq Seq(Field)
      BY MappingAssumption
    <2>2. fields \in [Tables -> InitFields]
      BY DEF Init
    <2>3. fields \in [Tables -> Seq(Field)]
      BY <2>1, <2>2, ZenonT(40)
    <2> QED BY <2>3 DEF Init
  <1> HIDE DEF l, t0
  <1>4. /\ NoFields \in [hit : BOOLEAN, fields : Seq(Field)]
        /\ NoMapping \in [hit : BOOLEAN, map : Mapping] /\ ~NoMapping.hit
    BY Nothing DEF NoFields, NoMapping
  <1>5. \A F : Agrees(NoFields.fields, F)
    BY SMTT(30) DEF NoFields, Agrees
  <1>6. Types
    <2>1. row \in [there : BOOLEAN, maps : Mappings]
      BY <1>3, Nothing, ZenonT(40)
    <2>2. begun \in 0 .. MaxCalls
      BY <1>3, MappingAssumption, SMTT(30)
    <2>5. faults \in [api : 0 .. MaxApiFaults, redis : 0 .. MaxRedisFaults]
      BY <1>3, MappingAssumption
    <2>3. "idle" \in Places
      BY DEF Places
    <2>4. saved \in [Tables -> SUBSET Mapping]
      BY <1>3
    <2> HIDE DEF NoFields, NoMapping
    <2> QED BY <1>2, <1>3, <1>4, <2>1, <2>2, <2>3, <2>4, <2>5, ZenonT(40)
            DEF Types
  <1>7. CallsOK
    BY <1>1, <1>2, <1>3, <1>5, ZenonT(40) DEF CallsOK
  <1>8. SavedOK
    BY <1>2, <1>3, <1>4, Nothing, ZenonT(40) DEF SavedOK, WereSaved
  <1> QED BY <1>6, <1>7, <1>8 DEF Inv

\* Every step keeps the invariant.
LEMMA NextInv == Inv /\ [Next]_vars => Inv'
  <1> SUFFICES ASSUME Inv, [Next]_vars PROVE Inv'
    OBVIOUS
  <1>1. ASSUME NEW c \in Calls, Begin(c) PROVE Inv'
    BY <1>1, BeginStep
  <1>2. ASSUME NEW c \in Calls, Step(c) PROVE Inv'
    BY <1>2, GetCachedFieldsStep, FetchFieldsStep, CacheFieldsStep,
       CreateFieldStep, DropCacheStep, UpdateFieldStep, ClearFieldCacheStep,
       ReadRowStep, SaveMappingsStep, CacheMappingsStep,
       GetCachedMappingsStep, GetFieldMappingsStep, ZenonT(40) DEF Step
  <1>3. CASE UNCHANGED vars
    BY <1>3, Zenon DEF vars, Inv, Types, CallsOK, SavedOK, WereSaved
  <1> QED BY <1>1, <1>2, <1>3, SharedStep DEF Next

\* The invariant: cached and read lists of fields are still there, each call
\* is as its place demands, and what is cached or served was saved.
THEOREM MappingInvariant == Spec => []Inv
  BY InitInv, NextInv, PTL DEF Spec

\* Type correctness.
THEOREM MappingTypes == Spec => []TypeOK
  <1>1. Inv => TypeOK
    <2> SUFFICES ASSUME Inv PROVE TypeOK
      OBVIOUS
    <2>1. ASSUME NEW t \in Tables
          PROVE  /\ mapCache[t].hit \in BOOLEAN /\ IsMapping(mapCache[t].map)
                 /\ \A m \in saved[t] : IsMapping(m)
      BY MappingIs DEF Inv, Types
    <2>2. row.there \in BOOLEAN /\ AreMappings(row.maps)
      BY MappingsAre, ZenonT(40) DEF Inv, Types
    <2>3. ASSUME NEW c \in Calls
          PROVE  LET l == loc[c] IN
                 /\ l.kind \in {"none", "auto", "enhanced", "set", "get", "sync"}
                 /\ l.table \in Tables
                 /\ IsMapping(l.map) /\ AreMappings(l.old)
                 /\ {l.plan, l.todo} \subseteq Seq(DoubanFields)
                 /\ l.made \in Seq(Nat) /\ l.id \in Nat
                 /\ l.errors \subseteq DoubanFields
                 /\ {l.ensure, l.refused} \subseteq BOOLEAN
                 /\ l.known \in Seq(Field)
      <3>1. loc[c] \in Call
        BY DEF Inv, Types
      <3>2. loc[c].map \in Mapping /\ loc[c].old \in Mappings
        BY <3>1 DEF Call
      <3> QED BY <3>1, <3>2, MappingIs, MappingsAre DEF Call
    <2> QED BY <2>1, <2>2, <2>3, ZenonT(40) DEF Inv, Types, TypeOK
  <1> QED BY <1>1, MappingInvariant, PTL

\* autoConfigureFieldMappingsEnhanced maps every Douban field to the Feishu
\* field of its name; autoConfigureFieldMappings does unless a creation
\* failed, and reports every field once.
THEOREM MappingsAreSound == Spec => []MappingSound
  <1>1. Inv => MappingSound
    <2> SUFFICES ASSUME Inv, NEW c \in Calls, Configured(c)
                 PROVE  LET l == loc[c] IN
                        /\ l.kind = "enhanced" \/ (l.kind = "auto" /\ ~l.refused)
                             => Sound(Table(c), l.map)
                        /\ l.kind = "auto" =>
                             /\ DOMAIN l.map \cup l.errors = DoubanFields
                             /\ DOMAIN l.map \cap l.errors = {}
                             /\ l.errors # {} => l.refused
      BY ZenonT(40) DEF MappingSound
    <2>1. CallOK(pc[c], loc[c], fields[loc[c].table])
      BY ZenonT(40) DEF Inv, CallsOK
    <2>2. Right(loc[c].map, fields[loc[c].table]) => Sound(Table(c), loc[c].map)
      BY ZenonT(40) DEF Right, Named, Sound, Table
    <2>3. loc[c].kind = "auto" => Reported(loc[c], fields[loc[c].table])
      BY <2>1, ZenonT(40) DEF CallOK, Configured
    <2>4. loc[c].kind = "enhanced" => Right(loc[c].map, fields[loc[c].table])
      BY <2>1, Zenon DEF CallOK
    <2> QED BY <2>2, <2>3, <2>4, ZenonT(40) DEF Reported
  <1> QED BY <1>1, MappingInvariant, PTL

\* A mapping served by getFieldMappings or in its cache was saved in the
\* database for that table.
THEOREM ServedWasSaved == Spec => []CachedWasSaved
  <1>1. Inv => CachedWasSaved
    BY DEF Inv, SavedOK, CachedWasSaved, Table
  <1> QED BY <1>1, MappingInvariant, PTL

=============================================================================
