---------------------------- MODULE FieldMapping ----------------------------
(***************************************************************************)
(* FieldMappingService and the field operations of FeishuTableService and  *)
(* FieldAutoCreationServiceV2: which field of a Feishu table a Douban      *)
(* field is written to.  Missing fields are created, the mapping is saved  *)
(* in the user's sync configuration and cached in Redis.  Calls run        *)
(* concurrently for one user; a step ends at an await.                     *)
(*                                                                         *)
(* The Feishu table (external) is a sequence of fields: a field's id is    *)
(* its position, "match" says whether its configuration is the one of the  *)
(* template.  Feishu refuses a second field of the same name.  A Douban    *)
(* field stands for its Chinese name too.                                  *)
(***************************************************************************)
EXTENDS Naturals, Sequences, FiniteSets, FiniteSetsExt, Functions

CONSTANTS Calls, Tables,
          Config,       \* the Douban fields, in the order of their entries
          Required,     \* the required ones
          Templates,    \* for each content type, the ones that have a template
          AsTemplate,   \* the ones createTableField creates as the template says
          SetInputs,    \* mappings given to setFieldMappings
          SavedInputs,  \* tableMappings given to updateSyncConfig
          InitFields,   \* fields a table may start with
          MaxCalls,       \* bound: calls
          MaxApiFaults,   \* bound: failures of Feishu and of the database
          MaxRedisFaults  \* bound: failures of Redis

DoubanFields == Range(Config)

Field == [name : DoubanFields, match : BOOLEAN]

\* A mapping gives Douban fields the ids of Feishu fields; the row has one
\* for some of the tables.
IsMapping(m) == DOMAIN m \subseteq DoubanFields /\ m \in [DOMAIN m -> Nat]

AreMappings(ms) == /\ DOMAIN ms \subseteq Tables
                   /\ ms = [t \in DOMAIN ms |-> ms[t]]
                   /\ \A t \in DOMAIN ms : IsMapping(ms[t])

NoMap == [d \in {} |-> 0]

NoMaps == [t \in {} |-> NoMap]

\* m with v as the entry of d.
Put(m, d, v) == [e \in DOMAIN m \cup {d} |-> IF e = d THEN v ELSE m[e]]

ASSUME MappingAssumption ==
    /\ Config \in Seq(DoubanFields) /\ IsInjective(Config)
    /\ Tables # {}
    /\ Required \subseteq DoubanFields
    /\ Templates \subseteq SUBSET DoubanFields
    /\ AsTemplate \subseteq DoubanFields
    /\ \A m \in SetInputs : m \in [DOMAIN m -> Nat]
    /\ \A ms \in SavedInputs : AreMappings(ms)
    /\ InitFields \subseteq Seq(Field)
    /\ {MaxCalls, MaxApiFaults, MaxRedisFaults} \subseteq Nat

VARIABLES fields,     \* the fields of each Feishu table
          fieldCache, \* the fields cached in Redis: [hit, fields]
          mapCache,   \* the mappings cached in Redis: [hit, map]
          row,        \* the user's sync configuration: [there, maps]
          pc,         \* where each call is
          loc,        \* the variables of each call
          begun,      \* calls begun
          faults,     \* failures used
          saved       \* history: mappings saved for each table

vars == <<fields, fieldCache, mapCache, row, pc, loc, begun, faults, saved>>

NoFields == [hit |-> FALSE, fields |-> <<>>]

NoMapping == [hit |-> FALSE, map |-> NoMap]

\* kind: the operation; ensure: within ensureFieldConfiguration; plan and
\* todo: the fields to create and the rest of them; made: the fields
\* batchCreateFields returns; id: the field being created or updated;
\* refused: a field could not be created; known and old: what was read from
\* the table and from the row.
NewCall(k, t, m) ==
    [kind |-> k, table |-> t, map |-> m, ensure |-> FALSE, plan |-> <<>>,
     todo |-> <<>>, made |-> <<>>, id |-> 0, errors |-> {},
     refused |-> FALSE, known |-> <<>>, old |-> NoMaps]

Init ==
    /\ fields \in [Tables -> InitFields]
    /\ fieldCache = [t \in Tables |-> NoFields]
    /\ mapCache = [t \in Tables |-> NoMapping]
    /\ row = [there |-> FALSE, maps |-> NoMaps]
    /\ pc = [c \in Calls |-> "idle"]
    /\ loc = [c \in Calls |-> NewCall("none", CHOOSE t \in Tables : TRUE, NoMap)]
    /\ begun = 0
    /\ faults = [api |-> 0, redis |-> 0]
    /\ saved = [t \in Tables |-> {}]

Table(c) == loc[c].table

Go(c, where) == pc' = [pc EXCEPT ![c] = where]

ApiFails ==
    /\ faults.api < MaxApiFaults
    /\ faults' = [faults EXCEPT !.api = @ + 1]

RedisFails ==
    /\ faults.redis < MaxRedisFaults
    /\ faults' = [faults EXCEPT !.redis = @ + 1]

-----------------------------------------------------------------------------
(* The requests.                                                           *)

\* validateFieldMappings.
Valid(m) == Required \subseteq DOMAIN m /\ DOMAIN m \subseteq DoubanFields

Begin(c) ==
    /\ pc[c] \in {"idle", "done", "failed"}
    /\ begun < MaxCalls
    /\ begun' = begun + 1
    /\ \E t \in Tables :
         \/ \E k \in {"auto", "enhanced"} :
              loc' = [loc EXCEPT ![c] = NewCall(k, t, NoMap)] /\ Go(c, "fields")
         \/ \E m \in SetInputs :
              /\ loc' = [loc EXCEPT ![c] = NewCall("set", t, IF Valid(m) THEN m
                                                             ELSE NoMap)]
              /\ Go(c, IF Valid(m) THEN "read" ELSE "failed")
         \/ \E k \in {"get", "sync"} :
              loc' = [loc EXCEPT ![c] = NewCall(k, t, NoMap)] /\ Go(c, "cached")
    /\ UNCHANGED <<fields, fieldCache, mapCache, row, faults, saved>>

-----------------------------------------------------------------------------
(* Matching and creating fields.                                           *)

IdsOf(fs, d) == {i \in DOMAIN fs : fs[i].name = d}

\* The fields found by name; of two with one name the later.
Matched(fs) == [d \in {e \in DoubanFields : IdsOf(fs, e) # {}} |->
                  Max(IdsOf(fs, d))]

\* The fields not found, in the order of their entries.
Missing(fs) ==
    LET left == {i \in DOMAIN Config : IdsOf(fs, Config[i]) = {}}
        upTo(i) == {j \in left : j <= i}
    IN [k \in 1 .. Cardinality(left) |->
          Config[CHOOSE i \in left : Cardinality(upTo(i)) = k]]

Unmade(l) == SubSeq(l.plan, Len(l.made) + 1, Len(l.plan))

\* The loop of autoConfigureFieldMappings over the created fields pairs them
\* with the fields to create by their positions.
Aligned(l) ==
    LET at(d) == {i \in DOMAIN l.made : l.plan[i] = d}
        planned == {l.plan[i] : i \in DOMAIN l.made}
    IN [l EXCEPT !.map = [d \in planned \cup DOMAIN l.map |->
                            IF d \in planned THEN l.made[Max(at(d))]
                                             ELSE l.map[d]],
                 !.errors = Range(Unmade(l))]

\* One field is dealt with.
Rest(l) == [l EXCEPT !.todo = Tail(@)]

\* The next field to create, or the end of the loop.
Proceed(c, l) ==
    LET rest == Rest(l)
        auto == l.kind = "auto"
    IN IF rest.todo # <<>>
       THEN /\ loc' = [loc EXCEPT ![c] = rest]
            /\ Go(c, IF auto THEN "create" ELSE "fields")
       ELSE /\ loc' = [loc EXCEPT ![c] = IF auto THEN Aligned(rest) ELSE rest]
            /\ Go(c, "read")

\* A field that could not be created is passed over.  withRetry does not try
\* again: transformError drops the response shouldRetryFieldOperation asks for.
GiveUp(c) ==
    LET l == [loc[c] EXCEPT !.refused = TRUE]
    IN Proceed(c, IF l.kind = "auto" THEN l
                  ELSE [l EXCEPT !.errors = @ \cup {Head(l.todo)}])

\* Mutant: the field is put down for the last one of the plan.
TakenForLast(l, id) ==
    [l EXCEPT !.map = Put(@, l.plan[Len(l.plan)], id)]

\* autoConfigureFieldMappingsEnhanced finds the entry by the field's name.
Taken(l, id) == [l EXCEPT !.map = Put(@, Head(l.todo), id)]

Succeed(c) ==
    LET l == loc[c]
    IN Proceed(c, IF l.kind = "auto" THEN [l EXCEPT !.made = Append(@, l.id)]
                  ELSE Taken(l, l.id))

\* What a call does with the fields of its table: find out what is missing,
\* or, in ensureFieldConfiguration, create, update or leave the field.  A
\* field left as it is appears neither in the mapping nor in the errors.
Learn(c, fs) ==
    LET l == loc[c]
        found == IdsOf(fs, Head(l.todo))
        first == Min(found)
        missing == Missing(fs)
        start == [l EXCEPT !.map = Matched(fs), !.plan = missing,
                           !.todo = missing, !.ensure = l.kind = "enhanced"]
    IN
    IF ~l.ensure
    THEN IF missing = <<>>
         THEN loc' = [loc EXCEPT ![c] = start] /\ Go(c, "read")
         ELSE IF l.kind = "auto"
         THEN loc' = [loc EXCEPT ![c] = start] /\ Go(c, "create")
         ELSE \E supported \in Templates :
              IF Range(missing) \subseteq supported
              THEN loc' = [loc EXCEPT ![c] = start] /\ Go(c, "fields")
              ELSE /\ loc' = [loc EXCEPT ![c] = [start EXCEPT
                                !.errors = Range(missing), !.refused = TRUE]]
                   /\ Go(c, "read")
    ELSE IF found = {} THEN Go(c, "create") /\ UNCHANGED loc
    ELSE IF fs[first].match THEN Proceed(c, l)
    ELSE loc' = [loc EXCEPT ![c].id = first] /\ Go(c, "update")

\* getTableFields: the cache, then the API, then the cache is filled.
GetCachedFields(c) ==
    /\ pc[c] = "fields"
    /\ \/ /\ fieldCache[Table(c)].hit
          /\ Learn(c, fieldCache[Table(c)].fields)
          /\ UNCHANGED faults
       \/ /\ IF fieldCache[Table(c)].hit THEN RedisFails ELSE UNCHANGED faults
          /\ Go(c, "fetch")
          /\ UNCHANGED loc
    /\ UNCHANGED <<fields, fieldCache, mapCache, row, begun, saved>>

FetchFields(c) ==
    /\ pc[c] = "fetch"
    /\ \/ /\ loc' = [loc EXCEPT ![c].known = fields[Table(c)]]
          /\ Go(c, "store")
          /\ UNCHANGED faults
       \/ /\ ApiFails
          /\ IF loc[c].ensure THEN GiveUp(c) ELSE Go(c, "failed") /\ UNCHANGED loc
    /\ UNCHANGED <<fields, fieldCache, mapCache, row, begun, saved>>

\* cacheFields swallows an error of Redis.
CacheFields(c) ==
    /\ pc[c] = "store"
    /\ \/ /\ fieldCache' = [fieldCache EXCEPT
                             ![Table(c)] = [hit |-> TRUE, fields |-> loc[c].known]]
          /\ UNCHANGED faults
       \/ RedisFails /\ UNCHANGED fieldCache
    /\ Learn(c, loc[c].known)
    /\ UNCHANGED <<fields, mapCache, row, begun, saved>>

\* The POST of createTableField: the field is created, or refused, or created
\* while its answer is lost and the repeated request is refused.
CreateField(c) ==
    LET d == Head(loc[c].todo)
        t == Table(c)
        new == [name |-> d, match |-> d \in AsTemplate]
        taken == IdsOf(fields[t], d) # {}
    IN
    /\ pc[c] = "create"
    /\ \/ /\ ~taken
          /\ fields' = [fields EXCEPT ![t] = Append(@, new)]
          /\ loc' = [loc EXCEPT ![c].id = Len(fields'[t])]
          /\ Go(c, "drop")
          /\ UNCHANGED faults
       \/ /\ ~taken /\ ApiFails
          /\ fields' = [fields EXCEPT ![t] = Append(@, new)]
          /\ GiveUp(c)
       \/ /\ IF taken THEN UNCHANGED faults ELSE ApiFails
          /\ GiveUp(c)
          /\ UNCHANGED fields
    /\ UNCHANGED <<fieldCache, mapCache, row, begun, saved>>

\* createTableField clears the cache, and fails when Redis does although the
\* field is there.
DropCache(c) ==
    /\ pc[c] = "drop"
    /\ \/ /\ fieldCache' = [fieldCache EXCEPT ![Table(c)] = NoFields]
          /\ Succeed(c)
          /\ UNCHANGED faults
       \/ RedisFails /\ GiveUp(c) /\ UNCHANGED fieldCache
    /\ UNCHANGED <<fields, mapCache, row, begun, saved>>

UpdateField(c) ==
    LET updated == [fields EXCEPT ![Table(c)][loc[c].id].match = TRUE]
    IN
    /\ pc[c] = "update"
    /\ \/ fields' = updated /\ Go(c, "clear") /\ UNCHANGED <<loc, faults>>
       \/ ApiFails /\ GiveUp(c) /\ fields' \in {fields, updated}
    /\ UNCHANGED <<fieldCache, mapCache, row, begun, saved>>

\* clearFieldCache swallows an error of Redis.
ClearFieldCache(c) ==
    /\ pc[c] = "clear"
    /\ \/ /\ fieldCache' = [fieldCache EXCEPT ![Table(c)] = NoFields]
          /\ UNCHANGED faults
       \/ RedisFails /\ UNCHANGED fieldCache
    /\ Succeed(c)
    /\ UNCHANGED <<fields, mapCache, row, begun, saved>>

-----------------------------------------------------------------------------
(* Saving and reading the mapping.                                         *)

\* getExistingTableMappings.
ReadRow(c) ==
    /\ pc[c] = "read"
    /\ \/ /\ loc' = [loc EXCEPT ![c].old = row.maps]
          /\ Go(c, "write")
          /\ UNCHANGED faults
       \/ ApiFails /\ Go(c, "failed") /\ UNCHANGED loc
    /\ UNCHANGED <<fields, fieldCache, mapCache, row, begun, saved>>

\* Mutant: the mapping is cached although it could not be saved.
SaveMappingsAnyway(c) ==
    /\ pc[c] = "write"
    /\ Go(c, "cache")
    /\ \/ /\ row' = [there |-> TRUE, maps |-> Put(row.maps, Table(c), loc[c].map)]
          /\ saved' = [saved EXCEPT ![Table(c)] = @ \cup {loc[c].map}]
          /\ UNCHANGED faults
       \/ ApiFails /\ UNCHANGED <<row, saved>>
    /\ UNCHANGED <<fields, fieldCache, mapCache, loc, begun>>

\* The upsert writes what was read, with the entry of this table replaced.
SaveMappings(c) ==
    /\ pc[c] = "write"
    /\ \/ /\ row' = [there |-> TRUE,
                     maps |-> Put(IF row.there THEN loc[c].old ELSE NoMaps,
                                  Table(c), loc[c].map)]
          /\ saved' = [saved EXCEPT ![Table(c)] = @ \cup {loc[c].map}]
          /\ Go(c, "cache")
          /\ UNCHANGED faults
       \/ ApiFails /\ Go(c, "failed") /\ UNCHANGED <<row, saved>>
    /\ UNCHANGED <<fields, fieldCache, mapCache, loc, begun>>

\* cacheFieldMappings swallows an error of Redis.
CacheMappings(c) ==
    /\ pc[c] = "cache"
    /\ \/ /\ mapCache' = [mapCache EXCEPT
                           ![Table(c)] = [hit |-> TRUE, map |-> loc[c].map]]
          /\ UNCHANGED faults
       \/ RedisFails /\ UNCHANGED mapCache
    /\ Go(c, "done")
    /\ UNCHANGED <<fields, fieldCache, row, loc, begun, saved>>

GetCachedMappings(c) ==
    /\ pc[c] = "cached"
    /\ \/ /\ mapCache[Table(c)].hit
          /\ loc' = [loc EXCEPT ![c].map = mapCache[Table(c)].map]
          /\ Go(c, "done")
          /\ UNCHANGED faults
       \/ /\ IF mapCache[Table(c)].hit THEN RedisFails ELSE UNCHANGED faults
          /\ Go(c, "query")
          /\ UNCHANGED loc
    /\ UNCHANGED <<fields, fieldCache, mapCache, row, begun, saved>>

\* What getFieldMappings finds in the row goes to the cache.  Without a
\* mapping, or when the query fails, performIncrementalSync configures one.
GetFieldMappings(c) ==
    LET none == IF loc[c].kind = "sync"
                THEN loc' = [loc EXCEPT ![c].kind = "auto"] /\ Go(c, "fields")
                ELSE Go(c, "failed") /\ UNCHANGED loc
    IN
    /\ pc[c] = "query"
    /\ \/ /\ Table(c) \in DOMAIN row.maps
          /\ loc' = [loc EXCEPT ![c].map = row.maps[Table(c)]]
          /\ Go(c, "cache")
          /\ UNCHANGED faults
       \/ Table(c) \notin DOMAIN row.maps /\ none /\ UNCHANGED faults
       \/ ApiFails /\ none
    /\ UNCHANGED <<fields, fieldCache, mapCache, row, begun, saved>>

ClearMappingsCache(t) ==
    /\ mapCache[t].hit
    /\ mapCache' = [mapCache EXCEPT ![t] = NoMapping]
    /\ UNCHANGED <<fields, fieldCache, row, pc, loc, begun, faults, saved>>

\* The time to live of the cached fields ends; that of a mapping is as if it
\* were cleared.
ExpireFields(t) ==
    /\ fieldCache[t].hit
    /\ fieldCache' = [fieldCache EXCEPT ![t] = NoFields]
    /\ UNCHANGED <<fields, mapCache, row, pc, loc, begun, faults, saved>>

\* ConfigService.updateSyncConfig replaces all the mappings and leaves the
\* caches.
UpdateSyncConfig ==
    /\ begun < MaxCalls
    /\ begun' = begun + 1
    /\ \E ms \in SavedInputs :
         /\ row' = [there |-> TRUE, maps |-> ms]
         /\ saved' = [t \in Tables |-> IF t \in DOMAIN ms
                                       THEN saved[t] \cup {ms[t]} ELSE saved[t]]
    /\ UNCHANGED <<fields, fieldCache, mapCache, pc, loc, faults>>

DeleteSyncConfig ==
    /\ row.there
    /\ row' = [there |-> FALSE, maps |-> NoMaps]
    /\ UNCHANGED <<fields, fieldCache, mapCache, pc, loc, begun, faults, saved>>

Step(c) ==
    \/ GetCachedFields(c)
    \/ FetchFields(c)
    \/ CacheFields(c)
    \/ CreateField(c)
    \/ DropCache(c)
    \/ UpdateField(c)
    \/ ClearFieldCache(c)
    \/ ReadRow(c)
    \/ SaveMappings(c)
    \/ CacheMappings(c)
    \/ GetCachedMappings(c)
    \/ GetFieldMappings(c)

Next ==
    \/ \E c \in Calls : Begin(c) \/ Step(c)
    \/ \E t \in Tables : ClearMappingsCache(t) \/ ExpireFields(t)
    \/ UpdateSyncConfig
    \/ DeleteSyncConfig

Spec == Init /\ [][Next]_vars

-----------------------------------------------------------------------------
(* Properties.                                                             *)

Places == {"idle", "fields", "fetch", "store", "create", "drop", "update",
           "clear", "read", "write", "cache", "cached", "query", "done",
           "failed"}

\* Type invariant.
TypeOK ==
    /\ fields \in [Tables -> Seq(Field)]
    /\ fieldCache \in [Tables -> [hit : BOOLEAN, fields : Seq(Field)]]
    /\ \A t \in Tables : /\ mapCache[t].hit \in BOOLEAN
                         /\ IsMapping(mapCache[t].map)
                         /\ \A m \in saved[t] : IsMapping(m)
    /\ row.there \in BOOLEAN /\ AreMappings(row.maps)
    /\ pc \in [Calls -> Places]
    /\ \A c \in Calls :
         LET l == loc[c] IN
         /\ l.kind \in {"none", "auto", "enhanced", "set", "get", "sync"}
         /\ l.table \in Tables
         /\ IsMapping(l.map) /\ AreMappings(l.old)
         /\ {l.plan, l.todo} \subseteq Seq(DoubanFields)
         /\ l.made \in Seq(Nat) /\ l.id \in Nat
         /\ l.errors \subseteq DoubanFields
         /\ {l.ensure, l.refused} \subseteq BOOLEAN
         /\ l.known \in Seq(Field)
    /\ begun \in 0 .. MaxCalls
    /\ faults \in [api : 0 .. MaxApiFaults, redis : 0 .. MaxRedisFaults]

Sound(t, m) ==
    \A d \in DOMAIN m : m[d] \in DOMAIN fields[t] /\ fields[t][m[d]].name = d

Configured(c) == pc[c] \in {"read", "write", "cache", "done"}

\* autoConfigureFieldMappingsEnhanced maps every Douban field to a Feishu
\* field of its name, whatever calls fail, caches are stale and other calls
\* create fields meanwhile; autoConfigureFieldMappings does so as long as
\* every field it wanted to create was created, and reports every field once,
\* as mapped or as an error, an error only if a creation failed.
MappingSound ==
    \A c \in Calls : Configured(c) =>
      LET l == loc[c] IN
      /\ l.kind = "enhanced" \/ (l.kind = "auto" /\ ~l.refused)
           => Sound(Table(c), l.map)
      /\ l.kind = "auto" =>
           /\ DOMAIN l.map \cup l.errors = DoubanFields
           /\ DOMAIN l.map \cap l.errors = {}
           /\ l.errors # {} => l.refused

\* The cache of mappings never serves what was not saved: a mapping that
\* could not be written to the database does not reach getFieldMappings.
CachedWasSaved ==
    /\ \A t \in Tables : mapCache[t].hit => mapCache[t].map \in saved[t]
    /\ \A c \in Calls : pc[c] = "done" => loc[c].map \in saved[Table(c)]
=============================================================================
