----------------------------- MODULE SyncEngine -----------------------------
(***************************************************************************)
(* SyncEngineService.performIncrementalSync and the record operations of   *)
(* FeishuTableService it uses: read the table page by page into an index,  *)
(* compare it with the Douban data, create, update and delete records in   *)
(* batches.  An engine is one call of performIncrementalSync; several may  *)
(* work on one table.                                                      *)
(*                                                                         *)
(* The Feishu API (external) is the sequence "table": a record's id is its *)
(* position, a deleted record keeps its place with live = FALSE.  All the  *)
(* mapped fields of a record but the Subject ID are one value.             *)
(***************************************************************************)
EXTENDS Naturals, Sequences, FiniteSets, FiniteSetsExt, Functions

CONSTANTS Engines,      \* concurrent calls
          Subjects,     \* Douban subject ids
          NoSubject,    \* an empty Subject ID
          Values,       \* field contents
          Null,         \* null, and an empty cell
          Undefined,    \* a field the Douban record does not have
          Trim, Lower,  \* String.trim and toLowerCase on Values
          Scenarios     \* the circumstances of a behaviour, see Init

\* What Douban has of a subject; a record of the Feishu table.
Item == [subject : Subjects \cup {NoSubject}, value : Values, valid : BOOLEAN]

Record == [subject : Subjects \cup {NoSubject}, value : Values, live : BOOLEAN]

ASSUME EngineAssumption ==
    /\ {Null, Undefined} \subseteq Values /\ Null # Undefined
    /\ NoSubject \notin Subjects
    /\ Trim \in [Values -> Values] /\ Lower \in [Values -> Values]
    /\ \A f \in {Trim, Lower}, v \in {Null, Undefined} : f[v] = v
    /\ \A c \in Scenarios :
         /\ c.engines \subseteq Engines /\ IsFiniteSet(c.engines)
         /\ c.richText \in BOOLEAN
         /\ {c.pageSize, c.batchSize} \subseteq Nat \ {0}
         /\ {c.retryAttempts, c.runs, c.page, c.refused, c.unheard} \subseteq Nat
         /\ \A data \in c.inputs : data \in Seq(Item)
         /\ \A t \in c.tables : t \in Seq(Record)

VARIABLES table,    \* the records of the Feishu table
          pc,       \* where each call is
          opts,     \* [data, fullSync, deleteOrphans] of each call
          cursor,   \* the page token: the last record id read
          index,    \* existingRecords: subject key -> [id, value]
          todo,     \* what is left of the ChangeAnalysis
          summary,  \* SyncResult.summary
          syncState,\* the state of the table's sync in Redis
          runs,     \* calls made so far
          faults,   \* faults used so far
          scene     \* the scenario

vars == <<table, pc, opts, cursor, index, todo, summary, syncState, runs,
          faults, scene>>

\* String(subjectId) of a text returned as an array of objects.
ObjectKey == "[object Object]"

Keys == Subjects \cup {ObjectKey}

NoIndex == [k \in {} |-> 0]

NoTodo == [create |-> <<>>, update |-> <<>>, delete |-> {}]

NoSummary == [total |-> 0, created |-> 0, updated |-> 0, deleted |-> 0,
              failed |-> 0, unchanged |-> 0]

\* A scenario gives the calls that run (engines, runs of each), what they are
\* given (inputs) and find (tables), whether the API returns a text as
\* [{ text, type }] (richText), the sizes of pages and batches, the retries,
\* and bounds on the page requests that fail (page), the writes that fail
\* without an effect (refused) and those whose answer is lost (unheard).
Init ==
    /\ scene \in Scenarios
    /\ table \in scene.tables
    /\ pc = [e \in Engines |-> "idle"]
    /\ opts = [e \in Engines |-> [data |-> <<>>, fullSync |-> FALSE,
                                  deleteOrphans |-> FALSE]]
    /\ cursor = [e \in Engines |-> 0]
    /\ index = [e \in Engines |-> NoIndex]
    /\ todo = [e \in Engines |-> NoTodo]
    /\ summary = [e \in Engines |-> NoSummary]
    /\ syncState = "none"
    /\ runs = [e \in Engines |-> 0]
    /\ faults = [page |-> 0, refused |-> 0, unheard |-> 0]

-----------------------------------------------------------------------------
(* Values on their way to Feishu and back.                                 *)

\* normalizeValue: null and undefined are the same.
Normal(v) == IF v = Undefined THEN Null ELSE Lower[Trim[v]]

\* formatValueForFeishu and formatFieldValue trim a string.
Format(v) == Trim[v]

\* generateFeishuRecordHash drops what isValidFeishuFieldValue refuses, and
\* that is every text in its array form.
ReadBack(v) == IF scene.richText THEN Null ELSE v

\* getExistingRecordsIndex takes String(...) of the Subject ID field.
Key(r) == IF scene.richText THEN ObjectKey ELSE r.subject

\* Mutant: the raw values are compared.
ChangedRaw(d, old) == d.value # old.value

\* hasRecordChanged compares the hashes of the normalised fields.
Changed(d, old) == Normal(d.value) # Normal(old.value)

\* Mutant: a cell that is filled is not written again.
MergeKeepsOld(old, v) == IF v = Undefined \/ old # Null THEN old ELSE Format(v)

\* transformRecordForFeishu leaves out a field that is undefined.
Merge(old, v) == IF v = Undefined THEN old ELSE Format(v)

NewRecord(d) == [subject |-> d.subject, value |-> Merge(Null, d.value),
                 live |-> TRUE]

-----------------------------------------------------------------------------
Live(i) == table[i].live

\* searchRecords: the next page after the cursor, and whether more follow.
After(e) == {i \in DOMAIN table : Live(i) /\ i > cursor[e]}

Page(e) == {i \in After(e) :
              Cardinality({j \in After(e) : j <= i}) <= scene.pageSize}

\* Records without a Subject ID are left out, a later record replaces an
\* earlier one with the same key.
IndexWith(old, ids) ==
    LET keyed == {i \in ids : table[i].subject # NoSubject}
        of(k) == {i \in keyed : Key(table[i]) = k}
    IN [k \in DOMAIN old \cup {Key(table[i]) : i \in keyed} |->
          IF of(k) = {} THEN old[k]
          ELSE [id |-> Max(of(k)), value |-> ReadBack(table[Max(of(k))].value)]]

\* The field mappings are there (or were configured) and the state is in
\* Redis; otherwise the call throws.
Begin(e) ==
    /\ e \in scene.engines
    /\ pc[e] \in {"idle", "done", "failed"}
    /\ runs[e] < scene.runs
    /\ runs' = [runs EXCEPT ![e] = runs[e] + 1]
    /\ \E d \in scene.inputs, f, o \in BOOLEAN :
         opts' = [opts EXCEPT ![e] = [data |-> d, fullSync |-> f,
                                      deleteOrphans |-> o]]
    /\ \/ pc' = [pc EXCEPT ![e] = "failed"] /\ UNCHANGED syncState
       \/ pc' = [pc EXCEPT ![e] = "index"] /\ syncState' = "initializing"
    /\ cursor' = [cursor EXCEPT ![e] = 0]
    /\ index' = [index EXCEPT ![e] = NoIndex]
    /\ todo' = [todo EXCEPT ![e] = NoTodo]
    /\ summary' = [summary EXCEPT ![e] = NoSummary]
    /\ UNCHANGED <<table, faults, scene>>

FetchPage(e) ==
    /\ pc[e] = "index"
    /\ index' = [index EXCEPT ![e] = IndexWith(index[e], Page(e))]
    /\ IF Page(e) = After(e)
       THEN pc' = [pc EXCEPT ![e] = "analyze"] /\ UNCHANGED cursor
       ELSE cursor' = [cursor EXCEPT ![e] = Max(Page(e))] /\ UNCHANGED pc
    /\ UNCHANGED <<table, opts, todo, summary, syncState, runs, faults, scene>>

\* A page that cannot be read ends the loop; the sync goes on with what it
\* has.
FetchPageFails(e) ==
    /\ pc[e] = "index"
    /\ faults.page < scene.page
    /\ faults' = [faults EXCEPT !.page = faults.page + 1]
    /\ pc' = [pc EXCEPT ![e] = "analyze"]
    /\ UNCHANGED <<table, opts, cursor, index, todo, summary, syncState, runs, scene>>

-----------------------------------------------------------------------------
(* analyzeChanges, as a function of the data and the index.                *)

\* The elements of s at the positions in S, in their order.
Pick(s, S) ==
    LET upTo(i) == {j \in S : j <= i}
    IN  [k \in 1 .. Cardinality(S) |-> s[CHOOSE i \in S : Cardinality(upTo(i)) = k]]

SubjectsOf(data) == {data[i].subject : i \in DOMAIN data} \ {NoSubject}

ToCreate(data, ix) ==
    Pick(data, {i \in DOMAIN data : /\ data[i].subject # NoSubject
                                    /\ data[i].subject \notin DOMAIN ix})

NeedsUpdate(d, ix, full) ==
    d.subject \in DOMAIN ix /\ (full \/ Changed(d, ix[d.subject]))

ToUpdate(data, ix, full) ==
    LET changed == Pick(data, {i \in DOMAIN data : NeedsUpdate(data[i], ix, full)})
    IN [i \in DOMAIN changed |-> [id |-> ix[changed[i].subject].id,
                                  value |-> changed[i].value]]

\* Mutant: a record that is to be updated is an orphan too.
ToDeleteChanged(data, ix) ==
    LET changed == {i \in DOMAIN data : NeedsUpdate(data[i], ix, FALSE)}
    IN {ix[k].id : k \in DOMAIN ix \ SubjectsOf(Pick(data, DOMAIN data \ changed))}

ToDelete(data, ix) ==
    {ix[k].id : k \in DOMAIN ix \ SubjectsOf(data)}

Unchanged(data, ix, full) ==
    Cardinality({i \in DOMAIN data : /\ data[i].subject \in DOMAIN ix
                                     /\ ~NeedsUpdate(data[i], ix, full)})

\* validateDoubanData throws when one record is invalid.
Analyze(e) ==
    LET data == opts[e].data
        full == opts[e].fullSync
        create == ToCreate(data, index[e])
        update == ToUpdate(data, index[e], full)
        delete == ToDelete(data, index[e])
    IN
    /\ pc[e] = "analyze"
    /\ IF \E i \in DOMAIN data : ~data[i].valid
       THEN /\ pc' = [pc EXCEPT ![e] = "failed"]
            /\ UNCHANGED <<todo, summary>>
       ELSE /\ pc' = [pc EXCEPT ![e] = "create"]
            /\ todo' = [todo EXCEPT ![e] =
                 [create |-> create, update |-> update,
                  delete |-> IF opts[e].deleteOrphans THEN delete ELSE {}]]
            /\ summary' = [summary EXCEPT
                 ![e].total = Len(create) + Len(update) + Cardinality(delete),
                 ![e].unchanged = Unchanged(data, index[e], full)]
    /\ UNCHANGED <<table, opts, cursor, index, syncState, runs, faults, scene>>

-----------------------------------------------------------------------------
(* executeSyncOperations.  A request is repeated by the HTTP client when   *)
(* its answer is lost, whether or not it took effect.                      *)

\* createBatches: the next slice, and what follows it.
Batch(s) == SubSeq(s, 1, Min({scene.batchSize, Len(s)}))

\* Mutant: the next slice starts one too far.
RestSkipsOne(s) == SubSeq(s, Min({scene.batchSize, Len(s)}) + 2, Len(s))

Rest(s) == SubSeq(s, Min({scene.batchSize, Len(s)}) + 1, Len(s))

\* Mutant: the request is sent once more than needed.
TimesOneMore(s, n) == [i \in 1 .. (n + 1) * Len(s) |-> s[1 + ((i - 1) % Len(s))]]

\* A batch that takes effect n times.
Times(s, n) == [i \in 1 .. n * Len(s) |-> s[1 + ((i - 1) % Len(s))]]

\* One batch: created once for every answer that was lost, and once more
\* when an answer arrives.
CreateBatch(e) ==
    LET batch == Batch(todo[e].create)
        new == [i \in DOMAIN batch |-> NewRecord(batch[i])]
        n == Len(batch)
    IN
    /\ pc[e] = "create"
    /\ todo[e].create # <<>>
    /\ todo' = [todo EXCEPT ![e].create = Rest(todo[e].create)]
    /\ \E lost \in 0 .. scene.unheard - faults.unheard :
         \/ /\ lost <= scene.retryAttempts
            /\ table' = table \o Times(new, lost + 1)
            /\ summary' = [summary EXCEPT ![e].created = @ + n]
            /\ faults' = [faults EXCEPT !.unheard = @ + lost]
         \/ /\ \/ /\ lost <= scene.retryAttempts
                  /\ faults.refused < scene.refused
                  /\ faults' = [faults EXCEPT !.unheard = @ + lost,
                                              !.refused = @ + 1]
               \/ /\ lost = scene.retryAttempts + 1
                  /\ faults' = [faults EXCEPT !.unheard = @ + lost]
            /\ table' = table \o Times(new, lost)
            /\ summary' = [summary EXCEPT ![e].failed = @ + n]
    /\ UNCHANGED <<pc, opts, cursor, index, syncState, runs, scene>>

CreateEnd(e) ==
    /\ pc[e] = "create"
    /\ todo[e].create = <<>>
    /\ pc' = [pc EXCEPT ![e] = "update"]
    /\ UNCHANGED <<table, opts, cursor, index, todo, summary, syncState,
                   runs, faults, scene>>

\* The table after the updates u[i] with i in ids: of those of one record, the
\* last that has a value counts.
Write(u, ids) ==
    LET of(r) == {i \in ids : u[i].id = r /\ u[i].value # Undefined}
    IN  [r \in DOMAIN table |->
           IF of(r) = {} THEN table[r]
           ELSE [table[r] EXCEPT !.value = Merge(@, u[Max(of(r))].value)]]

\* processBatchUpdate writes all or nothing; when it throws the records are
\* updated one by one.  Those in "bad" fail, and of these the ones in "hit"
\* are written all the same.
UpdateBatch(e) ==
    LET u == Batch(todo[e].update)
        gone == {i \in DOMAIN u : ~Live(u[i].id)}
    IN
    /\ pc[e] = "update"
    /\ todo[e].update # <<>>
    /\ todo' = [todo EXCEPT ![e].update = Rest(todo[e].update)]
    /\ \/ /\ gone = {}
          /\ table' = Write(u, DOMAIN u)
          /\ summary' = [summary EXCEPT ![e].updated = @ + Len(u)]
          /\ UNCHANGED faults
       \/ \E bad \in SUBSET DOMAIN u : \E hit \in SUBSET (bad \ gone) :
            LET cost == Cardinality(bad \ gone) + (IF gone = {} THEN 1 ELSE 0)
            IN
            /\ gone \subseteq bad
            /\ faults.refused + cost <= scene.refused
            /\ faults.unheard + Cardinality(hit) <= scene.unheard
            /\ table' = Write(u, (DOMAIN u \ bad) \cup hit)
            /\ summary' = [summary EXCEPT
                             ![e].updated = @ + Cardinality(DOMAIN u \ bad),
                             ![e].failed = @ + Cardinality(bad)]
            /\ faults' = [faults EXCEPT !.refused = @ + cost,
                                        !.unheard = @ + Cardinality(hit)]
    /\ UNCHANGED <<pc, opts, cursor, index, syncState, runs, scene>>

UpdateEnd(e) ==
    /\ pc[e] = "update"
    /\ todo[e].update = <<>>
    /\ pc' = [pc EXCEPT ![e] = "delete"]
    /\ UNCHANGED <<table, opts, cursor, index, todo, summary, syncState,
                   runs, faults, scene>>

\* A delete whose answer is lost is repeated and then finds nothing.
DeleteRecord(e) ==
    /\ pc[e] = "delete"
    /\ \E i \in todo[e].delete :
         /\ todo' = [todo EXCEPT ![e].delete = @ \ {i}]
         /\ \/ /\ Live(i)
               /\ table' = [table EXCEPT ![i].live = FALSE]
               /\ \/ /\ summary' = [summary EXCEPT ![e].deleted = @ + 1]
                     /\ UNCHANGED faults
                  \/ /\ faults.unheard < scene.unheard
                     /\ faults' = [faults EXCEPT !.unheard = @ + 1]
                     /\ summary' = [summary EXCEPT ![e].failed = @ + 1]
            \/ /\ Live(i) => faults.refused < scene.refused
               /\ faults' = [faults EXCEPT
                               !.refused = IF Live(i) THEN @ + 1 ELSE @]
               /\ summary' = [summary EXCEPT ![e].failed = @ + 1]
               /\ UNCHANGED table
    /\ UNCHANGED <<pc, opts, cursor, index, syncState, runs, scene>>

\* updateSyncState; when Redis refuses it the call throws although the table
\* is written.
Finish(e) ==
    /\ pc[e] = "delete"
    /\ todo[e].delete = {}
    /\ \/ pc' = [pc EXCEPT ![e] = "failed"] /\ UNCHANGED syncState
       \/ pc' = [pc EXCEPT ![e] = "done"] /\ syncState' = "completed"
    /\ UNCHANGED <<table, opts, cursor, index, todo, summary, runs, faults, scene>>

-----------------------------------------------------------------------------
Work(e) ==
    \/ FetchPage(e)
    \/ FetchPageFails(e)
    \/ Analyze(e)
    \/ CreateBatch(e)
    \/ CreateEnd(e)
    \/ UpdateBatch(e)
    \/ UpdateEnd(e)
    \/ DeleteRecord(e)
    \/ Finish(e)

Next == \E e \in Engines : Begin(e) \/ Work(e)

Spec == Init /\ [][Next]_vars

-----------------------------------------------------------------------------
(* Properties.                                                             *)

\* Type invariant.
TypeOK ==
    /\ table \in Seq(Record)
    /\ pc \in [Engines -> {"idle", "index", "analyze", "create", "update",
                           "delete", "done", "failed"}]
    /\ opts \in [Engines -> [data : Seq(Item), fullSync : BOOLEAN,
                             deleteOrphans : BOOLEAN]]
    /\ cursor \in [Engines -> Nat]
    /\ \A e \in Engines :
         /\ DOMAIN index[e] \subseteq Keys
         /\ \A k \in DOMAIN index[e] :
              index[e][k] \in [id : DOMAIN table, value : Values]
    /\ todo \in [Engines -> [create : Seq(Item),
                             update : Seq([id : DOMAIN table, value : Values]),
                             delete : SUBSET DOMAIN table]]
    /\ summary \in [Engines -> [total : Nat, created : Nat, updated : Nat,
                                deleted : Nat, failed : Nat, unchanged : Nat]]
    /\ syncState \in {"none", "initializing", "completed"}
    /\ runs \in [Engines -> 0 .. scene.runs]
    /\ faults \in [page : 0 .. scene.page, refused : 0 .. scene.refused,
                   unheard : 0 .. scene.unheard]

\* What is left to do, with the orphans the call was not asked to delete.
Left(e) == Len(todo[e].create) + Len(todo[e].update)
             + Cardinality(todo[e].delete)

Spared(e) == IF opts[e].deleteOrphans THEN 0
             ELSE Cardinality(ToDelete(opts[e].data, index[e]))

\* executeSyncOperations: whatever batches fail, fall back to single updates
\* or find their record gone, every planned operation is counted once, as
\* created, updated, deleted or failed.
CountsAddUp ==
    \A e \in Engines :
      LET s == summary[e] IN
      pc[e] \in {"create", "update", "delete", "done"} =>
        s.created + s.updated + s.deleted + s.failed + Left(e) + Spared(e)
          = s.total

LastValue(data, s) ==
    data[Max({i \in DOMAIN data : data[i].subject = s})].value

Mirrored(i, data) ==
    /\ Live(i)
    /\ Normal(table[i].value) = Normal(LastValue(data, table[i].subject))

\* performIncrementalSync: a call that ends with nothing failed leaves, for
\* every subject of its data, a record with the subject's content, even if
\* pages could not be read, answers were lost, and another call with the
\* same data ran at the same time.
Delivered ==
    \A e \in Engines :
      /\ pc[e] = "done" /\ summary[e].failed = 0
      /\ \A f \in Engines : opts[f].data \in {<<>>, opts[e].data}
      => \A s \in SubjectsOf(opts[e].data) :
           \E i \in DOMAIN table :
             table[i].subject = s /\ Mirrored(i, opts[e].data)

\* batchDeleteRecords: the records a call deletes as orphans have subjects
\* that its data does not have, whatever part of the table it could read (of
\* texts in their array form the index has the wrong keys).
OnlyOrphansDeleted ==
    [][\A i \in DOMAIN table :
         Live(i) /\ ~Live(i)' /\ ~scene.richText =>
           \E e \in Engines :
             /\ i \in todo[e].delete \ todo'[e].delete
             /\ table[i].subject \notin SubjectsOf(opts[e].data)]_vars

\* No two records have the same subject.
Distinct(records) ==
    \A i, j \in DOMAIN records :
      records[i].live /\ records[j].live
        /\ records[i].subject = records[j].subject
        /\ records[i].subject # NoSubject => i = j

\* One call at a time, over data and a table without repetition, with plain
\* texts, every page read and every answer heard.
Undisturbed ==
    /\ Cardinality(scene.engines) = 1 /\ ~scene.richText
    /\ scene.page = 0 /\ scene.unheard = 0
    /\ \A data \in scene.inputs : IsInjective([i \in DOMAIN data |-> data[i].subject])
    /\ \A t \in scene.tables : Distinct(t)

\* The Subject ID is the unique key of the sync (sync-engine.service.ts:26):
\* calls one after the other, with refused writes among them, leave no two
\* records with the same one.
UniqueSubject == Undisturbed => Distinct(table)

\* The table holds the data: one record for each subject, of its content.
InSync(data) ==
    /\ Distinct(table)
    /\ SubjectsOf(data) = {table[i].subject : i \in {j \in DOMAIN table :
                                                       Live(j)}}
    /\ \A i \in DOMAIN table : Live(i) => Mirrored(i, data)

\* analyzeChanges is incremental: of a table that is in sync with the data
\* and was read to its last page, nothing is created, updated or deleted
\* unless a full sync was asked for.
NothingToDo ==
    [][\A e \in Engines :
         /\ pc[e] = "analyze" /\ pc'[e] = "create"
         /\ ~opts[e].fullSync
         /\ Undisturbed
         /\ InSync(opts[e].data)
         => todo'[e] = NoTodo /\ summary'[e].total = 0]_vars

=============================================================================
