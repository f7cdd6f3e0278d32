---------------------------- MODULE MCSyncEngine ----------------------------
(* Instances of SyncEngine for TLC. *)
EXTENDS SyncEngine

CONSTANTS a, b, none, e1, e2

MCSubjects == {a, b}

\* "V " is trimmed to "V", which is "v" in lower case.
MCValues == {"v", "V", "V ", "w", "null", "undefined"}

MCTrim == [v \in MCValues |-> IF v = "V " THEN "V" ELSE v]

MCLower == [v \in MCValues |-> IF v = "V" THEN "v" ELSE v]

Row(s, v) == [subject |-> s, value |-> v, live |-> TRUE]

Book(s, v) == [subject |-> s, value |-> v, valid |-> TRUE]

Invalid(s) == [subject |-> s, value |-> "v", valid |-> FALSE]

\* Repeated items, an item without a subject, an invalid one.
MixedInputs == {<<Book(a, "V "), Book(b, "null"), Book(a, "v")>>,
                <<Book(none, "v"), Book(a, "w")>>,
                <<Book(b, "v"), Invalid(a)>>}

MixedTables == {<<>>, <<Row(a, "w"), Row(none, "v"), Row(b, "w")>>}

DistinctInputs == {<<Book(a, "V "), Book(b, "w")>>, <<Book(a, "w")>>,
                   <<Book(b, "null"), Book(a, "v")>>}

DistinctTables == {<<>>, <<Row(a, "v"), Row(b, "w")>>,
                   <<Row(none, "v"), Row(b, "null"), Row(a, "w")>>}

TwoBooks == {<<Book(a, "v"), Book(b, "w")>>}

\* One call after the other, without faults but a refused write.
Alone == [engines |-> {e1}, runs |-> 3, inputs |-> DistinctInputs,
          tables |-> DistinctTables, richText |-> FALSE,
          pageSize |-> 1, batchSize |-> 1, retryAttempts |-> 3,
          page |-> 0, refused |-> 1, unheard |-> 0]

MCScenarios ==
    {Alone,
     \* two calls at a time, a page that cannot be read, a lost answer
     [Alone EXCEPT !.engines = {e1, e2}, !.runs = 1, !.inputs = MixedInputs,
                   !.tables = MixedTables, !.batchSize = 2,
                   !.retryAttempts = 1, !.page = 1, !.refused = 0,
                   !.unheard = 1],
     \* answers lost until the client gives up
     [Alone EXCEPT !.runs = 1, !.inputs = MixedInputs, !.tables = MixedTables,
                   !.batchSize = 2, !.retryAttempts = 1, !.unheard = 2],
     \* texts in the array form
     [Alone EXCEPT !.runs = 2, !.inputs = TwoBooks, !.richText = TRUE,
                   !.batchSize = 2]}
=============================================================================
