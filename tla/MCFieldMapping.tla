--------------------------- MODULE MCFieldMapping ---------------------------
(* Instances of FieldMapping for TLC: Subject ID and two more fields. *)
EXTENDS FieldMapping, TLC

CONSTANTS id, title, tags, t1

CallSymmetry == Permutations(Calls)

MCConfig == <<id, title, tags>>

Row(d, ok) == [name |-> d, match |-> ok]

\* An empty table, and one that has a field with another configuration.
MCInitFields == {<<>>, <<Row(tags, FALSE), Row(id, TRUE)>>}

\* A valid mapping and one that misses the Subject ID.
MCSetInputs == {id :> 2 @@ title :> 1, title :> 1}

MCSavedInputs == {NoMaps, t1 :> (id :> 1)}
=============================================================================
