--------------------------- MODULE MCQueueSources ---------------------------
(* Two tables whose changes alternate, and where they fall in a split      *)
(* change stream.                                                            *)
EXTENDS QueueSources

CONSTANTS a, b

AllKinds == {"postgres", "debezium", "cockroachdb", "spanner"}
TwoTables == {a, b}
Alternating == <<a, b, a, a>>
Commits == <<1, 2, 4, 4>>
Halves == <<1, 2, 2, 1>>
=============================================================================
