--------------------------- MODULE MCTableWorker ---------------------------
(* Values of TableWorker's constants for TLC: which offsets the changes    *)
(* carry.                                                                    *)
EXTENDS TableWorker

\* One offset per change: MongoDB resume tokens, DynamoDB sequence numbers,
\* MySQL events of one row.
OwnLabels == <<1, 2, 3>>

=============================================================================
