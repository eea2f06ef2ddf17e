---------------------------- MODULE MCLogReaders ----------------------------
(* Four log entries of up to three transactions, files or shards.           *)
EXTENDS LogReaders

FourKinds == {"oracle", "sqlserver", "datastream", "dynamodb"}
OneKind == {"datastream"}
Either == {TRUE, FALSE}
=============================================================================
