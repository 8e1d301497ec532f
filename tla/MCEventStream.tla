--------------------------- MODULE MCEventStream ---------------------------
(* Four blocks: one before the fromBlock that ends with a log of another    *)
(* ABI, one that begins with such a log, one with two events, one without   *)
(* logs.  A stream from a block number delivers batches in the transaction  *)
(* of the checkpoint, one from the latest block delivers single events to a *)
(* handler of its own.                                                      *)
EXTENDS EventStream

MCLogs == <<<<"match", "other">>, <<"other", "match">>, <<"match", "match">>, <<>>>>
MCSetups == {[fromBlock |-> 2, notx |-> FALSE, batchSize |-> 2],
             [fromBlock |-> Latest, notx |-> TRUE, batchSize |-> 1]}
(* A stream whose fromBlock may be well ahead of the index when it starts. *)
LateSetups == {[fromBlock |-> 3, notx |-> FALSE, batchSize |-> 2]}
=============================================================================
