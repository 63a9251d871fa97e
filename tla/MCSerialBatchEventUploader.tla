------------------- MODULE MCSerialBatchEventUploader -------------------
(* Instances of SerialBatchEventUploader for TLC. The bounds on the callers  *)
(* (NumCalls, NumFlushes, MaxItems, MaxBad) are the only ones: POSTs may    *)
(* fail as often as they like.                                             *)
EXTENDS SerialBatchEventUploader
=============================================================================
