---------------------------- MODULE MCSyncClient ----------------------------
(* Instances of SyncClient for TLC.                                        *)
EXTENDS SyncClient

\* CSV, batch_bytes 10.  1 and 2 together fill a body exactly, and so do 1
\* and 3; 2 and 3 overflow by one byte; 4 is too large.
MCCount   == [s \in Subs |-> <<1, 2, 1, 1>>[s]]
MCPayload == [s \in Subs |-> <<4, 4, 5, 11>>[s]]
MCBatchBytes == 10

\* JSON: 1 and 2 together fill a body exactly, 3 fits with neither.
MCJsonCount   == [s \in Subs |-> <<1, 1, 2>>[s]]
MCJsonPayload == [s \in Subs |-> <<3, 4, 4>>[s]]
=============================================================================
