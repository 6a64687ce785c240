--------------------------- MODULE MCDeliveryBatch ---------------------------
(* An instance of DeliveryBatch for TLC: records of 1 to 3 bytes.          *)
EXTENDS DeliveryBatch

MCSize    == [s \in Subs |-> <<<<2>>, <<1, 3>>, <<1, 1, 2>>>>[s]]
MCCount   == [s \in Subs |-> Len(MCSize[s])]
MCPayload == [s \in Subs |-> SumOf(MCSize[s])]
=============================================================================
