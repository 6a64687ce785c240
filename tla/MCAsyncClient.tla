---------------------------- MODULE MCAsyncClient ----------------------------
(* An instance of AsyncClient for TLC: JSON bodies of at most 10 bytes.     *)
(* 1 and 2 together fill a body exactly, 3 fits with neither.              *)
EXTENDS AsyncClient

MCCount   == [s \in Subs |-> <<1, 1, 2>>[s]]
MCPayload == [s \in Subs |-> <<3, 4, 4>>[s]]
=============================================================================
