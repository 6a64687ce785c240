----------------------------- MODULE UploadOnce -----------------------------
(***************************************************************************)
(* What the delivery of one batch promises, whatever the number of upload  *)
(* attempts: the rows land in Doris at most once, and the result tells the *)
(* truth about it as far as it claims to know.                             *)
(***************************************************************************)

VARIABLES loaded,   \* the rows of the batch are in Doris
          report    \* "pending", "loaded", "notLoaded" or "unknown"

vars == <<loaded, report>>

Init == loaded = FALSE /\ report = "pending"

\* The rows land, once, and not behind the back of a caller that was told
\* they did not.
Land ==
    /\ ~loaded /\ report \in {"pending", "unknown"}
    /\ loaded' = TRUE
    /\ UNCHANGED report

Report ==
    /\ report = "pending"
    /\ \/ loaded /\ report' = "loaded"
       \/ ~loaded /\ report' = "notLoaded"
       \/ report' = "unknown"
    /\ UNCHANGED loaded

\* The answer to an upload: the rows have landed with it.
LandAndReport ==
    /\ ~loaded /\ report = "pending"
    /\ loaded' = TRUE /\ report' = "loaded"

Next == Land \/ Report \/ LandAndReport

Spec == Init /\ [][Next]_vars

=============================================================================
