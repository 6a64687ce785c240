--------------------------- MODULE ClientService ---------------------------
(***************************************************************************)
(* What the buffered stream-load client promises its callers, without      *)
(* queue, batches, threads or tasks.  A submission is sent with one call,  *)
(* which accepts it (the caller gets a handle) or rejects it.  The handle  *)
(* of an accepted submission completes once, and a close() that drains     *)
(* returns only when every accepted handle has completed, after which      *)
(* nothing is accepted any more.                                           *)
(*                                                                         *)
(* The blocking and the async client are both meant to implement it.       *)
(***************************************************************************)
EXTENDS FiniteSets

CONSTANTS Subs,      \* the submissions callers may send, one call each
          Closers    \* the callers of close()

VARIABLES status,    \* status[s]: where the send call of s stands
          done,      \* the submissions whose handle has completed
          closing,   \* closing[c]: where the close call of c stands
          drained    \* a close() has returned having drained the client

vars == <<status, done, closing, drained>>

TypeOK ==
    /\ status \in [Subs -> {"idle", "calling", "accepted", "rejected"}]
    /\ done \subseteq Subs
    /\ closing \in [Closers -> {"idle", "calling", "drained", "returned"}]
    /\ drained \in BOOLEAN

Accepted == {s \in Subs : status[s] = "accepted"}

Init ==
    /\ status = [s \in Subs |-> "idle"]
    /\ done = {}
    /\ closing = [c \in Closers |-> "idle"]
    /\ drained = FALSE

\* A caller starts to send s.
Call(s) ==
    /\ status[s] = "idle"
    /\ status' = [status EXCEPT ![s] = "calling"]
    /\ UNCHANGED <<done, closing, drained>>

\* The call returns a handle: never after a draining close() has returned.
Accept(s) ==
    /\ status[s] = "calling"
    /\ ~drained
    /\ status' = [status EXCEPT ![s] = "accepted"]
    /\ UNCHANGED <<done, closing, drained>>

\* The call returns SendTooLarge, QueueFull or ClientClosed.
Reject(s) ==
    /\ status[s] \in {"idle", "calling"}
    /\ status' = [status EXCEPT ![s] = "rejected"]
    /\ UNCHANGED <<done, closing, drained>>

\* The handle of an accepted submission gets its result, once.
Complete(s) ==
    /\ status[s] = "accepted"
    /\ s \notin done
    /\ done' = done \cup {s}
    /\ UNCHANGED <<status, closing, drained>>

StartClose(c) ==
    /\ closing[c] = "idle"
    /\ closing' = [closing EXCEPT ![c] = "calling"]
    /\ UNCHANGED <<status, done, drained>>

\* close() returns Ok having drained the client.
FinishClose(c) ==
    /\ closing[c] = "calling"
    /\ Accepted \subseteq done
    /\ closing' = [closing EXCEPT ![c] = "drained"]
    /\ drained' = TRUE
    /\ UNCHANGED <<status, done>>

\* close() returns without a promise: a second close(), or a panicked thread.
ReturnClose(c) ==
    /\ closing[c] \in {"idle", "calling"}
    /\ closing' = [closing EXCEPT ![c] = "returned"]
    /\ UNCHANGED <<status, done, drained>>

Next ==
    \/ \E s \in Subs : Call(s) \/ Accept(s) \/ Reject(s) \/ Complete(s)
    \/ \E c \in Closers : StartClose(c) \/ FinishClose(c) \/ ReturnClose(c)

SafeSpec == Init /\ [][Next]_vars

Spec == SafeSpec /\ \A s \in Subs : WF_vars(Complete(s))

=============================================================================
