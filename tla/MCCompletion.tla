---------------------------- MODULE MCCompletion ----------------------------
(* An instance of Completion for TLC: one call of each kind; two of them    *)
(* wait for the same batch.                                                *)
EXTENDS Completion

MCDispatched  == <<1, 2, 3>>
MCMaxAttempts == <<2, 1, 1>>
MCBytes       == [b \in Batches |-> 5 + b]
MCKind        == [c \in Waiters |-> <<"wait", "timeout", "async">>[c]]
MCAwaits      == [c \in Waiters |-> <<1, 1, 2>>[c]]
=============================================================================
