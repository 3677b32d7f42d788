-------------------------- MODULE OperationHistory --------------------------
(***************************************************************************)
(* What the mutation kernel promises its callers, with no files, no locks  *)
(* and no processes: one history of operations, each recorded at most once *)
(* and never taken back.  An interrupted commit may seal the history; a    *)
(* sealed history is never extended again.                                 *)
(***************************************************************************)
EXTENDS Sequences, SequencesExt

CONSTANT Operations

VARIABLES
    history,    \* the operations recorded so far, oldest first
    sealed      \* TRUE once an interrupted commit has made the run read-only

Init == history = <<>> /\ sealed = FALSE

Record(op) ==
    /\ ~sealed
    /\ ~Contains(history, op)
    /\ history' = Append(history, op)
    /\ UNCHANGED sealed

Seal ==
    /\ ~sealed
    /\ sealed' = TRUE
    /\ UNCHANGED history

Next == Seal \/ \E op \in Operations : Record(op)

Spec == Init /\ [][Next]_<<history, sealed>>
=============================================================================
