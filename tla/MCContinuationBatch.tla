------------------------ MODULE MCContinuationBatch ------------------------
(* An instance of ContinuationBatch for TLC. *)
EXTENDS ContinuationBatch, TLC

CONSTANTS b1, b2, s1, s2, s3, local, remote

\* Two local steps, then one that only an unrestricted batch may apply.
ThreeSteps ==
    << [op |-> s1, type |-> local], [op |-> s2, type |-> local],
       [op |-> s3, type |-> remote] >>

\* The calls may apply two steps and one step.
Caps == (b1 :> 2) @@ (b2 :> 1)
=============================================================================
