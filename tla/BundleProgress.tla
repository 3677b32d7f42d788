--------------------------- MODULE BundleProgress ---------------------------
(***************************************************************************)
(* What bounded continuation promises about a bundle of transitions, with  *)
(* no batches and no files: each step is done at most once, a receipt      *)
(* claims a step only when it and all steps before it have been done, and  *)
(* no claim is ever taken back.                                            *)
(***************************************************************************)
EXTENDS Naturals

CONSTANTS
    Receipts,   \* where receipts may be published
    Steps       \* how many steps the bundle has

VARIABLES
    done,       \* the steps that have been done
    claims      \* how many of the first steps each receipt claims

Init == done = {} /\ claims = [r \in Receipts |-> 0]

Do ==
    /\ \E k \in (1..Steps) \ done : done' = done \union {k}
    /\ UNCHANGED claims

Publish(r) ==
    /\ \E n \in claims[r]..Steps :
          /\ 1..n \subseteq done
          /\ claims' = [claims EXCEPT ![r] = n]
    /\ UNCHANGED done

Next == Do \/ \E r \in Receipts : Publish(r)

Spec == Init /\ [][Next]_<<done, claims>>
=============================================================================
