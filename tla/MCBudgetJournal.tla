-------------------------- MODULE MCBudgetJournal --------------------------
(* Instances of BudgetJournal for TLC. *)
EXTENDS BudgetJournal, TLC

CONSTANTS s1, s2, t1, o1, o2, o3, d1, d2, d3, k1, k2, k3, e1

Binding(s, id, owner, upper, closeout, dispatch, permit) ==
    [scope |-> s, id |-> id, owner |-> owner, upper |-> upper,
     closeout |-> closeout, matches |-> TRUE, dispatch |-> dispatch,
     permit |-> permit]

\* Ordinary work and closeout work of one task.
Work == Binding(s1, o1, t1, 1, FALSE, d1, k1)
Closing == Binding(s1, o2, t1, 2, TRUE, d2, k2)

\* The operation id of Work under another policy, more work for the same task
\* with the dispatch key of Closing, and work in another scope that uses the
\* permit of Work.
Changed == [Work EXCEPT !.upper = 2, !.matches = FALSE]
Extra == Binding(s1, o3, t1, 1, FALSE, d2, k3)
Borrowed == Binding(s2, o1, RunOwner, 1, FALSE, d3, k1)

AllBindings == {Work, Closing, Changed, Extra, Borrowed}

Opening(known, covered) ==
    [spent |-> [o \in Owners |-> 0], known |-> known, covered |-> covered]
AllOpenings == {Opening(TRUE, {}), Opening(FALSE, {e1})}

CapOfTask == t1 :> 3
Interchangeable == Permutations(Controllers)

CloseoutShares == (t1 :> 2) @@ (RunOwner :> 0)
=============================================================================
