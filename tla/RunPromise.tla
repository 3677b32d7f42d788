----------------------------- MODULE RunPromise -----------------------------
(***************************************************************************)
(* What a workflow run promises its operator, without tasks' attempts,     *)
(* blockers, pauses and authorization: required tasks are accepted one at  *)
(* a time, the final audit is reached only when all of them are, accepted  *)
(* work is reopened only by that audit or by a new plan, and the run ends  *)
(* complete only out of an audit that was accepted.                        *)
(***************************************************************************)
CONSTANT Required  \* the tasks that must be accepted

VARIABLES
    stage,      \* "working", "auditing", "complete" or "cancelled"
    accepted,   \* the required tasks that are accepted
    approved    \* TRUE iff the latest final-audit outcome is ACCEPTED

promise == <<stage, accepted, approved>>

Begin == stage = "working" /\ accepted = {} /\ approved = FALSE

Accept ==
    /\ stage = "working"
    /\ \E t \in Required \ accepted : accepted' = accepted \union {t}
    /\ stage' \in IF accepted' = Required THEN {"working", "auditing"} ELSE {"working"}
    /\ UNCHANGED approved

EnterAudit ==
    /\ stage = "working" /\ accepted = Required
    /\ stage' = "auditing"
    /\ UNCHANGED <<accepted, approved>>

\* One outcome of the audit: it approves, reopens accepted work, or sends the
\* run back without reopening any.
Audit ==
    /\ stage = "auditing"
    /\ \/ approved' = TRUE /\ UNCHANGED <<stage, accepted>>
       \/ /\ approved' = FALSE
          /\ stage' \in {"auditing", "working"}
          /\ accepted' \subseteq accepted
          /\ accepted' # accepted => stage' = "working"

Replan ==
    /\ stage \in {"working", "auditing"}
    /\ stage' = "working"
    /\ accepted' \subseteq accepted
    /\ UNCHANGED approved

Complete ==
    /\ stage = "auditing" /\ approved
    /\ stage' = "complete"
    /\ UNCHANGED <<accepted, approved>>

Cancel ==
    /\ stage = "working"
    /\ stage' = "cancelled"
    /\ UNCHANGED <<accepted, approved>>

Step == Accept \/ EnterAudit \/ Audit \/ Replan \/ Complete \/ Cancel

Promise == Begin /\ [][Step]_promise
=============================================================================
