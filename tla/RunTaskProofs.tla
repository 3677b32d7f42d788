--------------------------- MODULE RunTaskProofs ---------------------------
(***************************************************************************)
(* More proofs about WorkflowRun, in four parts: how many tasks are at     *)
(* work, with what a wait for a budget decision does to that number; whose *)
(* results and attempts the state names; that the handlers agree with the  *)
(* validator and no blocker lingers; and that a current run keeps the      *)
(* promise of RunPromise.                                                  *)
(***************************************************************************)
EXTENDS WorkflowRunProofs, FiniteSetTheorems

-----------------------------------------------------------------------------
(***************************************************************************)
(* How many tasks are at work, and what a wait for a budget decision does  *)
(* to that number, for every set of tasks, every cap and both state        *)
(* schemas.                                                                *)
(*                                                                         *)
(* The cap is looked at when a task starts and nowhere else; a task that   *)
(* comes back from a budget wait does not look.  What saves the cap is     *)
(* that the run waits as long as the task does, so that nothing starts in  *)
(* between, and that only one task waits at a time: the tasks at work and  *)
(* the waiting one together stay within the cap.                           *)
(***************************************************************************)

Wait == "WAITING_FOR_BUDGET_DECISION"

Waiting(s) == {t \in Tasks : s.tasks[t].status = Wait}
Engaged(s) == {t \in Tasks : s.tasks[t].status \in {"RUNNING", "VERIFYING", Wait}}

WaitInv(s) ==
    /\ Waiting(s) # {} <=> Back(s) = Wait
    /\ \A t, u \in Waiting(s) : t = u
    /\ Cardinality(Engaged(s)) <= MaxParallelTasks

LEMMA EngagedFinite ==
    ASSUME NEW s
    PROVE  IsFiniteSet(Engaged(s)) /\ Cardinality(Engaged(s)) \in Nat
BY TasksAssumption, FS_Subset, FS_CardinalityType DEF Engaged

LEMMA CommitOrNot ==
    ASSUME NEW op, NEW next, Commit(op, next)
    PROVE  run' = next \/ run' = run
BY DEF Commit

(***************************************************************************)
(* What most operations do: nobody is put to work and nobody waits.        *)
(***************************************************************************)
LEMMA FewerWait ==
    ASSUME WaitInv(run), NEW next,
           Waiting(next) = Waiting(run), Engaged(next) \subseteq Engaged(run),
           Back(next) = Wait <=> Back(run) = Wait
    PROVE  WaitInv(next)
<1>1. Cardinality(Engaged(next)) <= Cardinality(Engaged(run))
  BY EngagedFinite, FS_Subset
<1> QED
  BY <1>1, EngagedFinite, BudgetAssumption DEF WaitInv

LEMMA SameTasksWait ==
    ASSUME WaitInv(run), NEW next, next.tasks = run.tasks,
           Back(next) = Wait <=> Back(run) = Wait
    PROVE  WaitInv(next)
BY FewerWait DEF Waiting, Engaged

\* An operation on one task that is at work and that it does not make wait.
LEMMA OneTaskWait ==
    ASSUME WaitInv(run), NEW t \in Tasks, NEW next,
           run.tasks[t].status \in {"RUNNING", "VERIFYING"},
           next.tasks[t].status # Wait,
           \A u \in Tasks \ {t} : next.tasks[u] = run.tasks[u],
           Back(next) # Wait, Back(run) # Wait
    PROVE  WaitInv(next)
<1>1. Waiting(next) = Waiting(run)
  BY DEF Waiting, Wait
<1>2. Engaged(next) \subseteq Engaged(run)
  BY DEF Engaged
<1> QED
  BY <1>1, <1>2, FewerWait

(***************************************************************************)
(* The operations that leave the tasks alone.                              *)
(***************************************************************************)
LEMMA AuthorizeWait == ASSUME TypeInv, WaitInv(run), AuthorizeExecution PROVE WaitInv(run')
<1> DEFINE next ==
        [run EXCEPT !.phase = "READY",
            !.authorization = [required |-> FALSE, granted |-> TRUE, expiry |-> "ahead"]]
<1>1. next.tasks = run.tasks /\ Back(next) # Wait /\ Back(run) # Wait
  BY TypeInvParts DEF StateInv, Run, Back, Wait, AuthorizeExecution
<1>2. run' = next \/ run' = run
  BY CommitOrNot DEF AuthorizeExecution
<1> HIDE DEF next
<1> QED
  BY <1>1, <1>2, SameTasksWait

LEMMA RenewWait == ASSUME TypeInv, WaitInv(run), RenewAuthorization PROVE WaitInv(run')
<1> DEFINE next == [run EXCEPT !.authorization.expiry = "ahead"]
<1>1. next.tasks = run.tasks /\ Back(next) = Back(run)
  BY TypeInvParts DEF StateInv, Run, Back
<1>2. run' = next \/ run' = run
  BY CommitOrNot DEF RenewAuthorization
<1> HIDE DEF next
<1> QED
  BY <1>1, <1>2, SameTasksWait

LEMMA ExpiryWait == ASSUME TypeInv, WaitInv(run), AuthorizationExpires PROVE WaitInv(run')
<1> DEFINE next == [run EXCEPT !.authorization.expiry = "past"]
<1>1. next.tasks = run.tasks /\ Back(next) = Back(run)
  BY TypeInvParts DEF StateInv, Run, Back
<1>2. run' = next
  BY DEF AuthorizationExpires
<1> HIDE DEF next
<1> QED
  BY <1>1, <1>2, SameTasksWait

LEMMA StartExecutionWait == ASSUME TypeInv, WaitInv(run), StartExecution PROVE WaitInv(run')
<1> DEFINE next == [run EXCEPT !.phase = IF Required # {} /\ AllAccepted(run.tasks)
                                         THEN "FINAL_AUDIT" ELSE "RUNNING"]
<1>1. next.tasks = run.tasks /\ Back(next) # Wait /\ Back(run) # Wait
  BY TypeInvParts DEF StateInv, Run, Back, Wait, StartExecution
<1>2. run' = next \/ run' = run
  BY CommitOrNot DEF StartExecution
<1> HIDE DEF next
<1> QED
  BY <1>1, <1>2, SameTasksWait

\* A block hides the phase and returns to it.
LEMMA BlockWait ==
    ASSUME TypeInv, WaitInv(run), NEW subject \in Tasks \union {NoTask}, BlockRun(subject)
    PROVE  WaitInv(run')
<1> DEFINE next ==
        [run EXCEPT !.phase = "BLOCKED", !.blocker = RunBlocker(run.phase, subject)]
<1>1. next.tasks = run.tasks /\ Back(next) = Back(run)
  BY TypeInvParts DEF StateInv, Run, Back, BlockRun, RunBlocker
<1>2. run' = next \/ run' = run
  BY CommitOrNot DEF BlockRun
<1> HIDE DEF next
<1> QED
  BY <1>1, <1>2, SameTasksWait

LEMMA ResolveWait == ASSUME TypeInv, WaitInv(run), ResolveBlocker PROVE WaitInv(run')
<1> DEFINE next == [run EXCEPT !.phase = run.blocker.resume, !.blocker = NoBlocker]
<1>1. next.tasks = run.tasks /\ (Back(next) = Wait <=> Back(run) = Wait)
  BY TypeInvParts DEF StateInv, Run, Back, Wait, ResolveBlocker, NoBlocker
<1>2. run' = next \/ run' = run
  BY CommitOrNot DEF ResolveBlocker
<1> HIDE DEF next
<1> QED
  BY <1>1, <1>2, SameTasksWait

LEMMA PauseWait == ASSUME TypeInv, WaitInv(run), PauseForExternalAction PROVE WaitInv(run')
<1> DEFINE next ==
        [run EXCEPT !.phase = "WAITING_FOR_EXTERNAL_ACTION", !.external = run.phase]
<1>1. next.tasks = run.tasks /\ Back(next) = Back(run)
  BY TypeInvParts
  DEF StateInv, Run, Back, PauseForExternalAction, ExternalActionPhases
<1>2. run' = next \/ run' = run
  BY CommitOrNot DEF PauseForExternalAction
<1> HIDE DEF next
<1> QED
  BY <1>1, <1>2, SameTasksWait

LEMMA ResumeWait == ASSUME TypeInv, WaitInv(run), ResumeExternalAction PROVE WaitInv(run')
<1> DEFINE next ==
        [run EXCEPT !.phase = run.external, !.external = "none",
                    !.blocker = IF @.scope = "external" THEN NoBlocker ELSE @]
<1>1. next.tasks = run.tasks /\ Back(next) = Back(run)
  BY TypeInvParts
  DEF StateInv, Run, Back, ResumeExternalAction, ExternalActionPhases
<1>2. run' = next \/ run' = run
  BY CommitOrNot DEF ResumeExternalAction
<1> HIDE DEF next
<1> QED
  BY <1>1, <1>2, SameTasksWait

LEMMA AuditAcceptedWait == ASSUME TypeInv, WaitInv(run), FinalAuditAccepted PROVE WaitInv(run')
<1> DEFINE next == [run EXCEPT !.outcome = Audited("ACCEPTED")]
<1>1. next.tasks = run.tasks /\ Back(next) = Back(run)
  BY TypeInvParts DEF StateInv, Run, Back
<1>2. run' = next \/ run' = run
  BY CommitOrNot DEF FinalAuditAccepted
<1> HIDE DEF next
<1> QED
  BY <1>1, <1>2, SameTasksWait

LEMMA AuditContractWait ==
    ASSUME TypeInv, WaitInv(run), FinalAuditContractChange
    PROVE  WaitInv(run')
<1> DEFINE next ==
        [run EXCEPT !.phase = "BLOCKED", !.outcome = Audited("CONTRACT_CHANGE"),
            !.blocker = [NoBlocker EXCEPT !.scope = "plan", !.route = "adopt-plan"]]
<1>1. next.tasks = run.tasks /\ Back(next) # Wait /\ Back(run) # Wait
  BY TypeInvParts
  DEF StateInv, Run, Back, Wait, FinalAuditContractChange, NoBlocker
<1>2. run' = next \/ run' = run
  BY CommitOrNot DEF FinalAuditContractChange
<1> HIDE DEF next
<1> QED
  BY <1>1, <1>2, SameTasksWait

LEMMA AuditBlockedWait ==
    ASSUME TypeInv, WaitInv(run), NEW resume \in Resumable, FinalAuditBlocked(resume)
    PROVE  WaitInv(run')
<1> DEFINE next ==
        [run EXCEPT !.phase = "WAITING_FOR_EXTERNAL_ACTION", !.external = resume,
            !.outcome = Audited("BLOCKED"),
            !.blocker = [NoBlocker EXCEPT !.scope = "external",
                                          !.route = "external-action"]]
<1>1. next.tasks = run.tasks /\ Back(next) # Wait /\ Back(run) # Wait
  BY TypeInvParts
  DEF StateInv, Run, Back, Wait, FinalAuditBlocked, Resumable, ExternalActionPhases
<1>2. run' = next \/ run' = run
  BY CommitOrNot DEF FinalAuditBlocked
<1> HIDE DEF next
<1> QED
  BY <1>1, <1>2, SameTasksWait

LEMMA FinalizeWait == ASSUME TypeInv, WaitInv(run), FinalizeRun PROVE WaitInv(run')
<1> DEFINE next == [run EXCEPT !.phase = "COMPLETE"]
<1>1. next.tasks = run.tasks /\ Back(next) # Wait /\ Back(run) # Wait
  BY TypeInvParts DEF StateInv, Run, Back, Wait, FinalizeRun
<1>2. run' = next \/ run' = run
  BY CommitOrNot DEF FinalizeRun
<1> HIDE DEF next
<1> QED
  BY <1>1, <1>2, SameTasksWait

(***************************************************************************)
(* The operations on one task that is at work.                             *)
(***************************************************************************)
LEMMA ResultWait ==
    ASSUME TypeInv, WaitInv(run), NEW t \in Tasks, CommitTaskResult(t)
    PROVE  WaitInv(run')
<1> DEFINE next ==
        [run EXCEPT !.tasks[t].status = "VERIFYING", !.tasks[t].result = run.plan,
                    !.phase = ReviewPhase]
<1>1. run.tasks[t] \in Task /\ run.tasks[t].status = "RUNNING"
  BY TypeInvParts DEF StateInv, Run, CommitTaskResult
<1>2. /\ next.tasks[t].status = "VERIFYING"
      /\ \A u \in Tasks \ {t} : next.tasks[u] = run.tasks[u]
      /\ Back(next) # Wait /\ Back(run) # Wait
  BY <1>1, TypeInvParts DEF StateInv, Run, Task, Back, Wait, ReviewPhase, CommitTaskResult
<1>3. run' = next \/ run' = run
  BY CommitOrNot DEF CommitTaskResult
<1> HIDE DEF next
<1> QED
  BY <1>1, <1>2, <1>3, OneTaskWait DEF Wait

LEMMA ReworkWait ==
    ASSUME TypeInv, WaitInv(run), NEW t \in Tasks, ReworkTask(t)
    PROVE  WaitInv(run')
<1> DEFINE next == [run EXCEPT !.tasks[t] = Archived(@),
                               !.phase = IF Current THEN @ ELSE "REMEDIATING"]
<1>1. run.tasks[t] \in Task /\ run.tasks[t].status = "VERIFYING"
  BY TypeInvParts DEF StateInv, Run, ReworkTask
<1>2. Archived(run.tasks[t]).status = "REWORK"
  BY <1>1 DEF Archived, Task
<1>3. /\ next.tasks[t].status = "REWORK"
      /\ \A u \in Tasks \ {t} : next.tasks[u] = run.tasks[u]
      /\ Back(next) # Wait /\ Back(run) # Wait
  BY <1>2, TypeInvParts DEF StateInv, Run, Back, Wait, ReviewPhase, ReworkTask
<1>4. run' = next \/ run' = run
  BY CommitOrNot DEF ReworkTask
<1> HIDE DEF next
<1> QED
  BY <1>1, <1>3, <1>4, OneTaskWait DEF Wait

LEMMA OutcomeWait ==
    ASSUME TypeInv, WaitInv(run), NEW t \in Tasks,
           NEW verdict \in {"CONTRACT_CHANGE", "BLOCKED"}, NEW route \in TaskRoutes,
           ApplyTaskReviewOutcome(t, verdict, route)
    PROVE  WaitInv(run')
<1> DEFINE next ==
        [run EXCEPT !.tasks[t].status = verdict,
                    !.tasks[t].blocker = IF verdict = "BLOCKED" THEN route ELSE @]
<1>1. run.tasks[t] \in Task /\ run.tasks[t].status = "VERIFYING"
  BY TypeInvParts DEF StateInv, Run, ApplyTaskReviewOutcome, Status
<1>2. /\ next.tasks[t].status = verdict
      /\ \A u \in Tasks \ {t} : next.tasks[u] = run.tasks[u]
      /\ Back(next) # Wait /\ Back(run) # Wait
  BY <1>1, TypeInvParts
  DEF StateInv, Run, Task, Back, Wait, ReviewPhase, ApplyTaskReviewOutcome
<1>3. run' = next \/ run' = run
  BY CommitOrNot DEF ApplyTaskReviewOutcome
<1> HIDE DEF next
<1> QED
  BY <1>1, <1>2, <1>3, OneTaskWait DEF Wait

\* Whatever the acceptance unlocks was pending and is not at work yet.
LEMMA AcceptWait ==
    ASSUME TypeInv, WaitInv(run), NEW t \in Tasks, AcceptTask(t)
    PROVE  WaitInv(run')
<1> DEFINE reviewed == [run.tasks EXCEPT ![t].status = "ACCEPTED"]
<1> DEFINE tasks == Unlocked(reviewed)
<1> DEFINE next == [run EXCEPT !.tasks = tasks, !.phase = PhaseAfterAcceptance(tasks)]
<1>1. run.tasks \in [Tasks -> Task] /\ run.tasks[t].status = "VERIFYING"
  BY TypeInvParts DEF StateInv, Run, AcceptTask
<1>2. reviewed \in [Tasks -> Task]
  <2>1. [run.tasks[t] EXCEPT !.status = "ACCEPTED"] \in Task
    BY <1>1 DEF Task, Statuses, TaskStatuses
  <2> QED
    BY <1>1, <2>1
<1>3. reviewed[t].status = "ACCEPTED" /\ \A u \in Tasks \ {t} : reviewed[u] = run.tasks[u]
  BY <1>1 DEF Task
<1>4. PhaseAfterAcceptance(tasks) \in {"FINAL_AUDIT", "RUNNING"}
  BY DEF PhaseAfterAcceptance
<1>5. /\ next.tasks = tasks
      /\ Back(next) # Wait /\ Back(run) # Wait
  <2> HIDE DEF tasks
  <2> QED
    BY <1>4, TypeInvParts DEF StateInv, Run, Back, Wait, ReviewPhase, AcceptTask
<1>6. run' = next \/ run' = run
  BY CommitOrNot DEF AcceptTask
<1> HIDE DEF next, reviewed
<1>7. /\ \A u \in Tasks : \/ tasks[u] = reviewed[u]
                          \/ reviewed[u].status = "PENDING" /\ tasks[u].status = "READY"
  BY <1>2, UnlockedTyped
<1> HIDE DEF tasks
<1>8. Waiting(next) = Waiting(run)
  BY <1>1, <1>3, <1>5, <1>7 DEF Waiting, Wait
<1>9. Engaged(next) \subseteq Engaged(run)
  BY <1>1, <1>3, <1>5, <1>7 DEF Engaged, Wait
<1> QED
  BY <1>5, <1>6, <1>8, <1>9, FewerWait

(***************************************************************************)
(* The start of a task, and the budget wait.                               *)
(***************************************************************************)
\* Nobody waits while a task may start, so the cap that is looked at is the
\* whole of it.
LEMMA StartTaskWait ==
    ASSUME TypeInv, WaitInv(run), NEW t \in Tasks, NEW lent \in BOOLEAN, StartTask(t, lent)
    PROVE  WaitInv(run')
<1> DEFINE next ==
        [run EXCEPT !.tasks[t] = Attempted(@, Min(FreeAttempts(t)), lent), !.phase = "RUNNING"]
<1>1. run.tasks[t] \in Task
  BY TypeInvParts DEF StateInv, Run
<1>2. Attempted(run.tasks[t], Min(FreeAttempts(t)), lent).status = "RUNNING"
  BY <1>1 DEF Attempted, RoutedAtStart, Task
<1>3. /\ next.tasks[t].status = "RUNNING"
      /\ \A u \in Tasks \ {t} : next.tasks[u] = run.tasks[u]
      /\ Back(next) # Wait /\ Back(run) # Wait
  BY <1>2, TypeInvParts DEF StateInv, Run, Back, Wait, StartTask
<1>4. Waiting(run) = {} /\ run.tasks[t].status # Wait
  BY <1>3 DEF WaitInv, Waiting
<1>5. Engaged(run) = Occupied
  BY <1>4 DEF Engaged, Waiting, Occupied, With, Status
<1>6. Cardinality(Engaged(run)) < MaxParallelTasks
  BY <1>5 DEF StartTask, Startable
<1>7. run' = next \/ run' = run
  BY CommitOrNot DEF StartTask
<1> HIDE DEF next
<1>8. Waiting(next) = {}
  BY <1>3, <1>4 DEF Waiting, Wait
<1>9. Engaged(next) = Engaged(run) \union {t}
  BY <1>3 DEF Engaged
<1>10. Cardinality(Engaged(next)) <= Cardinality(Engaged(run)) + 1
  BY <1>9, EngagedFinite, FS_AddElement
<1>11. WaitInv(next)
  BY <1>3, <1>6, <1>8, <1>10, EngagedFinite, BudgetAssumption DEF WaitInv
<1> QED
  BY <1>7, <1>11

\* The first to wait: nobody waits in a run that is at work.
LEMMA BudgetPauseWait ==
    ASSUME TypeInv, WaitInv(run), NEW t \in Tasks, PauseForBudgetDecision(t)
    PROVE  WaitInv(run')
<1> DEFINE next ==
        [run EXCEPT !.tasks[t].status = "WAITING_FOR_BUDGET_DECISION",
                    !.tasks[t].blocker = "budget-decision",
                    !.phase = "WAITING_FOR_BUDGET_DECISION",
                    !.blocker = TaskBlocker(t, "budget-decision")]
<1>1. run.tasks[t] \in Task /\ run.tasks[t].status = "RUNNING" /\ Back(run) # Wait
  BY TypeInvParts DEF StateInv, Run, PauseForBudgetDecision, Status, Back, Wait
<1>2. /\ next.tasks[t].status = Wait
      /\ \A u \in Tasks \ {t} : next.tasks[u] = run.tasks[u]
      /\ Back(next) = Wait
  BY <1>1, TypeInvParts DEF StateInv, Run, Task, Back, Wait
<1>3. run' = next \/ run' = run
  BY CommitOrNot DEF PauseForBudgetDecision
<1> HIDE DEF next
<1>4. Waiting(next) = {t}
  BY <1>1, <1>2 DEF WaitInv, Waiting
<1>5. Engaged(next) = Engaged(run)
  BY <1>1, <1>2 DEF Engaged
<1>6. WaitInv(next)
  BY <1>2, <1>4, <1>5 DEF WaitInv
<1> QED
  BY <1>3, <1>6

\* The decision ends the wait of the only task that waits.
LEMMA WaitEnds ==
    ASSUME WaitInv(run), NEW t \in Tasks, NEW next, run.tasks[t].status = Wait,
           next.tasks[t].status # Wait,
           \A u \in Tasks \ {t} : next.tasks[u] = run.tasks[u],
           Back(next) # Wait
    PROVE  WaitInv(next)
<1>1. Waiting(next) = {}
  BY DEF WaitInv, Waiting
<1>2. Engaged(next) \subseteq Engaged(run)
  BY DEF Engaged
<1>3. Cardinality(Engaged(next)) <= Cardinality(Engaged(run))
  BY <1>2, EngagedFinite, FS_Subset
<1> QED
  BY <1>1, <1>3, EngagedFinite, BudgetAssumption DEF WaitInv

LEMMA ContinueWait ==
    ASSUME TypeInv, WaitInv(run), NEW t \in Tasks, BudgetContinue(t)
    PROVE  WaitInv(run')
<1> DEFINE next ==
        [run EXCEPT !.tasks[t].status = "RUNNING", !.tasks[t].blocker = "none",
                    !.phase = "RUNNING", !.blocker = NoBlocker]
<1>1. run.tasks[t] \in Task /\ run.tasks[t].status = Wait
  BY TypeInvParts DEF StateInv, Run, BudgetContinue, DecidableBudget, Status, Wait
<1>2. /\ next.tasks[t].status = "RUNNING"
      /\ \A u \in Tasks \ {t} : next.tasks[u] = run.tasks[u]
      /\ Back(next) # Wait
  BY <1>1, TypeInvParts DEF StateInv, Run, Task, Back, Wait
<1>3. run' = next \/ run' = run
  BY CommitOrNot DEF BudgetContinue
<1> HIDE DEF next
<1> QED
  BY <1>1, <1>2, <1>3, WaitEnds DEF Wait

LEMMA RerouteWait ==
    ASSUME TypeInv, WaitInv(run), NEW t \in Tasks, BudgetReroute(t)
    PROVE  WaitInv(run')
<1> DEFINE next ==
        [run EXCEPT !.tasks[t] = [@ EXCEPT !.status = "READY", !.blocker = "none",
                                         !.routed = TRUE, !.lent = FALSE, !.attemptRouted = FALSE],
                    !.phase = "RUNNING", !.blocker = NoBlocker]
<1>1. run.tasks[t] \in Task /\ run.tasks[t].status = Wait
  BY TypeInvParts DEF StateInv, Run, BudgetReroute, DecidableBudget, Status, Wait
<1>2. /\ next.tasks[t].status = "READY"
      /\ \A u \in Tasks \ {t} : next.tasks[u] = run.tasks[u]
      /\ Back(next) # Wait
  BY <1>1, TypeInvParts DEF StateInv, Run, Task, Back, Wait
<1>3. run' = next \/ run' = run
  BY CommitOrNot DEF BudgetReroute
<1> HIDE DEF next
<1> QED
  BY <1>1, <1>2, <1>3, WaitEnds DEF Wait

LEMMA StopWait ==
    ASSUME TypeInv, WaitInv(run), NEW t \in Tasks,
           NEW route \in {"replan-task", "cancel-run"}, BudgetStop(t, route)
    PROVE  WaitInv(run')
<1> DEFINE next ==
        [run EXCEPT !.tasks[t].status = "BLOCKED", !.tasks[t].blocker = route,
                    !.blocker = TaskBlocker(t, route),
                    !.phase = IF route = "replan-task" THEN "BLOCKED" ELSE "CANCELLED"]
<1>1. run.tasks[t] \in Task /\ run.tasks[t].status = Wait
  BY TypeInvParts DEF StateInv, Run, BudgetStop, DecidableBudget, Status, Wait
<1>2. /\ next.tasks[t].status = "BLOCKED"
      /\ \A u \in Tasks \ {t} : next.tasks[u] = run.tasks[u]
      /\ Back(next) # Wait
  BY <1>1, TypeInvParts DEF StateInv, Run, Task, Back, Wait, TaskBlocker
<1>3. run' = next \/ run' = run
  BY CommitOrNot DEF BudgetStop
<1> HIDE DEF next
<1> QED
  BY <1>1, <1>2, <1>3, WaitEnds DEF Wait

(***************************************************************************)
(* The operations on many tasks.                                           *)
(***************************************************************************)
\* A new plan leaves no task at work: the preserved ones are accepted.
LEMMA AdoptWait ==
    ASSUME TypeInv, WaitInv(run),
           NEW plan \in Plans, NEW mode \in StartModes, NEW reset \in BOOLEAN,
           NEW kept \in SUBSET Tasks, NEW drift \in SUBSET Tasks,
           AdoptPlan(plan, mode, reset, kept, drift)
    PROVE  WaitInv(run')
<1> DEFINE made == [t \in Tasks |-> IF t \in kept THEN Preserved(t) ELSE NewTask(t)]
<1> DEFINE unresolved == run.drift \union drift
<1> DEFINE phase == IF unresolved = {} THEN AdoptedPhase(mode) ELSE "BLOCKED"
<1> DEFINE blocker == IF unresolved = {} THEN NoBlocker ELSE DriftBlocker
<1> DEFINE next ==
        [run EXCEPT !.plan = plan, !.startMode = mode,
            !.authorization = Grant(mode), !.tasks = Unlocked(made), !.drift = unresolved,
            !.phase = IF unresolved = {} THEN AdoptedPhase(mode) ELSE "BLOCKED",
            !.blocker = IF unresolved = {} THEN NoBlocker ELSE DriftBlocker]
<1>1. \A t \in Tasks : made[t] \in Task /\ made[t].status \in {"PENDING", "READY", "ACCEPTED"}
  <2> SUFFICES ASSUME NEW t \in Tasks
               PROVE  made[t] \in Task /\ made[t].status \in {"PENDING", "READY", "ACCEPTED"}
    OBVIOUS
  <2>1. CASE t \in kept
    <3>1. run.tasks[t] \in Task /\ run.tasks[t].status = "ACCEPTED"
      BY <2>1, TypeInvParts DEF StateInv, Run, AdoptPlan, With, Status
    <3>2. Preserved(t) \in Task /\ Preserved(t).status = "ACCEPTED"
      BY <3>1, NewTaskTyped DEF Preserved, Task, Status
    <3> QED
      BY <2>1, <3>2
  <2>2. CASE t \notin kept
    BY <2>2, NewTaskTyped
  <2> QED
    BY <2>1, <2>2
<1>2. \A t \in Tasks : Unlocked(made)[t].status \in {"PENDING", "READY", "ACCEPTED"}
  <2>1. made \in [Tasks -> Task]
    BY <1>1
  <2> HIDE DEF made
  <2> QED
    BY <1>1, <2>1, UnlockedTyped
<1>3. next.tasks = Unlocked(made) /\ next.phase = phase /\ next.blocker = blocker
  <2> HIDE DEF made, unresolved
  <2> QED
    BY TypeInvParts DEF StateInv, Run
<1>4. /\ phase \in {"AWAITING_AUTHORIZATION", "PLAN_ONLY", "READY", "BLOCKED"}
      /\ phase = "BLOCKED" => blocker.resume = "READY"
  BY DEF AdoptedPhase, StartModes, DriftBlocker
<1>5. run' = next \/ run' = run
  BY CommitOrNot DEF AdoptPlan
<1> HIDE DEF next, made, phase, blocker
<1>6. Waiting(next) = {} /\ Engaged(next) = {} /\ Back(next) # Wait
  BY <1>2, <1>3, <1>4 DEF Waiting, Engaged, Back, Wait
<1>7. WaitInv(next)
  BY <1>6, FS_EmptySet, BudgetAssumption DEF WaitInv
<1> QED
  BY <1>5, <1>7

LEMMA AuditReworkWait ==
    ASSUME TypeInv, WaitInv(run), NEW reopened \in SUBSET Tasks, FinalAuditRework(reopened)
    PROVE  WaitInv(run')
<1> DEFINE next ==
        [run EXCEPT !.tasks = [t \in Tasks |-> IF t \in reopened
                                 THEN [Archived(@[t]) EXCEPT !.blocker = "none"]
                                 ELSE @[t]],
                    !.phase = IF Current THEN "RUNNING" ELSE "REMEDIATING",
                    !.blocker = NoBlocker, !.outcome = Audited("REWORK")]
<1>1. Back(next) # Wait /\ Back(run) # Wait
  BY TypeInvParts DEF StateInv, Run, Back, Wait, FinalAuditRework
<1>2. \A t \in Tasks :
         \/ next.tasks[t] = run.tasks[t]
         \/ next.tasks[t].status = "REWORK" /\ run.tasks[t].status = "ACCEPTED"
  <2> SUFFICES ASSUME NEW t \in Tasks
               PROVE  \/ next.tasks[t] = run.tasks[t]
                      \/ next.tasks[t].status = "REWORK" /\ run.tasks[t].status = "ACCEPTED"
    OBVIOUS
  <2>1. CASE t \in reopened
    <3>1. run.tasks[t] \in Task /\ run.tasks[t].status = "ACCEPTED"
      BY <2>1, TypeInvParts DEF StateInv, Run, FinalAuditRework, Reopenable, Status
    <3>2. next.tasks[t] = [Archived(run.tasks[t]) EXCEPT !.blocker = "none"]
      BY <2>1, TypeInvParts DEF StateInv, Run
    <3> HIDE DEF next
    <3> QED
      BY <3>1, <3>2 DEF Archived, Task
  <2>2. CASE t \notin reopened
    BY <2>2, TypeInvParts DEF StateInv, Run
  <2> QED
    BY <2>1, <2>2
<1>3. run' = next \/ run' = run
  BY CommitOrNot DEF FinalAuditRework
<1> HIDE DEF next
<1>4. Waiting(next) = Waiting(run) /\ Engaged(next) \subseteq Engaged(run)
  BY <1>2 DEF Waiting, Engaged, Wait
<1> QED
  BY <1>1, <1>3, <1>4, FewerWait

(***************************************************************************)
(* The invariant, and the two theorems.                                    *)
(***************************************************************************)
LEMMA WaitInit == Init => WaitInv(run)
<1> SUFFICES ASSUME Init PROVE WaitInv(run)
  OBVIOUS
<1>1. \A t \in Tasks : run.tasks[t].status \in {"PENDING", "READY"}
  BY NewTaskTyped DEF Init
<1>2. run.phase = "AWAITING_AUTHORIZATION"
  BY DEF Init
<1>3. Waiting(run) = {} /\ Engaged(run) = {} /\ Back(run) # Wait
  BY <1>1, <1>2 DEF Waiting, Engaged, Back, Wait
<1> QED
  BY <1>3, FS_EmptySet, BudgetAssumption DEF WaitInv

CapacityInv == TypeInv /\ WaitInv(run)

LEMMA WaitStep == CapacityInv /\ [Next]_vars => CapacityInv'
<1> SUFFICES ASSUME TypeInv, WaitInv(run), [Next]_vars PROVE WaitInv(run')
  BY TypeStep DEF CapacityInv, WaitInv, Waiting, Engaged, Back
<1>1. CASE Work
  <2>1. ASSUME NEW w \in launched, WriteResult(w) PROVE WaitInv(run')
    BY <2>1 DEF WriteResult
  <2> QED
    BY <1>1, <2>1, AuthorizeWait, RenewWait, StartExecutionWait, StartTaskWait, ResultWait,
       AcceptWait, ReworkWait, ResolveWait, ResumeWait, ContinueWait, RerouteWait,
       AuditAcceptedWait, FinalizeWait DEF Work, Review
<1>2. CASE Interruption
  BY <1>2, AdoptWait, ExpiryWait, OutcomeWait, BlockWait, PauseWait, BudgetPauseWait,
     StopWait, AuditReworkWait, AuditContractWait, AuditBlockedWait DEF Interruption
<1>3. CASE UNCHANGED vars
  BY <1>3 DEF vars
<1> QED
  BY <1>1, <1>2, <1>3 DEF Next

LEMMA CapacityAlways == Spec => []CapacityInv
<1>1. Init => CapacityInv
  BY TypeInit, WaitInit DEF CapacityInv
<1>2. CapacityInv /\ [Next]_vars => CapacityInv'
  BY WaitStep
<1> QED
  BY <1>1, <1>2, PTL DEF Spec

\* A task waits for a budget decision exactly while its run does, whatever blocks
\* the run in between and whatever the decision is.
THEOREM BudgetWaitsAreShared == Spec => []BudgetWaitIsShared
<1>1. CapacityInv => BudgetWaitIsShared
  BY DEF CapacityInv, WaitInv, Waiting, Back, Wait, BudgetWaitIsShared, With, Status, ReturnsTo
<1> QED
  BY <1>1, CapacityAlways, PTL

\* However tasks are started, paused, continued, rerouted and reworked, no more
\* attempts are at work than the plan allows, whatever its cap.
THEOREM CapacityHolds == Spec => []ParallelCapHolds
<1>1. CapacityInv => ParallelCapHolds
  <2> SUFFICES ASSUME CapacityInv PROVE Cardinality(Occupied) <= MaxParallelTasks
    BY DEF ParallelCapHolds
  <2>1. Occupied \subseteq Engaged(run)
    BY DEF Occupied, With, Status, Engaged
  <2>2. IsFiniteSet(Occupied) /\ Cardinality(Occupied) <= Cardinality(Engaged(run))
    BY <2>1, EngagedFinite, FS_Subset
  <2>3. Cardinality(Occupied) \in Nat
    BY <2>2, FS_CardinalityType
  <2> QED
    BY <2>2, <2>3, EngagedFinite, BudgetAssumption DEF CapacityInv, WaitInv
<1> QED
  BY <1>1, CapacityAlways, PTL

-----------------------------------------------------------------------------
(***************************************************************************)
(* Whose result stands behind a review, and that no sequence of operations *)
(* spoils the history of a task, for every set of tasks, every attempt     *)
(* budget and every number of plans.                                       *)
(*                                                                         *)
(* The second rests on the result files.  An attempt takes the least       *)
(* number whose path is free, so a late worker of an earlier plan could    *)
(* make it skip one, and a history with a gap is refused for ever.  It     *)
(* cannot: result paths fill up in order, so whatever a superseded worker  *)
(* may still write lies at or below the first attempt of the new plan.     *)
(***************************************************************************)

(***************************************************************************)
(* The invariant, task by task.                                            *)
(***************************************************************************)
\* The result of a task, given the plan of the run and the files at its paths.
OwnTask(task, plan, written) ==
    task.status \in {"VERIFYING", "ACCEPTED"} =>
        /\ task.attempt \in Attempts
        /\ task.result # NoPlan
        /\ written[task.attempt] = task.result
        /\ task.status = "VERIFYING" => task.result = plan

\* Attempts are numbered without gaps from the first one on.
Shaped(task) ==
    IF task.status \in {"PENDING", "READY"}
    THEN task.attempt = 0 /\ task.start = 0 /\ task.history = <<>>
    ELSE /\ task.start # 0
         /\ task.start + Len(task.history)
                = task.attempt + (IF task.status = "REWORK" THEN 1 ELSE 0)

HistoryOf(task, plan) ==
    LET first == IF task.start = 0 THEN 1 ELSE task.start
    IN  /\ Len(task.history) <= MaxTaskAttempts - 1
        /\ task.start <= task.attempt
        /\ \A i \in DOMAIN task.history :
              /\ task.history[i].attempt = first + i - 1
              /\ task.history[i].attempt <= task.attempt
              /\ task.history[i].plan = plan

GapFree(task, plan, written) ==
    /\ Shaped(task)
    /\ task.status \in {"PENDING", "READY", "RUNNING", "VERIFYING", "REWORK"}
           => HistoryOf(task, plan)
    /\ task.status = "REWORK" => written[task.attempt] # NoPlan

GoodTask(task, plan, written) ==
    /\ OwnTask(task, plan, written)
    /\ Current => GapFree(task, plan, written)

(***************************************************************************)
(* ... and the result paths.                                               *)
(***************************************************************************)
Taken(o, l, t, x) == o[t][x] # NoPlan \/ \E w \in l : w.task = t /\ w.attempt = x

PathsFollow(o, l) ==
    \A t \in Tasks, x, y \in Attempts : Taken(o, l, t, x) /\ y < x => o[t][y] # NoPlan

NoneAbove(s, o, l) ==
    \A t \in Tasks, x \in Attempts :
        s.tasks[t].attempt # 0 /\ s.tasks[t].attempt < x => ~Taken(o, l, t, x)

AllBelow(s, o) ==
    \A t \in Tasks, x \in Attempts : x < s.tasks[t].attempt => o[t][x] # NoPlan

EvidenceInv(s, o, l) ==
    /\ \A t \in Tasks : GoodTask(s.tasks[t], s.plan, o[t])
    /\ Current => PathsFollow(o, l) /\ NoneAbove(s, o, l) /\ AllBelow(s, o)

LEMMA HistoryRead ==
    ASSUME NEW task
    PROVE  HistoryValid(task) <=> HistoryOf(task, run.plan)
BY DEF HistoryValid, HistoryOf

\* What most operations leave behind: the tasks keep their attempts or start anew.
LEMMA AttemptsKept ==
    ASSUME EvidenceInv(run, outputs, launched), NEW next,
           \A t \in Tasks : /\ GoodTask(next.tasks[t], next.plan, outputs[t])
                            /\ next.tasks[t].attempt \in {0, run.tasks[t].attempt}
    PROVE  EvidenceInv(next, outputs, launched)
<1>1. Current => NoneAbove(next, outputs, launched)
  BY DEF EvidenceInv, NoneAbove
<1>2. Current => AllBelow(next, outputs)
  <2> SUFFICES ASSUME Current, NEW t \in Tasks, NEW x \in Attempts,
                      x < next.tasks[t].attempt
               PROVE  outputs[t][x] # NoPlan
    BY DEF AllBelow
  <2>1. next.tasks[t].attempt = run.tasks[t].attempt
    BY DEF Attempts
  <2> QED
    BY <2>1 DEF EvidenceInv, AllBelow
<1> QED
  BY <1>1, <1>2 DEF EvidenceInv

LEMMA SameTasksKept ==
    ASSUME EvidenceInv(run, outputs, launched), NEW next,
           next.tasks = run.tasks, next.plan = run.plan
    PROVE  EvidenceInv(next, outputs, launched)
BY AttemptsKept DEF EvidenceInv

LEMMA OneAttemptKept ==
    ASSUME EvidenceInv(run, outputs, launched), NEW next, NEW t \in Tasks,
           next.plan = run.plan,
           \A u \in Tasks \ {t} : next.tasks[u] = run.tasks[u],
           GoodTask(next.tasks[t], run.plan, outputs[t]),
           next.tasks[t].attempt = run.tasks[t].attempt
    PROVE  EvidenceInv(next, outputs, launched)
BY AttemptsKept DEF EvidenceInv

LEMMA Committed ==
    ASSUME EvidenceInv(run, outputs, launched), NEW op, NEW next, Commit(op, next),
           UNCHANGED <<outputs, launched>>,
           EvidenceInv(next, outputs, launched)
    PROVE  EvidenceInv(run', outputs', launched')
<1>1. run' = next \/ run' = run
  BY DEF Commit
<1> QED
  BY <1>1

(***************************************************************************)
(* The operations that leave tasks and plan alone.                         *)
(***************************************************************************)
EvidenceNext == EvidenceInv(run', outputs', launched')

LEMMA QuietEvidence ==
    ASSUME TypeInv, EvidenceInv(run, outputs, launched),
           \/ AuthorizeExecution \/ RenewAuthorization \/ StartExecution
           \/ ResolveBlocker \/ PauseForExternalAction \/ ResumeExternalAction
           \/ FinalAuditAccepted \/ FinalAuditContractChange \/ FinalizeRun
           \/ \E subject \in Tasks \union {NoTask} : BlockRun(subject)
           \/ \E resume \in Resumable : FinalAuditBlocked(resume)
           \/ AuthorizationExpires
    PROVE  EvidenceNext
<1>1. run'.tasks = run.tasks /\ run'.plan = run.plan /\ UNCHANGED <<outputs, launched>>
  <2>1. CASE AuthorizeExecution
    BY <2>1, TypeInvParts DEF StateInv, Run, AuthorizeExecution, Commit
  <2>2. CASE RenewAuthorization
    BY <2>2, TypeInvParts DEF StateInv, Run, RenewAuthorization, Commit
  <2>3. CASE StartExecution
    BY <2>3, TypeInvParts DEF StateInv, Run, StartExecution, Commit
  <2>4. CASE ResolveBlocker
    BY <2>4, TypeInvParts DEF StateInv, Run, ResolveBlocker, Commit
  <2>5. CASE PauseForExternalAction
    BY <2>5, TypeInvParts DEF StateInv, Run, PauseForExternalAction, Commit
  <2>6. CASE ResumeExternalAction
    BY <2>6, TypeInvParts DEF StateInv, Run, ResumeExternalAction, Commit
  <2>7. CASE FinalAuditAccepted
    BY <2>7, TypeInvParts DEF StateInv, Run, FinalAuditAccepted, Commit
  <2>8. CASE FinalAuditContractChange
    BY <2>8, TypeInvParts DEF StateInv, Run, FinalAuditContractChange, Commit
  <2>9. CASE FinalizeRun
    BY <2>9, TypeInvParts DEF StateInv, Run, FinalizeRun, Commit
  <2>10. CASE \E subject \in Tasks \union {NoTask} : BlockRun(subject)
    BY <2>10, TypeInvParts DEF StateInv, Run, BlockRun, Commit
  <2>11. CASE \E resume \in Resumable : FinalAuditBlocked(resume)
    BY <2>11, TypeInvParts DEF StateInv, Run, FinalAuditBlocked, Commit
  <2>12. CASE AuthorizationExpires
    BY <2>12, TypeInvParts DEF StateInv, Run, AuthorizationExpires
  <2> QED
    BY <2>1, <2>2, <2>3, <2>4, <2>5, <2>6, <2>7, <2>8, <2>9, <2>10, <2>11, <2>12
<1>2. EvidenceInv(run', outputs, launched)
  BY <1>1, SameTasksKept
<1> QED
  BY <1>1, <1>2 DEF EvidenceNext

(***************************************************************************)
(* The operations on one attempt.                                          *)
(***************************************************************************)
LEMMA ResultEvidence ==
    ASSUME TypeInv, EvidenceInv(run, outputs, launched), NEW t \in Tasks,
           CommitTaskResult(t)
    PROVE  EvidenceNext
<1> DEFINE task ==
        [run.tasks[t] EXCEPT !.status = "VERIFYING", !.result = run.plan]
<1> DEFINE next ==
        [run EXCEPT !.tasks[t].status = "VERIFYING", !.tasks[t].result = run.plan,
                    !.phase = ReviewPhase]
<1>1. /\ run.tasks[t] \in Task /\ run.tasks[t].status = "RUNNING"
      /\ run.tasks[t].attempt # 0 /\ run.plan # NoPlan
      /\ outputs[t][run.tasks[t].attempt] = run.plan
  BY TypeInvParts DEF StateInv, Run, CommitTaskResult, OwnResult
<1>2. run.tasks[t].attempt \in Attempts
  BY <1>1, BudgetAssumption DEF Task, Attempts
<1>3. /\ task.status = "VERIFYING" /\ task.result = run.plan
      /\ task.attempt = run.tasks[t].attempt /\ task.start = run.tasks[t].start
      /\ task.history = run.tasks[t].history
  BY <1>1 DEF Task
<1>4. /\ next.plan = run.plan /\ next.tasks[t] = task
      /\ \A u \in Tasks \ {t} : next.tasks[u] = run.tasks[u]
  BY <1>1, TypeInvParts DEF StateInv, Run, Task
<1>5. Commit("task-result", next) /\ UNCHANGED <<outputs, launched>>
  BY DEF CommitTaskResult
<1> HIDE DEF next, task
<1>6. OwnTask(task, run.plan, outputs[t])
  BY <1>1, <1>2, <1>3 DEF OwnTask
<1>7. Current => GapFree(task, run.plan, outputs[t])
  BY <1>1, <1>3 DEF EvidenceInv, GoodTask, GapFree, Shaped, HistoryOf
<1>8. EvidenceInv(next, outputs, launched)
  BY <1>3, <1>4, <1>6, <1>7, OneAttemptKept DEF GoodTask
<1> QED
  BY <1>5, <1>8, Committed DEF EvidenceNext

\* An attempt that is archived was the last of a history without gaps.
LEMMA ArchivedGood ==
    ASSUME TypeInv, EvidenceInv(run, outputs, launched), NEW t \in Tasks,
           run.tasks[t].status \in {"VERIFYING", "ACCEPTED"},
           HistoryValid(run.tasks[t]), run.tasks[t].attempt < MaxTaskAttempts
    PROVE  /\ GoodTask(Archived(run.tasks[t]), run.plan, outputs[t])
           /\ Archived(run.tasks[t]).attempt = run.tasks[t].attempt
           /\ Archived(run.tasks[t]).status = "REWORK"
           /\ Archived(run.tasks[t]) \in Task
<1>1. PICK old : old = run.tasks[t]
  OBVIOUS
<1>2. old \in Task
  BY <1>1, TypeInvParts DEF StateInv, Run
<1>3. /\ old.attempt \in Nat /\ old.start \in Nat /\ MaxTaskAttempts \in Nat
      /\ old.history \in Seq([attempt : Attempts, plan : Plans])
  BY <1>2, BudgetAssumption DEF Task
<1>4. PICK entry : entry = [attempt |-> old.attempt, plan |-> run.plan]
  OBVIOUS
<1>5. PICK task : task = Archived(old)
  OBVIOUS
<1>6. /\ task.status = "REWORK" /\ task.attempt = old.attempt /\ task.start = old.start
      /\ task.history = Append(old.history, entry)
  BY <1>2, <1>4, <1>5 DEF Archived, Task
<1>7. OwnTask(task, run.plan, outputs[t])
  BY <1>6 DEF OwnTask
<1>8. ASSUME Current PROVE GapFree(task, run.plan, outputs[t])
  <2>1. OwnTask(old, run.plan, outputs[t]) /\ GapFree(old, run.plan, outputs[t])
    BY <1>1, <1>8 DEF EvidenceInv, GoodTask
  <2>2. old.status \in {"VERIFYING", "ACCEPTED"} /\ old.attempt < MaxTaskAttempts
    BY <1>1
  <2>3. HistoryOf(old, run.plan)
    BY <1>1, HistoryRead
  <2>4. outputs[t][old.attempt] # NoPlan
    BY <2>1, <2>2 DEF OwnTask
  <2>5. old.start # 0 /\ old.start + Len(old.history) = old.attempt
    <3>1. old.start # 0 /\ old.start + Len(old.history) = old.attempt + 0
      BY <2>1, <2>2 DEF GapFree, Shaped
    <3> QED
      BY <1>3, <3>1
  <2>6. /\ Len(old.history) \in Nat
        /\ DOMAIN old.history = 1..Len(old.history)
    BY <1>3
  <2>7. /\ Len(task.history) = Len(old.history) + 1
        /\ DOMAIN task.history = 1..(Len(old.history) + 1)
        /\ task.history[Len(old.history) + 1] = entry
        /\ \A i \in 1..Len(old.history) : task.history[i] = old.history[i]
    <3>1. ASSUME NEW S, NEW h \in Seq(S), NEW e
          PROVE  /\ Len(Append(h, e)) = Len(h) + 1
                 /\ DOMAIN Append(h, e) = 1..(Len(h) + 1)
                 /\ Append(h, e)[Len(h) + 1] = e
                 /\ \A i \in 1..Len(h) : Append(h, e)[i] = h[i]
      OBVIOUS
    <3> QED
      BY <1>3, <1>6, <3>1
  <2>8. Shaped(task)
    BY <1>3, <1>6, <2>5, <2>6, <2>7 DEF Shaped
  <2>9. Len(task.history) <= MaxTaskAttempts - 1
    BY <1>3, <2>2, <2>5, <2>6, <2>7
  <2>10. ASSUME NEW i \in 1..(Len(old.history) + 1)
         PROVE  /\ task.history[i].attempt = old.start + i - 1
                /\ task.history[i].attempt <= old.attempt
                /\ task.history[i].plan = run.plan
    <3>1. CASE i = Len(old.history) + 1
      <4>1. task.history[i] = entry /\ old.start + i - 1 = old.attempt
        BY <1>3, <2>5, <2>6, <2>7, <3>1
      <4> QED
        BY <1>3, <1>4, <4>1
    <3>2. CASE i \in 1..Len(old.history)
      <4>1. task.history[i] = old.history[i] /\ i \in DOMAIN old.history
        BY <2>6, <2>7, <3>2
      <4> QED
        BY <2>3, <2>5, <4>1 DEF HistoryOf
    <3> QED
      BY <2>6, <3>1, <3>2
  <2>11. HistoryOf(task, run.plan)
    BY <1>6, <2>3, <2>5, <2>7, <2>9, <2>10 DEF HistoryOf
  <2> QED
    BY <1>6, <2>4, <2>8, <2>11 DEF GapFree
<1>9. Archived(run.tasks[t]) \in Task
  BY ArchivedTyped
<1>10. GoodTask(task, run.plan, outputs[t])
  BY <1>7, <1>8 DEF GoodTask
<1> QED
  BY <1>1, <1>5, <1>6, <1>9, <1>10

LEMMA ReworkEvidence ==
    ASSUME TypeInv, EvidenceInv(run, outputs, launched), NEW t \in Tasks, ReworkTask(t)
    PROVE  EvidenceNext
<1> DEFINE next == [run EXCEPT !.tasks[t] = Archived(@),
                               !.phase = IF Current THEN @ ELSE "REMEDIATING"]
<1>1. /\ next.plan = run.plan /\ next.tasks[t] = Archived(run.tasks[t])
      /\ \A u \in Tasks \ {t} : next.tasks[u] = run.tasks[u]
  BY TypeInvParts DEF StateInv, Run
<1>2. /\ GoodTask(Archived(run.tasks[t]), run.plan, outputs[t])
      /\ Archived(run.tasks[t]).attempt = run.tasks[t].attempt
  BY ArchivedGood DEF ReworkTask
<1>3. Commit("task-rework", next) /\ UNCHANGED <<outputs, launched>>
  BY DEF ReworkTask
<1> HIDE DEF next
<1> QED
  BY <1>1, <1>2, <1>3, OneAttemptKept, Committed DEF EvidenceNext

LEMMA OutcomeEvidence ==
    ASSUME TypeInv, EvidenceInv(run, outputs, launched), NEW t \in Tasks,
           NEW verdict \in {"CONTRACT_CHANGE", "BLOCKED"}, NEW route \in TaskRoutes,
           ApplyTaskReviewOutcome(t, verdict, route)
    PROVE  EvidenceNext
<1> DEFINE next ==
        [run EXCEPT !.tasks[t].status = verdict,
                    !.tasks[t].blocker = IF verdict = "BLOCKED" THEN route ELSE @]
<1>1. run.tasks[t] \in Task /\ run.tasks[t].status = "VERIFYING"
  BY TypeInvParts DEF StateInv, Run, ApplyTaskReviewOutcome, Status
<1>2. /\ next.plan = run.plan
      /\ next.tasks[t].status = verdict /\ next.tasks[t].attempt = run.tasks[t].attempt
      /\ next.tasks[t].start = run.tasks[t].start
      /\ next.tasks[t].history = run.tasks[t].history
      /\ \A u \in Tasks \ {t} : next.tasks[u] = run.tasks[u]
  BY <1>1, TypeInvParts DEF StateInv, Run, Task
<1>3. Commit("task-review-apply", next) /\ UNCHANGED <<outputs, launched>>
  BY DEF ApplyTaskReviewOutcome
<1> HIDE DEF next
<1>4. GoodTask(next.tasks[t], run.plan, outputs[t])
  BY <1>1, <1>2 DEF EvidenceInv, GoodTask, OwnTask, GapFree, Shaped
<1> QED
  BY <1>2, <1>3, <1>4, OneAttemptKept, Committed DEF EvidenceNext

(***************************************************************************)
(* Budget decisions, which only runs of the legacy schema take.            *)
(***************************************************************************)
LEMMA NotAtWork ==
    ASSUME EvidenceInv(run, outputs, launched), NEW next, NEW t \in Tasks, ~Current,
           next.plan = run.plan,
           \A u \in Tasks \ {t} : next.tasks[u] = run.tasks[u],
           next.tasks[t].status \notin {"VERIFYING", "ACCEPTED"},
           next.tasks[t].attempt = run.tasks[t].attempt
    PROVE  EvidenceInv(next, outputs, launched)
BY OneAttemptKept DEF GoodTask, OwnTask

LEMMA LegacyWaits == ASSUME SafeInv, NEW t \in Tasks, DecidableBudget(t) PROVE ~Current
BY DEF SafeInv, Valid, ValidTasks, TaskStatuses, DecidableBudget, Status

LEMMA BudgetPauseEvidence ==
    ASSUME SafeInv, EvidenceInv(run, outputs, launched), NEW t \in Tasks,
           PauseForBudgetDecision(t)
    PROVE  EvidenceNext
<1> DEFINE next ==
        [run EXCEPT !.tasks[t].status = "WAITING_FOR_BUDGET_DECISION",
                    !.tasks[t].blocker = "budget-decision",
                    !.phase = "WAITING_FOR_BUDGET_DECISION",
                    !.blocker = TaskBlocker(t, "budget-decision")]
<1>1. run.tasks[t] \in Task
  BY TypeInvParts DEF SafeInv, StateInv, Run
<1>2. /\ next.plan = run.plan
      /\ next.tasks[t].status = "WAITING_FOR_BUDGET_DECISION"
      /\ next.tasks[t].attempt = run.tasks[t].attempt
      /\ \A u \in Tasks \ {t} : next.tasks[u] = run.tasks[u]
  BY <1>1, TypeInvParts DEF SafeInv, StateInv, Run, Task
<1>3. Commit("budget-pause", next) /\ UNCHANGED <<outputs, launched>>
  BY DEF PauseForBudgetDecision
<1> HIDE DEF next
<1>4. CASE ~Current
  BY <1>2, <1>3, <1>4, NotAtWork, Committed DEF EvidenceNext
<1>5. CASE Current
  <2>1. ~Valid(next)
    BY <1>2, <1>5 DEF Valid, ValidTasks, TaskStatuses
  <2> QED
    BY <1>3, <2>1 DEF Commit, EvidenceNext
<1> QED
  BY <1>4, <1>5

LEMMA ContinueEvidence ==
    ASSUME SafeInv, EvidenceInv(run, outputs, launched), NEW t \in Tasks, BudgetContinue(t)
    PROVE  EvidenceNext
<1> DEFINE next ==
        [run EXCEPT !.tasks[t].status = "RUNNING", !.tasks[t].blocker = "none",
                    !.phase = "RUNNING", !.blocker = NoBlocker]
<1>1. run.tasks[t] \in Task
  BY TypeInvParts DEF SafeInv, StateInv, Run
<1>2. /\ next.plan = run.plan
      /\ next.tasks[t].status = "RUNNING"
      /\ next.tasks[t].attempt = run.tasks[t].attempt
      /\ \A u \in Tasks \ {t} : next.tasks[u] = run.tasks[u]
  BY <1>1, TypeInvParts DEF SafeInv, StateInv, Run, Task
<1>3. Commit("budget-decision", next) /\ UNCHANGED <<outputs, launched>> /\ ~Current
  BY LegacyWaits DEF BudgetContinue
<1> HIDE DEF next
<1> QED
  BY <1>2, <1>3, NotAtWork, Committed DEF EvidenceNext

LEMMA RerouteEvidence ==
    ASSUME SafeInv, EvidenceInv(run, outputs, launched), NEW t \in Tasks, BudgetReroute(t)
    PROVE  EvidenceNext
<1> DEFINE next ==
        [run EXCEPT !.tasks[t] = [@ EXCEPT !.status = "READY", !.blocker = "none",
                                         !.routed = TRUE, !.lent = FALSE, !.attemptRouted = FALSE],
                    !.phase = "RUNNING", !.blocker = NoBlocker]
<1>1. run.tasks[t] \in Task
  BY TypeInvParts DEF SafeInv, StateInv, Run
<1>2. /\ next.plan = run.plan
      /\ next.tasks[t].status = "READY"
      /\ next.tasks[t].attempt = run.tasks[t].attempt
      /\ \A u \in Tasks \ {t} : next.tasks[u] = run.tasks[u]
  BY <1>1, TypeInvParts DEF SafeInv, StateInv, Run, Task
<1>3. Commit("budget-decision", next) /\ UNCHANGED <<outputs, launched>> /\ ~Current
  BY LegacyWaits DEF BudgetReroute
<1> HIDE DEF next
<1> QED
  BY <1>2, <1>3, NotAtWork, Committed DEF EvidenceNext

LEMMA StopEvidence ==
    ASSUME SafeInv, EvidenceInv(run, outputs, launched), NEW t \in Tasks,
           NEW route \in {"replan-task", "cancel-run"}, BudgetStop(t, route)
    PROVE  EvidenceNext
<1> DEFINE next ==
        [run EXCEPT !.tasks[t].status = "BLOCKED", !.tasks[t].blocker = route,
                    !.blocker = TaskBlocker(t, route),
                    !.phase = IF route = "replan-task" THEN "BLOCKED" ELSE "CANCELLED"]
<1>1. run.tasks[t] \in Task
  BY TypeInvParts DEF SafeInv, StateInv, Run
<1>2. /\ next.plan = run.plan
      /\ next.tasks[t].status = "BLOCKED"
      /\ next.tasks[t].attempt = run.tasks[t].attempt
      /\ \A u \in Tasks \ {t} : next.tasks[u] = run.tasks[u]
  BY <1>1, TypeInvParts DEF SafeInv, StateInv, Run, Task
<1>3. Commit("budget-decision", next) /\ UNCHANGED <<outputs, launched>> /\ ~Current
  BY LegacyWaits DEF BudgetStop
<1> HIDE DEF next
<1> QED
  BY <1>2, <1>3, NotAtWork, Committed DEF EvidenceNext

(***************************************************************************)
(* An attempt starts, and a worker writes.                                 *)
(***************************************************************************)
\* The least free number lies directly behind the attempts of this plan, and
\* nobody else is at work behind it.
LEMMA StartTaskEvidence ==
    ASSUME TypeInv, EvidenceInv(run, outputs, launched),
           NEW t \in Tasks, NEW lent \in BOOLEAN, StartTask(t, lent)
    PROVE  EvidenceNext
<1>1. PICK attempt : attempt = Min(FreeAttempts(t))
  OBVIOUS
<1>2. PICK old : old = run.tasks[t]
  OBVIOUS
<1>3. PICK task : task = Attempted(old, attempt, lent)
  OBVIOUS
<1>4. PICK next : next = [run EXCEPT !.tasks[t] = Attempted(@, attempt, lent), !.phase = "RUNNING"]
  OBVIOUS
<1>5. PICK workers : workers = launched \union
                         {[task |-> t, attempt |-> attempt, plan |-> run.plan]}
  OBVIOUS
<1>6. /\ old \in Task /\ old.attempt \in Nat
      /\ old.history \in Seq([attempt : Attempts, plan : Plans])
      /\ old.status \in {"READY", "REWORK"}
      /\ HistoryOf(old, run.plan)
      /\ GoodTask(old, run.plan, outputs[t])
  <2>1. old \in Task
    BY <1>2, TypeInvParts DEF StateInv, Run
  <2>2. /\ old.attempt \in Nat
        /\ old.history \in Seq([attempt : Attempts, plan : Plans])
    BY <2>1, BudgetAssumption DEF Task
  <2>3. old.status \in {"READY", "REWORK"} /\ HistoryOf(old, run.plan)
    BY <1>2, HistoryRead DEF StartTask, Startable, Status
  <2>4. GoodTask(old, run.plan, outputs[t])
    BY <1>2 DEF EvidenceInv
  <2> QED
    BY <2>1, <2>2, <2>3, <2>4
<1>7. /\ attempt \in Attempts /\ attempt > old.attempt /\ outputs[t][attempt] = NoPlan
      /\ \A x \in Attempts : x > old.attempt /\ outputs[t][x] = NoPlan => attempt <= x
  <2>1. FreeAttempts(t) # {} /\ FreeAttempts(t) \subseteq Attempts
    BY DEF StartTask, Startable, FreeAttempts
  <2>2. attempt \in FreeAttempts(t) /\ \A x \in FreeAttempts(t) : attempt <= x
    BY <1>1, <2>1, LeastAttempt
  <2> QED
    BY <1>2, <2>2 DEF FreeAttempts
<1>8. attempt \in Nat /\ Attempts \subseteq Nat \ {0} /\ MaxTaskAttempts \in Nat \ {0}
  BY <1>7, BudgetAssumption DEF Attempts
<1>9. /\ task.status = "RUNNING" /\ task.attempt = attempt /\ task.history = old.history
      /\ task.start = IF old.start # 0 THEN old.start
                      ELSE IF old.history # <<>> THEN old.history[1].attempt ELSE attempt
  BY <1>3, <1>6 DEF Attempted, RoutedAtStart, Task
<1>10. /\ next.plan = run.plan /\ next.tasks[t] = task
       /\ \A u \in Tasks \ {t} : next.tasks[u] = run.tasks[u]
  BY <1>2, <1>3, <1>4, TypeInvParts DEF StateInv, Run
<1>11. /\ outputs' = outputs
       /\ Valid(next) => run' = next /\ launched' = workers
       /\ ~Valid(next) => run' = run /\ launched' = launched
  BY <1>1, <1>4, <1>5 DEF StartTask, Commit
<1>12. GoodTask(task, run.plan, outputs[t])
  <2>1. OwnTask(task, run.plan, outputs[t])
    BY <1>9 DEF OwnTask
  <2>2. ASSUME Current PROVE GapFree(task, run.plan, outputs[t])
    <3>1. Shaped(old) /\ (old.status = "REWORK" => outputs[t][old.attempt] # NoPlan)
      BY <1>6, <2>2 DEF GoodTask, GapFree
    <3>2. CASE old.status = "READY"
      <4>1. old.start = 0 /\ old.history = <<>>
        BY <3>1, <3>2 DEF Shaped
      <4>2. task.start = attempt /\ task.history = <<>> /\ Len(task.history) = 0
            /\ DOMAIN task.history = {}
        BY <1>9, <4>1
      <4>3. Shaped(task)
        <5>1. attempt # 0 /\ attempt + 0 = attempt
          BY <1>7, <1>8
        <5>2. task.start # 0 /\ task.start + Len(task.history) = task.attempt + 0
          BY <1>9, <4>2, <5>1
        <5> QED
          BY <1>9, <5>2 DEF Shaped
      <4>4. HistoryOf(task, run.plan)
        <5>1. Len(task.history) <= MaxTaskAttempts - 1
          BY <1>8, <4>2
        <5>2. task.start <= task.attempt
          BY <1>8, <1>9, <4>2
        <5> QED
          BY <4>2, <5>1, <5>2 DEF HistoryOf
      <4> QED
        BY <1>9, <4>3, <4>4 DEF GapFree
    <3>3. CASE old.status = "REWORK"
      <4>1. /\ old.start # 0 /\ old.attempt # 0
            /\ old.start + Len(old.history) = old.attempt + 1
        BY <1>2, <3>1, <3>3, TypeInvParts DEF Shaped, StateInv
      <4>2. old.attempt + 1 \in Attempts /\ outputs[t][old.attempt + 1] = NoPlan
        <5>1. old.attempt + 1 \in Attempts
          BY <1>6, <1>7, BudgetAssumption DEF Attempts
        <5>2. ~Taken(outputs, launched, t, old.attempt + 1)
          BY <1>2, <1>6, <2>2, <4>1, <5>1 DEF EvidenceInv, NoneAbove
        <5> QED
          BY <5>1, <5>2 DEF Taken
      <4>3. attempt = old.attempt + 1
        BY <1>6, <1>7, <1>8, <4>2
      <4>4. /\ task.start = old.start /\ task.start + Len(task.history) = attempt
            /\ old.start \in Nat
        BY <1>6, <1>9, <4>1, <4>3 DEF Task
      <4>5. Shaped(task)
        BY <1>8, <1>9, <4>1, <4>4 DEF Shaped
      <4>6. ASSUME NEW i \in DOMAIN old.history
            PROVE  /\ old.history[i].attempt = old.start + i - 1
                   /\ old.history[i].attempt <= attempt
                   /\ old.history[i].plan = run.plan
        <5>1. old.history[i] \in [attempt : Attempts, plan : Plans]
          <6>1. ASSUME NEW S, NEW h \in Seq(S), NEW j \in DOMAIN h PROVE h[j] \in S
            OBVIOUS
          <6> QED
            BY <1>6, <6>1
        <5>2. /\ old.history[i].attempt = old.start + i - 1
              /\ old.history[i].attempt <= old.attempt
              /\ old.history[i].plan = run.plan
          BY <1>6, <4>1 DEF HistoryOf
        <5>3. old.history[i].attempt \in Nat
          BY <1>8, <5>1
        <5> QED
          BY <1>6, <1>8, <4>3, <5>2, <5>3
      <4>7. HistoryOf(task, run.plan)
        BY <1>6, <1>8, <1>9, <4>1, <4>3, <4>4, <4>6 DEF HistoryOf
      <4> QED
        BY <1>9, <4>5, <4>7 DEF GapFree
    <3> QED
      BY <1>6, <3>2, <3>3
  <2> QED
    BY <2>1, <2>2 DEF GoodTask
<1>13. ASSUME Current
       PROVE  /\ PathsFollow(outputs, workers)
              /\ NoneAbove(next, outputs, workers)
              /\ AllBelow(next, outputs)
  <2>1. /\ PathsFollow(outputs, launched) /\ NoneAbove(run, outputs, launched)
        /\ AllBelow(run, outputs)
    BY <1>13 DEF EvidenceInv
  <2>2. ASSUME NEW u \in Tasks, NEW x \in Attempts, Taken(outputs, workers, u, x)
        PROVE  Taken(outputs, launched, u, x) \/ (u = t /\ x = attempt)
    BY <1>5, <2>2 DEF Taken
  <2>3. ASSUME NEW x \in Attempts, x < attempt PROVE outputs[t][x] # NoPlan
    <3>1. CASE x > old.attempt
      BY <1>7, <1>8, <2>3, <3>1
    <3>2. CASE x = old.attempt
      BY <1>6, <1>8, <1>13, <3>2 DEF GoodTask, GapFree, Shaped
    <3>3. CASE x < old.attempt
      BY <1>2, <2>1, <3>3 DEF AllBelow
    <3> QED
      BY <1>6, <1>8, <3>1, <3>2, <3>3
  <2>4. ASSUME NEW x \in Attempts, attempt < x PROVE ~Taken(outputs, launched, t, x)
    <3>1. ASSUME Taken(outputs, launched, t, x) PROVE FALSE
      BY <1>7, <2>1, <2>4, <3>1 DEF PathsFollow
    <3> QED
      BY <3>1
  <2>5. PathsFollow(outputs, workers)
    BY <2>1, <2>2, <2>3 DEF PathsFollow
  <2>6. NoneAbove(next, outputs, workers)
    <3> SUFFICES ASSUME NEW u \in Tasks, NEW x \in Attempts,
                        next.tasks[u].attempt # 0, next.tasks[u].attempt < x
                 PROVE  ~Taken(outputs, workers, u, x)
      BY DEF NoneAbove
    <3>1. CASE u = t
      BY <1>8, <1>9, <1>10, <2>2, <2>4, <3>1
    <3>2. CASE u # t
      BY <1>10, <2>1, <2>2, <3>2 DEF NoneAbove
    <3> QED
      BY <3>1, <3>2
  <2>7. AllBelow(next, outputs)
    <3> SUFFICES ASSUME NEW u \in Tasks, NEW x \in Attempts, x < next.tasks[u].attempt
                 PROVE  outputs[u][x] # NoPlan
      BY DEF AllBelow
    <3>1. CASE u = t
      BY <1>9, <1>10, <2>3, <3>1
    <3>2. CASE u # t
      BY <1>10, <2>1, <3>2 DEF AllBelow
    <3> QED
      BY <3>1, <3>2
  <2> QED
    BY <2>5, <2>6, <2>7
<1>14. EvidenceInv(next, outputs, workers)
  BY <1>10, <1>12, <1>13 DEF EvidenceInv
<1> QED
  BY <1>11, <1>14 DEF EvidenceNext

\* A result fills a path that was taken already, and replaces none.
LEMMA WriteEvidence ==
    ASSUME TypeInv, EvidenceInv(run, outputs, launched), NEW w \in launched, WriteResult(w)
    PROVE  EvidenceNext
<1>1. /\ run' = run /\ launched' = launched \ {w}
      /\ w.task \in Tasks /\ w.attempt \in Attempts /\ w.plan \in Plans
      /\ outputs \in [Tasks -> [Attempts -> Plans \union {NoPlan}]]
  BY TypeInvParts DEF WriteResult
<1>2. \A t \in Tasks, x \in Attempts :
         /\ outputs[t][x] # NoPlan => outputs'[t][x] = outputs[t][x]
         /\ outputs'[t][x] # NoPlan =>
               outputs[t][x] # NoPlan \/ (t = w.task /\ x = w.attempt)
  BY <1>1 DEF WriteResult
<1>3. ASSUME NEW t \in Tasks, NEW x \in Attempts, Taken(outputs', launched', t, x)
      PROVE  Taken(outputs, launched, t, x)
  BY <1>1, <1>2, <1>3 DEF Taken
<1>4. ASSUME NEW t \in Tasks
      PROVE  GoodTask(run.tasks[t], run.plan, outputs'[t])
  <2>1. GoodTask(run.tasks[t], run.plan, outputs[t]) /\ run.tasks[t] \in Task
    BY TypeInvParts DEF EvidenceInv, StateInv, Run
  <2>2. OwnTask(run.tasks[t], run.plan, outputs'[t])
    BY <1>2, <2>1 DEF GoodTask, OwnTask
  <2>3. ASSUME run.tasks[t].status = "REWORK" PROVE run.tasks[t].attempt \in Attempts
    <3>1. run.tasks[t].attempt # 0
      BY <2>3, TypeInvParts DEF StateInv
    <3> QED
      BY <2>1, <3>1, BudgetAssumption DEF Task, Attempts
  <2>4. ASSUME Current PROVE GapFree(run.tasks[t], run.plan, outputs'[t])
    BY <1>2, <2>1, <2>3, <2>4 DEF GoodTask, GapFree
  <2> QED
    BY <2>2, <2>4 DEF GoodTask
<1>5. ASSUME Current
      PROVE  /\ PathsFollow(outputs', launched')
             /\ NoneAbove(run, outputs', launched')
             /\ AllBelow(run, outputs')
  <2>1. /\ PathsFollow(outputs, launched) /\ NoneAbove(run, outputs, launched)
        /\ AllBelow(run, outputs)
    BY <1>5 DEF EvidenceInv
  <2>2. PathsFollow(outputs', launched')
    BY <1>2, <1>3, <2>1 DEF PathsFollow
  <2>3. NoneAbove(run, outputs', launched')
    BY <1>3, <2>1 DEF NoneAbove
  <2>4. AllBelow(run, outputs')
    BY <1>2, <2>1 DEF AllBelow
  <2> QED
    BY <2>2, <2>3, <2>4
<1> QED
  BY <1>1, <1>4, <1>5 DEF EvidenceInv, EvidenceNext

(***************************************************************************)
(* The operations on many tasks.                                           *)
(***************************************************************************)
\* Unlocking makes tasks ready that had no attempt.
LEMMA UnlockedGood ==
    ASSUME NEW tasks, tasks \in [Tasks -> Task], NEW plan, NEW t \in Tasks, NEW written,
           GoodTask(tasks[t], plan, written)
    PROVE  /\ GoodTask(Unlocked(tasks)[t], plan, written)
           /\ Unlocked(tasks)[t].attempt = tasks[t].attempt
<1>1. CASE Unlocked(tasks)[t] = tasks[t]
  BY <1>1
<1>2. CASE Unlocked(tasks)[t] # tasks[t]
  <2>1. tasks[t].status = "PENDING" /\ Unlocked(tasks)[t] = [tasks[t] EXCEPT !.status = "READY"]
    BY <1>2 DEF Unlocked
  <2>2. PICK task : task = Unlocked(tasks)[t]
    OBVIOUS
  <2>3. /\ task.status = "READY" /\ task.attempt = tasks[t].attempt
        /\ task.start = tasks[t].start /\ task.history = tasks[t].history
    BY <2>1, <2>2 DEF Task
  <2>4. GoodTask(task, plan, written)
    BY <2>1, <2>3 DEF GoodTask, OwnTask, GapFree, Shaped, HistoryOf
  <2> QED
    BY <2>2, <2>3, <2>4
<1> QED
  BY <1>1, <1>2

LEMMA AcceptEvidence ==
    ASSUME TypeInv, EvidenceInv(run, outputs, launched), NEW t \in Tasks, AcceptTask(t)
    PROVE  EvidenceNext
<1> DEFINE reviewed == [run.tasks EXCEPT ![t].status = "ACCEPTED"]
<1> DEFINE tasks == Unlocked(reviewed)
<1> DEFINE next == [run EXCEPT !.tasks = tasks, !.phase = PhaseAfterAcceptance(tasks)]
<1>1. run.tasks \in [Tasks -> Task] /\ run.tasks[t].status = "VERIFYING"
  BY TypeInvParts DEF StateInv, Run, AcceptTask
<1>2. reviewed \in [Tasks -> Task]
  <2>1. [run.tasks[t] EXCEPT !.status = "ACCEPTED"] \in Task
    BY <1>1 DEF Task, Statuses, TaskStatuses
  <2> QED
    BY <1>1, <2>1
<1>3. /\ reviewed[t].status = "ACCEPTED" /\ reviewed[t].attempt = run.tasks[t].attempt
      /\ reviewed[t].start = run.tasks[t].start /\ reviewed[t].result = run.tasks[t].result
      /\ reviewed[t].history = run.tasks[t].history
      /\ \A u \in Tasks \ {t} : reviewed[u] = run.tasks[u]
  BY <1>1 DEF Task
<1>4. next.plan = run.plan /\ next.tasks = tasks
  <2> HIDE DEF tasks
  <2> QED
    BY TypeInvParts DEF StateInv, Run
<1>5. Commit("task-accept", next) /\ UNCHANGED <<outputs, launched>>
  BY DEF AcceptTask
<1> HIDE DEF next, tasks, reviewed
<1>6. GoodTask(reviewed[t], run.plan, outputs[t])
  <2>1. GoodTask(run.tasks[t], run.plan, outputs[t])
    BY DEF EvidenceInv
  <2>2. OwnTask(reviewed[t], run.plan, outputs[t])
    BY <1>1, <1>3, <2>1 DEF GoodTask, OwnTask
  <2>3. Current => GapFree(reviewed[t], run.plan, outputs[t])
    BY <1>1, <1>3, <2>1 DEF GoodTask, GapFree, Shaped
  <2> QED
    BY <2>2, <2>3 DEF GoodTask
<1>7. \A u \in Tasks : /\ GoodTask(reviewed[u], run.plan, outputs[u])
                       /\ reviewed[u].attempt = run.tasks[u].attempt
  BY <1>3, <1>6 DEF EvidenceInv
<1>8. \A u \in Tasks : /\ GoodTask(tasks[u], run.plan, outputs[u])
                       /\ tasks[u].attempt = run.tasks[u].attempt
  BY <1>2, <1>7, UnlockedGood DEF tasks
<1>9. EvidenceInv(next, outputs, launched)
  BY <1>4, <1>8, AttemptsKept
<1> QED
  BY <1>5, <1>9, Committed DEF EvidenceNext

LEMMA NewTaskGood ==
    ASSUME NEW t \in Tasks, NEW plan, NEW written
    PROVE  GoodTask(NewTask(t), plan, written)
<1>1. PICK task : task = NewTask(t)
  OBVIOUS
<1>2. /\ task.status \in {"PENDING", "READY"} /\ task.attempt = 0 /\ task.start = 0
      /\ task.history = <<>>
  BY <1>1 DEF NewTask
<1>3. OwnTask(task, plan, written) /\ Shaped(task)
  BY <1>2 DEF OwnTask, Shaped
<1>4. HistoryOf(task, plan)
  <2>1. Len(task.history) <= MaxTaskAttempts - 1 /\ DOMAIN task.history = {}
    BY <1>2, BudgetAssumption
  <2> QED
    BY <1>2, <2>1 DEF HistoryOf
<1> QED
  BY <1>1, <1>2, <1>3, <1>4 DEF GoodTask, GapFree

\* An accepted task keeps its result and its attempts into the next plan.
LEMMA PreservedGood ==
    ASSUME TypeInv, EvidenceInv(run, outputs, launched), NEW t \in Tasks, NEW plan,
           run.tasks[t].status = "ACCEPTED"
    PROVE  /\ GoodTask(Preserved(t), plan, outputs[t])
           /\ Preserved(t).attempt = run.tasks[t].attempt
<1>1. PICK task : task = Preserved(t)
  OBVIOUS
<1>2. /\ task.status = "ACCEPTED" /\ task.attempt = run.tasks[t].attempt
      /\ task.start = run.tasks[t].start /\ task.history = run.tasks[t].history
      /\ task.result = run.tasks[t].result
  BY <1>1, NewTaskTyped DEF Preserved, Status, Task
<1>3. GoodTask(run.tasks[t], run.plan, outputs[t])
  BY DEF EvidenceInv
<1>4. OwnTask(task, plan, outputs[t])
  BY <1>2, <1>3 DEF GoodTask, OwnTask
<1>5. Current => GapFree(task, plan, outputs[t])
  BY <1>2, <1>3 DEF GoodTask, GapFree, Shaped
<1> QED
  BY <1>1, <1>2, <1>4, <1>5 DEF GoodTask

LEMMA AdoptEvidence ==
    ASSUME TypeInv, EvidenceInv(run, outputs, launched),
           NEW plan \in Plans, NEW mode \in StartModes, NEW reset \in BOOLEAN,
           NEW kept \in SUBSET Tasks, NEW drift \in SUBSET Tasks,
           AdoptPlan(plan, mode, reset, kept, drift)
    PROVE  EvidenceNext
<1> DEFINE made == [t \in Tasks |-> IF t \in kept THEN Preserved(t) ELSE NewTask(t)]
<1> DEFINE unresolved == run.drift \union drift
<1> DEFINE next ==
        [run EXCEPT !.plan = plan, !.startMode = mode,
            !.authorization = Grant(mode), !.tasks = Unlocked(made), !.drift = unresolved,
            !.phase = IF unresolved = {} THEN AdoptedPhase(mode) ELSE "BLOCKED",
            !.blocker = IF unresolved = {} THEN NoBlocker ELSE DriftBlocker]
<1>1. \A t \in Tasks : /\ made[t] \in Task
                       /\ GoodTask(made[t], plan, outputs[t])
                       /\ made[t].attempt \in {0, run.tasks[t].attempt}
  <2> SUFFICES ASSUME NEW t \in Tasks
               PROVE  /\ made[t] \in Task
                      /\ GoodTask(made[t], plan, outputs[t])
                      /\ made[t].attempt \in {0, run.tasks[t].attempt}
    OBVIOUS
  <2>1. CASE t \in kept
    <3>1. run.tasks[t] \in Task /\ run.tasks[t].status = "ACCEPTED"
      BY <2>1, TypeInvParts DEF StateInv, Run, AdoptPlan, With, Status
    <3>2. Preserved(t) \in Task
      BY <3>1, NewTaskTyped DEF Preserved, Task, Status
    <3> QED
      BY <2>1, <3>1, <3>2, PreservedGood
  <2>2. CASE t \notin kept
    BY <2>2, NewTaskTyped, NewTaskGood
  <2> QED
    BY <2>1, <2>2
<1>2. made \in [Tasks -> Task]
  BY <1>1
<1>3. next.tasks = Unlocked(made) /\ next.plan = plan
  <2> HIDE DEF made, unresolved
  <2> QED
    BY TypeInvParts DEF StateInv, Run
<1>4. Commit("adopt-plan", next) /\ UNCHANGED <<outputs, launched>>
  BY DEF AdoptPlan
<1> HIDE DEF next, made
<1>5. EvidenceInv(next, outputs, launched)
  <2>1. \A t \in Tasks : /\ GoodTask(Unlocked(made)[t], plan, outputs[t])
                         /\ Unlocked(made)[t].attempt = made[t].attempt
    BY <1>1, <1>2, UnlockedGood
  <2> QED
    BY <1>1, <1>3, <2>1, AttemptsKept
<1> QED
  BY <1>4, <1>5, Committed DEF EvidenceNext

LEMMA AuditReworkEvidence ==
    ASSUME TypeInv, EvidenceInv(run, outputs, launched), NEW reopened \in SUBSET Tasks,
           FinalAuditRework(reopened)
    PROVE  EvidenceNext
<1> DEFINE next ==
        [run EXCEPT !.tasks = [t \in Tasks |-> IF t \in reopened
                                 THEN [Archived(@[t]) EXCEPT !.blocker = "none"]
                                 ELSE @[t]],
                    !.phase = IF Current THEN "RUNNING" ELSE "REMEDIATING",
                    !.blocker = NoBlocker, !.outcome = Audited("REWORK")]
<1>1. next.plan = run.plan
  BY TypeInvParts DEF StateInv, Run
<1>2. \A t \in Tasks : /\ GoodTask(next.tasks[t], run.plan, outputs[t])
                       /\ next.tasks[t].attempt = run.tasks[t].attempt
  <2> SUFFICES ASSUME NEW t \in Tasks
               PROVE  /\ GoodTask(next.tasks[t], run.plan, outputs[t])
                      /\ next.tasks[t].attempt = run.tasks[t].attempt
    OBVIOUS
  <2>1. CASE t \in reopened
    <3>1. /\ run.tasks[t].status = "ACCEPTED" /\ HistoryValid(run.tasks[t])
          /\ FreeAttempts(t) # {}
      BY <2>1 DEF FinalAuditRework, Reopenable, Status
    <3>2. run.tasks[t].attempt < MaxTaskAttempts
      <4>1. run.tasks[t] \in Task
        BY TypeInvParts DEF StateInv, Run
      <4>2. run.tasks[t].attempt \in Nat
        BY <4>1, BudgetAssumption DEF Task
      <4> QED
        BY <3>1, <4>2, BudgetAssumption DEF FreeAttempts, Attempts
    <3>3. PICK archived : archived = Archived(run.tasks[t])
      OBVIOUS
    <3>4. /\ GoodTask(archived, run.plan, outputs[t]) /\ archived \in Task
          /\ archived.attempt = run.tasks[t].attempt
      BY <3>1, <3>2, <3>3, ArchivedGood
    <3>5. next.tasks[t] = [archived EXCEPT !.blocker = "none"]
      BY <2>1, <3>3, TypeInvParts DEF StateInv, Run
    <3> HIDE DEF next
    <3>6. /\ next.tasks[t].status = archived.status /\ next.tasks[t].start = archived.start
          /\ next.tasks[t].attempt = archived.attempt
          /\ next.tasks[t].history = archived.history
          /\ next.tasks[t].result = archived.result
      BY <3>4, <3>5 DEF Task
    <3>7. GoodTask(next.tasks[t], run.plan, outputs[t])
      BY <3>4, <3>6 DEF GoodTask, OwnTask, GapFree, Shaped, HistoryOf
    <3> QED
      BY <3>4, <3>6, <3>7
  <2>2. CASE t \notin reopened
    <3>1. next.tasks[t] = run.tasks[t]
      BY <2>2, TypeInvParts DEF StateInv, Run
    <3> HIDE DEF next
    <3> QED
      BY <3>1 DEF EvidenceInv
  <2> QED
    BY <2>1, <2>2
<1>3. Commit("final-audit-outcome", next) /\ UNCHANGED <<outputs, launched>>
  BY DEF FinalAuditRework
<1> HIDE DEF next
<1> QED
  BY <1>1, <1>2, <1>3, AttemptsKept, Committed DEF EvidenceNext

(***************************************************************************)
(* The invariant, and the two theorems.                                    *)
(***************************************************************************)
LEMMA EvidenceInit == Init => EvidenceInv(run, outputs, launched)
<1> SUFFICES ASSUME Init PROVE EvidenceInv(run, outputs, launched)
  OBVIOUS
<1>1. \A t \in Tasks : /\ GoodTask(run.tasks[t], run.plan, outputs[t])
                       /\ run.tasks[t].attempt = 0
  BY NewTaskGood, NewTaskTyped DEF Init
<1>2. \A t \in Tasks, x \in Attempts : ~Taken(outputs, launched, t, x)
  BY DEF Init, Taken
<1>3. PathsFollow(outputs, launched) /\ NoneAbove(run, outputs, launched)
  BY <1>2 DEF PathsFollow, NoneAbove
<1>4. AllBelow(run, outputs)
  BY <1>1, BudgetAssumption DEF AllBelow, Attempts
<1> QED
  BY <1>1, <1>3, <1>4 DEF EvidenceInv

IInv == SafeInv /\ EvidenceInv(run, outputs, launched)

LEMMA EvidenceStep == IInv /\ [Next]_vars => IInv'
<1> SUFFICES ASSUME IInv, [Next]_vars PROVE EvidenceNext
  BY SafeStep DEF IInv, EvidenceNext
<1> USE DEF IInv
<1>1. TypeInv
  BY DEF SafeInv
<1>2. CASE Work
  BY <1>1, <1>2, QuietEvidence, StartTaskEvidence, ResultEvidence, AcceptEvidence,
     ReworkEvidence, WriteEvidence, ContinueEvidence, RerouteEvidence DEF Work, Review
<1>3. CASE Interruption
  <2>1. CASE \E subject \in Tasks \union {NoTask} : BlockRun(subject)
    BY <1>1, <2>1, QuietEvidence
  <2>2. CASE \E resume \in Resumable : FinalAuditBlocked(resume)
    BY <1>1, <2>2, QuietEvidence
  <2> QED
    BY <1>1, <1>3, <2>1, <2>2, QuietEvidence, AdoptEvidence, OutcomeEvidence,
       BudgetPauseEvidence, StopEvidence, AuditReworkEvidence DEF Interruption
<1>4. CASE UNCHANGED vars
  BY <1>4 DEF vars, EvidenceNext
<1> QED
  BY <1>2, <1>3, <1>4 DEF Next

LEMMA EvidenceAlways == Spec => []IInv
<1>1. Init => IInv
  BY SafeInit, EvidenceInit DEF IInv
<1>2. IInv /\ [Next]_vars => IInv'
  BY EvidenceStep
<1> QED
  BY <1>1, <1>2, PTL DEF Spec

\* Behind a review and behind an acceptance stands the file of the attempt's own
\* worker, however late the workers of other attempts and plans write.
THEOREM EvidenceStaysOwn == Spec => []EvidenceIsOwn
<1>1. IInv => EvidenceIsOwn
  BY DEF IInv, EvidenceInv, GoodTask, OwnTask, EvidenceIsOwn, With, Status
<1> QED
  BY <1>1, EvidenceAlways, PTL

\* No sequence of reworks, final audits and adoptions, and no late worker, makes
\* the code refuse the history of a task that is still to be attempted.
THEOREM HistoriesStayValid == Spec => []HistoryStaysValid
<1>1. IInv => HistoryStaysValid
  BY HistoryRead
  DEF IInv, EvidenceInv, GoodTask, GapFree, HistoryStaysValid, With, Status
<1> QED
  BY <1>1, EvidenceAlways, PTL

-----------------------------------------------------------------------------
(***************************************************************************)
(* The handlers agree with the validator, and no blocker outlives what it  *)
(* blocks: for every set of tasks and every budget.                        *)
(*                                                                         *)
(* The two belong together.  What the validator demands of a blocker holds *)
(* of the prepared states because of what every committed state says of    *)
(* it: a run that is neither blocked nor waiting has none, a blocked run   *)
(* has the run's own or the plan's, and the phase a blocker resumes is one *)
(* in which the run needs no blocker.  What it demands of an archived      *)
(* attempt rests on the numbering of attempts (Shaped).                    *)
(***************************************************************************)
BlockerInv(s) ==
    Current =>
        /\ s.phase # Wait
        /\ s.phase = "BLOCKED" => s.blocker.scope \in {"run", "plan"}
        /\ s.phase = "WAITING_FOR_EXTERNAL_ACTION" =>
              s.blocker = NoBlocker \/ s.blocker.scope = "external"
        /\ s.phase \notin {"BLOCKED", "WAITING_FOR_EXTERNAL_ACTION"} =>
              s.blocker = NoBlocker
        /\ s.blocker.scope = "run" =>
              /\ s.blocker.resume \in {"AWAITING_AUTHORIZATION", "READY", "RUNNING",
                                       "WAITING_FOR_EXTERNAL_ACTION", "FINAL_AUDIT"}
              /\ s.blocker.resume = "WAITING_FOR_EXTERNAL_ACTION" => s.external # "none"

\* Without a route in the plan no attempt has one: the decision that reroutes a task
\* is never reached.
RoutesInv(s) ==
    Current /\ Routed \union Profiled = {} =>
        \A t \in Tasks : ~s.tasks[t].routed /\ ~s.tasks[t].attemptRouted

FitInv ==
    IInv /\ BlockerInv(run) /\ RoutesInv(run) /\ HandlersAgreeWithValidator

\* What a step has to show beyond IInv.
FitNext == BlockerInv(run') /\ RoutesInv(run') /\ HandlersAgreeWithValidator'

\* The operations whose prepared state the validator may refuse.
Excused ==
    {"adopt-plan", "external-resume"}
    \union (IF Routed \union Profiled = {} THEN {} ELSE {"task-accept", "budget-pause"})

TaskFits(task) ==
    /\ task.status \in TaskStatuses
    /\ Len(task.history) <= task.attempt
    /\ task.status = "ACCEPTED" => ~task.attemptRouted
    /\ task.status = "BLOCKED" => task.blocker # "none"

LEMMA FitParts ==
    ASSUME FitInv, Current
    PROVE  /\ SafeInv /\ TypeInv /\ Valid(run) /\ Settled(run)
           /\ run \in Run /\ run.tasks \in [Tasks -> Task]
           /\ \A t \in Tasks : TaskFits(run.tasks[t])
BY TypeInvParts
DEF FitInv, IInv, SafeInv, StateInv, Run, Valid, ValidTasks, TaskFits

\* A prepared state whose blocker and tasks fit is valid.
LEMMA FittingIsValid ==
    ASSUME NEW next, BlockerInv(next), \A t \in Tasks : TaskFits(next.tasks[t]),
           next.phase \in RunPhases,
           next.phase = "FINAL_AUDIT" => AllAccepted(next.tasks),
           next.phase = "PLAN_ONLY" =>
               next.startMode = "plan-only" /\ ~next.authorization.granted,
           next.phase = "WAITING_FOR_EXTERNAL_ACTION" => next.external # "none"
    PROVE  Valid(next)
<1> SUFFICES ASSUME Current PROVE Valid(next)
  BY DEF Valid
<1>1. ValidTasks(next)
  BY DEF ValidTasks, TaskFits
<1>2. next.blocker.scope \notin {"legacy", "task"}
  <2>1. NoBlocker.scope = "none"
    BY DEF NoBlocker
  <2> QED
    BY <2>1 DEF BlockerInv
<1>3. next.phase = "BLOCKED" => next.blocker # NoBlocker
  BY DEF BlockerInv, NoBlocker
<1>4. ValidRecovery(next)
  BY <1>2 DEF ValidRecovery, BlockerInv, Wait
<1> QED
  BY <1>1, <1>3, <1>4 DEF Valid, ValidPhase

LEMMA OperationFits ==
    ASSUME FitInv, NEW op, NEW STATE next, Commit(op, next),
           Current => /\ Valid(next) => BlockerInv(next) /\ RoutesInv(next)
                      /\ Valid(next) \/ op \in Excused
    PROVE  FitNext
<1>1. BlockerInv(run') /\ RoutesInv(run')
  <2>1. CASE run' = run
    BY <2>1 DEF FitInv, BlockerInv, RoutesInv
  <2>2. CASE run' = next /\ Valid(next)
    BY <2>2 DEF BlockerInv, RoutesInv
  <2> QED
    BY <2>1, <2>2 DEF Commit
<1>2. rejected' = rejected \/ (rejected' = rejected \union {op} /\ op \in Excused)
  <2>1. ~Current => Valid(next)
    BY DEF Valid
  <2>2. CASE Valid(next)
    BY <2>2 DEF Commit
  <2>3. ASSUME ~Valid(next) PROVE rejected' = rejected \union {op} /\ op \in Excused
    <3>1. rejected' = rejected \union {op}
      BY <2>3 DEF Commit
    <3>2. Current
      BY <2>1, <2>3
    <3> QED
      BY <2>3, <3>1, <3>2
  <2> QED
    BY <2>2, <2>3
<1>3. rejected \subseteq Excused
  BY DEF FitInv, HandlersAgreeWithValidator, Excused
<1>4. rejected' \subseteq Excused
  BY <1>2, <1>3
<1> QED
  BY <1>1, <1>4 DEF FitNext, HandlersAgreeWithValidator, Excused

\* An operation that leaves the tasks alone.
LEMMA SameTasksFit ==
    ASSUME FitInv, NEW op, NEW STATE next, Commit(op, next), next.tasks = run.tasks,
           Current =>
               /\ BlockerInv(next)
               /\ next.phase \in RunPhases
               /\ next.phase = "FINAL_AUDIT" => AllAccepted(run.tasks)
               /\ next.phase = "PLAN_ONLY" =>
                     next.startMode = "plan-only" /\ ~next.authorization.granted
               /\ next.phase = "WAITING_FOR_EXTERNAL_ACTION" => next.external # "none"
    PROVE  FitNext
<1>1. ASSUME Current PROVE Valid(next) /\ BlockerInv(next) /\ RoutesInv(next)
  BY <1>1, FitParts, FittingIsValid DEF FitInv, RoutesInv
<1> QED
  BY <1>1, OperationFits

LEMMA AuthorizeFits == ASSUME FitInv, AuthorizeExecution PROVE FitNext
<1> DEFINE next ==
        [run EXCEPT !.phase = "READY",
            !.authorization = [required |-> FALSE, granted |-> TRUE, expiry |-> "ahead"]]
<1>1. Commit("authorize", next)
  BY DEF AuthorizeExecution
<1>2. /\ next.tasks = run.tasks /\ next.phase = "READY"
      /\ next.blocker = run.blocker /\ next.external = run.external
  BY TypeInvParts DEF FitInv, IInv, SafeInv, StateInv, Run
<1> HIDE DEF next
<1>3. Current => BlockerInv(next)
  BY <1>2 DEF FitInv, BlockerInv, AuthorizeExecution, Wait
<1> QED
  BY <1>1, <1>2, <1>3, SameTasksFit DEF RunPhases

LEMMA RenewFits == ASSUME FitInv, RenewAuthorization PROVE FitNext
<1> DEFINE next == [run EXCEPT !.authorization.expiry = "ahead"]
<1>1. Commit("authorization-renew", next)
  BY DEF RenewAuthorization
<1>2. /\ next.tasks = run.tasks /\ next.phase = run.phase
      /\ next.blocker = run.blocker /\ next.external = run.external
  BY TypeInvParts DEF FitInv, IInv, SafeInv, StateInv, Run
<1>3. /\ run.phase \in {"RUNNING", "FINAL_AUDIT"}
      /\ run.phase = "FINAL_AUDIT" => AllAccepted(run.tasks)
  BY DEF RenewAuthorization, Renewable
<1> HIDE DEF next
<1>4. Current => BlockerInv(next)
  BY <1>2 DEF FitInv, BlockerInv, Wait
<1> QED
  BY <1>1, <1>2, <1>3, <1>4, SameTasksFit DEF RunPhases

LEMMA StartExecutionFits == ASSUME FitInv, StartExecution PROVE FitNext
<1> DEFINE next ==
        [run EXCEPT !.phase = IF Required # {} /\ AllAccepted(run.tasks)
                              THEN "FINAL_AUDIT" ELSE "RUNNING"]
<1>1. Commit("start-execution", next)
  BY DEF StartExecution
<1>2. /\ next.tasks = run.tasks /\ next.phase \in {"RUNNING", "FINAL_AUDIT"}
      /\ next.phase = "FINAL_AUDIT" => AllAccepted(run.tasks)
      /\ next.blocker = run.blocker /\ next.external = run.external
  BY TypeInvParts DEF FitInv, IInv, SafeInv, StateInv, Run
<1> HIDE DEF next
<1>3. Current => BlockerInv(next)
  BY <1>2 DEF FitInv, BlockerInv, StartExecution, Wait
<1> QED
  BY <1>1, <1>2, <1>3, SameTasksFit DEF RunPhases

LEMMA BlockFits ==
    ASSUME FitInv, NEW subject \in Tasks \union {NoTask}, BlockRun(subject)
    PROVE  FitNext
<1> DEFINE next ==
        [run EXCEPT !.phase = "BLOCKED", !.blocker = RunBlocker(run.phase, subject)]
<1>1. Commit("block", next)
  BY DEF BlockRun
<1>2. /\ next.tasks = run.tasks /\ next.phase = "BLOCKED"
      /\ next.blocker = RunBlocker(run.phase, subject) /\ next.external = run.external
  BY TypeInvParts DEF FitInv, IInv, SafeInv, StateInv, Run
<1> HIDE DEF next
<1>3. ASSUME Current PROVE BlockerInv(next)
  <2>1. next.blocker.scope = "run" /\ next.blocker.resume = run.phase
    BY <1>2, <1>3 DEF RunBlocker
  <2>2. Valid(run) /\ run.startMode # "plan-only"
    BY <1>3, FitParts, NotPlanOnly DEF BlockRun
  <2>3. run.phase \in {"AWAITING_AUTHORIZATION", "READY", "RUNNING",
                       "WAITING_FOR_EXTERNAL_ACTION", "FINAL_AUDIT"}
    BY <1>3, <2>2
    DEF FitInv, BlockerInv, Valid, ValidRecovery, RunPhases, BlockRun, TerminalPhases, Wait
  <2>4. run.phase = "WAITING_FOR_EXTERNAL_ACTION" => run.external # "none"
    BY <1>3, <2>2 DEF Valid, ValidRecovery
  <2> QED
    BY <1>2, <2>1, <2>3, <2>4 DEF BlockerInv, Wait
<1> QED
  BY <1>1, <1>2, <1>3, SameTasksFit DEF RunPhases

LEMMA ResolveFits == ASSUME FitInv, ResolveBlocker PROVE FitNext
<1> DEFINE next == [run EXCEPT !.phase = run.blocker.resume, !.blocker = NoBlocker]
<1>1. Commit("resolve-blocker", next)
  BY DEF ResolveBlocker
<1>2. /\ next.tasks = run.tasks /\ next.phase = run.blocker.resume
      /\ next.blocker = NoBlocker /\ next.external = run.external
  BY TypeInvParts DEF FitInv, IInv, SafeInv, StateInv, Run
<1> HIDE DEF next
<1>3. ASSUME Current PROVE run.blocker.scope = "run"
  BY <1>3 DEF FitInv, BlockerInv, ResolveBlocker
<1>4. ASSUME Current
      PROVE  /\ next.phase \in {"AWAITING_AUTHORIZATION", "READY", "RUNNING",
                                "WAITING_FOR_EXTERNAL_ACTION", "FINAL_AUDIT"}
             /\ next.phase = "WAITING_FOR_EXTERNAL_ACTION" => next.external # "none"
  BY <1>2, <1>3, <1>4 DEF FitInv, BlockerInv
<1>5. ASSUME Current, next.phase = "FINAL_AUDIT" PROVE AllAccepted(run.tasks)
  BY <1>2, <1>5, FitParts DEF Settled, Back, ResolveBlocker
<1>6. ASSUME Current PROVE BlockerInv(next)
  BY <1>2, <1>4, <1>6 DEF BlockerInv, NoBlocker, Wait
<1> QED
  BY <1>1, <1>2, <1>4, <1>5, <1>6, SameTasksFit DEF RunPhases

LEMMA PauseFits == ASSUME FitInv, PauseForExternalAction PROVE FitNext
<1> DEFINE next ==
        [run EXCEPT !.phase = "WAITING_FOR_EXTERNAL_ACTION", !.external = run.phase]
<1>1. Commit("external-pause", next)
  BY DEF PauseForExternalAction
<1>2. /\ next.tasks = run.tasks /\ next.phase = "WAITING_FOR_EXTERNAL_ACTION"
      /\ next.blocker = run.blocker /\ next.external = run.phase
  BY TypeInvParts DEF FitInv, IInv, SafeInv, StateInv, Run
<1>3. run.phase \in ExternalActionPhases
  BY DEF PauseForExternalAction
<1> HIDE DEF next
<1>4. Current => BlockerInv(next) /\ next.external # "none"
  BY <1>2, <1>3 DEF FitInv, BlockerInv, ExternalActionPhases, NoBlocker, Wait
<1> QED
  BY <1>1, <1>2, <1>4, SameTasksFit DEF RunPhases

LEMMA ResumeFits == ASSUME FitInv, ResumeExternalAction PROVE FitNext
<1> DEFINE blocker == IF run.blocker.scope = "external" THEN NoBlocker ELSE run.blocker
<1> DEFINE next ==
        [run EXCEPT !.phase = run.external, !.external = "none",
                    !.blocker = IF @.scope = "external" THEN NoBlocker ELSE @]
<1>1. Commit("external-resume", next)
  BY DEF ResumeExternalAction
<1>2. /\ next.tasks = run.tasks /\ next.phase = run.external /\ next.blocker = blocker
  BY TypeInvParts DEF FitInv, IInv, SafeInv, StateInv, Run
<1>3. "external-resume" \in Excused
  BY DEF Excused
<1>4. run.external \in ExternalActionPhases
  BY DEF ResumeExternalAction
<1> HIDE DEF next
<1>5. ASSUME Current PROVE BlockerInv(next) /\ RoutesInv(next)
  <2>1. blocker = NoBlocker
    BY <1>5 DEF FitInv, BlockerInv, ResumeExternalAction
  <2>2. RoutesInv(next)
    BY <1>2 DEF FitInv, RoutesInv
  <2> QED
    BY <1>2, <1>4, <2>1, <2>2 DEF BlockerInv, ExternalActionPhases, NoBlocker, Wait
<1> QED
  BY <1>1, <1>3, <1>5, OperationFits

LEMMA AuditAcceptedFits == ASSUME FitInv, FinalAuditAccepted PROVE FitNext
<1> DEFINE next == [run EXCEPT !.outcome = Audited("ACCEPTED")]
<1>1. Commit("final-audit-outcome", next)
  BY DEF FinalAuditAccepted
<1>2. /\ next.tasks = run.tasks /\ next.phase = "FINAL_AUDIT"
      /\ next.blocker = run.blocker /\ next.external = run.external
  BY TypeInvParts DEF FitInv, IInv, SafeInv, StateInv, Run, FinalAuditAccepted
<1>3. Current => AllAccepted(run.tasks)
  BY FitParts DEF Settled, Back, FinalAuditAccepted
<1> HIDE DEF next
<1>4. Current => BlockerInv(next)
  BY <1>2 DEF FitInv, BlockerInv, FinalAuditAccepted, Wait
<1> QED
  BY <1>1, <1>2, <1>3, <1>4, SameTasksFit DEF RunPhases

LEMMA AuditContractFits == ASSUME FitInv, FinalAuditContractChange PROVE FitNext
<1> DEFINE next ==
        [run EXCEPT !.phase = "BLOCKED", !.outcome = Audited("CONTRACT_CHANGE"),
            !.blocker = [NoBlocker EXCEPT !.scope = "plan", !.route = "adopt-plan"]]
<1>1. Commit("final-audit-outcome", next)
  BY DEF FinalAuditContractChange
<1>2. /\ next.tasks = run.tasks /\ next.phase = "BLOCKED"
      /\ next.blocker.scope = "plan"
  BY TypeInvParts DEF FitInv, IInv, SafeInv, StateInv, Run, NoBlocker
<1> HIDE DEF next
<1>3. Current => BlockerInv(next)
  BY <1>2 DEF BlockerInv, Wait
<1> QED
  BY <1>1, <1>2, <1>3, SameTasksFit DEF RunPhases

LEMMA AuditBlockedFits ==
    ASSUME FitInv, NEW resume \in Resumable, FinalAuditBlocked(resume)
    PROVE  FitNext
<1> DEFINE next ==
        [run EXCEPT !.phase = "WAITING_FOR_EXTERNAL_ACTION", !.external = resume,
            !.outcome = Audited("BLOCKED"),
            !.blocker = [NoBlocker EXCEPT !.scope = "external",
                                          !.route = "external-action"]]
<1>1. Commit("final-audit-outcome", next)
  BY DEF FinalAuditBlocked
<1>2. /\ next.tasks = run.tasks /\ next.phase = "WAITING_FOR_EXTERNAL_ACTION"
      /\ next.blocker.scope = "external" /\ next.external = resume
  BY TypeInvParts DEF FitInv, IInv, SafeInv, StateInv, Run, NoBlocker
<1>3. resume # "none"
  BY DEF Resumable, ExternalActionPhases
<1> HIDE DEF next
<1>4. Current => BlockerInv(next)
  BY <1>2 DEF BlockerInv, Wait
<1> QED
  BY <1>1, <1>2, <1>3, <1>4, SameTasksFit DEF RunPhases

LEMMA FinalizeFits == ASSUME FitInv, FinalizeRun PROVE FitNext
<1> DEFINE next == [run EXCEPT !.phase = "COMPLETE"]
<1>1. Commit("finalize", next)
  BY DEF FinalizeRun
<1>2. next.tasks = run.tasks /\ next.phase = "COMPLETE" /\ next.blocker = run.blocker
  BY TypeInvParts DEF FitInv, IInv, SafeInv, StateInv, Run
<1> HIDE DEF next
<1>3. Current => BlockerInv(next)
  BY <1>2 DEF FitInv, BlockerInv, FinalizeRun, NoBlocker, Wait
<1> QED
  BY <1>1, <1>2, <1>3, SameTasksFit DEF RunPhases, TerminalPhases

LEMMA ExpiryFits == ASSUME FitInv, AuthorizationExpires PROVE FitNext
<1>1. /\ run'.tasks = run.tasks /\ run'.phase = run.phase
      /\ run'.blocker = run.blocker /\ run'.external = run.external
      /\ UNCHANGED rejected
  BY TypeInvParts DEF FitInv, IInv, SafeInv, StateInv, Run, AuthorizationExpires
<1> QED
  BY <1>1 DEF FitInv, FitNext, BlockerInv, RoutesInv, HandlersAgreeWithValidator

\* An operation on one task of a run that works.
LEMMA OneTaskFits ==
    ASSUME FitInv, NEW op, NEW STATE next, Commit(op, next), NEW t \in Tasks,
           \A u \in Tasks \ {t} : next.tasks[u] = run.tasks[u],
           next.blocker = run.blocker,
           Current =>
               /\ run.phase = "RUNNING" /\ next.phase = "RUNNING"
               /\ TaskFits(next.tasks[t])
               /\ Routed \union Profiled = {} =>
                     ~next.tasks[t].routed /\ ~next.tasks[t].attemptRouted
    PROVE  FitNext
<1>1. ASSUME Current PROVE BlockerInv(next)
  BY <1>1 DEF FitInv, BlockerInv, NoBlocker, Wait
<1>2. ASSUME Current, NEW u \in Tasks PROVE TaskFits(next.tasks[u])
  BY <1>2, FitParts
<1>3. ASSUME Current PROVE RoutesInv(next)
  BY <1>3 DEF FitInv, RoutesInv
<1>4. ASSUME Current PROVE Valid(next)
  BY <1>1, <1>2, <1>4, FittingIsValid DEF RunPhases
<1> QED
  BY <1>1, <1>3, <1>4, OperationFits

LEMMA Unrouted ==
    ASSUME FitInv, Current, Routed \union Profiled = {}, NEW t \in Tasks
    PROVE  ~run.tasks[t].routed /\ ~run.tasks[t].attemptRouted
BY DEF FitInv, RoutesInv

LEMMA StartTaskFits ==
    ASSUME FitInv, NEW t \in Tasks, NEW lent \in BOOLEAN, StartTask(t, lent)
    PROVE  FitNext
<1> DEFINE attempt == Min(FreeAttempts(t))
<1> DEFINE task == Attempted(run.tasks[t], attempt, lent)
<1> DEFINE next == [run EXCEPT !.tasks[t] = Attempted(@, attempt, lent), !.phase = "RUNNING"]
<1>1. Commit("task-start", next)
  BY DEF StartTask
<1>2. run \in Run /\ run.tasks \in [Tasks -> Task] /\ run.tasks[t] \in Task
  BY TypeInvParts DEF FitInv, IInv, SafeInv, StateInv, Run
<1>3. /\ next.tasks[t] = task /\ next.blocker = run.blocker /\ next.phase = "RUNNING"
      /\ \A u \in Tasks \ {t} : next.tasks[u] = run.tasks[u]
  <2> HIDE DEF attempt
  <2> QED
    BY <1>2 DEF Run
<1>4. ASSUME Current PROVE run.phase = "RUNNING"
  BY <1>4, FitParts DEF Valid, RunPhases, TerminalPhases, StartTask
<1>5. attempt > run.tasks[t].attempt /\ attempt \in Nat
  BY LeastAttempt DEF StartTask, Startable, FreeAttempts, Attempts
<1>6. ASSUME Current PROVE TaskFits(task)
  <2>1. Len(run.tasks[t].history) <= run.tasks[t].attempt
    BY <1>6, FitParts DEF TaskFits
  <2>2. Len(run.tasks[t].history) \in Nat /\ run.tasks[t].attempt \in Nat
    BY <1>2 DEF Task
  <2>3. /\ task.history = run.tasks[t].history /\ task.attempt = attempt
        /\ task.status = "RUNNING"
    <3> HIDE DEF attempt
    <3> QED
      BY <1>2 DEF Attempted, RoutedAtStart, Task
  <2> HIDE DEF attempt, task
  <2>4. Len(task.history) <= task.attempt
    BY <1>5, <2>1, <2>2, <2>3
  <2> QED
    BY <2>3, <2>4 DEF TaskFits, TaskStatuses
<1>7. ASSUME Current, Routed \union Profiled = {} PROVE ~task.routed /\ ~task.attemptRouted
  <2>1. ~lent /\ ~run.tasks[t].routed
    BY <1>7, Unrouted DEF StartTask
  <2>2. task.routed = RoutedAtStart(run.tasks[t], lent)
        /\ task.attemptRouted = RoutedAtStart(run.tasks[t], lent)
    <3> HIDE DEF attempt
    <3> QED
      BY <1>2 DEF Attempted, Task
  <2> QED
    BY <2>1, <2>2, Zenon DEF RoutedAtStart
<1> HIDE DEF next, task
<1> QED
  BY <1>1, <1>3, <1>4, <1>6, <1>7, OneTaskFits

LEMMA ResultFits == ASSUME FitInv, NEW t \in Tasks, CommitTaskResult(t) PROVE FitNext
<1> DEFINE task == [run.tasks[t] EXCEPT !.status = "VERIFYING", !.result = run.plan]
<1> DEFINE next ==
        [run EXCEPT !.tasks[t].status = "VERIFYING", !.tasks[t].result = run.plan,
                    !.phase = ReviewPhase]
<1>1. Commit("task-result", next)
  BY DEF CommitTaskResult
<1>2. run \in Run /\ run.tasks \in [Tasks -> Task] /\ run.tasks[t] \in Task
  BY TypeInvParts DEF FitInv, IInv, SafeInv, StateInv, Run
<1>3. /\ next.tasks[t] = task /\ next.blocker = run.blocker /\ next.phase = ReviewPhase
      /\ \A u \in Tasks \ {t} : next.tasks[u] = run.tasks[u]
  BY <1>2 DEF Run, Task
<1>4. run.phase = "RUNNING" /\ (Current => ReviewPhase = "RUNNING")
  BY DEF CommitTaskResult, ReviewPhase
<1>5. /\ task.status = "VERIFYING" /\ task.history = run.tasks[t].history
      /\ task.attempt = run.tasks[t].attempt /\ task.routed = run.tasks[t].routed
      /\ task.attemptRouted = run.tasks[t].attemptRouted
  BY <1>2 DEF Task
<1> HIDE DEF next, task
<1>6. ASSUME Current PROVE TaskFits(task)
  BY <1>5, <1>6, FitParts DEF TaskFits, TaskStatuses
<1> QED
  BY <1>1, <1>3, <1>4, <1>5, <1>6, Unrouted, OneTaskFits

LEMMA OutcomeFits ==
    ASSUME FitInv, NEW t \in Tasks, NEW verdict \in {"CONTRACT_CHANGE", "BLOCKED"},
           NEW route \in TaskRoutes, ApplyTaskReviewOutcome(t, verdict, route)
    PROVE  FitNext
<1> DEFINE task ==
        [run.tasks[t] EXCEPT !.status = verdict,
                             !.blocker = IF verdict = "BLOCKED" THEN route ELSE @]
<1> DEFINE next ==
        [run EXCEPT !.tasks[t].status = verdict,
                    !.tasks[t].blocker = IF verdict = "BLOCKED" THEN route ELSE @]
<1>1. Commit("task-review-apply", next)
  BY DEF ApplyTaskReviewOutcome
<1>2. run \in Run /\ run.tasks \in [Tasks -> Task] /\ run.tasks[t] \in Task
  BY TypeInvParts DEF FitInv, IInv, SafeInv, StateInv, Run
<1>3. /\ next.tasks[t] = task /\ next.blocker = run.blocker /\ next.phase = run.phase
      /\ \A u \in Tasks \ {t} : next.tasks[u] = run.tasks[u]
  BY <1>2 DEF Run, Task
<1>4. Current => run.phase = "RUNNING"
  BY DEF ApplyTaskReviewOutcome, ReviewPhase
<1>5. /\ task.status = verdict /\ task.history = run.tasks[t].history
      /\ task.attempt = run.tasks[t].attempt /\ task.routed = run.tasks[t].routed
      /\ task.attemptRouted = run.tasks[t].attemptRouted
      /\ verdict = "BLOCKED" => task.blocker = route
  BY <1>2 DEF Task
<1>6. route # "none"
  BY DEF TaskRoutes
<1> HIDE DEF next, task
<1>7. ASSUME Current PROVE TaskFits(task)
  BY <1>5, <1>6, <1>7, FitParts DEF TaskFits, TaskStatuses
<1> QED
  BY <1>1, <1>3, <1>4, <1>5, <1>7, Unrouted, OneTaskFits

\* An attempt that is under review or accepted can be archived: of its number of
\* attempts one is not in the history yet.
LEMMA ArchivedFits ==
    ASSUME FitInv, Current, NEW t \in Tasks,
           run.tasks[t].status \in {"VERIFYING", "ACCEPTED"}
    PROVE  /\ TaskFits(Archived(run.tasks[t]))
           /\ Archived(run.tasks[t]).status = "REWORK"
           /\ Archived(run.tasks[t]).routed = run.tasks[t].routed
           /\ ~Archived(run.tasks[t]).attemptRouted
           /\ Archived(run.tasks[t]).history =
                  Append(run.tasks[t].history,
                         [attempt |-> run.tasks[t].attempt, plan |-> run.plan])
           /\ Archived(run.tasks[t]).attempt = run.tasks[t].attempt
<1> DEFINE task == run.tasks[t]
<1> DEFINE entry == [attempt |-> task.attempt, plan |-> run.plan]
<1>1. task \in Task
  BY FitParts
<1>2. Shaped(task)
  BY DEF FitInv, IInv, EvidenceInv, GoodTask, GapFree
<1>3. /\ Archived(task).status = "REWORK" /\ ~Archived(task).attemptRouted
      /\ Archived(task).routed = task.routed /\ Archived(task).attempt = task.attempt
      /\ Archived(task).history = Append(task.history, entry)
  BY <1>1 DEF Archived, Task
<1>4. Len(Archived(task).history) = Len(task.history) + 1
  <2>1. task.history \in Seq([attempt : Attempts, plan : Plans])
    BY <1>1 DEF Task
  <2> HIDE DEF task, entry
  <2> QED
    BY <1>3, <2>1
<1>5. /\ task.start \in Nat /\ task.start # 0 /\ task.attempt \in Nat
      /\ Len(task.history) \in Nat /\ task.start + Len(task.history) = task.attempt
  BY <1>1, <1>2, BudgetAssumption DEF Shaped, Task
<1> HIDE DEF task, entry
<1>6. Len(Archived(task).history) <= Archived(task).attempt
  <2>1. Len(task.history) + 1 <= task.attempt
    BY <1>5
  <2> QED
    BY <1>3, <1>4, <2>1
<1>7. TaskFits(Archived(task))
  BY <1>3, <1>6 DEF TaskFits, TaskStatuses
<1> QED
  BY <1>3, <1>7 DEF task, entry

LEMMA ReworkFits == ASSUME FitInv, NEW t \in Tasks, ReworkTask(t) PROVE FitNext
<1> DEFINE next ==
        [run EXCEPT !.tasks[t] = Archived(@),
                    !.phase = IF Current THEN @ ELSE "REMEDIATING"]
<1>1. Commit("task-rework", next)
  BY DEF ReworkTask
<1>2. run \in Run /\ run.tasks \in [Tasks -> Task] /\ run.tasks[t] \in Task
  BY TypeInvParts DEF FitInv, IInv, SafeInv, StateInv, Run
<1>3. /\ next.tasks[t] = Archived(run.tasks[t]) /\ next.blocker = run.blocker
      /\ Current => next.phase = run.phase
      /\ \A u \in Tasks \ {t} : next.tasks[u] = run.tasks[u]
  BY <1>2 DEF Run
<1>4. /\ Current => run.phase = "RUNNING"
      /\ run.tasks[t].status = "VERIFYING"
  BY DEF ReworkTask, ReviewPhase
<1> HIDE DEF next
<1>5. ASSUME Current
      PROVE  /\ TaskFits(next.tasks[t])
             /\ Routed \union Profiled = {} => ~next.tasks[t].routed /\ ~next.tasks[t].attemptRouted
  BY <1>3, <1>4, <1>5, ArchivedFits, Unrouted
<1> QED
  BY <1>1, <1>3, <1>4, <1>5, OneTaskFits

LEMMA BudgetPauseFits ==
    ASSUME FitInv, NEW t \in Tasks, PauseForBudgetDecision(t)
    PROVE  FitNext
<1> DEFINE next ==
        [run EXCEPT !.tasks[t].status = "WAITING_FOR_BUDGET_DECISION",
                    !.tasks[t].blocker = "budget-decision",
                    !.phase = "WAITING_FOR_BUDGET_DECISION",
                    !.blocker = TaskBlocker(t, "budget-decision")]
<1>1. Commit("budget-pause", next)
  BY DEF PauseForBudgetDecision
<1>2. run \in Run /\ run.tasks \in [Tasks -> Task] /\ run.tasks[t] \in Task
  BY TypeInvParts DEF FitInv, IInv, SafeInv, StateInv, Run
<1>3. next.tasks[t].status = Wait
  BY <1>2 DEF Run, Task, Wait
<1>4. run.tasks[t].attemptRouted
  BY DEF PauseForBudgetDecision
<1> HIDE DEF next
<1>5. ASSUME Current PROVE ~Valid(next) /\ "budget-pause" \in Excused
  BY <1>3, <1>4, <1>5, Unrouted DEF Valid, ValidTasks, TaskStatuses, Wait, Excused
<1> QED
  BY <1>1, <1>5, OperationFits

\* A current run never gets as far as a budget decision.
LEMMA DecisionFits ==
    ASSUME FitInv, NEW t \in Tasks,
           \/ BudgetContinue(t) \/ BudgetReroute(t)
           \/ \E route \in {"replan-task", "cancel-run"} : BudgetStop(t, route)
    PROVE  FitNext
<1>1. DecidableBudget(t)
  BY DEF BudgetContinue, BudgetReroute, BudgetStop
<1>2. ~Current
  BY <1>1, LegacyWaits DEF FitInv, IInv
<1>3. PICK op, next : Commit(op, next)
  BY DEF BudgetContinue, BudgetReroute, BudgetStop
<1>4. UNCHANGED rejected
  BY <1>2, <1>3 DEF Commit, Valid
<1> QED
  BY <1>2, <1>4 DEF FitInv, FitNext, BlockerInv, RoutesInv, HandlersAgreeWithValidator

\* What unlocking changes of a task: at most its status, from PENDING to READY.
LEMMA UnlockedFits ==
    ASSUME NEW tasks \in [Tasks -> Task], \A u \in Tasks : TaskFits(tasks[u])
    PROVE  \A u \in Tasks : /\ TaskFits(Unlocked(tasks)[u])
                            /\ Unlocked(tasks)[u].routed = tasks[u].routed
                            /\ Unlocked(tasks)[u].attemptRouted = tasks[u].attemptRouted
<1> SUFFICES ASSUME NEW u \in Tasks
             PROVE  /\ TaskFits(Unlocked(tasks)[u])
                    /\ Unlocked(tasks)[u].routed = tasks[u].routed
                    /\ Unlocked(tasks)[u].attemptRouted = tasks[u].attemptRouted
  OBVIOUS
<1>1. \/ Unlocked(tasks)[u] = tasks[u]
      \/ Unlocked(tasks)[u] = [tasks[u] EXCEPT !.status = "READY"]
  BY DEF Unlocked
<1>2. tasks[u] \in Task
  OBVIOUS
<1> QED
  BY <1>1, <1>2 DEF TaskFits, TaskStatuses, Task

LEMMA AcceptFits == ASSUME FitInv, NEW t \in Tasks, AcceptTask(t) PROVE FitNext
<1> DEFINE reviewed == [run.tasks EXCEPT ![t].status = "ACCEPTED"]
<1> DEFINE tasks == Unlocked(reviewed)
<1> DEFINE next == [run EXCEPT !.tasks = tasks, !.phase = PhaseAfterAcceptance(tasks)]
<1>1. run \in Run /\ run.tasks \in [Tasks -> Task] /\ run.tasks[t] \in Task
  BY TypeInvParts DEF FitInv, IInv, SafeInv, StateInv, Run
<1>2. Commit("task-accept", next)
  BY DEF AcceptTask
<1>3. /\ next.tasks = tasks /\ next.phase = PhaseAfterAcceptance(tasks)
      /\ next.blocker = run.blocker
  <2> HIDE DEF tasks
  <2> QED
    BY <1>1 DEF Run
<1>4. /\ \A u \in Tasks \ {t} : reviewed[u] = run.tasks[u]
      /\ reviewed[t] = [run.tasks[t] EXCEPT !.status = "ACCEPTED"]
      /\ reviewed \in [Tasks -> Task]
  <2>1. [run.tasks[t] EXCEPT !.status = "ACCEPTED"] \in Task
    BY <1>1 DEF Task, Statuses, TaskStatuses
  <2> QED
    BY <1>1, <2>1
<1>5. /\ reviewed[t].status = "ACCEPTED" /\ reviewed[t].routed = run.tasks[t].routed
      /\ reviewed[t].attemptRouted = run.tasks[t].attemptRouted
      /\ reviewed[t].history = run.tasks[t].history
      /\ reviewed[t].attempt = run.tasks[t].attempt
  <2>1. reviewed[t] = [run.tasks[t] EXCEPT !.status = "ACCEPTED"]
    BY <1>4
  <2> HIDE DEF reviewed
  <2> QED
    BY <1>1, <2>1 DEF Task
<1> HIDE DEF next, tasks, reviewed
<1>6. ASSUME Current
      PROVE  /\ next.phase \in {"RUNNING", "FINAL_AUDIT"}
             /\ next.phase = "FINAL_AUDIT" => AllAccepted(tasks)
             /\ run.phase = "RUNNING"
  BY <1>3, <1>6 DEF PhaseAfterAcceptance, AcceptTask, ReviewPhase
<1>7. ASSUME Current PROVE BlockerInv(next)
  BY <1>3, <1>6, <1>7 DEF FitInv, BlockerInv, NoBlocker, Wait
<1>8. ASSUME Current, ~run.tasks[t].attemptRouted PROVE Valid(next)
  <2>1. \A u \in Tasks : TaskFits(reviewed[u])
    BY <1>4, <1>5, <1>8, FitParts DEF TaskFits, TaskStatuses
  <2>2. \A u \in Tasks : TaskFits(tasks[u])
    BY <1>4, <2>1, UnlockedFits DEF tasks
  <2> QED
    BY <1>3, <1>6, <1>7, <1>8, <2>2, FittingIsValid DEF RunPhases
<1>9. ASSUME Current, Valid(next) PROVE RoutesInv(next)
  <2>1. ASSUME Routed \union Profiled = {}, NEW u \in Tasks
        PROVE  ~tasks[u].routed /\ ~tasks[u].attemptRouted
    <3>1. ~reviewed[u].routed /\ ~reviewed[u].attemptRouted
      BY <1>4, <1>5, <1>9, <2>1, Unrouted
    <3>2. tasks[u] = reviewed[u] \/ tasks[u] = [reviewed[u] EXCEPT !.status = "READY"]
      BY DEF tasks, Unlocked
    <3>3. reviewed[u] \in Task
      BY <1>4
    <3> QED
      BY <3>1, <3>2, <3>3 DEF Task
  <2> QED
    BY <1>3, <2>1 DEF RoutesInv
<1>10. ASSUME Current, run.tasks[t].attemptRouted PROVE "task-accept" \in Excused
  BY <1>10, Unrouted DEF Excused
<1> QED
  BY <1>2, <1>7, <1>8, <1>9, <1>10, OperationFits

LEMMA AdoptFits ==
    ASSUME FitInv, NEW plan \in Plans, NEW mode \in StartModes, NEW reset \in BOOLEAN,
           NEW kept \in SUBSET Tasks, NEW drift \in SUBSET Tasks,
           AdoptPlan(plan, mode, reset, kept, drift)
    PROVE  FitNext
<1> DEFINE made == [t \in Tasks |-> IF t \in kept THEN Preserved(t) ELSE NewTask(t)]
<1> DEFINE unresolved == run.drift \union drift
<1> DEFINE next ==
        [run EXCEPT !.plan = plan, !.startMode = mode,
            !.authorization = Grant(mode), !.tasks = Unlocked(made), !.drift = unresolved,
            !.phase = IF unresolved = {} THEN AdoptedPhase(mode) ELSE "BLOCKED",
            !.blocker = IF unresolved = {} THEN NoBlocker ELSE DriftBlocker]
<1>1. Commit("adopt-plan", next)
  BY DEF AdoptPlan
<1>2. "adopt-plan" \in Excused
  BY DEF Excused
<1>3. /\ next.tasks = Unlocked(made)
      /\ next.phase = IF unresolved = {} THEN AdoptedPhase(mode) ELSE "BLOCKED"
      /\ next.blocker = IF unresolved = {} THEN NoBlocker ELSE DriftBlocker
  <2> HIDE DEF made, unresolved
  <2> QED
    BY TypeInvParts DEF FitInv, IInv, SafeInv, StateInv, Run
<1>4. ASSUME Routed \union Profiled = {}, NEW t \in Tasks
      PROVE  ~Unlocked(made)[t].routed /\ ~Unlocked(made)[t].attemptRouted
  <2>1. /\ NewTask(t) \in Task /\ ~NewTask(t).routed /\ ~NewTask(t).attemptRouted
    BY <1>4, NewTaskTyped DEF NewTask
  <2>2. ~Preserved(t).routed /\ ~Preserved(t).attemptRouted
    BY <2>1 DEF Preserved, Task
  <2>3. Preserved(t) \in [status : Statuses, attempt : 0..MaxTaskAttempts,
              start : 0..MaxTaskAttempts, history : Seq([attempt : Attempts, plan : Plans]),
              blocker : TaskRoutes \union {"none"}, result : Plans \union {NoPlan},
              routed : BOOLEAN, lent : BOOLEAN, attemptRouted : BOOLEAN]
    BY <2>1, TypeInvParts DEF FitInv, IInv, SafeInv, StateInv, Run, Preserved, Task, Status
  <2>4. made[t] \in Task /\ ~made[t].routed /\ ~made[t].attemptRouted
    BY <2>1, <2>2, <2>3 DEF Task
  <2>5. \/ Unlocked(made)[t] = made[t]
        \/ Unlocked(made)[t] = [made[t] EXCEPT !.status = "READY"]
    BY DEF Unlocked
  <2> HIDE DEF made
  <2> QED
    BY <2>4, <2>5 DEF Task
<1> HIDE DEF next, made, unresolved
<1>5. ASSUME Current, Valid(next) PROVE BlockerInv(next)
  <2>1. next.phase = AdoptedPhase(mode) /\ next.blocker = NoBlocker
    BY <1>3, <1>5 DEF Valid, ValidRecovery, DriftBlocker
  <2>2. next.phase \in {"AWAITING_AUTHORIZATION", "PLAN_ONLY", "READY"}
    BY <2>1 DEF AdoptedPhase, StartModes
  <2> QED
    BY <2>1, <2>2 DEF BlockerInv, NoBlocker, Wait
<1>6. RoutesInv(next)
  BY <1>3, <1>4 DEF RoutesInv
<1> QED
  BY <1>1, <1>2, <1>5, <1>6, OperationFits

LEMMA AuditReworkFits ==
    ASSUME FitInv, NEW reopened \in SUBSET Tasks, FinalAuditRework(reopened)
    PROVE  FitNext
<1> DEFINE tasks ==
        [t \in Tasks |-> IF t \in reopened
                         THEN [Archived(run.tasks[t]) EXCEPT !.blocker = "none"]
                         ELSE run.tasks[t]]
<1> DEFINE next ==
        [run EXCEPT !.tasks = [t \in Tasks |-> IF t \in reopened
                                 THEN [Archived(@[t]) EXCEPT !.blocker = "none"]
                                 ELSE @[t]],
                    !.phase = IF Current THEN "RUNNING" ELSE "REMEDIATING",
                    !.blocker = NoBlocker, !.outcome = Audited("REWORK")]
<1>1. Commit("final-audit-outcome", next)
  BY DEF FinalAuditRework
<1>2. /\ next.tasks = tasks /\ next.blocker = NoBlocker
      /\ Current => next.phase = "RUNNING"
  BY TypeInvParts DEF FitInv, IInv, SafeInv, StateInv, Run
<1>3. ASSUME Current, NEW t \in Tasks
      PROVE  /\ TaskFits(tasks[t])
             /\ Routed \union Profiled = {} => ~tasks[t].routed /\ ~tasks[t].attemptRouted
  <2>1. CASE t \in reopened
    <3> DEFINE old == Archived(run.tasks[t])
    <3>1. run.tasks[t].status = "ACCEPTED" /\ run.tasks[t] \in Task
      BY <1>3, <2>1, FitParts DEF FinalAuditRework, Reopenable, Status
    <3>2. /\ TaskFits(old) /\ old.status = "REWORK" /\ old.routed = run.tasks[t].routed
          /\ ~old.attemptRouted
      BY <1>3, <3>1, ArchivedFits
    <3>3. tasks[t] = [old EXCEPT !.blocker = "none"]
      BY <2>1
    <3>4. /\ tasks[t].status = old.status /\ tasks[t].history = old.history
          /\ tasks[t].attempt = old.attempt /\ tasks[t].routed = old.routed
          /\ tasks[t].attemptRouted = old.attemptRouted
      <4> HIDE DEF tasks
      <4> QED
        BY <3>1, <3>3 DEF Archived, Task
    <3> HIDE DEF tasks, old
    <3> QED
      BY <1>3, <3>2, <3>4, Unrouted DEF TaskFits
  <2>2. CASE t \notin reopened
    BY <1>3, <2>2, FitParts, Unrouted
  <2> QED
    BY <2>1, <2>2
<1> HIDE DEF next, tasks
<1>4. ASSUME Current PROVE BlockerInv(next)
  BY <1>2, <1>4 DEF BlockerInv, NoBlocker, Wait
<1>5. ASSUME Current PROVE RoutesInv(next)
  BY <1>2, <1>3, <1>5 DEF RoutesInv
<1>6. ASSUME Current PROVE Valid(next)
  BY <1>2, <1>3, <1>4, <1>6, FittingIsValid DEF RunPhases
<1> QED
  BY <1>1, <1>4, <1>5, <1>6, OperationFits

LEMMA FitInit == Init => FitInv
<1> SUFFICES ASSUME Init PROVE FitInv
  OBVIOUS
<1>1. BlockerInv(run) /\ HandlersAgreeWithValidator
  BY DEF Init, BlockerInv, NoBlocker, Wait, HandlersAgreeWithValidator
<1>2. RoutesInv(run)
  BY DEF Init, RoutesInv, NewTask
<1> QED
  BY <1>1, <1>2, SafeInit, EvidenceInit DEF FitInv, IInv

LEMMA FitStep == FitInv /\ [Next]_vars => FitInv'
<1> SUFFICES ASSUME FitInv, [Next]_vars PROVE FitNext
  BY EvidenceStep DEF FitInv, FitNext, BlockerInv, RoutesInv
<1>1. CASE Work
  <2>1. ASSUME NEW w \in launched, WriteResult(w) PROVE FitNext
    BY <2>1 DEF WriteResult, FitInv, FitNext, BlockerInv, RoutesInv,
                HandlersAgreeWithValidator
  <2> QED
    BY <1>1, <2>1, AuthorizeFits, RenewFits, StartExecutionFits, StartTaskFits, ResultFits,
       AcceptFits, ReworkFits, ResolveFits, ResumeFits, DecisionFits, AuditAcceptedFits,
       FinalizeFits DEF Work, Review
<1>2. CASE Interruption
  BY <1>2, AdoptFits, ExpiryFits, OutcomeFits, BlockFits, PauseFits, BudgetPauseFits,
     DecisionFits, AuditReworkFits, AuditContractFits, AuditBlockedFits DEF Interruption
<1>3. CASE UNCHANGED vars
  BY <1>3 DEF vars, FitInv, FitNext, BlockerInv, RoutesInv, HandlersAgreeWithValidator
<1> QED
  BY <1>1, <1>2, <1>3 DEF Next

LEMMA FitAlways == Spec => []FitInv
<1>1. Init => FitInv
  BY FitInit
<1>2. FitInv /\ [Next]_vars => FitInv'
  BY FitStep
<1> QED
  BY <1>1, <1>2, PTL DEF Spec

\* A run that can go on carries no blocker, whatever blocked it, interrupted it or
\* sent it back before.
THEOREM BlockersDoNotLinger == Spec => []BlockerFitsPhase
<1>1. FitInv => BlockerFitsPhase
  BY DEF FitInv, BlockerInv, BlockerFitsPhase
<1> QED
  BY <1>1, FitAlways, PTL

\* What the guards of an operation let through the validator at commit_state lets
\* through as well, but for the operations named: whatever the tasks, the budgets and
\* the plans.
THEOREM ValidatorAgrees == Spec => []HandlersAgreeWithValidator
<1>1. FitInv => HandlersAgreeWithValidator
  BY DEF FitInv
<1> QED
  BY <1>1, FitAlways, PTL

-----------------------------------------------------------------------------
(***************************************************************************)
(* A current run keeps the promise of RunPromise: every one of its steps   *)
(* is a step of the promise or leaves what the promise speaks of alone.    *)
(*                                                                         *)
(* Most steps are of the second kind, and that is what has to be shown of  *)
(* them: an interruption may change the phase as long as the phase the run *)
(* returns to is as far from the final audit as before.  A legacy run does *)
(* not keep the promise: it may enter the audit with tasks not accepted.   *)
(***************************************************************************)
StageOf(s) ==
    CASE s.phase = "COMPLETE" -> "complete"
      [] s.phase = "CANCELLED" -> "cancelled"
      [] Back(s) = "FINAL_AUDIT" -> "auditing"
      [] OTHER -> "working"
AcceptedOf(s) == {t \in Required : s.tasks[t].status = "ACCEPTED"}
ApprovedOf(s) == s.outcome.verdict = "ACCEPTED"

Ended == {"COMPLETE", "CANCELLED"}

shown == <<stage, With({"ACCEPTED"}) \intersect Required, run.outcome.verdict = "ACCEPTED">>

PromiseStep == [Abstract!Step]_shown

LEMMA ShownRead ==
    /\ stage = StageOf(run) /\ stage' = StageOf(run')
    /\ With({"ACCEPTED"}) \intersect Required = AcceptedOf(run)
    /\ (With({"ACCEPTED"}) \intersect Required)' = AcceptedOf(run')
<1>1. stage = StageOf(run) /\ stage' = StageOf(run')
  BY DEF stage, StageOf, ReturnsTo, Back
<1>2. With({"ACCEPTED"}) \intersect Required = AcceptedOf(run)
  BY TasksAssumption DEF With, Status, AcceptedOf
<1>3. (With({"ACCEPTED"}) \intersect Required)' = AcceptedOf(run')
  BY TasksAssumption DEF With, Status, AcceptedOf
<1> QED
  BY <1>1, <1>2, <1>3

LEMMA NothingShown ==
    ASSUME StageOf(run') = StageOf(run), AcceptedOf(run') = AcceptedOf(run),
           run'.outcome = run.outcome
    PROVE  PromiseStep
BY ShownRead DEF PromiseStep, shown

\* A refused operation shows nothing.
LEMMA Refused == ASSUME run' = run PROVE PromiseStep
BY NothingShown

\* An operation that leaves the accepted tasks and the outcome alone and returns to
\* the final audit if and only if the run did.
LEMMA QuietMoves ==
    ASSUME NEW op, NEW STATE next, Commit(op, next),
           next.outcome = run.outcome, AcceptedOf(next) = AcceptedOf(run),
           Valid(next) => /\ run.phase \notin Ended /\ next.phase \notin Ended
                          /\ Back(next) = "FINAL_AUDIT" <=> Back(run) = "FINAL_AUDIT"
    PROVE  PromiseStep
<1>1. CASE run' = run
  BY <1>1, Refused
<1>2. CASE Valid(next) /\ run' = next
  <2>1. StageOf(next) = StageOf(run)
    BY <1>2 DEF StageOf, Ended
  <2> QED
    BY <1>2, <2>1, NothingShown
<1> QED
  BY <1>1, <1>2 DEF Commit

LEMMA OneTaskMoves ==
    ASSUME NEW op, NEW STATE next, Commit(op, next), NEW t \in Tasks,
           \A u \in Tasks \ {t} : next.tasks[u] = run.tasks[u],
           run.tasks[t].status # "ACCEPTED", next.tasks[t].status # "ACCEPTED",
           next.outcome = run.outcome, run.phase = "RUNNING", next.phase = "RUNNING"
    PROVE  PromiseStep
<1>1. AcceptedOf(next) = AcceptedOf(run)
  BY TasksAssumption DEF AcceptedOf
<1>2. Back(next) = "RUNNING" /\ Back(run) = "RUNNING"
  BY DEF Back
<1> QED
  BY <1>1, <1>2, QuietMoves DEF Ended

(***************************************************************************)
(* Each operation.                                                         *)
(***************************************************************************)
LEMMA AuthorizeMoves == ASSUME FitInv, Current, AuthorizeExecution PROVE PromiseStep
<1> DEFINE next ==
        [run EXCEPT !.phase = "READY",
            !.authorization = [required |-> FALSE, granted |-> TRUE, expiry |-> "ahead"]]
<1>1. Commit("authorize", next)
  BY DEF AuthorizeExecution
<1>2. next.tasks = run.tasks /\ next.outcome = run.outcome /\ next.phase = "READY"
  BY FitParts DEF Run
<1> HIDE DEF next
<1> QED
  BY <1>1, <1>2, QuietMoves DEF AcceptedOf, Back, Ended, AuthorizeExecution

LEMMA RenewMoves == ASSUME FitInv, Current, RenewAuthorization PROVE PromiseStep
<1> DEFINE next == [run EXCEPT !.authorization.expiry = "ahead"]
<1>1. Commit("authorization-renew", next)
  BY DEF RenewAuthorization
<1>2. next.tasks = run.tasks /\ next.outcome = run.outcome /\ next.phase = run.phase
  BY FitParts DEF Run
<1>3. run.phase \in {"RUNNING", "FINAL_AUDIT"}
  BY DEF RenewAuthorization, Renewable
<1> HIDE DEF next
<1> QED
  BY <1>1, <1>2, <1>3, QuietMoves DEF AcceptedOf, Back, Ended

LEMMA ExpiryMoves == ASSUME FitInv, Current, AuthorizationExpires PROVE PromiseStep
<1>1. /\ run'.tasks = run.tasks /\ run'.phase = run.phase /\ run'.outcome = run.outcome
      /\ run'.blocker = run.blocker /\ run'.external = run.external
  BY FitParts DEF Run, AuthorizationExpires
<1> QED
  BY <1>1, NothingShown DEF StageOf, Back, AcceptedOf

LEMMA BlockMoves ==
    ASSUME FitInv, Current, NEW subject \in Tasks \union {NoTask}, BlockRun(subject)
    PROVE  PromiseStep
<1> DEFINE next ==
        [run EXCEPT !.phase = "BLOCKED", !.blocker = RunBlocker(run.phase, subject)]
<1>1. Commit("block", next)
  BY DEF BlockRun
<1>2. /\ next.tasks = run.tasks /\ next.outcome = run.outcome /\ next.phase = "BLOCKED"
      /\ next.blocker.resume = run.phase /\ next.external = run.external
  BY FitParts DEF Run, RunBlocker
<1>3. run.phase \notin Ended \union {"BLOCKED"}
  BY DEF BlockRun, TerminalPhases, Ended
<1> HIDE DEF next
<1>4. Back(next) = Back(run)
  BY <1>2, <1>3 DEF Back
<1> QED
  BY <1>1, <1>2, <1>3, <1>4, QuietMoves DEF AcceptedOf, Ended

LEMMA ResolveMoves == ASSUME FitInv, Current, ResolveBlocker PROVE PromiseStep
<1> DEFINE next == [run EXCEPT !.phase = run.blocker.resume, !.blocker = NoBlocker]
<1>1. Commit("resolve-blocker", next)
  BY DEF ResolveBlocker
<1>2. /\ next.tasks = run.tasks /\ next.outcome = run.outcome
      /\ next.phase = run.blocker.resume /\ next.external = run.external
  BY FitParts DEF Run
<1>3. run.phase = "BLOCKED" /\ run.blocker.scope = "run"
  BY DEF FitInv, BlockerInv, ResolveBlocker
<1>4. run.blocker.resume \notin Ended \union {"BLOCKED"}
  BY <1>3 DEF FitInv, BlockerInv, Ended
<1> HIDE DEF next
<1>5. Back(next) = Back(run)
  BY <1>2, <1>3, <1>4 DEF Back
<1> QED
  BY <1>1, <1>2, <1>3, <1>4, <1>5, QuietMoves DEF AcceptedOf, Ended

LEMMA PauseMoves == ASSUME FitInv, Current, PauseForExternalAction PROVE PromiseStep
<1> DEFINE next ==
        [run EXCEPT !.phase = "WAITING_FOR_EXTERNAL_ACTION", !.external = run.phase]
<1>1. Commit("external-pause", next)
  BY DEF PauseForExternalAction
<1>2. /\ next.tasks = run.tasks /\ next.outcome = run.outcome
      /\ next.phase = "WAITING_FOR_EXTERNAL_ACTION" /\ next.external = run.phase
  BY FitParts DEF Run
<1>3. run.phase \in ExternalActionPhases
  BY DEF PauseForExternalAction
<1> HIDE DEF next
<1>4. Back(next) = Back(run)
  BY <1>2, <1>3 DEF Back, ExternalActionPhases
<1> QED
  BY <1>1, <1>2, <1>3, <1>4, QuietMoves DEF AcceptedOf, Ended, ExternalActionPhases

LEMMA ResumeMoves == ASSUME FitInv, Current, ResumeExternalAction PROVE PromiseStep
<1> DEFINE next ==
        [run EXCEPT !.phase = run.external, !.external = "none",
                    !.blocker = IF @.scope = "external" THEN NoBlocker ELSE @]
<1>1. Commit("external-resume", next)
  BY DEF ResumeExternalAction
<1>2. next.tasks = run.tasks /\ next.outcome = run.outcome /\ next.phase = run.external
  BY FitParts DEF Run
<1>3. run.phase = "WAITING_FOR_EXTERNAL_ACTION" /\ run.external \in ExternalActionPhases
  BY DEF ResumeExternalAction
<1> HIDE DEF next
<1>4. Back(next) = Back(run)
  BY <1>2, <1>3 DEF Back, ExternalActionPhases
<1> QED
  BY <1>1, <1>2, <1>3, <1>4, QuietMoves DEF AcceptedOf, Ended, ExternalActionPhases

LEMMA StartTaskMoves ==
    ASSUME FitInv, Current, NEW t \in Tasks, NEW lent \in BOOLEAN, StartTask(t, lent)
    PROVE  PromiseStep
<1> DEFINE next ==
        [run EXCEPT !.tasks[t] = Attempted(@, Min(FreeAttempts(t)), lent), !.phase = "RUNNING"]
<1>1. Commit("task-start", next)
  BY DEF StartTask
<1>2. /\ next.outcome = run.outcome /\ next.phase = "RUNNING"
      /\ next.tasks[t].status = "RUNNING"
      /\ \A u \in Tasks \ {t} : next.tasks[u] = run.tasks[u]
  BY FitParts DEF Run, Task, Attempted, RoutedAtStart
<1>3. run.phase = "RUNNING" /\ run.tasks[t].status # "ACCEPTED"
  BY FitParts DEF Valid, RunPhases, TerminalPhases, StartTask, Startable, Status
<1> HIDE DEF next
<1> QED
  BY <1>1, <1>2, <1>3, OneTaskMoves

LEMMA ResultMoves ==
    ASSUME FitInv, Current, NEW t \in Tasks, CommitTaskResult(t)
    PROVE  PromiseStep
<1> DEFINE next ==
        [run EXCEPT !.tasks[t].status = "VERIFYING", !.tasks[t].result = run.plan,
                    !.phase = ReviewPhase]
<1>1. Commit("task-result", next)
  BY DEF CommitTaskResult
<1>2. /\ next.outcome = run.outcome /\ next.phase = ReviewPhase
      /\ next.tasks[t].status = "VERIFYING"
      /\ \A u \in Tasks \ {t} : next.tasks[u] = run.tasks[u]
  BY FitParts DEF Run, Task
<1>3. /\ run.phase = "RUNNING" /\ run.tasks[t].status # "ACCEPTED"
      /\ ReviewPhase = "RUNNING"
  BY DEF CommitTaskResult, ReviewPhase
<1> HIDE DEF next
<1> QED
  BY <1>1, <1>2, <1>3, OneTaskMoves

LEMMA ReworkMoves ==
    ASSUME FitInv, Current, NEW t \in Tasks, ReworkTask(t)
    PROVE  PromiseStep
<1> DEFINE next ==
        [run EXCEPT !.tasks[t] = Archived(@),
                    !.phase = IF Current THEN @ ELSE "REMEDIATING"]
<1>1. Commit("task-rework", next)
  BY DEF ReworkTask
<1>2. /\ next.outcome = run.outcome /\ next.phase = run.phase
      /\ next.tasks[t] = Archived(run.tasks[t])
      /\ \A u \in Tasks \ {t} : next.tasks[u] = run.tasks[u]
  BY FitParts DEF Run
<1>3. run.phase = "RUNNING" /\ run.tasks[t].status = "VERIFYING"
  BY DEF ReworkTask, ReviewPhase
<1> HIDE DEF next
<1>4. next.tasks[t].status = "REWORK"
  BY <1>2, <1>3, ArchivedFits
<1> QED
  BY <1>1, <1>2, <1>3, <1>4, OneTaskMoves

LEMMA OutcomeMoves ==
    ASSUME FitInv, Current, NEW t \in Tasks, NEW verdict \in {"CONTRACT_CHANGE", "BLOCKED"},
           NEW route \in TaskRoutes, ApplyTaskReviewOutcome(t, verdict, route)
    PROVE  PromiseStep
<1> DEFINE next ==
        [run EXCEPT !.tasks[t].status = verdict,
                    !.tasks[t].blocker = IF verdict = "BLOCKED" THEN route ELSE @]
<1>1. Commit("task-review-apply", next)
  BY DEF ApplyTaskReviewOutcome
<1>2. /\ next.outcome = run.outcome /\ next.phase = run.phase
      /\ next.tasks[t].status = verdict
      /\ \A u \in Tasks \ {t} : next.tasks[u] = run.tasks[u]
  BY FitParts DEF Run, Task
<1>3. run.phase = "RUNNING" /\ run.tasks[t].status = "VERIFYING"
  BY DEF ApplyTaskReviewOutcome, ReviewPhase, Status
<1> HIDE DEF next
<1> QED
  BY <1>1, <1>2, <1>3, OneTaskMoves

LEMMA BudgetMoves ==
    ASSUME FitInv, Current, NEW t \in Tasks,
           \/ PauseForBudgetDecision(t) \/ BudgetContinue(t) \/ BudgetReroute(t)
           \/ \E route \in {"replan-task", "cancel-run"} : BudgetStop(t, route)
    PROVE  PromiseStep
<1>1. ~DecidableBudget(t)
  BY LegacyWaits DEF FitInv, IInv
<1>2. PauseForBudgetDecision(t)
  BY <1>1 DEF BudgetContinue, BudgetReroute, BudgetStop
<1> DEFINE next ==
        [run EXCEPT !.tasks[t].status = "WAITING_FOR_BUDGET_DECISION",
                    !.tasks[t].blocker = "budget-decision",
                    !.phase = "WAITING_FOR_BUDGET_DECISION",
                    !.blocker = TaskBlocker(t, "budget-decision")]
<1>3. Commit("budget-pause", next)
  BY <1>2 DEF PauseForBudgetDecision
<1>4. next.tasks[t].status = Wait
  BY FitParts DEF Run, Task, Wait
<1> HIDE DEF next
<1>5. ~Valid(next)
  BY <1>4 DEF Valid, ValidTasks, TaskStatuses, Wait
<1> QED
  BY <1>3, <1>5, Refused DEF Commit

\* The steps the promise knows of.
LEMMA StartExecutionMoves == ASSUME FitInv, Current, StartExecution PROVE PromiseStep
<1> DEFINE next ==
        [run EXCEPT !.phase = IF Required # {} /\ AllAccepted(run.tasks)
                              THEN "FINAL_AUDIT" ELSE "RUNNING"]
<1>1. Commit("start-execution", next)
  BY DEF StartExecution
<1>2. /\ next.tasks = run.tasks /\ next.outcome = run.outcome
      /\ next.phase \in {"RUNNING", "FINAL_AUDIT"}
      /\ next.phase = "FINAL_AUDIT" => AllAccepted(run.tasks)
  BY FitParts DEF Run
<1>3. run.phase = "READY" /\ StageOf(run) = "working"
  BY DEF StartExecution, StageOf, Back
<1> HIDE DEF next
<1>4. CASE run' = run
  BY <1>4, Refused
<1>5. CASE run' = next /\ next.phase = "RUNNING"
  <2>1. StageOf(run') = "working" /\ AcceptedOf(run') = AcceptedOf(run)
    BY <1>2, <1>5 DEF StageOf, Back, AcceptedOf
  <2> QED
    BY <1>2, <1>3, <1>5, <2>1, NothingShown
<1>6. CASE run' = next /\ next.phase = "FINAL_AUDIT"
  <2>1. StageOf(run') = "auditing" /\ AcceptedOf(run') = AcceptedOf(run)
    BY <1>2, <1>6 DEF StageOf, Back, AcceptedOf
  <2>2. AcceptedOf(run) = Required
    BY <1>2, <1>6 DEF AcceptedOf, AllAccepted
  <2>3. Abstract!EnterAudit
    BY <1>2, <1>3, <1>6, <2>1, <2>2, ShownRead DEF Abstract!EnterAudit
  <2> QED
    BY <2>3 DEF PromiseStep, Abstract!Step
<1> QED
  BY <1>1, <1>2, <1>4, <1>5, <1>6 DEF Commit

LEMMA AcceptMoves ==
    ASSUME FitInv, Current, NEW t \in Tasks, AcceptTask(t)
    PROVE  PromiseStep
<1> DEFINE reviewed == [run.tasks EXCEPT ![t].status = "ACCEPTED"]
<1> DEFINE tasks == Unlocked(reviewed)
<1> DEFINE next == [run EXCEPT !.tasks = tasks, !.phase = PhaseAfterAcceptance(tasks)]
<1>1. Commit("task-accept", next)
  BY DEF AcceptTask
<1>2. /\ next.tasks = tasks /\ next.phase = PhaseAfterAcceptance(tasks)
      /\ next.outcome = run.outcome
  <2> HIDE DEF tasks
  <2> QED
    BY FitParts DEF Run
<1>3. /\ \A u \in Tasks \ {t} : reviewed[u] = run.tasks[u]
      /\ reviewed[t].status = "ACCEPTED"
  BY FitParts DEF Task
<1>4. \A u \in Tasks : tasks[u].status = "ACCEPTED" <=> reviewed[u].status = "ACCEPTED"
  <2>1. \A u \in Tasks : reviewed[u] \in Task
    BY FitParts DEF Task, Statuses, TaskStatuses
  <2> HIDE DEF reviewed
  <2> QED
    BY <2>1 DEF tasks, Unlocked, Task
<1> HIDE DEF next, tasks, reviewed
<1>5. AcceptedOf(next) = AcceptedOf(run) \union ({t} \intersect Required)
  BY <1>2, <1>3, <1>4, TasksAssumption DEF AcceptedOf
<1>6. /\ run.phase = "RUNNING" /\ run.tasks[t].status # "ACCEPTED"
      /\ StageOf(run) = "working"
  BY DEF AcceptTask, ReviewPhase, StageOf, Back
<1>7. /\ StageOf(next) \in {"working", "auditing"}
      /\ StageOf(next) = "auditing" => AcceptedOf(next) = Required
  <2>1. PhaseAfterAcceptance(tasks) \in {"RUNNING", "FINAL_AUDIT"}
    BY DEF PhaseAfterAcceptance
  <2>2. next.phase = "FINAL_AUDIT" => AllAccepted(tasks)
    BY <1>2 DEF PhaseAfterAcceptance
  <2> QED
    BY <1>2, <2>1, <2>2 DEF StageOf, Back, AcceptedOf, AllAccepted
<1>8. CASE run' = run
  BY <1>8, Refused
<1>9. CASE run' = next
  <2>1. /\ stage = "working" /\ stage' = StageOf(next)
        /\ With({"ACCEPTED"}) \intersect Required = AcceptedOf(run)
        /\ (With({"ACCEPTED"}) \intersect Required)' = AcceptedOf(next)
        /\ (run.outcome.verdict = "ACCEPTED")' = (run.outcome.verdict = "ACCEPTED")
    BY <1>2, <1>6, <1>9, ShownRead
  <2>2. CASE t \in Required
    <3>1. t \in Required \ AcceptedOf(run)
      BY <1>6, <2>2 DEF AcceptedOf
    <3>2. AcceptedOf(next) = AcceptedOf(run) \union {t}
      BY <1>5, <2>2
    <3>3. Abstract!Accept
      BY <1>7, <2>1, <3>1, <3>2 DEF Abstract!Accept
    <3> QED
      BY <3>3 DEF PromiseStep, Abstract!Step
  <2>3. CASE t \notin Required
    <3>1. AcceptedOf(next) = AcceptedOf(run)
      BY <1>5, <2>3
    <3>2. CASE StageOf(next) = "working"
      BY <1>2, <1>6, <1>9, <3>1, <3>2, NothingShown
    <3>3. CASE StageOf(next) = "auditing"
      <4>1. Abstract!EnterAudit
        BY <1>7, <2>1, <3>1, <3>3 DEF Abstract!EnterAudit
      <4> QED
        BY <4>1 DEF PromiseStep, Abstract!Step
    <3> QED
      BY <1>7, <3>2, <3>3
  <2> QED
    BY <2>2, <2>3
<1> QED
  BY <1>1, <1>8, <1>9 DEF Commit

\* One outcome of the final audit, given what it does to the run.
LEMMA AuditMoves ==
    ASSUME FitInv, Current, NEW op, NEW STATE next, Commit(op, next),
           run.phase = "FINAL_AUDIT",
           AcceptedOf(next) \subseteq AcceptedOf(run),
           \/ /\ next.outcome.verdict = "ACCEPTED"
              /\ StageOf(next) = "auditing" /\ AcceptedOf(next) = AcceptedOf(run)
           \/ /\ next.outcome.verdict # "ACCEPTED"
              /\ StageOf(next) \in {"auditing", "working"}
              /\ AcceptedOf(next) # AcceptedOf(run) => StageOf(next) = "working"
    PROVE  PromiseStep
<1>1. StageOf(run) = "auditing"
  BY DEF StageOf, Back
<1>2. CASE run' = run
  BY <1>2, Refused
<1>3. CASE run' = next
  <2>1. /\ stage = "auditing" /\ stage' = StageOf(next)
        /\ With({"ACCEPTED"}) \intersect Required = AcceptedOf(run)
        /\ (With({"ACCEPTED"}) \intersect Required)' = AcceptedOf(next)
        /\ (run.outcome.verdict = "ACCEPTED")' = (next.outcome.verdict = "ACCEPTED")
    BY <1>1, <1>3, ShownRead
  <2>2. Abstract!Audit
    BY <1>1, <2>1 DEF Abstract!Audit
  <2> QED
    BY <2>2 DEF PromiseStep, Abstract!Step
<1> QED
  BY <1>2, <1>3 DEF Commit

LEMMA AuditAcceptedMoves == ASSUME FitInv, Current, FinalAuditAccepted PROVE PromiseStep
<1> DEFINE next == [run EXCEPT !.outcome = Audited("ACCEPTED")]
<1>1. Commit("final-audit-outcome", next) /\ run.phase = "FINAL_AUDIT"
  BY DEF FinalAuditAccepted
<1>2. /\ next.tasks = run.tasks /\ next.phase = "FINAL_AUDIT"
      /\ next.outcome.verdict = "ACCEPTED"
  BY <1>1, FitParts DEF Run, Audited
<1> HIDE DEF next
<1>3. StageOf(next) = "auditing" /\ AcceptedOf(next) = AcceptedOf(run)
  BY <1>2 DEF StageOf, Back, AcceptedOf
<1> QED
  BY <1>1, <1>2, <1>3, AuditMoves

LEMMA AuditContractMoves ==
    ASSUME FitInv, Current, FinalAuditContractChange
    PROVE  PromiseStep
<1> DEFINE next ==
        [run EXCEPT !.phase = "BLOCKED", !.outcome = Audited("CONTRACT_CHANGE"),
            !.blocker = [NoBlocker EXCEPT !.scope = "plan", !.route = "adopt-plan"]]
<1>1. Commit("final-audit-outcome", next) /\ run.phase = "FINAL_AUDIT"
  BY DEF FinalAuditContractChange
<1>2. /\ next.tasks = run.tasks /\ next.phase = "BLOCKED"
      /\ next.outcome.verdict = "CONTRACT_CHANGE" /\ next.blocker.resume = "none"
  BY FitParts DEF Run, Audited, NoBlocker
<1> HIDE DEF next
<1>3. StageOf(next) = "working" /\ AcceptedOf(next) = AcceptedOf(run)
  BY <1>2 DEF StageOf, Back, AcceptedOf
<1> QED
  BY <1>1, <1>2, <1>3, AuditMoves

LEMMA AuditBlockedMoves ==
    ASSUME FitInv, Current, NEW resume \in Resumable, FinalAuditBlocked(resume)
    PROVE  PromiseStep
<1> DEFINE next ==
        [run EXCEPT !.phase = "WAITING_FOR_EXTERNAL_ACTION", !.external = resume,
            !.outcome = Audited("BLOCKED"),
            !.blocker = [NoBlocker EXCEPT !.scope = "external",
                                          !.route = "external-action"]]
<1>1. Commit("final-audit-outcome", next) /\ run.phase = "FINAL_AUDIT"
  BY DEF FinalAuditBlocked
<1>2. /\ next.tasks = run.tasks /\ next.phase = "WAITING_FOR_EXTERNAL_ACTION"
      /\ next.outcome.verdict = "BLOCKED"
  BY FitParts DEF Run, Audited
<1> HIDE DEF next
<1>3. StageOf(next) \in {"working", "auditing"} /\ AcceptedOf(next) = AcceptedOf(run)
  BY <1>2 DEF StageOf, AcceptedOf
<1> QED
  BY <1>1, <1>2, <1>3, AuditMoves

LEMMA AuditReworkMoves ==
    ASSUME FitInv, Current, NEW reopened \in SUBSET Tasks, FinalAuditRework(reopened)
    PROVE  PromiseStep
<1> DEFINE next ==
        [run EXCEPT !.tasks = [t \in Tasks |-> IF t \in reopened
                                 THEN [Archived(@[t]) EXCEPT !.blocker = "none"]
                                 ELSE @[t]],
                    !.phase = IF Current THEN "RUNNING" ELSE "REMEDIATING",
                    !.blocker = NoBlocker, !.outcome = Audited("REWORK")]
<1>1. Commit("final-audit-outcome", next) /\ run.phase = "FINAL_AUDIT"
  BY DEF FinalAuditRework
<1>2. /\ next.phase = "RUNNING" /\ next.outcome.verdict = "REWORK"
      /\ \A t \in Tasks \ reopened : next.tasks[t] = run.tasks[t]
      /\ \A t \in reopened : run.tasks[t].status = "ACCEPTED"
  BY FitParts DEF Run, Audited, FinalAuditRework, Reopenable, Status
<1> HIDE DEF next
<1>3. StageOf(next) = "working" /\ AcceptedOf(next) \subseteq AcceptedOf(run)
  BY <1>2, TasksAssumption DEF StageOf, Back, AcceptedOf
<1> QED
  BY <1>1, <1>2, <1>3, AuditMoves

LEMMA FinalizeMoves == ASSUME FitInv, Current, FinalizeRun PROVE PromiseStep
<1> DEFINE next == [run EXCEPT !.phase = "COMPLETE"]
<1>1. /\ Commit("finalize", next) /\ run.phase = "FINAL_AUDIT"
      /\ run.outcome.verdict = "ACCEPTED"
  BY DEF FinalizeRun
<1>2. /\ next.tasks = run.tasks /\ next.phase = "COMPLETE" /\ next.outcome = run.outcome
  BY FitParts DEF Run
<1> HIDE DEF next
<1>3. /\ StageOf(run) = "auditing" /\ StageOf(next) = "complete"
      /\ AcceptedOf(next) = AcceptedOf(run)
  BY <1>1, <1>2 DEF StageOf, Back, AcceptedOf
<1>4. CASE run' = run
  BY <1>4, Refused
<1>5. CASE run' = next
  <2>1. Abstract!Complete
    BY <1>1, <1>2, <1>3, <1>5, ShownRead DEF Abstract!Complete
  <2> QED
    BY <2>1 DEF PromiseStep, Abstract!Step
<1> QED
  BY <1>1, <1>4, <1>5 DEF Commit

LEMMA AdoptMoves ==
    ASSUME FitInv, Current, NEW plan \in Plans, NEW mode \in StartModes,
           NEW reset \in BOOLEAN, NEW kept \in SUBSET Tasks, NEW drift \in SUBSET Tasks,
           AdoptPlan(plan, mode, reset, kept, drift)
    PROVE  PromiseStep
<1> DEFINE made == [t \in Tasks |-> IF t \in kept THEN Preserved(t) ELSE NewTask(t)]
<1> DEFINE unresolved == run.drift \union drift
<1> DEFINE next ==
        [run EXCEPT !.plan = plan, !.startMode = mode,
            !.authorization = Grant(mode), !.tasks = Unlocked(made), !.drift = unresolved,
            !.phase = IF unresolved = {} THEN AdoptedPhase(mode) ELSE "BLOCKED",
            !.blocker = IF unresolved = {} THEN NoBlocker ELSE DriftBlocker]
<1>1. Commit("adopt-plan", next) /\ run.phase \notin TerminalPhases
  BY DEF AdoptPlan, Adoptable
<1>2. /\ next.tasks = Unlocked(made) /\ next.outcome = run.outcome
      /\ next.phase = IF unresolved = {} THEN AdoptedPhase(mode) ELSE "BLOCKED"
      /\ next.blocker = IF unresolved = {} THEN NoBlocker ELSE DriftBlocker
  <2> HIDE DEF made, unresolved
  <2> QED
    BY FitParts DEF Run
<1>3. \A t \in Tasks : Unlocked(made)[t].status = "ACCEPTED" =>
                           run.tasks[t].status = "ACCEPTED"
  <2> SUFFICES ASSUME NEW t \in Tasks, Unlocked(made)[t].status = "ACCEPTED"
               PROVE  run.tasks[t].status = "ACCEPTED"
    OBVIOUS
  <2>1. CASE t \in kept
    BY <2>1 DEF AdoptPlan, With, Status
  <2>2. CASE t \notin kept
    <3>1. made[t] = NewTask(t) /\ NewTask(t) \in Task
      BY <2>2, NewTaskTyped
    <3>2. Unlocked(made)[t].status \in {"PENDING", "READY"}
      <4>1. \/ Unlocked(made)[t] = made[t]
            \/ Unlocked(made)[t] = [made[t] EXCEPT !.status = "READY"]
        BY DEF Unlocked
      <4> HIDE DEF made
      <4> QED
        BY <3>1, <4>1, NewTaskTyped DEF Task
    <3> QED
      BY <3>2
  <2> QED
    BY <2>1, <2>2
<1>4. AdoptedPhase(mode) \in {"AWAITING_AUTHORIZATION", "PLAN_ONLY", "READY"}
  BY DEF AdoptedPhase, StartModes
<1> HIDE DEF next, made, unresolved
<1>5. StageOf(next) = "working" /\ AcceptedOf(next) \subseteq AcceptedOf(run)
  <2>1. next.phase = "BLOCKED" => next.blocker.resume = "READY"
    BY <1>2, <1>4 DEF DriftBlocker
  <2> QED
    BY <1>2, <1>3, <1>4, <2>1, TasksAssumption DEF StageOf, Back, AcceptedOf
<1>6. StageOf(run) \in {"working", "auditing"}
  BY <1>1 DEF StageOf, TerminalPhases
<1>7. CASE run' = run
  BY <1>7, Refused
<1>8. CASE run' = next
  <2>1. /\ stage \in {"working", "auditing"} /\ stage' = "working"
        /\ (With({"ACCEPTED"}) \intersect Required)'
               \subseteq With({"ACCEPTED"}) \intersect Required
        /\ run'.outcome = run.outcome
    BY <1>2, <1>5, <1>6, <1>8, ShownRead
  <2>2. Abstract!Replan
    BY <2>1 DEF Abstract!Replan
  <2> QED
    BY <2>2 DEF PromiseStep, Abstract!Step
<1> QED
  BY <1>1, <1>7, <1>8 DEF Commit

LEMMA PromiseBegins == Init => Abstract!Begin
<1> SUFFICES ASSUME Init PROVE Abstract!Begin
  OBVIOUS
<1>1. /\ run.phase = "AWAITING_AUTHORIZATION" /\ run.outcome.verdict = "none"
      /\ \A t \in Tasks : run.tasks[t].status # "ACCEPTED"
  BY DEF Init, NewTask
<1>2. StageOf(run) = "working" /\ AcceptedOf(run) = {}
  BY <1>1, TasksAssumption DEF StageOf, Back, AcceptedOf
<1> QED
  BY <1>1, <1>2, ShownRead DEF Abstract!Begin

LEMMA PromiseKept == Current /\ FitInv /\ [Next]_vars => PromiseStep
<1> SUFFICES ASSUME Current, FitInv, [Next]_vars PROVE PromiseStep
  OBVIOUS
<1>1. CASE Work
  <2>1. ASSUME NEW w \in launched, WriteResult(w) PROVE PromiseStep
    BY <2>1, Refused DEF WriteResult
  <2> QED
    BY <1>1, <2>1, AuthorizeMoves, RenewMoves, StartExecutionMoves, StartTaskMoves,
       ResultMoves, AcceptMoves, ReworkMoves, ResolveMoves, ResumeMoves, BudgetMoves,
       AuditAcceptedMoves, FinalizeMoves DEF Work, Review
<1>2. CASE Interruption
  BY <1>2, AdoptMoves, ExpiryMoves, OutcomeMoves, BlockMoves, PauseMoves, BudgetMoves,
     AuditReworkMoves, AuditContractMoves, AuditBlockedMoves DEF Interruption
<1>3. CASE UNCHANGED vars
  BY <1>3, Refused DEF vars
<1> QED
  BY <1>1, <1>2, <1>3 DEF Next

\* A run of a current schema keeps what RunPromise promises: required tasks are accepted
\* one at a time, the final audit is reached only when all of them are, accepted work is
\* reopened only by that audit or by a plan, and the run completes only out of an
\* accepted audit (_mark_task_accepted, apply_final_audit_outcome, finalize_run).
THEOREM RunKeepsPromise == Current => (Spec => ImplementsPromise)
<1> SUFFICES ASSUME Current PROVE Spec => ImplementsPromise
  OBVIOUS
<1>1. Init => Abstract!Begin
  BY PromiseBegins
<1>2. FitInv /\ [Next]_vars =>
          [Abstract!Step]_(<<stage, With({"ACCEPTED"}) \intersect Required,
                             run.outcome.verdict = "ACCEPTED">>)
  BY PromiseKept DEF PromiseStep, shown
<1> QED
  BY <1>1, <1>2, FitAlways, PTL DEF Spec, ImplementsPromise, Abstract!Promise,
     Abstract!promise
=============================================================================
