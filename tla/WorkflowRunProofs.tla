------------------------- MODULE WorkflowRunProofs -------------------------
(***************************************************************************)
(* Proofs about WorkflowRun for every set of tasks, every dependency       *)
(* relation, every budget and both state schemas.                          *)
(***************************************************************************)
EXTENDS WorkflowRun, TLAPS

(***************************************************************************)
(* The types, and what they rest on.                                       *)
(***************************************************************************)
\* A task that has left its initial statuses has been attempted, under a plan.
AttemptsArePlanned ==
    \A t \in Tasks :
        /\ Status(t) \notin {"PENDING", "READY"} => run.tasks[t].attempt # 0
        /\ run.tasks[t].attempt # 0 => run.plan # NoPlan

\* A blocker that can be resolved names the phase to resume.
BlockersResume ==
    run.blocker.scope \in {"legacy", "run"} => run.blocker.resume # "none"

TypeInv == TypeOK /\ AttemptsArePlanned /\ BlockersResume

\* The part of the invariant that a prepared state s must satisfy.
StateInv(s) ==
    /\ s \in Run
    /\ \A t \in Tasks :
          /\ s.tasks[t].status \notin {"PENDING", "READY"} => s.tasks[t].attempt # 0
          /\ s.tasks[t].attempt # 0 => s.plan # NoPlan
    /\ s.blocker.scope \in {"legacy", "run"} => s.blocker.resume # "none"

LEMMA TypeInvParts ==
    TypeInv <=> /\ StateInv(run)
                /\ outputs \in [Tasks -> [Attempts -> Plans \union {NoPlan}]]
                /\ launched \subseteq [task : Tasks, attempt : Attempts, plan : Plans]
                /\ rejected \subseteq Operations
BY DEF TypeInv, TypeOK, AttemptsArePlanned, BlockersResume, StateInv, Status

LEMMA NewTaskTyped ==
    ASSUME NEW t \in Tasks
    PROVE  /\ NewTask(t) \in Task
           /\ NewTask(t).status \in {"PENDING", "READY"}
           /\ NewTask(t).attempt = 0
BY BudgetAssumption
DEF NewTask, Task, Statuses, TaskStatuses, TaskRoutes, NoPlan, Plans, Attempts

LEMMA TypeInit == Init => TypeInv
<1> SUFFICES ASSUME Init PROVE TypeInv
  OBVIOUS
<1>1. [t \in Tasks |-> NewTask(t)] \in [Tasks -> Task]
  BY NewTaskTyped
<1>2. run \in Run
  BY <1>1 DEF Init, Run, RunPhases, Plans, NoPlan, StartModes, Authorization, Blocker,
              NoBlocker, TaskRoutes, Resumable, Verdicts
<1>3. AttemptsArePlanned /\ BlockersResume
  BY NewTaskTyped DEF Init, AttemptsArePlanned, BlockersResume, Status, NoBlocker
<1> QED
  BY <1>2, <1>3 DEF Init, TypeInv, TypeOK

LEMMA TypeKept ==
    ASSUME StateInv(run'),
           outputs' \in [Tasks -> [Attempts -> Plans \union {NoPlan}]],
           launched' \subseteq [task : Tasks, attempt : Attempts, plan : Plans],
           rejected' \subseteq Operations
    PROVE  TypeInv'
BY DEF TypeInv, TypeOK, AttemptsArePlanned, BlockersResume, StateInv, Status

\* An operation that leaves the workers and their files alone and prepares a
\* well-formed state leaves all of them well-formed, accepted or refused.
LEMMA OperationTyped ==
    ASSUME TypeInv, NEW op \in Operations, NEW STATE next, StateInv(next),
           Commit(op, next), UNCHANGED <<outputs, launched>>
    PROVE  TypeInv'
<1>1. StateInv(run') /\ rejected' \subseteq Operations
  <2>1. CASE Valid(next)
    BY <2>1, TypeInvParts DEF Commit
  <2>2. CASE ~Valid(next)
    BY <2>2, TypeInvParts DEF Commit
  <2> QED
    BY <2>1, <2>2
<1> QED
  BY <1>1, TypeKept, TypeInvParts

(***************************************************************************)
(* Each operation leaves the types as they are.                            *)
(***************************************************************************)
LEMMA AuthorizeTyped ==
    ASSUME TypeInv, AuthorizeExecution
    PROVE  TypeInv'
<1> DEFINE next ==
        [run EXCEPT !.phase = "READY",
            !.authorization = [required |-> FALSE, granted |-> TRUE, expiry |-> "ahead"]]
<1>1. StateInv(next)
  BY TypeInvParts DEF StateInv, Run, RunPhases, Authorization
<1>2. Commit("authorize", next) /\ UNCHANGED <<outputs, launched>>
  BY DEF AuthorizeExecution
<1>3. "authorize" \in Operations
  BY DEF Operations
<1> HIDE DEF next
<1> QED
  BY <1>1, <1>2, <1>3, OperationTyped

LEMMA RenewTyped ==
    ASSUME TypeInv, RenewAuthorization
    PROVE  TypeInv'
<1> DEFINE next ==
        [run EXCEPT !.authorization.expiry = "ahead"]
<1>1. StateInv(next)
  BY TypeInvParts DEF StateInv, Run, Authorization
<1>2. Commit("authorization-renew", next) /\ UNCHANGED <<outputs, launched>>
  BY DEF RenewAuthorization
<1>3. "authorization-renew" \in Operations
  BY DEF Operations
<1> HIDE DEF next
<1> QED
  BY <1>1, <1>2, <1>3, OperationTyped

LEMMA StartExecutionTyped ==
    ASSUME TypeInv, StartExecution
    PROVE  TypeInv'
<1> DEFINE next ==
        [run EXCEPT !.phase = IF Required # {} /\ AllAccepted(run.tasks)
                              THEN "FINAL_AUDIT" ELSE "RUNNING"]
<1>1. StateInv(next)
  BY TypeInvParts DEF StateInv, Run, RunPhases
<1>2. Commit("start-execution", next) /\ UNCHANGED <<outputs, launched>>
  BY DEF StartExecution
<1>3. "start-execution" \in Operations
  BY DEF Operations
<1> HIDE DEF next
<1> QED
  BY <1>1, <1>2, <1>3, OperationTyped

LEMMA BlockTyped ==
    ASSUME TypeInv, NEW subject \in Tasks \union {NoTask}, BlockRun(subject)
    PROVE  TypeInv'
<1> DEFINE next ==
        [run EXCEPT !.phase = "BLOCKED", !.blocker = RunBlocker(run.phase, subject)]
<1>1. RunBlocker(run.phase, subject) \in Blocker /\ run.phase # "none"
  BY TypeInvParts
  DEF StateInv, Run, RunPhases, LegacyPhases, TerminalPhases, RunBlocker, Blocker
<1>2. StateInv(next)
  BY TypeInvParts, <1>1 DEF StateInv, Run, RunPhases, RunBlocker
<1>3. Commit("block", next) /\ UNCHANGED <<outputs, launched>>
  BY DEF BlockRun
<1>4. "block" \in Operations
  BY DEF Operations
<1> HIDE DEF next
<1> QED
  BY <1>2, <1>3, <1>4, OperationTyped

LEMMA ResolveTyped ==
    ASSUME TypeInv, ResolveBlocker
    PROVE  TypeInv'
<1> DEFINE next ==
        [run EXCEPT !.phase = run.blocker.resume, !.blocker = NoBlocker]
<1>1. run.blocker.resume \in RunPhases \union LegacyPhases
  BY TypeInvParts DEF StateInv, Run, Blocker, ResolveBlocker
<1>2. NoBlocker \in Blocker
  BY DEF NoBlocker, Blocker
<1>3. StateInv(next)
  BY TypeInvParts, <1>1, <1>2 DEF StateInv, Run, Blocker, NoBlocker
<1>4. Commit("resolve-blocker", next) /\ UNCHANGED <<outputs, launched>>
  BY DEF ResolveBlocker
<1>5. "resolve-blocker" \in Operations
  BY DEF Operations
<1> HIDE DEF next
<1> QED
  BY <1>3, <1>4, <1>5, OperationTyped

LEMMA PauseTyped ==
    ASSUME TypeInv, PauseForExternalAction
    PROVE  TypeInv'
<1> DEFINE next ==
        [run EXCEPT !.phase = "WAITING_FOR_EXTERNAL_ACTION", !.external = run.phase]
<1>1. StateInv(next)
  BY TypeInvParts DEF StateInv, Run, RunPhases, Resumable, PauseForExternalAction
<1>2. Commit("external-pause", next) /\ UNCHANGED <<outputs, launched>>
  BY DEF PauseForExternalAction
<1>3. "external-pause" \in Operations
  BY DEF Operations
<1> HIDE DEF next
<1> QED
  BY <1>1, <1>2, <1>3, OperationTyped

LEMMA ResumeTyped ==
    ASSUME TypeInv, ResumeExternalAction
    PROVE  TypeInv'
<1> DEFINE next ==
        [run EXCEPT !.phase = run.external, !.external = "none",
                    !.blocker = IF @.scope = "external" THEN NoBlocker ELSE @]
<1>1. run.external \in RunPhases \union LegacyPhases
  BY DEF ResumeExternalAction, ExternalActionPhases, RunPhases, LegacyPhases
<1>2. NoBlocker \in Blocker
  BY DEF NoBlocker, Blocker, TaskRoutes
<1>3. StateInv(next)
  BY TypeInvParts, <1>1, <1>2 DEF StateInv, Run, NoBlocker
<1>4. Commit("external-resume", next) /\ UNCHANGED <<outputs, launched>>
  BY DEF ResumeExternalAction
<1>5. "external-resume" \in Operations
  BY DEF Operations
<1> HIDE DEF next
<1> QED
  BY <1>3, <1>4, <1>5, OperationTyped

LEMMA AuditAcceptedTyped ==
    ASSUME TypeInv, FinalAuditAccepted
    PROVE  TypeInv'
<1> DEFINE next ==
        [run EXCEPT !.outcome = Audited("ACCEPTED")]
<1>1. StateInv(next)
  BY TypeInvParts DEF StateInv, Run, Audited, Verdicts
<1>2. Commit("final-audit-outcome", next) /\ UNCHANGED <<outputs, launched>>
  BY DEF FinalAuditAccepted
<1>3. "final-audit-outcome" \in Operations
  BY DEF Operations
<1> HIDE DEF next
<1> QED
  BY <1>1, <1>2, <1>3, OperationTyped

LEMMA AuditContractTyped ==
    ASSUME TypeInv, FinalAuditContractChange
    PROVE  TypeInv'
<1> DEFINE next ==
        [run EXCEPT !.phase = "BLOCKED", !.outcome = Audited("CONTRACT_CHANGE"),
            !.blocker = [NoBlocker EXCEPT !.scope = "plan", !.route = "adopt-plan"]]
<1>1. /\ [NoBlocker EXCEPT !.scope = "plan", !.route = "adopt-plan"] \in Blocker
      /\ [NoBlocker EXCEPT !.scope = "plan", !.route = "adopt-plan"].scope = "plan"
  BY DEF NoBlocker, Blocker, TaskRoutes
<1>2. StateInv(next)
  BY TypeInvParts, <1>1 DEF StateInv, Run, RunPhases, Audited, Verdicts
<1>3. Commit("final-audit-outcome", next) /\ UNCHANGED <<outputs, launched>>
  BY DEF FinalAuditContractChange
<1>4. "final-audit-outcome" \in Operations
  BY DEF Operations
<1> HIDE DEF next
<1> QED
  BY <1>2, <1>3, <1>4, OperationTyped

LEMMA AuditBlockedTyped ==
    ASSUME TypeInv, NEW resume \in Resumable, FinalAuditBlocked(resume)
    PROVE  TypeInv'
<1> DEFINE next ==
        [run EXCEPT !.phase = "WAITING_FOR_EXTERNAL_ACTION", !.external = resume,
            !.outcome = Audited("BLOCKED"),
            !.blocker = [NoBlocker EXCEPT !.scope = "external",
                                          !.route = "external-action"]]
<1>1. /\ [NoBlocker EXCEPT !.scope = "external", !.route = "external-action"] \in Blocker
      /\ [NoBlocker EXCEPT !.scope = "external", !.route = "external-action"].scope = "external"
  BY DEF NoBlocker, Blocker, TaskRoutes
<1>2. StateInv(next)
  BY TypeInvParts, <1>1 DEF StateInv, Run, RunPhases, Audited, Verdicts
<1>3. Commit("final-audit-outcome", next) /\ UNCHANGED <<outputs, launched>>
  BY DEF FinalAuditBlocked
<1>4. "final-audit-outcome" \in Operations
  BY DEF Operations
<1> HIDE DEF next
<1> QED
  BY <1>2, <1>3, <1>4, OperationTyped

LEMMA FinalizeTyped ==
    ASSUME TypeInv, FinalizeRun
    PROVE  TypeInv'
<1> DEFINE next ==
        [run EXCEPT !.phase = "COMPLETE"]
<1>1. StateInv(next)
  BY TypeInvParts DEF StateInv, Run, RunPhases, TerminalPhases
<1>2. Commit("finalize", next) /\ UNCHANGED <<outputs, launched>>
  BY DEF FinalizeRun
<1>3. "finalize" \in Operations
  BY DEF Operations
<1> HIDE DEF next
<1> QED
  BY <1>1, <1>2, <1>3, OperationTyped

LEMMA ResultTyped ==
    ASSUME TypeInv, NEW t \in Tasks, CommitTaskResult(t)
    PROVE  TypeInv'
<1> DEFINE next ==
        [run EXCEPT !.tasks[t].status = "VERIFYING", !.tasks[t].result = run.plan,
                    !.phase = ReviewPhase]
<1> DEFINE task ==
        [run.tasks[t] EXCEPT !.status = "VERIFYING", !.result = run.plan]
<1>1. /\ run.tasks[t] \in Task /\ run.tasks[t].attempt # 0
      /\ run.plan \in Plans \union {NoPlan}
  <2>1. run.tasks[t].status \notin {"PENDING", "READY"}
    BY DEF CommitTaskResult, Status
  <2> QED
    BY <2>1, TypeInvParts DEF StateInv, Run
<1>2. task \in Task /\ task.attempt = run.tasks[t].attempt
  BY <1>1 DEF Task, Statuses, TaskStatuses
<1>3. next = [run EXCEPT !.tasks = [run.tasks EXCEPT ![t] = task], !.phase = ReviewPhase]
  BY TypeInvParts DEF StateInv, Run, Task
<1>4. [run.tasks EXCEPT ![t] = task] \in [Tasks -> Task]
  BY <1>2, TypeInvParts DEF StateInv, Run
<1>5. StateInv(next)
  <2> HIDE DEF task, next
  <2> QED
    BY <1>1, <1>2, <1>3, <1>4, TypeInvParts
    DEF StateInv, Run, ReviewPhase, RunPhases, LegacyPhases
<1>6. Commit("task-result", next) /\ UNCHANGED <<outputs, launched>>
  BY DEF CommitTaskResult
<1>7. "task-result" \in Operations
  BY DEF Operations
<1> HIDE DEF next
<1> QED
  BY <1>5, <1>6, <1>7, OperationTyped

LEMMA OutcomeTyped ==
    ASSUME TypeInv, NEW t \in Tasks, NEW verdict \in {"CONTRACT_CHANGE", "BLOCKED"},
           NEW route \in TaskRoutes, ApplyTaskReviewOutcome(t, verdict, route)
    PROVE  TypeInv'
<1> DEFINE next ==
        [run EXCEPT !.tasks[t].status = verdict,
                    !.tasks[t].blocker = IF verdict = "BLOCKED" THEN route ELSE @]
<1> DEFINE task ==
        [run.tasks[t] EXCEPT !.status = verdict,
                             !.blocker = IF verdict = "BLOCKED" THEN route ELSE @]
<1>1. /\ run.tasks[t] \in Task /\ run.tasks[t].attempt # 0
      /\ run.plan \in Plans \union {NoPlan}
  <2>1. run.tasks[t].status \notin {"PENDING", "READY"}
    BY DEF ApplyTaskReviewOutcome, Status
  <2> QED
    BY <2>1, TypeInvParts DEF StateInv, Run
<1>2. task \in Task /\ task.attempt = run.tasks[t].attempt
  BY <1>1 DEF Task, Statuses, TaskStatuses
<1>3. next = [run EXCEPT !.tasks = [run.tasks EXCEPT ![t] = task]]
  BY TypeInvParts DEF StateInv, Run, Task
<1>4. [run.tasks EXCEPT ![t] = task] \in [Tasks -> Task]
  BY <1>2, TypeInvParts DEF StateInv, Run
<1>5. StateInv(next)
  <2> HIDE DEF task, next
  <2> QED
    BY <1>1, <1>2, <1>3, <1>4, TypeInvParts DEF StateInv, Run, RunPhases
<1>6. Commit("task-review-apply", next) /\ UNCHANGED <<outputs, launched>>
  BY DEF ApplyTaskReviewOutcome
<1>7. "task-review-apply" \in Operations
  BY DEF Operations
<1> HIDE DEF next
<1> QED
  BY <1>5, <1>6, <1>7, OperationTyped

LEMMA BudgetPauseTyped ==
    ASSUME TypeInv, NEW t \in Tasks, PauseForBudgetDecision(t)
    PROVE  TypeInv'
<1> DEFINE next ==
        [run EXCEPT !.tasks[t].status = "WAITING_FOR_BUDGET_DECISION",
                    !.tasks[t].blocker = "budget-decision",
                    !.phase = "WAITING_FOR_BUDGET_DECISION",
                    !.blocker = TaskBlocker(t, "budget-decision")]
<1> DEFINE task ==
        [run.tasks[t] EXCEPT !.status = "WAITING_FOR_BUDGET_DECISION",
                             !.blocker = "budget-decision"]
<1>1. /\ run.tasks[t] \in Task /\ run.tasks[t].attempt # 0
      /\ run.plan \in Plans \union {NoPlan}
  <2>1. run.tasks[t].status \notin {"PENDING", "READY"}
    BY DEF PauseForBudgetDecision, Status
  <2> QED
    BY <2>1, TypeInvParts DEF StateInv, Run
<1>2. task \in Task /\ task.attempt = run.tasks[t].attempt
  BY <1>1 DEF Task, Statuses, TaskStatuses, TaskRoutes
<1>3. next = [run EXCEPT !.tasks = [run.tasks EXCEPT ![t] = task],
                      !.phase = "WAITING_FOR_BUDGET_DECISION",
                      !.blocker = TaskBlocker(t, "budget-decision")]
  BY TypeInvParts DEF StateInv, Run, Task
<1>4. [run.tasks EXCEPT ![t] = task] \in [Tasks -> Task]
  BY <1>2, TypeInvParts DEF StateInv, Run
<1>5. /\ TaskBlocker(t, "budget-decision") \in Blocker
      /\ TaskBlocker(t, "budget-decision").scope = "task"
  BY DEF TaskBlocker, Blocker, TaskRoutes
<1>6. StateInv(next)
  <2> HIDE DEF task, next
  <2> QED
    BY <1>1, <1>2, <1>3, <1>4, <1>5, TypeInvParts DEF StateInv, Run, RunPhases
<1>7. Commit("budget-pause", next) /\ UNCHANGED <<outputs, launched>>
  BY DEF PauseForBudgetDecision
<1>8. "budget-pause" \in Operations
  BY DEF Operations
<1> HIDE DEF next
<1> QED
  BY <1>6, <1>7, <1>8, OperationTyped

LEMMA ContinueTyped ==
    ASSUME TypeInv, NEW t \in Tasks, BudgetContinue(t)
    PROVE  TypeInv'
<1> DEFINE next ==
        [run EXCEPT !.tasks[t].status = "RUNNING", !.tasks[t].blocker = "none",
                    !.phase = "RUNNING", !.blocker = NoBlocker]
<1> DEFINE task ==
        [run.tasks[t] EXCEPT !.status = "RUNNING", !.blocker = "none"]
<1>1. /\ run.tasks[t] \in Task /\ run.tasks[t].attempt # 0
      /\ run.plan \in Plans \union {NoPlan}
  <2>1. run.tasks[t].status \notin {"PENDING", "READY"}
    BY DEF DecidableBudget, BudgetContinue, Status
  <2> QED
    BY <2>1, TypeInvParts DEF StateInv, Run
<1>2. task \in Task /\ task.attempt = run.tasks[t].attempt
  BY <1>1 DEF Task, Statuses, TaskStatuses
<1>3. next = [run EXCEPT !.tasks = [run.tasks EXCEPT ![t] = task],
                      !.phase = "RUNNING", !.blocker = NoBlocker]
  BY TypeInvParts DEF StateInv, Run, Task
<1>4. [run.tasks EXCEPT ![t] = task] \in [Tasks -> Task]
  BY <1>2, TypeInvParts DEF StateInv, Run
<1>5. StateInv(next)
  <2> HIDE DEF task, next
  <2> QED
    BY <1>1, <1>2, <1>3, <1>4, TypeInvParts
    DEF StateInv, Run, RunPhases, NoBlocker, Blocker
<1>6. Commit("budget-decision", next) /\ UNCHANGED <<outputs, launched>>
  BY DEF BudgetContinue
<1>7. "budget-decision" \in Operations
  BY DEF Operations
<1> HIDE DEF next
<1> QED
  BY <1>5, <1>6, <1>7, OperationTyped

LEMMA RerouteTyped ==
    ASSUME TypeInv, NEW t \in Tasks, BudgetReroute(t)
    PROVE  TypeInv'
<1> DEFINE next ==
        [run EXCEPT !.tasks[t] = [@ EXCEPT !.status = "READY", !.blocker = "none",
                                         !.routed = TRUE, !.lent = FALSE, !.attemptRouted = FALSE],
                    !.phase = "RUNNING", !.blocker = NoBlocker]
<1> DEFINE task ==
        [run.tasks[t] EXCEPT !.status = "READY", !.blocker = "none",
                             !.routed = TRUE, !.lent = FALSE, !.attemptRouted = FALSE]
<1>1. /\ run.tasks[t] \in Task /\ run.tasks[t].attempt # 0
      /\ run.plan \in Plans \union {NoPlan}
  <2>1. run.tasks[t].status \notin {"PENDING", "READY"}
    BY DEF DecidableBudget, BudgetReroute, Status
  <2> QED
    BY <2>1, TypeInvParts DEF StateInv, Run
<1>2. task \in Task /\ task.attempt = run.tasks[t].attempt
  BY <1>1 DEF Task, Statuses, TaskStatuses
<1>3. next = [run EXCEPT !.tasks = [run.tasks EXCEPT ![t] = task],
                      !.phase = "RUNNING", !.blocker = NoBlocker]
  BY TypeInvParts DEF StateInv, Run, Task
<1>4. [run.tasks EXCEPT ![t] = task] \in [Tasks -> Task]
  BY <1>2, TypeInvParts DEF StateInv, Run
<1>5. StateInv(next)
  <2> HIDE DEF task, next
  <2> QED
    BY <1>1, <1>2, <1>3, <1>4, TypeInvParts
    DEF StateInv, Run, RunPhases, NoBlocker, Blocker
<1>6. Commit("budget-decision", next) /\ UNCHANGED <<outputs, launched>>
  BY DEF BudgetReroute
<1>7. "budget-decision" \in Operations
  BY DEF Operations
<1> HIDE DEF next
<1> QED
  BY <1>5, <1>6, <1>7, OperationTyped

LEMMA StopTyped ==
    ASSUME TypeInv, NEW t \in Tasks,
           NEW route \in {"replan-task", "cancel-run"}, BudgetStop(t, route)
    PROVE  TypeInv'
<1> DEFINE next ==
        [run EXCEPT !.tasks[t].status = "BLOCKED", !.tasks[t].blocker = route,
                    !.blocker = TaskBlocker(t, route),
                    !.phase = IF route = "replan-task" THEN "BLOCKED" ELSE "CANCELLED"]
<1> DEFINE task ==
        [run.tasks[t] EXCEPT !.status = "BLOCKED", !.blocker = route]
<1>1. /\ run.tasks[t] \in Task /\ run.tasks[t].attempt # 0
      /\ run.plan \in Plans \union {NoPlan}
  <2>1. run.tasks[t].status \notin {"PENDING", "READY"}
    BY DEF DecidableBudget, BudgetStop, Status
  <2> QED
    BY <2>1, TypeInvParts DEF StateInv, Run
<1>2. task \in Task /\ task.attempt = run.tasks[t].attempt
  BY <1>1 DEF Task, Statuses, TaskStatuses, TaskRoutes
<1>3. next = [run EXCEPT !.tasks = [run.tasks EXCEPT ![t] = task],
                      !.blocker = TaskBlocker(t, route),
                      !.phase = IF route = "replan-task" THEN "BLOCKED" ELSE "CANCELLED"]
  BY TypeInvParts DEF StateInv, Run, Task
<1>4. [run.tasks EXCEPT ![t] = task] \in [Tasks -> Task]
  BY <1>2, TypeInvParts DEF StateInv, Run
<1>5. /\ TaskBlocker(t, route) \in Blocker
      /\ TaskBlocker(t, route).scope = "task"
  BY DEF TaskBlocker, Blocker, TaskRoutes
<1>6. StateInv(next)
  <2> HIDE DEF task, next
  <2> QED
    BY <1>1, <1>2, <1>3, <1>4, <1>5, TypeInvParts
    DEF StateInv, Run, RunPhases, TerminalPhases
<1>7. Commit("budget-decision", next) /\ UNCHANGED <<outputs, launched>>
  BY DEF BudgetStop
<1>8. "budget-decision" \in Operations
  BY DEF Operations
<1> HIDE DEF next
<1> QED
  BY <1>6, <1>7, <1>8, OperationTyped

LEMMA LeastAttempt ==
    ASSUME NEW S, S \subseteq Attempts, S # {}
    PROVE  Min(S) \in S /\ \A y \in S : Min(S) <= y
<1> SUFFICES \E x \in S : \A y \in S : x <= y
  BY DEF Min
<1> SUFFICES ASSUME \A x \in S : \E y \in S : ~(x <= y) PROVE FALSE
  OBVIOUS
<1>1. S \subseteq 1..10
  BY BudgetAssumption DEF Attempts
<1>2. S \intersect {1, 2, 3} = {}
  BY <1>1
<1>3. S \intersect {4, 5, 6} = {}
  BY <1>1, <1>2
<1>4. S \intersect {7, 8, 9, 10} = {}
  BY <1>1, <1>2, <1>3
<1>5. PICK x \in S : TRUE
  OBVIOUS
<1> QED
  BY <1>1, <1>2, <1>3, <1>4, <1>5

LEMMA UnlockedTyped ==
    ASSUME NEW STATE tasks, tasks \in [Tasks -> Task]
    PROVE  /\ Unlocked(tasks) \in [Tasks -> Task]
           /\ \A t \in Tasks :
                 /\ Unlocked(tasks)[t].attempt = tasks[t].attempt
                 /\ \/ Unlocked(tasks)[t] = tasks[t]
                    \/ tasks[t].status = "PENDING" /\ Unlocked(tasks)[t].status = "READY"
<1> SUFFICES ASSUME NEW t \in Tasks
             PROVE  /\ Unlocked(tasks)[t] \in Task
                    /\ Unlocked(tasks)[t].attempt = tasks[t].attempt
                    /\ \/ Unlocked(tasks)[t] = tasks[t]
                       \/ tasks[t].status = "PENDING" /\ Unlocked(tasks)[t].status = "READY"
  BY DEF Unlocked
<1>1. tasks[t] \in Task
  OBVIOUS
<1>2. [tasks[t] EXCEPT !.status = "READY"] \in Task
  BY <1>1 DEF Task, Statuses, TaskStatuses
<1>3. Unlocked(tasks)[t] \in {tasks[t], [tasks[t] EXCEPT !.status = "READY"]}
  BY DEF Unlocked
<1>4. CASE Unlocked(tasks)[t] = tasks[t]
  BY <1>4
<1>5. CASE Unlocked(tasks)[t] # tasks[t]
  <2>1. tasks[t].status = "PENDING" /\ Unlocked(tasks)[t] = [tasks[t] EXCEPT !.status = "READY"]
    BY <1>5 DEF Unlocked
  <2> QED
    BY <2>1, <1>2, <1>1 DEF Task
<1> QED
  BY <1>4, <1>5

LEMMA AdoptTyped ==
    ASSUME TypeInv, NEW plan \in Plans, NEW mode \in StartModes, NEW reset \in BOOLEAN,
           NEW kept \in SUBSET Tasks, NEW drift \in SUBSET Tasks,
           AdoptPlan(plan, mode, reset, kept, drift)
    PROVE  TypeInv'
<1> DEFINE made == [t \in Tasks |-> IF t \in kept THEN Preserved(t) ELSE NewTask(t)]
<1> DEFINE unresolved == run.drift \union drift
<1> DEFINE next ==
        [run EXCEPT !.plan = plan, !.startMode = mode,
            !.authorization = Grant(mode), !.tasks = Unlocked(made), !.drift = unresolved,
            !.phase = IF unresolved = {} THEN AdoptedPhase(mode) ELSE "BLOCKED",
            !.blocker = IF unresolved = {} THEN NoBlocker ELSE DriftBlocker]
<1>1. plan # NoPlan
  BY BudgetAssumption DEF Plans, NoPlan
<1>2. made \in [Tasks -> Task]
  <2> SUFFICES ASSUME NEW t \in Tasks PROVE made[t] \in Task
    OBVIOUS
  <2>1. CASE t \in kept
    <3>1. run.tasks[t] \in Task
      BY TypeInvParts DEF StateInv, Run
    <3>2. Preserved(t) \in Task
      BY <3>1, NewTaskTyped DEF Preserved, Task, Status
    <3> QED
      BY <2>1, <3>2
  <2>2. CASE t \notin kept
    BY <2>2, NewTaskTyped
  <2> QED
    BY <2>1, <2>2
<1>3. \A t \in Tasks : made[t].status \notin {"PENDING", "READY"} => made[t].attempt # 0
  <2> SUFFICES ASSUME NEW t \in Tasks, made[t].status \notin {"PENDING", "READY"}
               PROVE  made[t].attempt # 0
    OBVIOUS
  <2>1. t \in kept
    BY NewTaskTyped
  <2>2. made[t].status = run.tasks[t].status /\ made[t].attempt = run.tasks[t].attempt
    BY <2>1 DEF Preserved, NewTask, Status
  <2> QED
    BY <2>2, TypeInvParts DEF StateInv
<1>4. /\ Unlocked(made) \in [Tasks -> Task]
      /\ \A t \in Tasks : Unlocked(made)[t].status \notin {"PENDING", "READY"}
                              => Unlocked(made)[t].attempt # 0
  <2> HIDE DEF made
  <2> QED
    BY <1>2, <1>3, UnlockedTyped
<1>5. Grant(mode) \in Authorization /\ AdoptedPhase(mode) \in RunPhases
  BY DEF Grant, Authorization, AdoptedPhase, RunPhases, StartModes
<1>6. /\ NoBlocker \in Blocker /\ NoBlocker.scope = "none"
      /\ DriftBlocker \in Blocker /\ DriftBlocker.resume # "none"
  BY DEF NoBlocker, DriftBlocker, Blocker, RunPhases, TaskRoutes
<1>7. unresolved \subseteq Tasks
  BY TypeInvParts DEF StateInv, Run
<1>8. StateInv(next)
  <2> HIDE DEF made, unresolved
  <2>1. /\ (IF unresolved = {} THEN AdoptedPhase(mode) ELSE "BLOCKED") \in RunPhases
        /\ (IF unresolved = {} THEN NoBlocker ELSE DriftBlocker) \in Blocker
    BY <1>5, <1>6 DEF RunPhases
  <2>2. next \in Run
    BY <1>4, <1>5, <1>7, <2>1, TypeInvParts DEF StateInv, Run
  <2> QED
    BY <2>2, <1>1, <1>4, <1>6, TypeInvParts DEF StateInv, Run
<1>9. Commit("adopt-plan", next) /\ UNCHANGED <<outputs, launched>>
  BY DEF AdoptPlan
<1>10. "adopt-plan" \in Operations
  BY DEF Operations
<1> HIDE DEF next
<1> QED
  BY <1>8, <1>9, <1>10, OperationTyped

LEMMA FirstIn ==
    ASSUME NEW S, NEW h \in Seq(S), h # <<>>
    PROVE  h[1] \in S
<1>1. Len(h) \in Nat /\ Len(h) # 0
  OBVIOUS
<1>2. 1 \in 1..Len(h)
  BY <1>1
<1> QED
  BY <1>2

LEMMA StartTaskTyped ==
    ASSUME TypeInv, NEW t \in Tasks, NEW lent \in BOOLEAN, StartTask(t, lent)
    PROVE  TypeInv'
<1> DEFINE attempt == Min(FreeAttempts(t))
<1> DEFINE task == Attempted(run.tasks[t], attempt, lent)
<1> DEFINE next == [run EXCEPT !.tasks[t] = Attempted(@, attempt, lent), !.phase = "RUNNING"]
<1> DEFINE worker == [task |-> t, attempt |-> attempt, plan |-> run.plan]
<1>1. attempt \in Attempts
  <2>1. FreeAttempts(t) # {} /\ FreeAttempts(t) \subseteq Attempts
    BY DEF StartTask, Startable, FreeAttempts
  <2> QED
    BY <2>1, LeastAttempt
<1>2. run.plan \in Plans /\ run.plan # NoPlan
  BY TypeInvParts DEF StartTask, StateInv, Run
<1>3. task \in Task /\ task.attempt = attempt /\ attempt # 0
  <2>1. run.tasks[t] \in Task
    BY TypeInvParts DEF StateInv, Run
  <2>2. run.tasks[t].history # <<>> => run.tasks[t].history[1].attempt \in Attempts
    <3>1. run.tasks[t].history \in Seq([attempt : Attempts, plan : Plans])
      BY <2>1 DEF Task
    <3>2. ASSUME run.tasks[t].history # <<>>
          PROVE  run.tasks[t].history[1] \in [attempt : Attempts, plan : Plans]
      BY <3>1, <3>2, FirstIn
    <3> QED
      BY <3>2
  <2>3. Attempts \subseteq 0..MaxTaskAttempts /\ 0 \notin Attempts
    BY BudgetAssumption DEF Attempts
  <2> HIDE DEF attempt
  <2> QED
    BY <1>1, <2>1, <2>2, <2>3 DEF Attempted, RoutedAtStart, Task, Statuses, TaskStatuses, NoPlan
<1>4. StateInv(next)
  <2>1. next = [run EXCEPT !.tasks = [run.tasks EXCEPT ![t] = task], !.phase = "RUNNING"]
    BY TypeInvParts DEF StateInv, Run
  <2> HIDE DEF next, task, attempt
  <2>2. [run.tasks EXCEPT ![t] = task] \in [Tasks -> Task]
    BY <1>3, TypeInvParts DEF StateInv, Run
  <2> QED
    BY <1>2, <1>3, <2>1, <2>2, TypeInvParts DEF StateInv, Run, RunPhases
<1>5. worker \in [task : Tasks, attempt : Attempts, plan : Plans]
  BY <1>1, <1>2
<1>6. /\ Commit("task-start", next)
      /\ launched' \in {launched, launched \union {worker}}
      /\ outputs' = outputs
  BY DEF StartTask
<1>7. StateInv(run') /\ rejected' \subseteq Operations
  <2>1. "task-start" \in Operations
    BY DEF Operations
  <2> HIDE DEF next
  <2> QED
    BY <1>4, <1>6, <2>1, TypeInvParts DEF Commit
<1>8. launched' \subseteq [task : Tasks, attempt : Attempts, plan : Plans]
  <2> HIDE DEF worker
  <2> QED
    BY <1>5, <1>6, TypeInvParts
<1> QED
  BY <1>6, <1>7, <1>8, TypeKept, TypeInvParts

LEMMA WriteTyped ==
    ASSUME TypeInv, NEW w \in launched, WriteResult(w)
    PROVE  TypeInv'
<1>1. w \in [task : Tasks, attempt : Attempts, plan : Plans]
  BY TypeInvParts
<1>2. outputs' \in [Tasks -> [Attempts -> Plans \union {NoPlan}]]
  BY <1>1, TypeInvParts DEF WriteResult
<1>3. StateInv(run')
  BY TypeInvParts DEF WriteResult
<1> QED
  BY <1>2, <1>3, TypeKept, TypeInvParts DEF WriteResult

LEMMA ExpiryTyped ==
    ASSUME TypeInv, AuthorizationExpires
    PROVE  TypeInv'
<1>1. StateInv([run EXCEPT !.authorization.expiry = "past"])
  BY TypeInvParts DEF StateInv, Run, Authorization
<1>2. StateInv(run')
  BY <1>1 DEF AuthorizationExpires
<1> QED
  BY <1>2, TypeKept, TypeInvParts DEF AuthorizationExpires

LEMMA AcceptTyped ==
    ASSUME TypeInv, NEW t \in Tasks, AcceptTask(t)
    PROVE  TypeInv'
<1> DEFINE reviewed == [run.tasks EXCEPT ![t].status = "ACCEPTED"]
<1> DEFINE next == [run EXCEPT !.tasks = Unlocked(reviewed),
                               !.phase = PhaseAfterAcceptance(Unlocked(reviewed))]
<1>1. reviewed \in [Tasks -> Task]
  <2>1. run.tasks \in [Tasks -> Task]
    BY TypeInvParts DEF StateInv, Run
  <2>2. [run.tasks[t] EXCEPT !.status = "ACCEPTED"] \in Task
    BY <2>1 DEF Task, Statuses, TaskStatuses
  <2> QED
    BY <2>1, <2>2
<1>2. \A u \in Tasks : /\ reviewed[u].attempt = run.tasks[u].attempt
                       /\ reviewed[u].status \notin {"PENDING", "READY"}
                              => run.tasks[u].attempt # 0
  <2>1. run.tasks[t].attempt # 0
    <3>1. run.tasks[t].status = "VERIFYING"
      BY DEF AcceptTask
    <3> QED
      BY <3>1, TypeInvParts DEF StateInv
  <2>2. run.tasks \in [Tasks -> Task]
    BY TypeInvParts DEF StateInv, Run
  <2> QED
    BY <2>1, <2>2, TypeInvParts DEF StateInv, Task
<1>3. StateInv(next)
  <2>1. PhaseAfterAcceptance(Unlocked(reviewed)) \in RunPhases
    BY DEF PhaseAfterAcceptance, RunPhases
  <2> HIDE DEF reviewed
  <2>2. /\ Unlocked(reviewed) \in [Tasks -> Task]
        /\ \A u \in Tasks :
              /\ Unlocked(reviewed)[u].attempt = run.tasks[u].attempt
              /\ Unlocked(reviewed)[u].status \notin {"PENDING", "READY"}
                     => run.tasks[u].attempt # 0
    BY <1>1, <1>2, UnlockedTyped
  <2> QED
    BY <2>1, <2>2, TypeInvParts DEF StateInv, Run
<1>4. Commit("task-accept", next) /\ UNCHANGED <<outputs, launched>>
  BY DEF AcceptTask
<1>5. "task-accept" \in Operations
  BY DEF Operations
<1> HIDE DEF next
<1> QED
  BY <1>3, <1>4, <1>5, OperationTyped

\* Archiving an attempt keeps a task well-formed if it has been attempted.
LEMMA ArchivedTyped ==
    ASSUME TypeInv, NEW t \in Tasks, run.tasks[t].status \notin {"PENDING", "READY"}
    PROVE  /\ Archived(run.tasks[t]) \in Task
           /\ Archived(run.tasks[t]).attempt = run.tasks[t].attempt
           /\ run.tasks[t].attempt # 0
<1>1. run.tasks[t] \in Task
  BY TypeInvParts DEF StateInv, Run
<1>2. run.tasks[t].attempt # 0 /\ run.plan \in Plans
  BY TypeInvParts DEF StateInv, Run
<1>3. run.tasks[t].attempt \in Attempts
  BY <1>1, <1>2, BudgetAssumption DEF Task, Attempts
<1>4. Append(run.tasks[t].history, [attempt |-> run.tasks[t].attempt, plan |-> run.plan])
        \in Seq([attempt : Attempts, plan : Plans])
  BY <1>1, <1>2, <1>3 DEF Task
<1> QED
  BY <1>1, <1>2, <1>4 DEF Archived, Task, Statuses, TaskStatuses, NoPlan

LEMMA ReworkTyped ==
    ASSUME TypeInv, NEW t \in Tasks, ReworkTask(t)
    PROVE  TypeInv'
<1> DEFINE task == Archived(run.tasks[t])
<1> DEFINE next == [run EXCEPT !.tasks[t] = Archived(@),
                               !.phase = IF Current THEN @ ELSE "REMEDIATING"]
<1>1. run.tasks[t].status = "VERIFYING"
  BY DEF ReworkTask
<1>2. task \in Task /\ task.attempt = run.tasks[t].attempt /\ run.tasks[t].attempt # 0
  BY <1>1, ArchivedTyped
<1>3. StateInv(next)
  <2>1. next = [run EXCEPT !.tasks = [run.tasks EXCEPT ![t] = task],
                           !.phase = IF Current THEN @ ELSE "REMEDIATING"]
    BY TypeInvParts DEF StateInv, Run
  <2> HIDE DEF next, task
  <2>2. [run.tasks EXCEPT ![t] = task] \in [Tasks -> Task]
    BY <1>2, TypeInvParts DEF StateInv, Run
  <2> QED
    BY <1>2, <2>1, <2>2, TypeInvParts DEF StateInv, Run, LegacyPhases
<1>4. Commit("task-rework", next) /\ UNCHANGED <<outputs, launched>>
  BY DEF ReworkTask
<1>5. "task-rework" \in Operations
  BY DEF Operations
<1> HIDE DEF next
<1> QED
  BY <1>3, <1>4, <1>5, OperationTyped

LEMMA AuditReworkTyped ==
    ASSUME TypeInv, NEW reopened \in SUBSET Tasks, FinalAuditRework(reopened)
    PROVE  TypeInv'
<1> DEFINE reworked == [t \in Tasks |-> IF t \in reopened
                            THEN [Archived(run.tasks[t]) EXCEPT !.blocker = "none"]
                            ELSE run.tasks[t]]
<1> DEFINE next ==
        [run EXCEPT !.tasks = [t \in Tasks |-> IF t \in reopened
                                 THEN [Archived(@[t]) EXCEPT !.blocker = "none"]
                                 ELSE @[t]],
                    !.phase = IF Current THEN "RUNNING" ELSE "REMEDIATING",
                    !.blocker = NoBlocker, !.outcome = Audited("REWORK")]
<1>1. \A t \in Tasks : /\ reworked[t] \in Task
                       /\ reworked[t].attempt = run.tasks[t].attempt
                       /\ reworked[t].status \notin {"PENDING", "READY"}
                              => run.tasks[t].attempt # 0
  <2> SUFFICES ASSUME NEW t \in Tasks
               PROVE  /\ reworked[t] \in Task
                      /\ reworked[t].attempt = run.tasks[t].attempt
                      /\ reworked[t].status \notin {"PENDING", "READY"}
                             => run.tasks[t].attempt # 0
    OBVIOUS
  <2>1. CASE t \in reopened
    <3>1. run.tasks[t].status = "ACCEPTED"
      BY <2>1 DEF FinalAuditRework, Reopenable, Status
    <3>2. /\ Archived(run.tasks[t]) \in Task
          /\ Archived(run.tasks[t]).attempt = run.tasks[t].attempt
          /\ run.tasks[t].attempt # 0
      BY <3>1, ArchivedTyped
    <3>3. reworked[t] = [Archived(run.tasks[t]) EXCEPT !.blocker = "none"]
      BY <2>1
    <3> QED
      BY <3>2, <3>3 DEF Task
  <2>2. CASE t \notin reopened
    BY <2>2, TypeInvParts DEF StateInv, Run
  <2> QED
    BY <2>1, <2>2
<1>2. StateInv(next)
  <2>1. next = [run EXCEPT !.tasks = reworked,
                           !.phase = IF Current THEN "RUNNING" ELSE "REMEDIATING",
                           !.blocker = NoBlocker, !.outcome = Audited("REWORK")]
    BY TypeInvParts DEF StateInv, Run
  <2>2. reworked \in [Tasks -> Task]
    BY <1>1
  <2>3. NoBlocker \in Blocker /\ NoBlocker.scope = "none"
    BY DEF NoBlocker, Blocker
  <2>4. Audited("REWORK") \in [verdict : Verdicts \union {"none"}, plan : Plans \union {NoPlan}]
    BY TypeInvParts DEF StateInv, Run, Audited, Verdicts
  <2> HIDE DEF next, reworked
  <2> QED
    <3>1. run \in Run
      BY TypeInvParts DEF StateInv
    <3>2. next \in Run
      BY <2>1, <2>2, <2>3, <2>4, <3>1 DEF Run, RunPhases, LegacyPhases
    <3>3. next.tasks = reworked /\ next.blocker = NoBlocker /\ next.plan = run.plan
      BY <2>1, <3>1 DEF Run
    <3>4. \A t \in Tasks :
             /\ reworked[t].status \notin {"PENDING", "READY"} => reworked[t].attempt # 0
             /\ reworked[t].attempt # 0 => run.plan # NoPlan
      BY <1>1, TypeInvParts DEF StateInv
    <3> QED
      BY <2>3, <3>2, <3>3, <3>4 DEF StateInv
<1>3. Commit("final-audit-outcome", next) /\ UNCHANGED <<outputs, launched>>
  BY DEF FinalAuditRework
<1>4. "final-audit-outcome" \in Operations
  BY DEF Operations
<1> HIDE DEF next
<1> QED
  BY <1>2, <1>3, <1>4, OperationTyped

LEMMA TypeStep == TypeInv /\ [Next]_vars => TypeInv'
<1> SUFFICES ASSUME TypeInv, [Next]_vars PROVE TypeInv'
  OBVIOUS
<1>1. CASE Work
  BY <1>1, AuthorizeTyped, RenewTyped, StartExecutionTyped, StartTaskTyped, ResultTyped,
     AcceptTyped, ReworkTyped, WriteTyped, ResolveTyped, ResumeTyped, ContinueTyped,
     RerouteTyped, AuditAcceptedTyped, FinalizeTyped DEF Work, Review
<1>2. CASE Interruption
  BY <1>2, AdoptTyped, ExpiryTyped, OutcomeTyped, BlockTyped, PauseTyped, BudgetPauseTyped,
     StopTyped, AuditReworkTyped, AuditContractTyped, AuditBlockedTyped DEF Interruption
<1>3. CASE UNCHANGED vars
  <2>1. StateInv(run') /\ UNCHANGED <<outputs, launched, rejected>>
    BY <1>3, TypeInvParts DEF vars
  <2> QED
    BY <2>1, TypeKept, TypeInvParts
<1> QED
  BY <1>1, <1>2, <1>3 DEF Next

\* The state file, the result files and the workers of a run are always well-formed,
\* under both schemas: every attempt number within the budget, every archived or
\* launched attempt under an adopted plan, every blocker resuming to a phase.
THEOREM TypeCorrect == Spec => []TypeOK
<1>1. Init => TypeInv
  BY TypeInit
<1>2. TypeInv /\ [Next]_vars => TypeInv'
  BY TypeStep
<1>3. TypeInv => TypeOK
  BY DEF TypeInv
<1> QED
  BY <1>1, <1>2, <1>3, PTL DEF Spec

(***************************************************************************)
(* Dependencies, the final audit and completion.                           *)
(*                                                                         *)
(* None of the three is inductive.  The final audit reopens accepted tasks *)
(* under the feet of whatever depends on them, so DependenciesHold needs   *)
(* that no attempt is in flight there; the audit is entered from READY     *)
(* too, so no attempt may be in flight in any phase before RUNNING; and a  *)
(* block or an external action hides the phase, so all of it must be said  *)
(* of the phase to which the run returns.                                  *)
(***************************************************************************)
Back(s) ==
    LET phase == IF s.phase = "BLOCKED" THEN s.blocker.resume ELSE s.phase
    IN  IF phase = "WAITING_FOR_EXTERNAL_ACTION" THEN s.external ELSE phase

\* The phases in which no attempt of a current run is in flight.
Resting == {"AWAITING_AUTHORIZATION", "PLAN_ONLY", "READY", "FINAL_AUDIT", "COMPLETE"}

Idle(s) == \A t \in Tasks : s.tasks[t].status \notin {"RUNNING", "VERIFYING"}

DependenciesIn(s) ==
    \A t \in Tasks : s.tasks[t].status \in {"RUNNING", "VERIFYING"} =>
        \A d \in DependsOn[t] : s.tasks[d].status = "ACCEPTED"

Settled(s) ==
    /\ Current /\ Back(s) \in Resting => Idle(s)
    /\ Current /\ Back(s) = "FINAL_AUDIT" => AllAccepted(s.tasks)
    /\ Current => DependenciesIn(s)
    /\ s.phase = "COMPLETE" =>
          AllAccepted(s.tasks) /\ (Current => s.outcome.verdict = "ACCEPTED")
    /\ s.startMode = "plan-only" =>
          /\ ~s.authorization.granted
          /\ Idle(s)
          /\ s.phase \in {"PLAN_ONLY", "BLOCKED"}

SafeInv == TypeInv /\ Valid(run) /\ Settled(run)

LEMMA OperationSettled ==
    ASSUME SafeInv, NEW op, NEW STATE next, Valid(next) => Settled(next), Commit(op, next)
    PROVE  Valid(run') /\ Settled(run')
<1>1. CASE Valid(next)
  BY <1>1 DEF Commit
<1>2. CASE ~Valid(next)
  BY <1>2 DEF Commit, SafeInv
<1> QED
  BY <1>1, <1>2

\* An operation that leaves the tasks alone keeps the run settled if the phase it
\* returns to was settled already.
LEMMA SameTasksSettled ==
    ASSUME SafeInv, NEW STATE next, next.tasks = run.tasks,
           next.startMode = run.startMode, run.startMode # "plan-only",
           next.phase # "COMPLETE",
           Current /\ Back(next) \in Resting =>
               \/ Back(next) = Back(run)
               \/ Back(run) \in Resting /\ Back(next) # "FINAL_AUDIT"
    PROVE  Settled(next)
BY DEF SafeInv, Settled, Idle, DependenciesIn, Resting

LEMMA NotPlanOnly == SafeInv /\ Authorized => run.startMode # "plan-only"
BY DEF SafeInv, Settled, Authorized

LEMMA SafeInit == Init => SafeInv
<1> SUFFICES ASSUME Init PROVE SafeInv
  OBVIOUS
<1>1. \A t \in Tasks : /\ run.tasks[t].status \in {"PENDING", "READY"}
                       /\ run.tasks[t].history = <<>>
                       /\ run.tasks[t].attempt = 0
  BY DEF Init, NewTask
<1>2. /\ run.phase = "AWAITING_AUTHORIZATION" /\ run.startMode = "approval-required"
      /\ run.blocker.scope = "none"
  BY DEF Init, NoBlocker
<1>3. Valid(run)
  BY <1>1, <1>2 DEF Valid, ValidTasks, ValidPhase, ValidRecovery, RunPhases, TaskStatuses
<1>4. Settled(run)
  BY <1>1, <1>2 DEF Settled, Back, Idle, DependenciesIn, Resting
<1> QED
  BY <1>3, <1>4, TypeInit DEF SafeInv

LEMMA AuthorizeSettled ==
    ASSUME SafeInv, AuthorizeExecution
    PROVE  Valid(run') /\ Settled(run')
<1> DEFINE next ==
        [run EXCEPT !.phase = "READY",
            !.authorization = [required |-> FALSE, granted |-> TRUE, expiry |-> "ahead"]]
<1>1. run.startMode # "plan-only"
  BY DEF AuthorizeExecution
<1>2. /\ next.tasks = run.tasks /\ next.startMode = run.startMode
      /\ next.phase # "COMPLETE"
      /\ Current /\ Back(next) \in Resting =>
            \/ Back(next) = Back(run)
            \/ Back(run) \in Resting /\ Back(next) # "FINAL_AUDIT"
  BY TypeInvParts DEF SafeInv, StateInv, Run, Back, Resting, AuthorizeExecution
<1>3. PICK op \in Operations : Commit(op, next)
  BY DEF AuthorizeExecution, Operations
<1> HIDE DEF next
<1> QED
  BY <1>1, <1>2, <1>3, SameTasksSettled, OperationSettled

LEMMA RenewSettled ==
    ASSUME SafeInv, RenewAuthorization
    PROVE  Valid(run') /\ Settled(run')
<1> DEFINE next ==
        [run EXCEPT !.authorization.expiry = "ahead"]
<1>1. run.startMode # "plan-only"
  BY DEF RenewAuthorization, Renewable
<1>2. /\ next.tasks = run.tasks /\ next.startMode = run.startMode
      /\ next.phase # "COMPLETE"
      /\ Current /\ Back(next) \in Resting =>
            \/ Back(next) = Back(run)
            \/ Back(run) \in Resting /\ Back(next) # "FINAL_AUDIT"
  BY TypeInvParts DEF SafeInv, StateInv, Run, Back, Resting, RenewAuthorization, Renewable
<1>3. PICK op \in Operations : Commit(op, next)
  BY DEF RenewAuthorization, Operations
<1> HIDE DEF next
<1> QED
  BY <1>1, <1>2, <1>3, SameTasksSettled, OperationSettled

LEMMA BlockSettled ==
    ASSUME SafeInv, NEW subject \in Tasks \union {NoTask}, BlockRun(subject)
    PROVE  Valid(run') /\ Settled(run')
<1> DEFINE next ==
        [run EXCEPT !.phase = "BLOCKED", !.blocker = RunBlocker(run.phase, subject)]
<1>1. run.startMode # "plan-only"
  BY NotPlanOnly DEF BlockRun
<1>2. /\ next.tasks = run.tasks /\ next.startMode = run.startMode
      /\ next.phase # "COMPLETE"
      /\ Current /\ Back(next) \in Resting =>
            \/ Back(next) = Back(run)
            \/ Back(run) \in Resting /\ Back(next) # "FINAL_AUDIT"
  BY TypeInvParts
  DEF SafeInv, StateInv, Run, Back, Resting, BlockRun, RunBlocker, TerminalPhases
<1>3. PICK op \in Operations : Commit(op, next)
  BY DEF BlockRun, Operations
<1> HIDE DEF next
<1> QED
  BY <1>1, <1>2, <1>3, SameTasksSettled, OperationSettled

LEMMA ResolveSettled ==
    ASSUME SafeInv, ResolveBlocker
    PROVE  Valid(run') /\ Settled(run')
<1> DEFINE next ==
        [run EXCEPT !.phase = run.blocker.resume, !.blocker = NoBlocker]
<1>1. run.startMode # "plan-only"
  BY NotPlanOnly DEF ResolveBlocker
<1>2. /\ next.tasks = run.tasks /\ next.startMode = run.startMode
      /\ next.phase # "COMPLETE"
      /\ Current /\ Back(next) \in Resting =>
            \/ Back(next) = Back(run)
            \/ Back(run) \in Resting /\ Back(next) # "FINAL_AUDIT"
  BY TypeInvParts
  DEF SafeInv, StateInv, Run, Back, Resting, ResolveBlocker, TerminalPhases, NoBlocker
<1>3. PICK op \in Operations : Commit(op, next)
  BY DEF ResolveBlocker, Operations
<1> HIDE DEF next
<1> QED
  BY <1>1, <1>2, <1>3, SameTasksSettled, OperationSettled

LEMMA PauseSettled ==
    ASSUME SafeInv, PauseForExternalAction
    PROVE  Valid(run') /\ Settled(run')
<1> DEFINE next ==
        [run EXCEPT !.phase = "WAITING_FOR_EXTERNAL_ACTION", !.external = run.phase]
<1>1. run.startMode # "plan-only"
  BY NotPlanOnly DEF PauseForExternalAction
<1>2. /\ next.tasks = run.tasks /\ next.startMode = run.startMode
      /\ next.phase # "COMPLETE"
      /\ Current /\ Back(next) \in Resting =>
            \/ Back(next) = Back(run)
            \/ Back(run) \in Resting /\ Back(next) # "FINAL_AUDIT"
  BY TypeInvParts
  DEF SafeInv, StateInv, Run, Back, Resting, PauseForExternalAction,
      ExternalActionPhases
<1>3. PICK op \in Operations : Commit(op, next)
  BY DEF PauseForExternalAction, Operations
<1> HIDE DEF next
<1> QED
  BY <1>1, <1>2, <1>3, SameTasksSettled, OperationSettled

LEMMA ResumeSettled ==
    ASSUME SafeInv, ResumeExternalAction
    PROVE  Valid(run') /\ Settled(run')
<1> DEFINE next ==
        [run EXCEPT !.phase = run.external, !.external = "none",
                    !.blocker = IF @.scope = "external" THEN NoBlocker ELSE @]
<1>1. run.startMode # "plan-only"
  BY NotPlanOnly DEF ResumeExternalAction
<1>2. /\ next.tasks = run.tasks /\ next.startMode = run.startMode
      /\ next.phase # "COMPLETE"
      /\ Current /\ Back(next) \in Resting =>
            \/ Back(next) = Back(run)
            \/ Back(run) \in Resting /\ Back(next) # "FINAL_AUDIT"
  BY TypeInvParts
  DEF SafeInv, StateInv, Run, Back, Resting, ResumeExternalAction, ExternalActionPhases
<1>3. PICK op \in Operations : Commit(op, next)
  BY DEF ResumeExternalAction, Operations
<1> HIDE DEF next
<1> QED
  BY <1>1, <1>2, <1>3, SameTasksSettled, OperationSettled

LEMMA AuditAcceptedSettled ==
    ASSUME SafeInv, FinalAuditAccepted
    PROVE  Valid(run') /\ Settled(run')
<1> DEFINE next ==
        [run EXCEPT !.outcome = Audited("ACCEPTED")]
<1>1. run.startMode # "plan-only"
  BY NotPlanOnly DEF FinalAuditAccepted
<1>2. /\ next.tasks = run.tasks /\ next.startMode = run.startMode
      /\ next.phase # "COMPLETE"
      /\ Current /\ Back(next) \in Resting =>
            \/ Back(next) = Back(run)
            \/ Back(run) \in Resting /\ Back(next) # "FINAL_AUDIT"
  BY TypeInvParts DEF SafeInv, StateInv, Run, Back, Resting, FinalAuditAccepted
<1>3. PICK op \in Operations : Commit(op, next)
  BY DEF FinalAuditAccepted, Operations
<1> HIDE DEF next
<1> QED
  BY <1>1, <1>2, <1>3, SameTasksSettled, OperationSettled

LEMMA AuditContractSettled ==
    ASSUME SafeInv, FinalAuditContractChange
    PROVE  Valid(run') /\ Settled(run')
<1> DEFINE next ==
        [run EXCEPT !.phase = "BLOCKED", !.outcome = Audited("CONTRACT_CHANGE"),
            !.blocker = [NoBlocker EXCEPT !.scope = "plan", !.route = "adopt-plan"]]
<1>1. run.startMode # "plan-only"
  BY NotPlanOnly DEF FinalAuditContractChange
<1>2. /\ next.tasks = run.tasks /\ next.startMode = run.startMode
      /\ next.phase # "COMPLETE"
      /\ Current /\ Back(next) \in Resting =>
            \/ Back(next) = Back(run)
            \/ Back(run) \in Resting /\ Back(next) # "FINAL_AUDIT"
  BY TypeInvParts
  DEF SafeInv, StateInv, Run, Back, Resting, FinalAuditContractChange, NoBlocker
<1>3. PICK op \in Operations : Commit(op, next)
  BY DEF FinalAuditContractChange, Operations
<1> HIDE DEF next
<1> QED
  BY <1>1, <1>2, <1>3, SameTasksSettled, OperationSettled

LEMMA AuditBlockedSettled ==
    ASSUME SafeInv, NEW resume \in Resumable, FinalAuditBlocked(resume)
    PROVE  Valid(run') /\ Settled(run')
<1> DEFINE next ==
        [run EXCEPT !.phase = "WAITING_FOR_EXTERNAL_ACTION", !.external = resume,
            !.outcome = Audited("BLOCKED"),
            !.blocker = [NoBlocker EXCEPT !.scope = "external",
                                          !.route = "external-action"]]
<1>1. run.startMode # "plan-only"
  BY NotPlanOnly DEF FinalAuditBlocked
<1>2. /\ next.tasks = run.tasks /\ next.startMode = run.startMode
      /\ next.phase # "COMPLETE"
      /\ Current /\ Back(next) \in Resting =>
            \/ Back(next) = Back(run)
            \/ Back(run) \in Resting /\ Back(next) # "FINAL_AUDIT"
  BY TypeInvParts
  DEF SafeInv, StateInv, Run, Back, Resting, FinalAuditBlocked, Resumable,
      ExternalActionPhases
<1>3. PICK op \in Operations : Commit(op, next)
  BY DEF FinalAuditBlocked, Operations
<1> HIDE DEF next
<1> QED
  BY <1>1, <1>2, <1>3, SameTasksSettled, OperationSettled

\* An operation that changes one task, which is not accepted, keeps the run settled
\* while the run is at work, if it puts the task to work only after its dependencies.
LEMMA OneTaskSettled ==
    ASSUME SafeInv, NEW t \in Tasks, NEW STATE next,
           next.startMode = run.startMode, run.startMode # "plan-only",
           next.phase # "COMPLETE",
           Current => Back(next) \notin Resting,
           Current => run.tasks[t].status # "ACCEPTED",
           \A u \in Tasks \ {t} : next.tasks[u] = run.tasks[u],
           Current /\ next.tasks[t].status \in {"RUNNING", "VERIFYING"} =>
               \/ run.tasks[t].status \in {"RUNNING", "VERIFYING"}
               \/ \A d \in DependsOn[t] : run.tasks[d].status = "ACCEPTED"
    PROVE  Settled(next)
<1>1. ASSUME Current, NEW u \in Tasks, next.tasks[u].status \in {"RUNNING", "VERIFYING"},
             NEW d \in DependsOn[u]
      PROVE  next.tasks[d].status = "ACCEPTED"
  <2>1. d \in Tasks
    BY TasksAssumption
  <2>2. run.tasks[d].status = "ACCEPTED"
    BY <1>1 DEF SafeInv, Settled, DependenciesIn
  <2> QED
    BY <1>1, <2>1, <2>2
<1>2. Current => DependenciesIn(next)
  BY <1>1 DEF DependenciesIn
<1> QED
  BY <1>2 DEF SafeInv, Settled, Resting

LEMMA StartTaskSettled ==
    ASSUME SafeInv, NEW t \in Tasks, NEW lent \in BOOLEAN, StartTask(t, lent)
    PROVE  Valid(run') /\ Settled(run')
<1> DEFINE next ==
        [run EXCEPT !.tasks[t] = Attempted(@, Min(FreeAttempts(t)), lent), !.phase = "RUNNING"]
<1>1. run.startMode # "plan-only"
  BY NotPlanOnly DEF StartTask
<1>2. /\ run.tasks[t].status \in {"READY", "REWORK"}
      /\ Current => run.phase # "none"
  BY TypeInvParts
  DEF StartTask, Startable, Status, ReviewPhase, SafeInv, StateInv, Run, RunPhases,
      LegacyPhases, TerminalPhases
<1>3. /\ next.startMode = run.startMode /\ next.phase # "COMPLETE"
      /\ Current => Back(next) \notin Resting
  BY <1>2, TypeInvParts DEF SafeInv, StateInv, Run, Back, Resting, ReviewPhase
<1>4. \A u \in Tasks \ {t} : next.tasks[u] = run.tasks[u]
  BY TypeInvParts DEF SafeInv, StateInv, Run
<1>5. Current /\ next.tasks[t].status \in {"RUNNING", "VERIFYING"} =>
          \/ run.tasks[t].status \in {"RUNNING", "VERIFYING"}
          \/ \A d \in DependsOn[t] : run.tasks[d].status = "ACCEPTED"
  BY DEF StartTask, Startable, Status
<1>6. PICK op \in Operations : Commit(op, next)
  BY DEF StartTask, Operations
<1> HIDE DEF next
<1> QED
  BY <1>1, <1>2, <1>3, <1>4, <1>5, <1>6, OneTaskSettled, OperationSettled

LEMMA ResultSettled ==
    ASSUME SafeInv, NEW t \in Tasks, CommitTaskResult(t)
    PROVE  Valid(run') /\ Settled(run')
<1> DEFINE next ==
        [run EXCEPT !.tasks[t].status = "VERIFYING", !.tasks[t].result = run.plan,
                    !.phase = ReviewPhase]
<1>1. run.startMode # "plan-only"
  BY NotPlanOnly DEF CommitTaskResult
<1>2. /\ run.tasks[t].status = "RUNNING"
      /\ Current => run.phase = "RUNNING"
  BY TypeInvParts
  DEF CommitTaskResult, Status, ReviewPhase, SafeInv, StateInv, Run, RunPhases,
      LegacyPhases, TerminalPhases
<1>3. /\ next.startMode = run.startMode /\ next.phase # "COMPLETE"
      /\ Current => Back(next) \notin Resting
  BY <1>2, TypeInvParts DEF SafeInv, StateInv, Run, Back, Resting, ReviewPhase
<1>4. \A u \in Tasks \ {t} : next.tasks[u] = run.tasks[u]
  BY TypeInvParts DEF SafeInv, StateInv, Run
<1>5. Current /\ next.tasks[t].status \in {"RUNNING", "VERIFYING"} =>
          \/ run.tasks[t].status \in {"RUNNING", "VERIFYING"}
          \/ \A d \in DependsOn[t] : run.tasks[d].status = "ACCEPTED"
  BY <1>2
<1>6. PICK op \in Operations : Commit(op, next)
  BY DEF CommitTaskResult, Operations
<1> HIDE DEF next
<1> QED
  BY <1>1, <1>2, <1>3, <1>4, <1>5, <1>6, OneTaskSettled, OperationSettled

LEMMA ReworkSettled ==
    ASSUME SafeInv, NEW t \in Tasks, ReworkTask(t)
    PROVE  Valid(run') /\ Settled(run')
<1> DEFINE next ==
        [run EXCEPT !.tasks[t] = Archived(@),
                    !.phase = IF Current THEN @ ELSE "REMEDIATING"]
<1>1. run.startMode # "plan-only"
  BY NotPlanOnly DEF ReworkTask
<1>2. /\ run.tasks[t].status = "VERIFYING"
      /\ Current => run.phase = "RUNNING"
  BY TypeInvParts
  DEF ReworkTask, Status, ReviewPhase, SafeInv, StateInv, Run, RunPhases, LegacyPhases,
      TerminalPhases
<1>3. /\ next.startMode = run.startMode /\ next.phase # "COMPLETE"
      /\ Current => Back(next) \notin Resting
  BY <1>2, TypeInvParts DEF SafeInv, StateInv, Run, Back, Resting, ReviewPhase
<1>4. \A u \in Tasks \ {t} : next.tasks[u] = run.tasks[u]
  BY TypeInvParts DEF SafeInv, StateInv, Run
<1>5. Current /\ next.tasks[t].status \in {"RUNNING", "VERIFYING"} =>
          \/ run.tasks[t].status \in {"RUNNING", "VERIFYING"}
          \/ \A d \in DependsOn[t] : run.tasks[d].status = "ACCEPTED"
  BY <1>2
<1>6. PICK op \in Operations : Commit(op, next)
  BY DEF ReworkTask, Operations
<1> HIDE DEF next
<1> QED
  BY <1>1, <1>2, <1>3, <1>4, <1>5, <1>6, OneTaskSettled, OperationSettled

LEMMA OutcomeSettled ==
    ASSUME SafeInv, NEW t \in Tasks, NEW verdict \in {"CONTRACT_CHANGE", "BLOCKED"},
           NEW route \in TaskRoutes, ApplyTaskReviewOutcome(t, verdict, route)
    PROVE  Valid(run') /\ Settled(run')
<1> DEFINE next ==
        [run EXCEPT !.tasks[t].status = verdict,
                    !.tasks[t].blocker = IF verdict = "BLOCKED" THEN route ELSE @]
<1>1. run.startMode # "plan-only"
  BY NotPlanOnly DEF ApplyTaskReviewOutcome
<1>2. /\ run.tasks[t].status = "VERIFYING"
      /\ Current => run.phase = "RUNNING"
      /\ run.phase # "COMPLETE"
  BY TypeInvParts
  DEF ApplyTaskReviewOutcome, Status, ReviewPhase, SafeInv, StateInv, Run, RunPhases,
      LegacyPhases, TerminalPhases
<1>3. /\ next.startMode = run.startMode /\ next.phase # "COMPLETE"
      /\ Current => Back(next) \notin Resting
  BY <1>2, TypeInvParts DEF SafeInv, StateInv, Run, Back, Resting, ReviewPhase
<1>4. \A u \in Tasks \ {t} : next.tasks[u] = run.tasks[u]
  BY TypeInvParts DEF SafeInv, StateInv, Run
<1>5. Current /\ next.tasks[t].status \in {"RUNNING", "VERIFYING"} =>
          \/ run.tasks[t].status \in {"RUNNING", "VERIFYING"}
          \/ \A d \in DependsOn[t] : run.tasks[d].status = "ACCEPTED"
  BY <1>2
<1>6. PICK op \in Operations : Commit(op, next)
  BY DEF ApplyTaskReviewOutcome, Operations
<1> HIDE DEF next
<1> QED
  BY <1>1, <1>2, <1>3, <1>4, <1>5, <1>6, OneTaskSettled, OperationSettled

LEMMA BudgetPauseSettled ==
    ASSUME SafeInv, NEW t \in Tasks, PauseForBudgetDecision(t)
    PROVE  Valid(run') /\ Settled(run')
<1> DEFINE next ==
        [run EXCEPT !.tasks[t].status = "WAITING_FOR_BUDGET_DECISION",
                    !.tasks[t].blocker = "budget-decision",
                    !.phase = "WAITING_FOR_BUDGET_DECISION",
                    !.blocker = TaskBlocker(t, "budget-decision")]
<1>1. run.startMode # "plan-only"
  BY NotPlanOnly DEF PauseForBudgetDecision
<1>2. /\ run.tasks[t].status = "RUNNING"
      /\ Current => run.phase = "RUNNING"
  BY TypeInvParts
  DEF PauseForBudgetDecision, Status, ReviewPhase, SafeInv, StateInv, Run, RunPhases,
      LegacyPhases, TerminalPhases
<1>3. /\ next.startMode = run.startMode /\ next.phase # "COMPLETE"
      /\ Current => Back(next) \notin Resting
  BY <1>2, TypeInvParts DEF SafeInv, StateInv, Run, Back, Resting, ReviewPhase
<1>4. \A u \in Tasks \ {t} : next.tasks[u] = run.tasks[u]
  BY TypeInvParts DEF SafeInv, StateInv, Run
<1>5. Current /\ next.tasks[t].status \in {"RUNNING", "VERIFYING"} =>
          \/ run.tasks[t].status \in {"RUNNING", "VERIFYING"}
          \/ \A d \in DependsOn[t] : run.tasks[d].status = "ACCEPTED"
  BY <1>2
<1>6. PICK op \in Operations : Commit(op, next)
  BY DEF PauseForBudgetDecision, Operations
<1> HIDE DEF next
<1> QED
  BY <1>1, <1>2, <1>3, <1>4, <1>5, <1>6, OneTaskSettled, OperationSettled

\* Under the current schemas no task waits for a budget decision: the validator
\* knows no such status.
LEMMA ContinueSettled ==
    ASSUME SafeInv, NEW t \in Tasks, BudgetContinue(t)
    PROVE  Valid(run') /\ Settled(run')
<1> DEFINE next ==
        [run EXCEPT !.tasks[t].status = "RUNNING", !.tasks[t].blocker = "none",
                    !.phase = "RUNNING", !.blocker = NoBlocker]
<1>1. ~Current
  BY DEF SafeInv, Valid, ValidTasks, TaskStatuses, BudgetContinue, DecidableBudget, Status
<1>2. run.startMode # "plan-only"
  BY NotPlanOnly DEF DecidableBudget, BudgetContinue
<1>3. Settled(next)
  BY <1>1, <1>2, TypeInvParts DEF Settled, SafeInv, StateInv, Run
<1>4. PICK op \in Operations : Commit(op, next)
  BY DEF BudgetContinue, Operations
<1> HIDE DEF next
<1> QED
  BY <1>3, <1>4, OperationSettled

\* Under the current schemas no task waits for a budget decision: the validator
\* knows no such status.
LEMMA RerouteSettled ==
    ASSUME SafeInv, NEW t \in Tasks, BudgetReroute(t)
    PROVE  Valid(run') /\ Settled(run')
<1> DEFINE next ==
        [run EXCEPT !.tasks[t] = [@ EXCEPT !.status = "READY", !.blocker = "none",
                                         !.routed = TRUE, !.lent = FALSE, !.attemptRouted = FALSE],
                    !.phase = "RUNNING", !.blocker = NoBlocker]
<1>1. ~Current
  BY DEF SafeInv, Valid, ValidTasks, TaskStatuses, BudgetReroute, DecidableBudget, Status
<1>2. run.startMode # "plan-only"
  BY NotPlanOnly DEF DecidableBudget, BudgetReroute
<1>3. Settled(next)
  BY <1>1, <1>2, TypeInvParts DEF Settled, SafeInv, StateInv, Run
<1>4. PICK op \in Operations : Commit(op, next)
  BY DEF BudgetReroute, Operations
<1> HIDE DEF next
<1> QED
  BY <1>3, <1>4, OperationSettled

\* Under the current schemas no task waits for a budget decision: the validator
\* knows no such status.
LEMMA StopSettled ==
    ASSUME SafeInv, NEW t \in Tasks,
           NEW route \in {"replan-task", "cancel-run"}, BudgetStop(t, route)
    PROVE  Valid(run') /\ Settled(run')
<1> DEFINE next ==
        [run EXCEPT !.tasks[t].status = "BLOCKED", !.tasks[t].blocker = route,
                    !.blocker = TaskBlocker(t, route),
                    !.phase = IF route = "replan-task" THEN "BLOCKED" ELSE "CANCELLED"]
<1>1. ~Current
  BY DEF SafeInv, Valid, ValidTasks, TaskStatuses, BudgetStop, DecidableBudget, Status
<1>2. run.startMode # "plan-only"
  BY NotPlanOnly DEF DecidableBudget, BudgetStop
<1>3. Settled(next)
  BY <1>1, <1>2, TypeInvParts DEF Settled, SafeInv, StateInv, Run
<1>4. PICK op \in Operations : Commit(op, next)
  BY DEF BudgetStop, Operations
<1> HIDE DEF next
<1> QED
  BY <1>3, <1>4, OperationSettled

LEMMA ExpirySettled ==
    ASSUME SafeInv, AuthorizationExpires
    PROVE  Valid(run') /\ Settled(run')
<1> DEFINE next == [run EXCEPT !.authorization.expiry = "past"]
<1>1. /\ next.phase = run.phase /\ next.tasks = run.tasks /\ next.blocker = run.blocker
      /\ next.external = run.external /\ next.startMode = run.startMode
      /\ next.outcome = run.outcome
      /\ next.authorization.granted = run.authorization.granted
  BY TypeInvParts DEF SafeInv, StateInv, Run, Authorization
<1>2. run' = next
  BY DEF AuthorizationExpires
<1> HIDE DEF next
<1>3. Valid(next)
  BY <1>1 DEF SafeInv, Valid, ValidTasks, ValidPhase, ValidRecovery
<1>4. Settled(next)
  BY <1>1 DEF SafeInv, Settled, Back, Idle, DependenciesIn
<1> QED
  BY <1>2, <1>3, <1>4

LEMMA StartExecutionSettled ==
    ASSUME SafeInv, StartExecution
    PROVE  Valid(run') /\ Settled(run')
<1> DEFINE next == [run EXCEPT !.phase = IF Required # {} /\ AllAccepted(run.tasks)
                                         THEN "FINAL_AUDIT" ELSE "RUNNING"]
<1>1. /\ next.tasks = run.tasks /\ next.startMode = run.startMode
      /\ next.startMode # "plan-only"
      /\ next.phase \in {"RUNNING", "FINAL_AUDIT"}
      /\ next.phase = "FINAL_AUDIT" => AllAccepted(run.tasks)
  BY TypeInvParts DEF SafeInv, StateInv, Run, StartExecution
<1>2. Current => Idle(run) /\ DependenciesIn(run)
  BY DEF SafeInv, Settled, Back, Resting, StartExecution
<1>3. PICK op \in Operations : Commit(op, next)
  BY DEF StartExecution, Operations
<1> HIDE DEF next
<1>4. Settled(next)
  BY <1>1, <1>2 DEF Settled, Back, Idle, DependenciesIn
<1> QED
  BY <1>3, <1>4, OperationSettled

LEMMA FinalizeSettled ==
    ASSUME SafeInv, FinalizeRun
    PROVE  Valid(run') /\ Settled(run')
<1> DEFINE next == [run EXCEPT !.phase = "COMPLETE"]
<1>1. /\ next.tasks = run.tasks /\ next.startMode = run.startMode
      /\ next.startMode # "plan-only" /\ next.outcome = run.outcome
      /\ next.phase = "COMPLETE"
  BY TypeInvParts, NotPlanOnly DEF SafeInv, StateInv, Run, FinalizeRun
<1>2. Current => Idle(run) /\ DependenciesIn(run)
  BY DEF SafeInv, Settled, Back, Resting, FinalizeRun
<1>3. AllAccepted(run.tasks) /\ (Current => run.outcome.verdict = "ACCEPTED")
  BY DEF FinalizeRun
<1>4. PICK op \in Operations : Commit(op, next)
  BY DEF FinalizeRun, Operations
<1> HIDE DEF next
<1>5. Settled(next)
  BY <1>1, <1>2, <1>3 DEF Settled, Back, Idle, DependenciesIn
<1> QED
  BY <1>4, <1>5, OperationSettled

LEMMA AcceptSettled ==
    ASSUME SafeInv, NEW t \in Tasks, AcceptTask(t)
    PROVE  Valid(run') /\ Settled(run')
<1> DEFINE reviewed == [run.tasks EXCEPT ![t].status = "ACCEPTED"]
<1> DEFINE tasks == Unlocked(reviewed)
<1> DEFINE next == [run EXCEPT !.tasks = tasks, !.phase = PhaseAfterAcceptance(tasks)]
<1>1. run.tasks \in [Tasks -> Task] /\ run.startMode # "plan-only"
  BY TypeInvParts, NotPlanOnly DEF SafeInv, StateInv, Run, AcceptTask
<1>2. reviewed \in [Tasks -> Task]
  <2>1. [run.tasks[t] EXCEPT !.status = "ACCEPTED"] \in Task
    BY <1>1 DEF Task, Statuses, TaskStatuses
  <2> QED
    BY <1>1, <2>1
<1>3. \A u \in Tasks :
         /\ run.tasks[u].status = "ACCEPTED" => reviewed[u].status = "ACCEPTED"
         /\ reviewed[u].status \in {"RUNNING", "VERIFYING"}
                => run.tasks[u].status \in {"RUNNING", "VERIFYING"}
  BY <1>1 DEF Task
<1>4. \A u \in Tasks :
         /\ run.tasks[u].status = "ACCEPTED" => tasks[u].status = "ACCEPTED"
         /\ tasks[u].status \in {"RUNNING", "VERIFYING"}
                => run.tasks[u].status \in {"RUNNING", "VERIFYING"}
  <2> HIDE DEF reviewed
  <2> QED
    BY <1>2, <1>3, UnlockedTyped
<1>5. /\ next.tasks = tasks /\ next.startMode = run.startMode
      /\ next.phase = PhaseAfterAcceptance(tasks)
  BY TypeInvParts DEF SafeInv, StateInv, Run
<1>6. PICK op \in Operations : Commit(op, next)
  BY DEF AcceptTask, Operations
<1> HIDE DEF next, tasks, reviewed
<1>7. Current => DependenciesIn(next)
  BY <1>4, <1>5, TasksAssumption DEF SafeInv, Settled, DependenciesIn
<1>8. /\ next.phase \in {"RUNNING", "FINAL_AUDIT"}
      /\ Current /\ next.phase = "FINAL_AUDIT" => AllAccepted(tasks) /\ Idle(next)
  BY <1>5 DEF PhaseAfterAcceptance, Idle
<1>9. Settled(next)
  BY <1>1, <1>5, <1>7, <1>8 DEF Settled, Back, Resting
<1> QED
  BY <1>6, <1>9, OperationSettled

LEMMA AdoptSettled ==
    ASSUME SafeInv, NEW plan \in Plans, NEW mode \in StartModes, NEW reset \in BOOLEAN,
           NEW kept \in SUBSET Tasks, NEW drift \in SUBSET Tasks,
           AdoptPlan(plan, mode, reset, kept, drift)
    PROVE  Valid(run') /\ Settled(run')
<1> DEFINE made == [t \in Tasks |-> IF t \in kept THEN Preserved(t) ELSE NewTask(t)]
<1> DEFINE unresolved == run.drift \union drift
<1> DEFINE phase == IF unresolved = {} THEN AdoptedPhase(mode) ELSE "BLOCKED"
<1> DEFINE blocker == IF unresolved = {} THEN NoBlocker ELSE DriftBlocker
<1> DEFINE next ==
        [run EXCEPT !.plan = plan, !.startMode = mode,
            !.authorization = Grant(mode), !.tasks = Unlocked(made), !.drift = unresolved,
            !.phase = IF unresolved = {} THEN AdoptedPhase(mode) ELSE "BLOCKED",
            !.blocker = IF unresolved = {} THEN NoBlocker ELSE DriftBlocker]
<1>1. \A t \in Tasks : made[t] \in Task /\ made[t].status \notin {"RUNNING", "VERIFYING"}
  <2> SUFFICES ASSUME NEW t \in Tasks
               PROVE  made[t] \in Task /\ made[t].status \notin {"RUNNING", "VERIFYING"}
    OBVIOUS
  <2>1. CASE t \in kept
    <3>1. run.tasks[t] \in Task
      BY TypeInvParts DEF SafeInv, StateInv, Run
    <3>2. run.tasks[t].status = "ACCEPTED"
      BY <2>1 DEF AdoptPlan, With, Status
    <3>3. Preserved(t) \in Task /\ Preserved(t).status = "ACCEPTED"
      BY <3>1, <3>2, NewTaskTyped DEF Preserved, Task, Status
    <3> QED
      BY <2>1, <3>3
  <2>2. CASE t \notin kept
    BY <2>2, NewTaskTyped
  <2> QED
    BY <2>1, <2>2
<1>2. \A t \in Tasks : Unlocked(made)[t].status \notin {"RUNNING", "VERIFYING"}
  <2>1. made \in [Tasks -> Task]
    BY <1>1
  <2> HIDE DEF made
  <2> QED
    BY <1>1, <2>1, UnlockedTyped
<1>3. /\ next.tasks = Unlocked(made) /\ next.startMode = mode
      /\ next.authorization = Grant(mode)
      /\ next.phase = phase /\ next.blocker = blocker
  <2> HIDE DEF made, unresolved
  <2> QED
    BY TypeInvParts DEF SafeInv, StateInv, Run
<1>4. /\ phase \in {"AWAITING_AUTHORIZATION", "PLAN_ONLY", "READY", "BLOCKED"}
      /\ phase = "BLOCKED" => blocker.resume = "READY"
      /\ mode = "plan-only" => phase \in {"PLAN_ONLY", "BLOCKED"} /\ ~Grant(mode).granted
  BY DEF AdoptedPhase, StartModes, DriftBlocker, Grant
<1>5. PICK op \in Operations : Commit(op, next)
  BY DEF AdoptPlan, Operations
<1> HIDE DEF next, made, phase, blocker
<1>6. Idle(next) /\ DependenciesIn(next)
  BY <1>2, <1>3 DEF Idle, DependenciesIn
<1>7. Settled(next)
  BY <1>3, <1>4, <1>6 DEF Settled, Back
<1> QED
  BY <1>5, <1>7, OperationSettled

LEMMA AuditReworkSettled ==
    ASSUME SafeInv, NEW reopened \in SUBSET Tasks, FinalAuditRework(reopened)
    PROVE  Valid(run') /\ Settled(run')
<1> DEFINE next ==
        [run EXCEPT !.tasks = [t \in Tasks |-> IF t \in reopened
                                 THEN [Archived(@[t]) EXCEPT !.blocker = "none"]
                                 ELSE @[t]],
                    !.phase = IF Current THEN "RUNNING" ELSE "REMEDIATING",
                    !.blocker = NoBlocker, !.outcome = Audited("REWORK")]
<1>1. /\ next.startMode = run.startMode /\ next.startMode # "plan-only"
      /\ next.phase = IF Current THEN "RUNNING" ELSE "REMEDIATING"
  BY TypeInvParts, NotPlanOnly DEF SafeInv, StateInv, Run, FinalAuditRework
<1>2. Current => Idle(run)
  BY DEF SafeInv, Settled, Back, Resting, FinalAuditRework
<1>3. Current => Idle(next)
  <2> SUFFICES ASSUME Current, NEW t \in Tasks
               PROVE  next.tasks[t].status \notin {"RUNNING", "VERIFYING"}
    BY DEF Idle
  <2>1. CASE t \in reopened
    <3>1. run.tasks[t] \in Task
      BY TypeInvParts DEF SafeInv, StateInv, Run
    <3>2. next.tasks[t] = [Archived(run.tasks[t]) EXCEPT !.blocker = "none"]
      BY <2>1, TypeInvParts DEF SafeInv, StateInv, Run
    <3> HIDE DEF next
    <3> QED
      BY <3>1, <3>2 DEF Archived, Task
  <2>2. CASE t \notin reopened
    <3>1. next.tasks[t] = run.tasks[t]
      BY <2>2, TypeInvParts DEF SafeInv, StateInv, Run
    <3> HIDE DEF next
    <3> QED
      BY <3>1, <1>2 DEF Idle
  <2> QED
    BY <2>1, <2>2
<1>4. PICK op \in Operations : Commit(op, next)
  BY DEF FinalAuditRework, Operations
<1> HIDE DEF next
<1>5. Settled(next)
  BY <1>1, <1>3 DEF Settled, Back, Resting, Idle, DependenciesIn
<1> QED
  BY <1>4, <1>5, OperationSettled

LEMMA SafeStep == SafeInv /\ [Next]_vars => SafeInv'
<1> SUFFICES ASSUME SafeInv, [Next]_vars PROVE Valid(run') /\ Settled(run')
  BY TypeStep DEF SafeInv, Valid, ValidTasks, ValidPhase, ValidRecovery, Settled, Back, Idle,
                  DependenciesIn, AllAccepted
<1>1. CASE Work
  <2>1. ASSUME NEW w \in launched, WriteResult(w)
        PROVE  Valid(run') /\ Settled(run')
    BY <2>1 DEF WriteResult, SafeInv
  <2> QED
    BY <1>1, <2>1, AuthorizeSettled, RenewSettled, StartExecutionSettled, StartTaskSettled,
       ResultSettled, AcceptSettled, ReworkSettled, ResolveSettled, ResumeSettled,
       ContinueSettled, RerouteSettled, AuditAcceptedSettled, FinalizeSettled
       DEF Work, Review
<1>2. CASE Interruption
  BY <1>2, AdoptSettled, ExpirySettled, OutcomeSettled, BlockSettled, PauseSettled,
     BudgetPauseSettled, StopSettled, AuditReworkSettled, AuditContractSettled,
     AuditBlockedSettled DEF Interruption
<1>3. CASE UNCHANGED vars
  BY <1>3 DEF vars, SafeInv
<1> QED
  BY <1>1, <1>2, <1>3 DEF Next

LEMMA SafeAlways == Spec => []SafeInv
<1>1. Init => SafeInv
  BY SafeInit
<1>2. SafeInv /\ [Next]_vars => SafeInv'
  BY SafeStep
<1> QED
  BY <1>1, <1>2, PTL DEF Spec

\* A task is worked on or reviewed only while everything it depends on is accepted,
\* whatever the tasks and their dependencies.
THEOREM DependenciesAreKept == Spec => []DependenciesHold
<1>1. SafeInv => DependenciesHold
  BY DEF SafeInv, Settled, DependenciesIn, DependenciesHold, Occupied, With, Status
<1> QED
  BY <1>1, SafeAlways, PTL

\* The final audit, also one that an interruption hides, has every required task
\* accepted and no attempt in flight.
THEOREM FinalAuditSettled == Spec => []FinalAuditIsSettled
<1>1. SafeInv => FinalAuditIsSettled
  BY DEF SafeInv, Settled, Back, Resting, Idle, FinalAuditIsSettled, ReturnsTo, Occupied,
         With, Status
<1> QED
  BY <1>1, SafeAlways, PTL

\* A complete run has every required task accepted and, under the current schemas, no
\* attempt in flight and an accepted final audit.
THEOREM CompletionAudited == Spec => []CompleteIsAudited
<1>1. SafeInv => CompleteIsAudited
  BY DEF SafeInv, Settled, Back, Resting, Idle, CompleteIsAudited, Occupied, With, Status
<1> QED
  BY <1>1, SafeAlways, PTL

\* A plan-only run never has an attempt in flight and stays in its phase until another
\* plan is adopted.
THEOREM PlanOnlyIsInert == Spec => []PlanOnlyNeverExecutes
<1>1. SafeInv => PlanOnlyNeverExecutes
  BY DEF SafeInv, Settled, Idle, PlanOnlyNeverExecutes, Occupied, With, Status
<1> QED
  BY <1>1, SafeAlways, PTL

(***************************************************************************)
(* What a step may never do.                                               *)
(***************************************************************************)
KeepsEnd ==
    run.phase \in TerminalPhases =>
        /\ run'.phase = run.phase /\ run'.tasks = run.tasks
        /\ run'.plan = run.plan /\ run'.outcome = run.outcome

LEMMA NothingFollowsTheEnd == TypeInv /\ [Next]_vars => KeepsEnd
<1> SUFFICES ASSUME TypeInv, [Next]_vars, run.phase \in TerminalPhases
             PROVE  /\ run'.phase = run.phase /\ run'.tasks = run.tasks
                    /\ run'.plan = run.plan /\ run'.outcome = run.outcome
  BY DEF KeepsEnd
<1>1. run.phase \notin {"AWAITING_AUTHORIZATION", "READY", "RUNNING", "REMEDIATING",
                        "STEP_REVIEW", "BLOCKED", "WAITING_FOR_EXTERNAL_ACTION",
                        "WAITING_FOR_BUDGET_DECISION", "FINAL_AUDIT"}
  BY DEF TerminalPhases
<1>2. CASE AuthorizationExpires
  BY <1>2, TypeInvParts DEF AuthorizationExpires, StateInv, Run
<1>3. CASE UNCHANGED run
  BY <1>3
<1>4. CASE Work
  BY <1>1, <1>3, <1>4 DEF Work, AuthorizeExecution, RenewAuthorization, Renewable,
     StartExecution, StartTask, CommitTaskResult, Review, AcceptTask, ReworkTask,
     ReviewPhase, WriteResult, ResolveBlocker, ResumeExternalAction, BudgetContinue,
     BudgetReroute, DecidableBudget, FinalAuditAccepted, FinalizeRun
<1>5. CASE Interruption
  BY <1>1, <1>2, <1>5 DEF Interruption, AdoptPlan, Adoptable, ApplyTaskReviewOutcome,
     ReviewPhase, BlockRun, PauseForExternalAction, ExternalActionPhases,
     PauseForBudgetDecision, BudgetStop, DecidableBudget, FinalAuditRework,
     FinalAuditContractChange, FinalAuditBlocked
<1> QED
  BY <1>3, <1>4, <1>5 DEF Next, vars

\* Whatever the schema, nothing but the clock changes a run that has ended.
THEOREM EndIsFinal == Spec => TerminalIsFinal
<1>1. TypeInv /\ [Next]_vars => [KeepsEnd]_vars
  BY NothingFollowsTheEnd
<1>2. Init => TypeInv
  BY TypeInit
<1>3. TypeInv /\ [Next]_vars => TypeInv'
  BY TypeStep
<1>4. [][KeepsEnd]_vars => TerminalIsFinal
  BY PTL DEF KeepsEnd, TerminalIsFinal
<1> QED
  BY <1>1, <1>2, <1>3, <1>4, PTL DEF Spec

Keeps(s) ==
    /\ s.plan >= run.plan
    /\ s.plan # run.plan
       \/ \A t \in With({"ACCEPTED"}) :
             s.tasks[t].status = "ACCEPTED" \/ run.phase = "FINAL_AUDIT"

LEMMA PlanIsNatural == TypeInv => run.plan \in Nat
BY TypeInvParts, BudgetAssumption DEF StateInv, Run, Plans, NoPlan

\* A step that leaves the plan and the accepted tasks alone keeps them.
LEMMA OthersKept ==
    ASSUME TypeInv, run'.plan = run.plan,
           \A t \in Tasks : run.tasks[t].status = "ACCEPTED" =>
               run'.tasks[t].status = "ACCEPTED" \/ run.phase = "FINAL_AUDIT"
    PROVE  Keeps(run')
BY PlanIsNatural DEF Keeps, With, Status

\* A step that changes at most one task, which is not accepted, keeps the others.
LEMMA OneTaskKept ==
    ASSUME TypeInv, NEW t \in Tasks, run.tasks[t].status # "ACCEPTED",
           NEW op, NEW STATE next, next.plan = run.plan, Commit(op, next),
           \A u \in Tasks \ {t} : next.tasks[u] = run.tasks[u]
    PROVE  Keeps(run')
<1>1. run' = next \/ run' = run
  BY DEF Commit
<1> QED
  BY <1>1, OthersKept

LEMMA AcceptKept ==
    ASSUME TypeInv, NEW t \in Tasks, AcceptTask(t)
    PROVE  Keeps(run')
<1> DEFINE reviewed == [run.tasks EXCEPT ![t].status = "ACCEPTED"]
<1> DEFINE next == [run EXCEPT !.tasks = Unlocked(reviewed),
                               !.phase = PhaseAfterAcceptance(Unlocked(reviewed))]
<1>1. run.tasks \in [Tasks -> Task]
  BY TypeInvParts DEF StateInv, Run
<1>2. /\ reviewed \in [Tasks -> Task]
      /\ \A u \in Tasks : run.tasks[u].status = "ACCEPTED" => reviewed[u].status = "ACCEPTED"
  <2>1. [run.tasks[t] EXCEPT !.status = "ACCEPTED"] \in Task
    BY <1>1 DEF Task, Statuses, TaskStatuses
  <2> QED
    BY <1>1, <2>1 DEF Task
<1>3. next.plan = run.plan /\ next.tasks = Unlocked(reviewed)
  BY TypeInvParts DEF StateInv, Run
<1>4. Commit("task-accept", next)
  BY DEF AcceptTask
<1> HIDE DEF next, reviewed
<1>5. \A u \in Tasks : run.tasks[u].status = "ACCEPTED" => next.tasks[u].status = "ACCEPTED"
  BY <1>2, <1>3, UnlockedTyped
<1>6. run' = next \/ run' = run
  BY <1>4 DEF Commit
<1> QED
  BY <1>3, <1>5, <1>6, OthersKept

\* An adoption of the plan the run already has finds no accepted task.
LEMMA AdoptKept ==
    ASSUME TypeInv, NEW plan \in Plans, NEW mode \in StartModes, NEW reset \in BOOLEAN,
           NEW kept \in SUBSET Tasks, NEW drift \in SUBSET Tasks,
           AdoptPlan(plan, mode, reset, kept, drift)
    PROVE  Keeps(run')
<1>1. plan >= run.plan /\ (plan = run.plan => ~reset)
  BY DEF AdoptPlan, Adoptable
<1>2. run'.plan = plan \/ run' = run
  BY TypeInvParts DEF AdoptPlan, Commit, StateInv, Run
<1>3. ~reset => With({"ACCEPTED"}) = {}
  BY DEF AdoptPlan, Adoptable, With, Statuses, TaskStatuses
<1>4. CASE run' = run
  BY <1>4, OthersKept
<1>5. CASE run'.plan = plan
  BY <1>1, <1>3, <1>5 DEF Keeps
<1> QED
  BY <1>2, <1>4, <1>5

LEMMA StartTaskKept ==
    ASSUME TypeInv, NEW t \in Tasks, NEW lent \in BOOLEAN, StartTask(t, lent)
    PROVE  Keeps(run')
<1> DEFINE next ==
        [run EXCEPT !.tasks[t] = Attempted(@, Min(FreeAttempts(t)), lent), !.phase = "RUNNING"]
<1>1. run.tasks[t].status # "ACCEPTED"
  BY DEF Startable, StartTask, Status
<1>2. next.plan = run.plan /\ \A u \in Tasks \ {t} : next.tasks[u] = run.tasks[u]
  BY TypeInvParts DEF StateInv, Run
<1>3. Commit("task-start", next)
  BY DEF StartTask
<1> HIDE DEF next
<1> QED
  BY <1>1, <1>2, <1>3, OneTaskKept

LEMMA ResultKept ==
    ASSUME TypeInv, NEW t \in Tasks, CommitTaskResult(t)
    PROVE  Keeps(run')
<1> DEFINE next ==
        [run EXCEPT !.tasks[t].status = "VERIFYING", !.tasks[t].result = run.plan,
                    !.phase = ReviewPhase]
<1>1. run.tasks[t].status # "ACCEPTED"
  BY DEF CommitTaskResult, Status
<1>2. next.plan = run.plan /\ \A u \in Tasks \ {t} : next.tasks[u] = run.tasks[u]
  BY TypeInvParts DEF StateInv, Run
<1>3. Commit("task-result", next)
  BY DEF CommitTaskResult
<1> HIDE DEF next
<1> QED
  BY <1>1, <1>2, <1>3, OneTaskKept

LEMMA ReworkKept ==
    ASSUME TypeInv, NEW t \in Tasks, ReworkTask(t)
    PROVE  Keeps(run')
<1> DEFINE next ==
        [run EXCEPT !.tasks[t] = Archived(@),
                    !.phase = IF Current THEN @ ELSE "REMEDIATING"]
<1>1. run.tasks[t].status # "ACCEPTED"
  BY DEF ReworkTask, Status
<1>2. next.plan = run.plan /\ \A u \in Tasks \ {t} : next.tasks[u] = run.tasks[u]
  BY TypeInvParts DEF StateInv, Run
<1>3. Commit("task-rework", next)
  BY DEF ReworkTask
<1> HIDE DEF next
<1> QED
  BY <1>1, <1>2, <1>3, OneTaskKept

LEMMA OutcomeKept ==
    ASSUME TypeInv, NEW t \in Tasks, NEW verdict \in {"CONTRACT_CHANGE", "BLOCKED"},
           NEW route \in TaskRoutes, ApplyTaskReviewOutcome(t, verdict, route)
    PROVE  Keeps(run')
<1> DEFINE next ==
        [run EXCEPT !.tasks[t].status = verdict,
                    !.tasks[t].blocker = IF verdict = "BLOCKED" THEN route ELSE @]
<1>1. run.tasks[t].status # "ACCEPTED"
  BY DEF ApplyTaskReviewOutcome, Status
<1>2. next.plan = run.plan /\ \A u \in Tasks \ {t} : next.tasks[u] = run.tasks[u]
  BY TypeInvParts DEF StateInv, Run
<1>3. Commit("task-review-apply", next)
  BY DEF ApplyTaskReviewOutcome
<1> HIDE DEF next
<1> QED
  BY <1>1, <1>2, <1>3, OneTaskKept

LEMMA BudgetPauseKept ==
    ASSUME TypeInv, NEW t \in Tasks, PauseForBudgetDecision(t)
    PROVE  Keeps(run')
<1> DEFINE next ==
        [run EXCEPT !.tasks[t].status = "WAITING_FOR_BUDGET_DECISION",
                    !.tasks[t].blocker = "budget-decision",
                    !.phase = "WAITING_FOR_BUDGET_DECISION",
                    !.blocker = TaskBlocker(t, "budget-decision")]
<1>1. run.tasks[t].status # "ACCEPTED"
  BY DEF PauseForBudgetDecision, Status
<1>2. next.plan = run.plan /\ \A u \in Tasks \ {t} : next.tasks[u] = run.tasks[u]
  BY TypeInvParts DEF StateInv, Run
<1>3. Commit("budget-pause", next)
  BY DEF PauseForBudgetDecision
<1> HIDE DEF next
<1> QED
  BY <1>1, <1>2, <1>3, OneTaskKept

LEMMA ContinueKept ==
    ASSUME TypeInv, NEW t \in Tasks, BudgetContinue(t)
    PROVE  Keeps(run')
<1> DEFINE next ==
        [run EXCEPT !.tasks[t].status = "RUNNING", !.tasks[t].blocker = "none",
                    !.phase = "RUNNING", !.blocker = NoBlocker]
<1>1. run.tasks[t].status # "ACCEPTED"
  BY DEF DecidableBudget, BudgetContinue, Status
<1>2. next.plan = run.plan /\ \A u \in Tasks \ {t} : next.tasks[u] = run.tasks[u]
  BY TypeInvParts DEF StateInv, Run
<1>3. Commit("budget-decision", next)
  BY DEF BudgetContinue
<1> HIDE DEF next
<1> QED
  BY <1>1, <1>2, <1>3, OneTaskKept

LEMMA RerouteKept ==
    ASSUME TypeInv, NEW t \in Tasks, BudgetReroute(t)
    PROVE  Keeps(run')
<1> DEFINE next ==
        [run EXCEPT !.tasks[t] = [@ EXCEPT !.status = "READY", !.blocker = "none",
                                         !.routed = TRUE, !.lent = FALSE, !.attemptRouted = FALSE],
                    !.phase = "RUNNING", !.blocker = NoBlocker]
<1>1. run.tasks[t].status # "ACCEPTED"
  BY DEF DecidableBudget, BudgetReroute, Status
<1>2. next.plan = run.plan /\ \A u \in Tasks \ {t} : next.tasks[u] = run.tasks[u]
  BY TypeInvParts DEF StateInv, Run
<1>3. Commit("budget-decision", next)
  BY DEF BudgetReroute
<1> HIDE DEF next
<1> QED
  BY <1>1, <1>2, <1>3, OneTaskKept

LEMMA StopKept ==
    ASSUME TypeInv, NEW t \in Tasks,
           NEW route \in {"replan-task", "cancel-run"}, BudgetStop(t, route)
    PROVE  Keeps(run')
<1> DEFINE next ==
        [run EXCEPT !.tasks[t].status = "BLOCKED", !.tasks[t].blocker = route,
                    !.blocker = TaskBlocker(t, route),
                    !.phase = IF route = "replan-task" THEN "BLOCKED" ELSE "CANCELLED"]
<1>1. run.tasks[t].status # "ACCEPTED"
  BY DEF DecidableBudget, BudgetStop, Status
<1>2. next.plan = run.plan /\ \A u \in Tasks \ {t} : next.tasks[u] = run.tasks[u]
  BY TypeInvParts DEF StateInv, Run
<1>3. Commit("budget-decision", next)
  BY DEF BudgetStop
<1> HIDE DEF next
<1> QED
  BY <1>1, <1>2, <1>3, OneTaskKept

\* Every other operation changes no task, or it is the final audit.
LEMMA PhaseKept ==
    ASSUME TypeInv,
           \/ AuthorizeExecution \/ RenewAuthorization \/ StartExecution
           \/ AuthorizationExpires \/ ResolveBlocker \/ PauseForExternalAction
           \/ ResumeExternalAction \/ FinalizeRun
           \/ \E subject \in Tasks \union {NoTask} : BlockRun(subject)
    PROVE  Keeps(run')
<1>1. run'.plan = run.plan /\ run'.tasks = run.tasks
  BY TypeInvParts DEF StateInv, Run, Commit, AuthorizeExecution, RenewAuthorization,
     StartExecution, AuthorizationExpires, ResolveBlocker, PauseForExternalAction,
     ResumeExternalAction, FinalizeRun, BlockRun
<1> QED
  BY <1>1, OthersKept

LEMMA AuditKept ==
    ASSUME TypeInv,
           \/ FinalAuditAccepted \/ FinalAuditContractChange
           \/ \E reopened \in SUBSET Tasks : FinalAuditRework(reopened)
           \/ \E resume \in Resumable : FinalAuditBlocked(resume)
    PROVE  Keeps(run')
<1>1. run.phase = "FINAL_AUDIT" /\ run'.plan = run.plan
  BY TypeInvParts DEF StateInv, Run, Commit, FinalAuditAccepted, FinalAuditContractChange,
     FinalAuditRework, FinalAuditBlocked
<1> QED
  BY <1>1, OthersKept

LEMMA AcceptanceStep == TypeInv /\ [Next]_vars => Keeps(run')
<1> SUFFICES ASSUME TypeInv, [Next]_vars PROVE Keeps(run')
  OBVIOUS
<1>1. CASE UNCHANGED run
  BY <1>1, OthersKept
<1>2. CASE Work
  BY <1>1, <1>2, AcceptKept, StartTaskKept, ResultKept, ReworkKept, ContinueKept,
     RerouteKept, PhaseKept, AuditKept DEF Work, Review, WriteResult
<1>3. CASE Interruption
  BY <1>3, AdoptKept, OutcomeKept, BudgetPauseKept, StopKept, PhaseKept, AuditKept
  DEF Interruption
<1> QED
  BY <1>1, <1>2, <1>3 DEF Next, vars

\* Whatever the schema, only the final audit or a plan of a later revision takes an
\* acceptance back, and the run never returns to an earlier plan.
THEOREM AcceptanceIsKept == Spec => AcceptedIsKept
<1>1. TypeInv /\ [Next]_vars => [Keeps(run')]_vars
  BY AcceptanceStep
<1>2. Init => TypeInv
  BY TypeInit
<1>3. TypeInv /\ [Next]_vars => TypeInv'
  BY TypeStep
<1>4. [][Keeps(run')]_vars => AcceptedIsKept
  BY PTL DEF Keeps, AcceptedIsKept
<1> QED
  BY <1>1, <1>2, <1>3, <1>4, PTL DEF Spec
=============================================================================
