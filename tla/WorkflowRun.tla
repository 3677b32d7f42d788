---------------------------- MODULE WorkflowRun ----------------------------
(***************************************************************************)
(* The state machine of one workflow run: adopting a frozen plan, getting  *)
(* execution authorized, attempting its tasks, reviewing them, auditing    *)
(* the whole and finalizing it.  Each action is one operation of           *)
(* workflow/*.py from its load_for_update to its commit_state; the module  *)
(* WorkflowKernel shows that such an operation is serialized and takes     *)
(* effect at most once, so here it is a single step.                       *)
(*                                                                         *)
(* Schema "v4" stands for the current state schemas v4 and v5 (they differ *)
(* in storage only), "v3" for the legacy one, whose states are not         *)
(* validated when they are committed.                                      *)
(***************************************************************************)
EXTENDS Integers, Sequences, FiniteSets, FiniteSetsExt

CONSTANTS
    Schema,             \* "v3" or "v4"
    Tasks,              \* the workstreams of the run's plans
    Required,           \* the tasks that must be accepted before the final audit
    DependsOn,          \* the tasks each task depends on
    Routed,             \* the tasks whose plan gives them a model route
    Profiled,           \* the tasks that may be started with a risk profile or strategy
    MaxTaskAttempts,    \* budgets.maxTaskAttempts
    MaxParallelTasks,   \* budgets.maxParallelTasks
    RemediationEnabled, \* budgets.remediationMode is "ask" or "bounded-auto"
    MaxPlan,            \* bound: the last plan revision that is ever frozen
    NoTask              \* a blocker that concerns no task

ASSUME SchemaAssumption == Schema \in {"v3", "v4"}
ASSUME TasksAssumption ==
    /\ IsFiniteSet(Tasks)
    /\ Required \subseteq Tasks
    /\ Routed \subseteq Tasks /\ Profiled \subseteq Tasks
    /\ DependsOn \in [Tasks -> SUBSET Tasks]
    /\ NoTask \notin Tasks
\* _max_task_attempts (workflow/artifacts.py:304-309) enforces the range.
ASSUME BudgetAssumption ==
    /\ MaxTaskAttempts \in 1..10
    /\ MaxParallelTasks \in Nat
    /\ RemediationEnabled \in BOOLEAN
    /\ MaxPlan \in Nat

VARIABLES
    run,        \* the state file
    outputs,    \* the plan whose worker wrote the result file of an attempt
    launched,   \* attempts whose worker has not written its result yet
    rejected    \* operations whose prepared state the validator refused

vars == <<run, outputs, launched, rejected>>

Current == Schema = "v4"
NoPlan  == 0
Plans   == 1..MaxPlan
Attempts == 1..MaxTaskAttempts

TerminalPhases == {"COMPLETE", "FAILED", "CANCELLED"}
ExternalActionPhases == {"RUNNING", "FINAL_AUDIT", "STEP_REVIEW", "REMEDIATING"}
RunPhases == {"AWAITING_AUTHORIZATION", "PLAN_ONLY", "READY", "RUNNING", "BLOCKED",
              "WAITING_FOR_BUDGET_DECISION", "WAITING_FOR_EXTERNAL_ACTION",
              "FINAL_AUDIT"} \union TerminalPhases
LegacyPhases == {"STEP_REVIEW", "REMEDIATING"}
TaskStatuses == {"PENDING", "READY", "RUNNING", "VERIFYING", "REWORK", "ACCEPTED",
                 "CONTRACT_CHANGE", "BLOCKED"}
Statuses == TaskStatuses \union {"WAITING_FOR_BUDGET_DECISION"}
StartModes == {"auto-after-freeze", "approval-required", "plan-only"}
TaskRoutes == {"task-review", "budget-decision", "replan-task", "cancel-run"}
Verdicts   == {"ACCEPTED", "REWORK", "CONTRACT_CHANGE", "BLOCKED"}
\* What a final audit may name as the phase to resume: any text; "other" is
\* one that names no phase.
Resumable  == ExternalActionPhases \union {"other"}

\* The run's blocker.  "task" is its taskId or, for a review interruption, the
\* task of its reviewSubject; scope "legacy" is a blocker without a scope.
NoBlocker == [scope |-> "none", route |-> "none", resume |-> "none", task |-> NoTask]
RunBlocker(resume, task) ==
    [scope |-> IF Current THEN "run" ELSE "legacy", route |-> "resolve-run",
     resume |-> resume, task |-> task]
TaskBlocker(t, route) ==
    [scope |-> "task", route |-> route, resume |-> "none", task |-> t]
DriftBlocker ==
    [scope |-> "legacy", route |-> "none", resume |-> "READY", task |-> NoTask]

\* A task as _build_tasks makes it.  "start" is attemptHistoryStart, 0 when the
\* task has none; "blocker" is the route of the task's own blocker; "result" is
\* the plan for which its committed result was written; "routed" whether it has a
\* model route, and "lent" whether it has that one from the start of an attempt.
NewTask(t) ==
    [status |-> IF DependsOn[t] = {} THEN "READY" ELSE "PENDING",
     attempt |-> 0, start |-> 0, history |-> <<>>, blocker |-> "none",
     result |-> NoPlan, routed |-> t \in Routed, lent |-> FALSE, attemptRouted |-> FALSE]

\* A run without a plan.  It has no startMode yet, and all that is ever asked of
\* that is whether it is "plan-only"; it has no tasks yet, so StartTask waits for
\* a plan.
Init ==
    /\ run = [phase |-> "AWAITING_AUTHORIZATION", plan |-> NoPlan,
              startMode |-> "approval-required",
              tasks |-> [t \in Tasks |-> NewTask(t)],
              authorization |-> [required |-> TRUE, granted |-> FALSE, expiry |-> "none"],
              blocker |-> NoBlocker, external |-> "none",
              outcome |-> [verdict |-> "none", plan |-> NoPlan], drift |-> {}]
    /\ outputs = [t \in Tasks |-> [a \in Attempts |-> NoPlan]]
    /\ launched = {}
    /\ rejected = {}

-----------------------------------------------------------------------------
(***************************************************************************)
(* What the operations read.                                               *)
(***************************************************************************)
Status(t) == run.tasks[t].status
With(S)   == {t \in Tasks : Status(t) \in S}
\* Mutant: one accepted task stands for all of them.
SomeAccepted(tasks) == \E t \in Required : tasks[t].status = "ACCEPTED"
AllAccepted(tasks) == \A t \in Required : tasks[t].status = "ACCEPTED"

Authorized == run.authorization.granted /\ run.authorization.expiry # "past"

\* The phase in which a result is reviewed.
ReviewPhase == IF Current THEN "RUNNING" ELSE "STEP_REVIEW"

\* Mutant: acceptance does not unlock the dependents.
LockedForGood(tasks) == tasks

Unlocked(tasks) ==
    [t \in Tasks |->
        IF /\ tasks[t].status = "PENDING"
           /\ \A d \in DependsOn[t] : tasks[d].status = "ACCEPTED"
        THEN [tasks[t] EXCEPT !.status = "READY"]
        ELSE tasks[t]]

HistoryValid(task) ==
    LET first == IF task.start = 0 THEN 1 ELSE task.start
    IN  /\ Len(task.history) <= MaxTaskAttempts - 1
        /\ task.start <= task.attempt
        /\ \A i \in DOMAIN task.history :
              /\ task.history[i].attempt = first + i - 1
              /\ task.history[i].attempt <= task.attempt
              /\ task.history[i].plan = run.plan

\* The attempts whose result path is not occupied yet.
FreeAttempts(t) ==
    {a \in Attempts : a > run.tasks[t].attempt /\ outputs[t][a] = NoPlan}

Archived(task) ==
    [task EXCEPT !.history = Append(@, [attempt |-> task.attempt, plan |-> run.plan]),
                 !.status = "REWORK", !.result = NoPlan, !.attemptRouted = FALSE]

\* _validate_tasks.
ValidTasks(s) ==
    \A t \in Tasks :
        /\ s.tasks[t].status \in TaskStatuses
        /\ Len(s.tasks[t].history) <= s.tasks[t].attempt
        /\ s.tasks[t].status = "ACCEPTED" => ~s.tasks[t].attemptRouted
        /\ s.tasks[t].status = "BLOCKED" => s.tasks[t].blocker # "none"

\* _validate_phase_invariants.
ValidPhase(s) ==
    /\ s.phase = "FINAL_AUDIT" => AllAccepted(s.tasks)
    /\ s.phase = "BLOCKED" => s.blocker # NoBlocker

\* validate_recovery_state: blockers are typed and fit the phase and the task.
ValidRecovery(s) ==
    /\ s.phase = "PLAN_ONLY" => s.startMode = "plan-only" /\ ~s.authorization.granted
    /\ s.blocker.scope # "legacy"
    /\ s.blocker.scope = "task" =>
          \/ s.tasks[s.blocker.task].blocker \in {"none", s.blocker.route}
          \/ s.blocker.route = "budget-decision"
    /\ s.phase = "WAITING_FOR_BUDGET_DECISION" =>
          s.blocker.scope = "task" /\ s.blocker.route = "budget-decision"
    /\ s.phase = "WAITING_FOR_EXTERNAL_ACTION" => s.external # "none"

\* validate_workflow_state and, for current schemas, validate_recovery_state.
Valid(s) ==
    Current =>
        /\ s.phase \in RunPhases
        /\ ValidTasks(s)
        /\ ValidPhase(s)
        /\ ValidRecovery(s)

\* commit_state: the prepared state replaces the run's, unless it is invalid.
Commit(op, next) ==
    IF Valid(next)
    THEN run' = next /\ UNCHANGED rejected
    ELSE rejected' = rejected \union {op} /\ UNCHANGED run

-----------------------------------------------------------------------------
(***************************************************************************)
(* Plan adoption and authorization.                                        *)
(***************************************************************************)
Grant(mode) ==
    [required |-> mode = "approval-required", granted |-> mode = "auto-after-freeze",
     expiry |-> "none"]

\* _copy_accepted_runtime: what a preserved task keeps of its accepted attempt.
Preserved(t) ==
    [NewTask(t) EXCEPT !.status = Status(t), !.attempt = run.tasks[t].attempt,
                       !.start = run.tasks[t].start, !.history = run.tasks[t].history,
                       !.result = run.tasks[t].result]

\* Mutant: the plan the run has already adopted may be adopted again with a reset.
AdoptableAgain(plan, reset) ==
    /\ run.phase \notin TerminalPhases
    /\ With(Statuses \ {"PENDING", "READY"}) # {} => reset
    /\ plan >= run.plan

\* _require_adoptable and _require_revision_upgrade.
Adoptable(plan, reset) ==
    /\ run.phase \notin TerminalPhases
    /\ With(Statuses \ {"PENDING", "READY"}) # {} => reset
    /\ (\E t \in Tasks : run.tasks[t].attempt > 0) => reset
    /\ plan >= run.plan
    /\ reset => plan # run.plan

AdoptedPhase(mode) ==
    CASE mode = "plan-only"         -> "PLAN_ONLY"
      [] mode = "auto-after-freeze" -> "READY"
      [] mode = "approval-required" -> "AWAITING_AUTHORIZATION"

\* "kept" are the accepted tasks whose contracts the new plan leaves compatible,
\* "drift" those whose immutable input policy it changes.
AdoptPlan(plan, mode, reset, kept, drift) ==
    /\ Adoptable(plan, reset)
    /\ kept \union drift \subseteq With({"ACCEPTED"})
    /\ kept \intersect drift = {}
    /\ kept \union drift # {} => reset
    /\ LET unresolved == run.drift \union drift
       IN  Commit("adopt-plan",
               [run EXCEPT !.plan = plan, !.startMode = mode,
                   !.authorization = Grant(mode),
                   !.tasks = Unlocked([t \in Tasks |->
                                 IF t \in kept THEN Preserved(t) ELSE NewTask(t)]),
                   !.drift = unresolved,
                   !.phase = IF unresolved = {} THEN AdoptedPhase(mode) ELSE "BLOCKED",
                   !.blocker = IF unresolved = {} THEN NoBlocker ELSE DriftBlocker])
    /\ UNCHANGED <<outputs, launched>>

AuthorizeExecution ==
    /\ run.phase = "AWAITING_AUTHORIZATION"
    /\ run.startMode # "plan-only"
    /\ run.authorization.required
    /\ Commit("authorize",
           [run EXCEPT !.phase = "READY",
               !.authorization = [required |-> FALSE, granted |-> TRUE, expiry |-> "ahead"]])
    /\ UNCHANGED <<outputs, launched>>

\* The clock passes the expiresAt of the consumed receipt.
AuthorizationExpires ==
    /\ run.authorization.expiry = "ahead"
    /\ run' = [run EXCEPT !.authorization.expiry = "past"]
    /\ UNCHANGED <<outputs, launched, rejected>>

Renewable ==
    /\ Current
    /\ run.startMode # "plan-only"
    /\ run.blocker = NoBlocker
    /\ With({"BLOCKED"}) = {}
    /\ \/ run.phase = "RUNNING" /\ With({"VERIFYING"}) # {}
       \/ run.phase = "FINAL_AUDIT" /\ AllAccepted(run.tasks)
    /\ run.authorization.granted
    /\ ~run.authorization.required
    /\ run.authorization.expiry # "none"

RenewAuthorization ==
    /\ Renewable
    /\ Commit("authorization-renew", [run EXCEPT !.authorization.expiry = "ahead"])
    /\ UNCHANGED <<outputs, launched>>

StartExecution ==
    /\ run.startMode # "plan-only"
    /\ run.phase = "READY"
    /\ Authorized
    /\ Commit("start-execution",
           [run EXCEPT !.phase = IF Required # {} /\ AllAccepted(run.tasks)
                                 THEN "FINAL_AUDIT" ELSE "RUNNING"])
    /\ UNCHANGED <<outputs, launched>>

-----------------------------------------------------------------------------
(***************************************************************************)
(* The attempts of a task.                                                 *)
(***************************************************************************)
Occupied == With({"RUNNING", "VERIFYING"})

\* A start takes back the route that an earlier one has lent, and lends another if
\* it comes with a risk profile or an execution strategy.
RoutedAtStart(task, lent) == lent \/ (task.routed /\ ~task.lent)

\* _mark_task_running.
Attempted(task, attempt, lent) ==
    [task EXCEPT !.attempt = attempt, !.status = "RUNNING", !.result = NoPlan,
                 !.start = IF @ # 0 THEN @
                           ELSE IF task.history # <<>> THEN task.history[1].attempt
                           ELSE attempt,
                 !.routed = RoutedAtStart(task, lent), !.lent = lent,
                 !.attemptRouted = RoutedAtStart(task, lent)]

\* Mutant: dependencies are looked at only when the task is unlocked.
StartableOutOfOrder(t) ==
    /\ Status(t) \in {"READY", "REWORK"}
    /\ Cardinality(Occupied) < MaxParallelTasks
    /\ HistoryValid(run.tasks[t])
    /\ FreeAttempts(t) # {}

\* Mutant: a rework does not count against maxParallelTasks.
StartableUncapped(t) ==
    /\ Status(t) \in {"READY", "REWORK"}
    /\ \A d \in DependsOn[t] : Status(d) = "ACCEPTED"
    /\ Status(t) = "READY" => Cardinality(Occupied) < MaxParallelTasks
    /\ HistoryValid(run.tasks[t])
    /\ FreeAttempts(t) # {}

Startable(t) ==
    /\ Status(t) \in {"READY", "REWORK"}
    /\ \A d \in DependsOn[t] : Status(d) = "ACCEPTED"
    /\ Cardinality(Occupied) < MaxParallelTasks
    /\ HistoryValid(run.tasks[t])
    /\ FreeAttempts(t) # {}

StartTask(t, lent) ==
    /\ Authorized
    /\ run.plan # NoPlan    \* an unbound run has no tasks
    /\ run.phase \in {"RUNNING", "REMEDIATING"}
    /\ Startable(t)
    /\ lent => t \in Profiled
    /\ LET attempt == Min(FreeAttempts(t))
           next == [run EXCEPT !.tasks[t] = Attempted(@, attempt, lent), !.phase = "RUNNING"]
       IN  /\ Commit("task-start", next)
           /\ launched' = IF Valid(next)
                          THEN launched \union
                               {[task |-> t, attempt |-> attempt, plan |-> run.plan]}
                          ELSE launched
    /\ UNCHANGED outputs

\* The worker of an attempt writes its result once, whatever has become of the
\* attempt in the meantime.  It creates the file, as the authoring commands of this
\* repository do (create_artifact), and leaves one alone that is there; nothing in
\* the workflow makes a worker that writes by other means do so.
WriteResult(w) ==
    /\ w \in launched
    /\ launched' = launched \ {w}
    /\ outputs' = [outputs EXCEPT ![w.task][w.attempt] =
                                     IF @ = NoPlan THEN w.plan ELSE @]
    /\ UNCHANGED <<run, rejected>>

\* Mutant: any file at the attempt's result path is taken for its result.
AnyResult(t) == outputs[t][run.tasks[t].attempt] # NoPlan

\* validate_task_result: the file at the attempt's result path names the plan.
OwnResult(t) == outputs[t][run.tasks[t].attempt] = run.plan

CommitTaskResult(t) ==
    LET task == run.tasks[t] IN
    /\ Authorized
    /\ run.phase = "RUNNING"
    /\ task.status = "RUNNING"
    /\ HistoryValid(task)
    /\ OwnResult(t)
    /\ Commit("task-result",
           [run EXCEPT !.tasks[t].status = "VERIFYING", !.tasks[t].result = run.plan,
                       !.phase = ReviewPhase])
    /\ UNCHANGED <<outputs, launched>>

\* Mutant: the legacy rule decides in every schema.
PhaseWhenNothingReady(tasks) ==
    IF \A t \in Tasks : tasks[t].status # "READY" THEN "FINAL_AUDIT" ELSE "RUNNING"

\* The phase after an acceptance left the tasks as given.
PhaseAfterAcceptance(tasks) ==
    IF IF Current
       THEN /\ Required # {} /\ AllAccepted(tasks)
            /\ \A t \in Tasks : tasks[t].status \notin {"RUNNING", "VERIFYING"}
       ELSE \A t \in Tasks : tasks[t].status = "READY" =>
                \E d \in DependsOn[t] : tasks[d].status # "ACCEPTED"
    THEN "FINAL_AUDIT"
    ELSE "RUNNING"

AcceptTask(t) ==
    LET task  == run.tasks[t]
        tasks == Unlocked([run.tasks EXCEPT ![t].status = "ACCEPTED"])
    IN
    /\ Authorized
    /\ run.phase = ReviewPhase
    /\ task.status = "VERIFYING"
    /\ HistoryValid(task)
    /\ outputs[t][task.attempt] = task.result   \* _read_committed_result
    /\ Commit("task-accept",
           [run EXCEPT !.tasks = tasks, !.phase = PhaseAfterAcceptance(tasks)])
    /\ UNCHANGED <<outputs, launched>>

ReworkTask(t) ==
    LET task == run.tasks[t] IN
    /\ Authorized
    /\ run.phase = ReviewPhase
    /\ task.status = "VERIFYING"
    /\ RemediationEnabled /\ MaxTaskAttempts >= 2
    /\ task.attempt < MaxTaskAttempts
    /\ Current \/ Occupied = {t}
    /\ HistoryValid(task)
    /\ outputs[t][task.attempt] = task.result
    /\ Commit("task-rework",
           [run EXCEPT !.tasks[t] = Archived(@),
                       !.phase = IF Current THEN @ ELSE "REMEDIATING"])
    /\ UNCHANGED <<outputs, launched>>

\* apply_task_review_outcome with the two verdicts it applies itself.  The
\* reviewer names the route of the task's blocker.
ApplyTaskReviewOutcome(t, verdict, route) ==
    /\ Authorized
    /\ Status(t) = "VERIFYING"
    /\ run.phase = ReviewPhase
    /\ outputs[t][run.tasks[t].attempt] = run.tasks[t].result
    /\ Commit("task-review-apply",
           [run EXCEPT !.tasks[t].status = verdict,
                       !.tasks[t].blocker = IF verdict = "BLOCKED" THEN route ELSE @])
    /\ UNCHANGED <<outputs, launched>>

-----------------------------------------------------------------------------
(***************************************************************************)
(* Interruptions of the run.                                               *)
(***************************************************************************)
\* Mutant: the review of a task is interrupted like the review of the final audit.
BlockRunAsAudit(subject) ==
    /\ Authorized
    /\ run.phase \notin TerminalPhases \union {"BLOCKED"}
    /\ subject # NoTask => Current /\ Status(subject) = "VERIFYING"
    /\ Commit("block",
           [run EXCEPT !.phase = "BLOCKED",
                       !.blocker = RunBlocker(IF subject # NoTask THEN "FINAL_AUDIT"
                                              ELSE run.phase, subject)])
    /\ UNCHANGED <<outputs, launched>>

\* "subject" is the task whose review was interrupted, NoTask for any other
\* reason to block.
BlockRun(subject) ==
    /\ Authorized
    /\ run.phase \notin TerminalPhases \union {"BLOCKED"}
    /\ subject # NoTask => Current /\ Status(subject) = "VERIFYING"
    /\ Commit("block",
           [run EXCEPT !.phase = "BLOCKED", !.blocker = RunBlocker(run.phase, subject)])
    /\ UNCHANGED <<outputs, launched>>

ResolveBlocker ==
    /\ Authorized
    /\ run.phase = "BLOCKED"
    /\ run.blocker # NoBlocker
    /\ \/ run.blocker.scope = "legacy"
       \/ run.blocker.scope = "run" /\ run.blocker.route = "resolve-run"
    /\ run.blocker.task \in Tasks => Status(run.blocker.task) = "VERIFYING"
    /\ run.blocker.resume \notin TerminalPhases
    /\ Commit("resolve-blocker",
           [run EXCEPT !.phase = run.blocker.resume, !.blocker = NoBlocker])
    /\ UNCHANGED <<outputs, launched>>

PauseForExternalAction ==
    /\ Authorized
    /\ run.phase \in ExternalActionPhases
    /\ Commit("external-pause",
           [run EXCEPT !.phase = "WAITING_FOR_EXTERNAL_ACTION", !.external = run.phase])
    /\ UNCHANGED <<outputs, launched>>

\* Mutant: the blocker of the final audit survives the resumption.
ResumeStillBlocked ==
    /\ Authorized
    /\ run.phase = "WAITING_FOR_EXTERNAL_ACTION"
    /\ run.external \in ExternalActionPhases
    /\ Commit("external-resume",
           [run EXCEPT !.phase = run.external, !.external = "none"])
    /\ UNCHANGED <<outputs, launched>>

ResumeExternalAction ==
    /\ Authorized
    /\ run.phase = "WAITING_FOR_EXTERNAL_ACTION"
    /\ run.external \in ExternalActionPhases
    /\ Commit("external-resume",
           [run EXCEPT !.phase = run.external, !.external = "none",
                       !.blocker = IF @.scope = "external" THEN NoBlocker ELSE @])
    /\ UNCHANGED <<outputs, launched>>

\* The usage receipt of the attempt fails a budget guard.
PauseForBudgetDecision(t) ==
    /\ Authorized
    /\ run.phase = "RUNNING"
    /\ Status(t) = "RUNNING"
    /\ run.tasks[t].attemptRouted
    /\ Commit("budget-pause",
           [run EXCEPT !.tasks[t].status = "WAITING_FOR_BUDGET_DECISION",
                       !.tasks[t].blocker = "budget-decision",
                       !.phase = "WAITING_FOR_BUDGET_DECISION",
                       !.blocker = TaskBlocker(t, "budget-decision")])
    /\ UNCHANGED <<outputs, launched>>

\* The decision receipt must name the current state revision; every commit
\* between the pause and the decision also replaces the blocker.
DecidableBudget(t) ==
    /\ Authorized
    /\ run.phase = "WAITING_FOR_BUDGET_DECISION"
    /\ Status(t) = "WAITING_FOR_BUDGET_DECISION"
    /\ run.blocker = TaskBlocker(t, "budget-decision")

\* Mutant: only the run leaves the wait.
ContinueRunOnly(t) ==
    /\ DecidableBudget(t)
    /\ Commit("budget-decision",
           [run EXCEPT !.phase = "RUNNING", !.blocker = NoBlocker])
    /\ UNCHANGED <<outputs, launched>>

BudgetContinue(t) ==
    /\ DecidableBudget(t)
    /\ Commit("budget-decision",
           [run EXCEPT !.tasks[t].status = "RUNNING", !.tasks[t].blocker = "none",
                       !.phase = "RUNNING", !.blocker = NoBlocker])
    /\ UNCHANGED <<outputs, launched>>

BudgetReroute(t) ==
    /\ DecidableBudget(t)
    /\ Commit("budget-decision",
           [run EXCEPT !.tasks[t] = [@ EXCEPT !.status = "READY", !.blocker = "none",
                                            !.routed = TRUE, !.lent = FALSE,
                                            !.attemptRouted = FALSE],
                       !.phase = "RUNNING", !.blocker = NoBlocker])
    /\ UNCHANGED <<outputs, launched>>

\* Mutant: the task takes over the phase of the run.
StopWithPhase(t, route) ==
    LET phase == IF route = "replan-task" THEN "BLOCKED" ELSE "CANCELLED" IN
    /\ DecidableBudget(t)
    /\ Commit("budget-decision",
           [run EXCEPT !.tasks[t].status = phase, !.tasks[t].blocker = route,
                       !.blocker = TaskBlocker(t, route), !.phase = phase])
    /\ UNCHANGED <<outputs, launched>>

\* Split the task, which waits for a new plan, or abort the run.
BudgetStop(t, route) ==
    /\ DecidableBudget(t)
    /\ Commit("budget-decision",
           [run EXCEPT !.tasks[t].status = "BLOCKED", !.tasks[t].blocker = route,
                       !.blocker = TaskBlocker(t, route),
                       !.phase = IF route = "replan-task" THEN "BLOCKED" ELSE "CANCELLED"])
    /\ UNCHANGED <<outputs, launched>>

-----------------------------------------------------------------------------
(***************************************************************************)
(* The final audit.                                                        *)
(***************************************************************************)
Audited(verdict) == [verdict |-> verdict, plan |-> run.plan]

FinalAuditAccepted ==
    /\ Authorized
    /\ run.phase = "FINAL_AUDIT"
    /\ Commit("final-audit-outcome", [run EXCEPT !.outcome = Audited("ACCEPTED")])
    /\ UNCHANGED <<outputs, launched>>

\* Mutant: the audit looks at the status only.
ReopenableUnchecked(t) == Status(t) = "ACCEPTED"

Reopenable(t) ==
    Status(t) = "ACCEPTED" /\ HistoryValid(run.tasks[t]) /\ FreeAttempts(t) # {}

FinalAuditRework(reopened) ==
    /\ Authorized
    /\ run.phase = "FINAL_AUDIT"
    /\ reopened # {}
    /\ \A t \in reopened : Reopenable(t)
    /\ Commit("final-audit-outcome",
           [run EXCEPT !.tasks = [t \in Tasks |-> IF t \in reopened
                                    THEN [Archived(@[t]) EXCEPT !.blocker = "none"]
                                    ELSE @[t]],
                       !.phase = IF Current THEN "RUNNING" ELSE "REMEDIATING",
                       !.blocker = NoBlocker, !.outcome = Audited("REWORK")])
    /\ UNCHANGED <<outputs, launched>>

FinalAuditContractChange ==
    /\ Authorized
    /\ run.phase = "FINAL_AUDIT"
    /\ Commit("final-audit-outcome",
           [run EXCEPT !.phase = "BLOCKED", !.outcome = Audited("CONTRACT_CHANGE"),
               !.blocker = [NoBlocker EXCEPT !.scope = "plan", !.route = "adopt-plan"]])
    /\ UNCHANGED <<outputs, launched>>

\* The audit names the external action and the phase to resume after it.
FinalAuditBlocked(resume) ==
    /\ Authorized
    /\ run.phase = "FINAL_AUDIT"
    /\ Commit("final-audit-outcome",
           [run EXCEPT !.phase = "WAITING_FOR_EXTERNAL_ACTION", !.external = resume,
               !.outcome = Audited("BLOCKED"),
               !.blocker = [NoBlocker EXCEPT !.scope = "external",
                                             !.route = "external-action"]])
    /\ UNCHANGED <<outputs, launched>>

\* Mutant: the audit file is enough, its outcome need not be applied.
FinalizeUnaudited ==
    /\ Authorized
    /\ run.phase = "FINAL_AUDIT"
    /\ AllAccepted(run.tasks)
    /\ Commit("finalize", [run EXCEPT !.phase = "COMPLETE"])
    /\ UNCHANGED <<outputs, launched>>

FinalizeRun ==
    /\ Authorized
    /\ run.phase = "FINAL_AUDIT"
    /\ run.outcome.verdict \in {"ACCEPTED"} \union (IF Current THEN {} ELSE {"none"})
    /\ AllAccepted(run.tasks)
    /\ Commit("finalize", [run EXCEPT !.phase = "COMPLETE"])
    /\ UNCHANGED <<outputs, launched>>

-----------------------------------------------------------------------------
\* What the agents do when nothing goes wrong.
Review(t) == AcceptTask(t) \/ ReworkTask(t)

Work ==
    \/ AuthorizeExecution
    \/ RenewAuthorization
    \/ StartExecution
    \/ \E t \in Tasks, lent \in BOOLEAN : StartTask(t, lent)
    \/ \E t \in Tasks : CommitTaskResult(t) \/ Review(t)
    \/ \E w \in launched : WriteResult(w)
    \/ ResolveBlocker
    \/ ResumeExternalAction
    \/ \E t \in Tasks : BudgetContinue(t) \/ BudgetReroute(t)
    \/ FinalAuditAccepted
    \/ FinalizeRun

Interruption ==
    \/ \E plan \in Plans, mode \in StartModes, reset \in BOOLEAN,
          kept, drift \in SUBSET Tasks : AdoptPlan(plan, mode, reset, kept, drift)
    \/ AuthorizationExpires
    \/ \E t \in Tasks, verdict \in {"CONTRACT_CHANGE", "BLOCKED"}, route \in TaskRoutes :
          ApplyTaskReviewOutcome(t, verdict, route)
    \/ \E subject \in Tasks \union {NoTask} : BlockRun(subject)
    \/ PauseForExternalAction
    \/ \E t \in Tasks : PauseForBudgetDecision(t)
    \/ \E t \in Tasks, route \in {"replan-task", "cancel-run"} : BudgetStop(t, route)
    \/ \E reopened \in SUBSET Tasks : FinalAuditRework(reopened)
    \/ FinalAuditContractChange
    \/ \E resume \in Resumable : FinalAuditBlocked(resume)

Next == Work \/ Interruption

Spec == Init /\ [][Next]_vars

-----------------------------------------------------------------------------
(***************************************************************************)
(* Properties.                                                             *)
(***************************************************************************)
Task ==
    [status : Statuses, attempt : 0..MaxTaskAttempts, start : 0..MaxTaskAttempts,
     history : Seq([attempt : Attempts, plan : Plans]),
     blocker : TaskRoutes \union {"none"}, result : Plans \union {NoPlan},
     routed : BOOLEAN, lent : BOOLEAN, attemptRouted : BOOLEAN]
Blocker ==
    [scope : {"none", "legacy", "run", "task", "plan", "external"},
     route : TaskRoutes \union {"none", "resolve-run", "adopt-plan", "external-action"},
     resume : RunPhases \union LegacyPhases \union {"none"}, task : Tasks \union {NoTask}]
Authorization ==
    [required : BOOLEAN, granted : BOOLEAN, expiry : {"none", "ahead", "past"}]
Run ==
    [phase : RunPhases \union LegacyPhases, plan : Plans \union {NoPlan},
     startMode : StartModes, tasks : [Tasks -> Task], authorization : Authorization,
     blocker : Blocker, external : Resumable \union {"none"},
     outcome : [verdict : Verdicts \union {"none"}, plan : Plans \union {NoPlan}],
     drift : SUBSET Tasks]
Operations == {"adopt-plan", "authorize", "authorization-renew", "start-execution",
               "task-start", "task-result", "task-accept", "task-rework",
               "task-review-apply", "block", "resolve-blocker", "external-pause",
               "external-resume", "budget-pause", "budget-decision",
               "final-audit-outcome", "finalize"}

\* The state file, the result files and the workers keep their shape; attempt
\* numbers stay within the plan's budget (next_available_attempt) and only
\* attempts of an adopted plan are launched.
TypeOK ==
    /\ run \in Run
    /\ outputs \in [Tasks -> [Attempts -> Plans \union {NoPlan}]]
    /\ launched \subseteq [task : Tasks, attempt : Attempts, plan : Plans]
    /\ rejected \subseteq Operations

\* The phase the run is in, or returns to once what interrupts it is resolved.
ReturnsTo ==
    LET phase == IF run.phase = "BLOCKED" THEN run.blocker.resume ELSE run.phase
    IN  IF phase = "WAITING_FOR_EXTERNAL_ACTION" THEN run.external ELSE phase

\* Whatever interrupts a run on its way through the final audit, the run comes
\* back to it with every required task accepted and no attempt in flight
\* (_mark_task_accepted, block_run, pause_for_external_action and their inverses).
FinalAuditIsSettled ==
    Current /\ ReturnsTo = "FINAL_AUDIT" => AllAccepted(run.tasks) /\ Occupied = {}

\* A complete run has every required task accepted and, under the current schemas,
\* no attempt in flight and an accepted final-audit outcome (finalize_run).
CompleteIsAudited ==
    run.phase = "COMPLETE" =>
        /\ AllAccepted(run.tasks)
        /\ Current => Occupied = {} /\ run.outcome.verdict = "ACCEPTED"

\* A task waits for a budget decision exactly while the run does, or while the run
\* returns to that wait: neither is left behind by a block, a resolution or the
\* decision itself (pause_for_budget_decision, _apply_action, block_run).
BudgetWaitIsShared ==
    (With({"WAITING_FOR_BUDGET_DECISION"}) # {})
        <=> (ReturnsTo = "WAITING_FOR_BUDGET_DECISION")

\* While a task is worked on or reviewed nothing takes away the acceptance of a
\* task it depends on, although the final audit and a new plan can reopen
\* accepted tasks (start_task, _apply_final_audit_rework, adopt_plan).
DependenciesHold ==
    Current => \A t \in Occupied : \A d \in DependsOn[t] : Status(d) = "ACCEPTED"

\* No sequence of reworks, reroutes, pauses and adoptions puts more attempts to
\* work at once than the plan's maxParallelTasks (_require_parallel_capacity
\* looks only when a task starts).
ParallelCapHolds == Cardinality(Occupied) <= MaxParallelTasks

\* The result behind a review or an acceptance is the file that its attempt's own
\* worker wrote: for the current plan when it is under review, for the plan it was
\* accepted under ever after (commit_task_result, _preserve_accepted_tasks); a late
\* worker of a superseded plan never stands in for it.
EvidenceIsOwn ==
    \A t \in With({"VERIFYING", "ACCEPTED"}) :
        LET task == run.tasks[t] IN
        /\ task.attempt \in Attempts
        /\ task.result # NoPlan
        /\ outputs[t][task.attempt] = task.result
        /\ task.status = "VERIFYING" => task.result = run.plan

\* No sequence of reworks, final audits and adoptions leaves a task that is still to
\* be attempted, or is being attempted, with a history the code refuses to read: such
\* a task could never be started, committed or accepted again (_mark_task_running sets
\* attemptHistoryStart, validate_attempt_history demands consecutive attempts).
HistoryStaysValid ==
    Current => \A t \in With({"READY", "RUNNING", "VERIFYING", "REWORK"}) :
                  HistoryValid(run.tasks[t])

\* A run that can go on carries no blocker: no route leaves a stale one behind
\* (it would stop authorization renewal for good).
BlockerFitsPhase ==
    Current /\ run.blocker # NoBlocker =>
        run.phase \in {"BLOCKED", "WAITING_FOR_EXTERNAL_ACTION"}

\* A run adopted plan-only never has an attempt in flight and never leaves its
\* phase except through another adoption (start_execution, authorize_execution).
PlanOnlyNeverExecutes ==
    run.startMode = "plan-only" =>
        Occupied = {} /\ run.phase \in {"PLAN_ONLY", "BLOCKED"}

\* The state an operation prepares passes the validator at commit, so that no
\* guard of the handlers promises what commit_state then refuses.  The exceptions:
\* an adoption that detects drift, an external action for which the audit named a
\* legacy phase, and with a model route acceptance and the budget pause.
HandlersAgreeWithValidator ==
    rejected \subseteq {"adopt-plan", "external-resume"}
                       \union (IF Routed \union Profiled = {} THEN {}
                               ELSE {"task-accept", "budget-pause"})

\* Nothing but the clock changes a run that is complete or cancelled (block_run,
\* adopt_plan and every phase guard).
TerminalIsFinal ==
    [][run.phase \in TerminalPhases =>
          /\ run'.phase = run.phase /\ run'.tasks = run.tasks
          /\ run'.plan = run.plan /\ run'.outcome = run.outcome]_vars

\* Acceptance is withdrawn only by the final audit or by a plan of another digest
\* (_require_revision_upgrade); an older plan never comes back.
AcceptedIsKept ==
    [][/\ run'.plan >= run.plan
       /\ run'.plan # run.plan
          \/ \A t \in With({"ACCEPTED"}) :
                run'.tasks[t].status = "ACCEPTED" \/ run.phase = "FINAL_AUDIT"]_vars

\* The states in which the run waits for its operator to adopt another plan.
NeedsOperator ==
    \/ run.plan = NoPlan
    \/ ~Authorized /\ run.phase # "AWAITING_AUTHORIZATION" /\ ~Renewable
    \/ run.phase = "BLOCKED" /\ run.blocker.scope # "run"
    \/ run.phase = "WAITING_FOR_EXTERNAL_ACTION"
       /\ run.external \notin {"RUNNING", "FINAL_AUDIT"}
    \/ run.phase = "RUNNING" /\ AllAccepted(run.tasks)
    \/ With({"CONTRACT_CHANGE", "BLOCKED"}) # {}
    \/ \E t \in With({"READY", "REWORK"}) : FreeAttempts(t) = {}
    \/ \E t \in With({"RUNNING"}) :
          outputs[t][run.tasks[t].attempt] \notin {NoPlan, run.plan}

\* Once nothing interrupts the run any more and its agents keep working, it ends, or
\* it waits for its operator in one of the states above: no order of reworks, blocks,
\* pauses, expiries and adoptions leaves it waiting for itself (unlock_ready_tasks,
\* _mark_task_accepted, resolve_blocker, renew_authorization).
FairSpec == Spec /\ WF_vars(Work)
EndsOrNeedsOperator ==
    <>[][Work]_vars => <>[](run.phase \in TerminalPhases \/ NeedsOperator)

(***************************************************************************)
(* What a document or a test of the repository says and the code does not  *)
(* do: each is violated, see the findings in README.md.                    *)
(***************************************************************************)
\* Of a task with a model route the documents say that its budget pause moves the
\* run to WAITING_FOR_BUDGET_DECISION (pause_for_budget_decision) and that it can be
\* accepted (accept_task).  The validator does not refuse both: a behaviour that
\* violates this shows each of them refused.
RoutedOperationTakesEffect ==
    "budget-pause" \notin rejected \/ "task-accept" \notin rejected

\* The final audit can reopen every accepted task that has an attempt left within
\* the retry budget (_apply_final_audit_rework).
AuditCanReopen ==
    run.phase = "FINAL_AUDIT" =>
        \A t \in With({"ACCEPTED"}) : FreeAttempts(t) # {} => Reopenable(t)

-----------------------------------------------------------------------------
\* The run implements RunPromise.
stage == CASE run.phase = "COMPLETE" -> "complete"
           [] run.phase = "CANCELLED" -> "cancelled"
           [] ReturnsTo = "FINAL_AUDIT" -> "auditing"
           [] OTHER -> "working"
Abstract == INSTANCE RunPromise WITH
                stage <- stage,
                accepted <- With({"ACCEPTED"}) \intersect Required,
                approved <- run.outcome.verdict = "ACCEPTED"

\* Every run is a behaviour of RunPromise: interruptions, attempts and blockers are
\* invisible there.
ImplementsPromise == Abstract!Promise
=============================================================================
