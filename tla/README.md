# Agent Lifecycle Kit: TLA+ verification

The Agent Lifecycle Kit (ALK) is a local, file-based controller for coding-agent
work. A *run* executes a frozen plan: its tasks are started, submit results, are
reviewed, accepted or sent back, and a final audit and a proof close the run.
Everything a run knows is in one JSON state file, an append-only event journal
and immutable evidence files beside them. There is no server: every operation is
a short-lived process, so all concurrency is between processes that share files.

Source paths below are relative to `src/src/agent_lifecycle/`, documents to
`src/`.

1. [The system](#1-the-system)
2. [Modules](#2-modules)
3. [How the models correspond to the code](#3-how-the-models-correspond-to-the-code)
4. [What is model-checked](#4-what-is-model-checked)
5. [What is proved](#5-what-is-proved)
6. [Where the code and its documents disagree](#6-where-the-code-and-its-documents-disagree)
7. [What is not modelled](#7-what-is-not-modelled)
8. [Plan](#8-plan)

## 1. The system

### Components that keep state

| Component | State it keeps | Operations | What is hard | What makes it correct |
|---|---|---|---|---|
| **Mutation kernel** `workflow/operation_kernel.py`, `events.py`, `state.py`, `transactions.py`, `contracts/process_lock.py`, `authority_io.py`, `persistence.py` | state file, event journal, create-only artifacts, lock file | lock, load and admit, prepare, persist artifacts, persist checkpoint, append event, replace state | several processes on one revision; a kill between any two writes; a torn last line; retries of an operation id whose answer was lost | one history, each operation once, state at most one event behind, no fork after a crash, truthful answers |
| **Checkpoint store** `context/checkpoint_store.py`, `workflow/checkpoint_gate.py` | a bounded directory of checkpoint files | write once, retain the latest, restore | the limit; clock with second resolution that may step back; crash between write and event | nothing newer is deleted to keep something older |
| **Workflow run** `workflow/task_*.py`, `run_transitions.py`, `plan_adoption.py`, `budget_decisions.py`, `finalization.py`, `contracts/workflow_state_schemas.py` | phase, plan, authorization, tasks with attempts and history, blocker, external wait, audit outcome | some 20 operations, from `init` to `finalize` | long legal sequences: rework after adoption after expiry; late workers; a phase hidden by a block; two tasks in one budget wait | acceptance and its evidence are never lost or forged; the audit sees settled work; no attempt limit, cap or dependency is bypassed; no dead end without an operator's decision |
| **Storage v5 graph** `contracts/workflow_storage*.py`, `workflow/storage.py` | content-addressed history objects behind the state file | write objects, read history, snapshot | objects first, state last, crash in between | a state never refers to a missing object |
| **Continuation and its batch** `workflow/continuation.py`, `continuation_batch.py`, `next_action.py` | progress receipts of a batch of transitions | project the next action, apply a batch, retry it | kill after a transition and before its receipt | a retry never applies a transition twice |
| **Write admission queue** `accounting/workflow_store.py` | guard file, ticket files with advisory locks | enqueue, wait, admit, clean up | dead writers, deadlines, 64 slots, fork | first come first served, one writer, no live ticket removed |
| **Accounting journal** `accounting/journal.py`, `financial_transactions.py`, `contracts.py`, `normalization.py`, `opening_balances.py` | per budget scope: caps, reservations, claims, settlements, gate, hash-chained events in SQLite | open, reserve, claim, dispatch, settle, cancel, report unavailable | lost answers after COMMIT; settlement above the bound; conflicting bindings | spent and reserved tokens stay below every cap; one dispatch per reservation |
| **Accounting retention and authority** `accounting/closing_resource*.py`, `workflow_authority_store.py`, `workflow_state_store.py`, `host_bridge.py` | closures, archives, cleanup receipts, authority rows | close, archive, clean up, replay deltas | cleanup of what is still needed | closed scopes take no charges; archive before delete |
| **Declared ledgers** `accounting/declared_ledger*.py` | coordinator cost head and claim file | publish the next head | two coordinators, crash with a claim held | a linear chain of heads |
| **External tool jobs** `adapter_sessions/external_jobs.py` | attempt directories with status 0, 1, 2, result, cancel request, completion marker | start, cancel, run, settle, recover | cancellation racing completion; crash between terminal status and result; children | one outcome per attempt; an attempt is never resumed or replaced before it settled |
| **Attempt authority** `adapter_sessions/attempt_authority.py` | create-only reservation, dispatch, pending and result files | reserve, claim, publish, read | crash or power loss anywhere between the links | started once; uncertain is never read as passed; an answered outcome is not lost |
| **Process boundary** `adapter_sessions/process*.py`, `managed_process.py` | child process groups, capture buffers | start, time out, cancel, kill the group | a survivor in the group; output limits | every child ends or is reported |
| **Model input staging** `adapter_sessions/input_lifecycle.py`, `private_input.py` | staged private files, intents, receipts and sticky markers | stage, reconcile, seal, prepare, unwind, clean up | launches that take no lock and list directories one by one; a step that fails behind one that took effect | none beside a launch that was sealed when it began, none over a start that failed or is uncertain; nothing foreign is removed |

### Components without a state of their own

Gates and policies of a transition (`workflow/*gate*.py`, `closing_window.py`,
`deadline_guards.py`, `sandbox_policy.py`, `reviews.py`, ...), leases, session
start, review mesh, host protocol, contracts, planning and compiler, model
routing, quality, audits, reporting, imports, migration, worktree receipts and
the command line read documents and either refuse or produce a receipt. They are
deterministic functions; PROJECT.json lists each with the reason it has no
module. The one exception is the validator of stored workflow states
(`contracts/workflow_state_schemas.py`), which decides whether a commit happens:
it is the operator `Valid` of `WorkflowRun`.

### How they interact

- Every workflow operation goes through the kernel: `load_for_update` under the
  run's file lock, then the operation's own rules in memory, then `commit_state`,
  which validates the prepared state, writes artifacts and checkpoint, appends one
  event and replaces the state file.
- Workers are host processes that the run does not control. A started attempt has
  a path for its result file; the worker writes there whenever it finishes, and
  `task-result` later reads that file.
- The checkpoint gate runs inside a commit, between artifacts and event.
- Accounting, external jobs and the attempt authority have files and locks of
  their own; a workflow operation only sees receipts they leave behind.
- Prompt launches of one installation take no common lock. What they know of each
  other is what each finds when it lists the requests of all of them.

The hazards this raises are listed in PROJECT.json, each at its line, with the
properties that cover it or the reason none does yet.

## 2. Modules

| Module | What it is |
|---|---|
| `OperationHistory` | what the kernel promises, abstractly: one append-only history of distinct operations, which an interrupted commit may seal |
| `CheckpointStore` | the bounded checkpoint directory: when it is over its bound and what `_retain_latest` unlinks next |
| `WorkflowKernel` | processes, lock, journal, state file, artifacts and checkpoints, one action per file write; implements `OperationHistory` |
| `WorkflowKernelProofs` | invariants, retention and refinement of the kernel, proved |
| `RunPromise` | what a run promises its operator: stage, accepted tasks, approval |
| `WorkflowRun` | the run's state machine, one action per operation; implements `RunPromise` |
| `MCWorkflowRun` | the dependency graphs the runs use |
| `WorkflowRunProofs` | the types, the stored states and the action properties of the run, proved |
| `RunTaskProofs` | budget waits, the cap on parallel tasks, evidence and attempt histories, blockers, agreement with the validator, and the refinement of `RunPromise`, proved |
| `BundleProgress` | what bounded continuation promises: steps done at most once, receipts that claim only what was done and take nothing back |
| `ContinuationBatch` | batches that work through one input bundle beside rivals and operators, with their receipts and resumption; implements `BundleProgress` |
| `MCContinuationBatch` | the bundle and the caps of the run |
| `ContinuationBatchProofs` | invariants and refinement of the batches, proved |
| `BudgetJournal` | scopes, reservations and receipts of the accounting journal, and the controllers that admit paid effects through it |
| `MCBudgetJournal` | the operations, openings and caps the run uses |
| `BudgetJournalProofs` | invariants and action properties of the journal, its sums included, proved |
| `WaitingLine` | what the write-admission queue promises: a line in the order of its numbers, whose members may vanish |
| `WriteQueue` | ticket files, their advisory locks, the guard file, deadlines, deaths and forks; implements `WaitingLine` |
| `WriteQueueProofs` | invariants and refinement of the queue, proved |
| `JobTree` | what external jobs promise: attempts are opened and closed once, in the order of their children and retries |
| `ExternalJob` | runners of attempts, their files, children, cancellation and recovery; implements `JobTree` |
| `MCExternalJob` | the family of attempts the run uses |
| `ExternalJobProofs` | invariants and refinement of the jobs, proved |
| `PromptLaunch` | launchers of model calls: reconciliation, staged request, preparation, start and publication of the outcome, over directory entries that a power loss may undo |
| `PromptLaunchProofs` | invariants of the launches, proved |

`WorkflowKernel` extends `CheckpointStore` and instantiates `OperationHistory`.
The modules of a run are layered: the kernel shows that an operation from
`load_for_update` to `commit_state` is serialized, takes effect at most once and is
never half visible to another operation. On that ground `WorkflowRun`, which
instantiates `RunPromise`, makes each operation one step; and `ContinuationBatch`
takes its run from `OperationHistory` itself: the actions with which it commits are
`Record` and `Seal` of the specification that the kernel is proved to implement,
followed by a write of the state file of its own. `BudgetJournal`, `WriteQueue`,
`ExternalJob` and `PromptLaunch` stand beside them: each has files of its own, and a workflow operation
only sees receipts. `WriteQueue` is what surrounds each transaction of
`BudgetJournal`; that its writers take turns is why a transaction is one step there.

Operators marked *Mutant* in a module are defective variants of the definition
that follows them (a dropped guard, a missing reset, a wrong order). No
specification uses them; PROJECT.json names for each property the one that
breaks it, which shows that the property depends on the code being as it is.

## 3. How the models correspond to the code

### WorkflowKernel

| Variable | In the code |
|---|---|
| `state` | the state file: `stateRevision`, keys of `operationLedger`, `updatedAt` |
| `eventLog`, `torn` | the complete lines of the journal; whether an incomplete line follows |
| `artifacts` | which operation created the file at each caller-chosen path |
| `checkpoints` | the files of the run's checkpoint directory |
| `lock` | the process whose `flock` is held |
| `pc`, `call`, `prospective`, `answer` | a process's place in `commit_state`, its arguments, the next state in memory, what it returned |
| `interruptions` | kills and I/O failures so far, a bound only |

A call goes `Call`, `Lock` (or `LockTimeout`), `Prepare` (or `RefuseLoad`,
`RefusePrepare`), `PersistArtifact` (or `ArtifactExists`), `WriteCheckpoint` and
one `UnlinkOldest` for each file too many (or `CheckpointFails` before the write,
`RetentionFails` behind it), `AppendEvent`, `ReplaceState`, `Finish`. `Interrupt` can
strike at every one of these points and `TornAppend` inside the append. Loading,
the operation's own rules and the building of the next state change no file and
happen under the lock, so they are one step; each write and each unlink is a step of
its own. A kill or a failing unlink between them leaves more checkpoints than the
bound, which the next retention of the run has to cope with.
`AppendEvent` is the commit point: a kill after it and before `ReplaceState`
leaves a *split brain*, the journal one event ahead, which
`_require_no_split_brain` refuses from then on. The source has no operation that
repairs it (`docs/reference/workflow-state-storage.md:97` leaves it to the
operator), so in the model, too, the run is sealed.

Callers choose operation id, expected revision (any they may have seen) and
artifact path freely, which includes retries after a lost answer. The wall clock
may stand still or be set back. The digests and wording of documents are
abstracted; an artifact is identified by the operation that created it. The
objects of storage v5 and several artifacts of one call are create-only writes
before the event, like the one artifact of the model.

### WorkflowRun

| Variable | In the code |
|---|---|
| `run.phase`, `plan`, `startMode` | `phase`, the adopted plan revision, its start mode |
| `run.tasks[t]` | `status`, `attempt`, `attemptHistoryStart`, `attemptHistory`, `blocker`, the committed result, whether it has a `modelRoute`, has it from a risk profile or strategy, and has an `attemptModelRoute` |
| `run.authorization` | `executionAuthorization`; its expiry is *none*, *ahead* or *past* |
| `run.blocker`, `external` | the run's blocker (scope, route, resume phase, task) and the resume phase of an external wait |
| `run.outcome`, `drift` | the final audit outcome and unresolved input drift of accepted tasks |
| `outputs`, `launched` | which plan's worker wrote the file at each attempt's result path; workers still at it |
| `rejected` | operations whose prepared state the validator refused; a record for properties only |

| Actions | Code |
|---|---|
| `AdoptPlan` | `initialization.py`, `plan_adoption.py` |
| `AuthorizeExecution`, `RenewAuthorization`, `StartExecution`, `BlockRun`, `ResolveBlocker`, `PauseForExternalAction`, `ResumeExternalAction` | `run_transitions.py` |
| `StartTask` | `task_start.py` |
| `CommitTaskResult`, `AcceptTask`, `ReworkTask` | `task_transitions.py` |
| `ApplyTaskReviewOutcome` | `task_outcomes.py` |
| `PauseForBudgetDecision`, `BudgetContinue`, `BudgetReroute`, `BudgetStop` | `budget_decisions.py` |
| `FinalAuditAccepted`, `...Rework`, `...ContractChange`, `...Blocked`, `FinalizeRun` | `finalization.py` |
| `AuthorizationExpires`, `WriteResult` | the clock, the workers |

`Schema = "v4"` stands for the current schemas v4 and v5, which differ in
storage; `"v3"` is the legacy schema, whose states are not validated at commit and
which has the additional phases `STEP_REVIEW` and `REMEDIATING`. `Commit(op, next)`
is `commit_state`: it applies `Valid` to the prepared state and either replaces
the state or refuses the whole operation. Refusals that depend on documents
alone (schemas, digests, write scopes, deadlines, optional gates) change nothing
and are left out: in the model, as in the code, an enabled operation need not
happen. Budgets, receipts and token arithmetic appear as the choice whether an
operation is called.

`WriteResult` is never tied to the state of the run: a worker may write after its
attempt was reworked, its plan replaced or the run cancelled, onto the path that
a new attempt would otherwise take. `validate_task_result` and
`next_available_attempt` have to cope with that, and `EvidenceIsOwn` says they do.
It does rest on one assumption about workers: a result file is *created*, never
written over one that is there. The authoring commands do so (`create_artifact`,
`workflow/artifact_builders.py:132`), but nothing makes a worker use them; of one that
overwrites a result the run learns only by the digest it has recorded, if it has
recorded one.

A task has a model route from its plan (`Routed`), from a reroute, or from the risk
profile or execution strategy that a start may come with (`Profiled`). A start first
takes back what an earlier start has lent (`RoutedAtStart`); since the route of a
profile replaces that of the plan, a later start without a profile leaves such a task
without any. Digests that happen to be equal are left out.

### BudgetJournal

| Variable | In the code |
|---|---|
| `gate`, `qualified`, `opening`, `spent`, `protected`, `operations` | the projection of a scope in `scope_state`: `gate`, `qualified`, `opening`, `task_spent` with `overhead`, `protected`, `operations` |
| `identities` | the rows of the table of global immutable keys |
| `pc`, `plan` | a controller's place in `JournalPreparationAdmission.invoke` and the operation it was built for |
| `effects` | what the provider really performed, which the journal cannot see |

| Actions | Code |
|---|---|
| `OpenScope`, `OpenAgain`, `Rebuild` | `open_scope`, `rebuild` |
| `Qualify`, `Recheck` | `_current`, `check` |
| `Reserve`, `ReserveChanged`, `ReserveMismatch`, `ReserveRival` | `_reserve_in_transaction` and its three ways into conflict |
| `Claim`, `NoteDispatch`, `NoteUnavailable`, `CancelWithoutDispatch` | the methods of the same name |
| `Settle`, `SettleOverflow`, `SettleConflict` | `record_settlement` |
| `Perform` | the call of `effect()` |
| `Abandon` | a return, a refusal without an event, a lost answer or a death at any place |

Each journal call is one `BEGIN IMMEDIATE` transaction, hence one step; between
two of them everybody else may act. An answer lost after COMMIT is the step
followed by `Abandon`; one lost before COMMIT is `Abandon` alone. The revision
appears as what it is compared for: an event of a scope makes the snapshots taken
of it `stale`, and a stale controller can no longer reserve. As in the code, the
comparison comes after the one with an existing operation, so a stale controller
can still run into a changed binding.

Two things come from outside the journal and are modelled as the code takes them.
`record_settlement` takes *P04-verified* receipts, so a receipt that is to be
charged (`Authentic`) states what was performed; one that contradicts the journal
may say anything. `cancel_without_dispatch` requires a definitive proof
(`NotDispatched`): nothing was performed, and no controller is past its dispatch
note with the effect still ahead.

### ContinuationBatch

| Variable | In the code |
|---|---|
| `history`, `sealed` | the operations of the event journal; whether an interrupted commit has made the run read-only (`OperationHistory`) |
| `authors` | who committed each event and which action the state had projected; recorded for the properties only |
| `revision`, `projected` | `stateRevision` of the state file and the action it projects |
| `receipts` | the file at the output path of each batch: its status and the `stateRevisionAfter` of its step records |
| `batch` | for each batch its place in `_run_batch`, the receipt it resumed from, the revision its projection is bound to, its records and `appliedCount` |

| Actions | Code |
|---|---|
| `Prepare` | arguments, resume receipt and `_validate_retry_prefix`; a refusal changes nothing and counts as not having been called |
| `Reserve`, `OutputExists` | `_reserve_output`, `_persist_initial_stop` |
| `Project`, `Stop` | one turn of `_run_batch` up to its application, or any reason to stop |
| `Apply`, `Applied`, `Refused` | `continue_workflow`: the event, the state file, any refusal |
| `Record`, `NoRecord`, `Persist` | the reload of the state behind a transition, the step record, `replace_private_json` |
| `Finalize` | `_finalize`; `COMPLETE` and `STOPPED` are told apart by no later reader and are one status |
| `Interrupted`, `Die` | a commit that breaks off with a `LifecycleError`; a kill, or an error of another kind |
| `OthersAppend`, `OthersReplace`, `OthersDie` | any operation of anybody else, also one with an operation id of the bundle |

The output files are create-only, so a receipt belongs to one batch and is named by
it. A commit is two steps, event and state file, as in the kernel; between them a
batch that only reads finds a journal ahead of the state. A torn last line makes the
journal unreadable (`Torn`), a complete one whose state file was not written does
not. Which action a state projects is left open: `workflow/next_action.py` is not
modelled, every commit may project any action next.

### WriteQueue

| Variable | In the code |
|---|---|
| `files`, `ticket` | the ticket files in the directory, and the one each writer created |
| `locks`, `inherited` | the files a writer has open and locked; those a forked child still has open |
| `phase`, `todo`, `live` | the place of a writer in `slot`; its scan of the directory: tickets to probe, tickets found locked |

| Actions | Code |
|---|---|
| `Call`, `TakeGuard`, `Probe`, `Create`, `LockTicket`, `Poll` | `slot` with `_guard` and `_live`: list, probe each ticket in order of its number and unlink the stale ones, take a number behind the last live one, wait |
| `Begin`, `EndTransaction` | the transaction between ADMITTED and the `finally` |
| `Expire`, `Refuse` | the deadline; a full directory, used up numbers, a failing system call |
| `TakeCleanupGuard`, `RemoveTicket`, `DeferRemoval` | removal of the own ticket, or its deferral to a later scan |
| `Die`, `Fork`, `ChildCloses` | deaths; forks, and `_fork_child_leases` |

A step is one system call whose effect another process can observe. An advisory
lock belongs to the open file: it is dropped when the last copy of the descriptor is
closed, so a fork prolongs it and the death of the parent alone does not end it.
Writers have one thread each; threads of one process are serialized by its own lock
before they come here. Two refusals of the code have no action because they cannot
happen, which the proofs of `LiveTicketKept` and `QueueFits` show: "Live write lease
disappeared" and an inventory beyond its limit.

### ExternalJob

| Variable | In the code |
|---|---|
| `step`, `local`, `process`, `todo`, `blocked` | a runner's place in `run_external_job`, its `local_cancel`, what `run_process` returned, the children still to be treated, whether a child or a late write forbids success |
| `files`, `terminal` | the files of an attempt's directory that others look for; what its terminal status says |
| `cancel`, `asking` | whether a cancellation request was published before or behind the completion marker; the requesters between their checks and their write |

| Actions | Code |
|---|---|
| `Create`, `Invoke`, `Return` | the directory with request and first statuses; the second look at the prior attempt and the start; the return of `run_process` with the completion marker |
| `Monitor`, `NoticeCancel` | `_monitor_cancel` and the caller's own event; the last look for a request, behind the marker |
| `CancelChild`, `ChildrenCancelled`, `SettleChild`, `AbandonChild` | `_cancel_and_settle_children` |
| `Capture`, `WriteStatus`, `FailToFinalize`, `WriteResult` | artifacts and response; terminal status; the exception behind a lost process; receipt and result |
| `RequestCancel`, `PublishCancel` | `request_external_job_cancel`: its checks, its write |
| `Die` | a kill, an interrupt, a refusal of the budget or any other exception |

Files that no reader tells apart appear together: the completion marker with the
return, the process receipt with the result. The process boundary is known by what it
returns: `failed` stands for every end without a usable result, also past a wall
limit, without a verdict, or with artifacts that cannot be taken; `lost` for a failure
after the start. That a process was cancelled is known from `local_cancel`, the only
thing that cancels it. A runner's memory is gone with it (`Forget`), so everything
said of an attempt that ended is said of its files. The scan of `/proc` for members of
a process group is not atomic; therefore the model says what was *verified* and
nothing of the processes themselves.

The requester of a cancellation that has passed its checks before the completion
marker and writes behind it is told PASS although the process may have completed:
such a request is `late`, and `EarlyCancelWins` promises nothing for it. A retry looks
at the record of the prior attempt and its process, not at that attempt's children, so
`JobTree` asks of a prior attempt only that it failed.

### PromptLaunch

| Variable | In the code |
|---|---|
| `files` | what a look at each evidence or staging directory shows |
| `disk` | for each of these entries, the versions a power loss may leave: all it had since the last `_sync_directory` |
| `power` | before, during and after the one power loss |
| `launcher` | a call of `_managed_task` on the exact route: its place, its operation, the scan it is in and what its listing has found, how far it prepared and unwound, the result it is about to publish; and `before` and `rivals`, recorded for the properties |
| `starts`, `exit`, `told`, `answered` | children that ran, what the runner reported, the verdicts that somebody accepted, the outcome the launcher returned; recorded for the properties |

| Actions | Code |
|---|---|
| `Stage` | `stage_input_request`, by the caller |
| `Call`, `ListRequest`, `EndListing`, `ScanRequest`, `ScanIntent`, `FirstLook`, `FirstRead`, `SecondLook`, `SecondRead`, `Resolve`, `ScanMarker` | `reconcile_prelaunch_intents` with `read_attempt_result` and `_complete_started_input`; `_assert_no_cleanup_blockers` |
| `Seal`, `DropSource`, `SealingFails`, `PrepareNext`, `Reserve` | `_seal_request` with `_cleanup_sealed_no_start`; cleanup marker, receipts, intent and reservation of `prepare_exact_prompt` |
| `PreparationFails`, `Unwind`, `DropRefused`, `Clear`, `Mark`, `RecordNoStart` | its exception handler, `cleanup_no_start`, `cleanup_prestart_raw`, `record_proven_no_start` |
| `Verify`, `Claim`, `SyncClaim`, `Refuse` | `verifyBeforeStart`, `claim_attempt_start`, the refusals of `_run_exact_managed_process` |
| `Start`, `Observe`, `NotStarted`, `RunnerFails`, `Exit` | the runner, its callbacks, and what `_finish_exact_process` makes of its return |
| `PutPending` ... `DropPending`, `Answer`, `PublicationFails`, `RecordUncertain`, `SyncUncertain` | `publish_attempt_result`, `require_positive_attempt_result`, `record_uncertain_attempt` |
| `Kill`, `PowerLoss`, `Settle`, `PowerBack` | deaths and errors nobody handles; the loss of power, after which each entry has one of its possible versions |

A step is one look at, or one change of, the directory entries that another launcher
can observe. The listing of the requests is a walk: `rglob` comes to one directory
after another, in any order, and the loop over what it found begins when it is done
(`ListRequest`, `EndListing`, `ScanRequest`). In between, requests are staged, sealed
and taken away: one that moves from its staging directory, not visited yet, to a sealed
place that was visited already is missed. A staged request on the list is held
against its launch although it may be gone; a sealed one is read first. Only the look
for the sticky markers is one step for all directories (`Call`): such a marker is never
taken away, so a walk that finds none has found none at its beginning either, and one
that stops at a marker made meanwhile is a call that came a little later. The content of a file is synced before its entry is used
(`_write_exclusive`), so only entries can be lost, and independently of each other.
A launcher is called once; what it finds from earlier calls are the traces of the
others. A failed step of a preparation is the failure of the launcher there, before or
behind the step's effect. `BLOCKED` is a `FAIL` to every reader.

Simplifications that a reader should know: the directory of an operation lasts from
its first sync on; the cleanup marker is reserved and filled in one step; a marker of
the last scan is judged in one step (`ScanMarker`), although the code reads it and
then the terminal; observers that return after their deadline are left out, since the
attempt has failed then and a late receipt only makes it less of a no-start.

## 4. What is model-checked

| Run | Instance | States | Shows |
|---|---|---|---|
| `kernel` | 2 processes, 2 operation ids, 1 path, 1 interruption, clock 0..1, store of 1; fair | 603,536 | `LogMatchesState`, `EvidenceBacksEvents`, `AnswersAreTruthful`, `RetentionByAge`; the kernel implements `OperationHistory`; every call returns |
| `run_chain` | v4, b after a, 2 attempts, cap 1, 2 plans; fair | 83,523 | `FinalAuditIsSettled`, `CompleteIsAudited`, `DependenciesHold`, `EvidenceIsOwn`, `HistoryStaysValid`, `BlockerFitsPhase`, `HandlersAgreeWithValidator`, `AcceptedIsKept`; the run implements `RunPromise`; it ends or needs its operator |
| `run_legacy` | v3, two siblings, a routed and startable with a profile, 2 attempts, cap 1, 2 plans | 855,255 | `TypeOK`, `BudgetWaitIsShared`, `ParallelCapHolds` |
| `continuation_batch` | a bundle of a local, a local and a remote step; 2 batches, one capped at 2, one at 1 and local only; fair | 454,987 | `StepsInOrder`, `ReceiptTrails`, `RivalsYield`, `RecordsProve`; batches implement `BundleProgress`; every batch ends |
| `budget_journal` | 2 controllers, 2 scopes, 5 operations, 2 openings, 2 source events, amounts 1 and 3, run cap 4, task cap 3, closeout share 2, largest integer 4 | 195,003 | `EffectAtMostOnce`, `UseIsHeld`, `CapsHold`, `ChargedOnce` |
| `write_queue` | 3 writers, a directory of 2 tickets, numbers 0..2; fair | 109,528 | `OneWriter`; the queue implements `WaitingLine`; every call ends |
| `external_jobs` | a job with a child and a retry, 3 attempts in all | 1,311,338 | `EarlyCancelWins`, `RecoveredIsWhole`; jobs implement `JobTree` |
| `prompt_launch` | 2 launchers, 2 operations, one power loss | 1,508,949 | `NothingBesideSealed`, `PassIsProven`, `AnswersEndure`, `NoStartIsTrue`, `NothingOverUncertainty` |

Four more runs violate one documented property each ([section 6](#6-where-the-code-and-its-documents-disagree)):
`checkpoint_latest`, `routed_refused`, `reopen_preserved` and `job_stuck`.
The type invariants other than that of `WorkflowRun`, `EachOperationOnce`,
`PlanOnlyNeverExecutes`, `TerminalIsFinal`, `ReadyIsClear`, `StaysClosed`,
`LiveTicketKept`, `QueueFits` and `StartedOnce` are proved for all instances
([section 5](#5-what-is-proved)) and stand in no configuration.

### Why these bounds

- *Kernel.* All conflicts are between a holder and one other process, on one
  path and one operation id, so two of each suffice; the second operation id is
  needed for an event that follows a refused or interrupted one. One interruption
  allows a crash and its retry; an interrupted commit seals the run, so a second one
  finds nothing left to damage. A store of one checkpoint is full at once, which is
  when retention acts, and the one interruption may leave it with a file too many for
  the next operation; checkpoints are optional, so an operation comes with one or
  without. Processes and ids are interchangeable, but with a liveness property in
  the run no symmetry is used.
- *Run.* A chain of two tasks has a dependency to be reopened under its
  dependent; siblings have a second task to be in flight during an acceptance or
  a budget wait. Two attempts allow one rework and then an exhausted budget, and
  where an archive of two entries matters three do (`reopen_preserved`). Two plans
  give a superseded worker and a preserved acceptance. With cap 1 the second start
  must be refused.
- *Journal.* The five operations are one of each kind that can collide: work and
  closeout work of one task; work with the operation id of the first under
  another policy; work with the dispatch key of the closeout work; work of the
  other scope with the permit of the first. With a share of 2 the task cap of 3
  leaves room for one unit of work, so a second one must be refused until the
  first is cancelled, and closeout work of 2 must still fit. Amounts of 1 and 3
  lie at or below every bound and above every one; the run cap is the largest
  integer, so an overflow happens. The second opening has unknown amounts and
  covers a source event that a receipt may also cite. Two controllers may be
  called for the same operation or for colliding ones, any number of times. They
  are interchangeable, and all properties of the run are state invariants, so the
  symmetry is sound.
- *Batches.* Three steps give a first, a middle and a last one, and a remote one that
  ends a local chain. The caps let one batch apply two steps in a row and stop before
  the last, and the other resume it, or race it, or be resumed by it. Others may name
  any operation of the bundle. Ids outside the bundle are left out: to a batch, a
  commit of one of them differs from one of a step only in what the ledger says of the
  bundle, and a step that nobody has come to serves for that. The proofs have them.
- *Queue.* Two tickets fill the directory with a third writer outside, one in front and
  one behind it. Three numbers let the line advance past a number that was used before
  and reach the last number, at which a writer is refused. A fork can happen at every
  point, any number of times.
- *Jobs.* One job whose first attempt has a child and is retried by a second attempt is
  every relation between attempts that the code knows. Each may be cancelled, killed
  or retried at every point; two requesters of one attempt differ only in which of them
  publishes first.
- *Launches.* Two launchers can be called for one operation or for two, at any
  distance: the second while the first is anywhere, or long after it died. One power
  loss leaves any mix of the unsynced entries, and both launchers may come before or
  after it. Two operations are needed for a launch that goes on over another
  operation's outcome, and for one that is missed because it was sealed where the other
  had looked before. A third launcher could meet the traces of two others; that
  instance is too large for a run. All the properties are proved for any number of
  launchers.
- `CHECK_DEADLOCK FALSE` stands in the configurations of `WorkflowRun`,
  `ExternalJob`, `ContinuationBatch` and `PromptLaunch` because these really stop: a
  complete or cancelled run has no further operation; attempts, batches and launchers
  are used once. The other configurations check for deadlock.

### Fairness

- *Batches* (`FairSpec`): weak fairness of `Step(b)` for each batch: one that was
  called keeps running or dies. Nobody has to call, commit or die. `EveryBatchEnds`
  then says that no rival can keep a batch busy for ever.
- *Queue* (`FairSpec`): weak fairness of each writer's `Step` and strong fairness of
  its `Expire`. A deadline is a point in time (`time.monotonic()` against a fixed
  limit), so a writer that comes back to it again and again finds it passed; while it
  holds the guard and scans it does not look. Nothing is assumed of forked children,
  which may keep a lock as long as they like.
- *Jobs* (`FairSpec`, used by `job_stuck` only): weak fairness of each runner's
  `Progress`. A process ends by `maxWallSeconds` and the bounded cleanup, the wait for
  children by a deadline.
- *Launches*: none. The code promises only that nothing happens which must not; a
  launch may be held for ever by a marker that an operator has to resolve.
- *Kernel* (`FairSpec`): weak fairness of each process's own `Step`. A process that
  was called keeps running or is killed; nobody has to call, fail or wait. Waiting
  for the lock ends either by a release or by the time limit of
  `process_lock.py:107-113`, and a killed holder's `flock` is released by the
  operating system. With these `EveryCallReturns` holds; it does not need a fair
  lock, and none is assumed.
- *Run* (`FairSpec`): weak fairness of `Work`, the steps that agents and the
  operator's authorization take when nothing goes wrong. The code schedules
  nothing itself; it projects the next action (`workflow/next_action.py`) and
  whoever drives the run takes it. So the property only says: *if* interruptions
  stop and someone keeps doing what the code projects, *then* the run ends or is in
  one of the states that `NeedsOperator` names. These are the honest dead ends of
  the code: no plan; an expired grant that cannot be renewed; a block that only a
  new plan lifts; an external wait whose resume phase the run cannot take; all
  required tasks accepted while an optional one keeps the run in RUNNING; a blocked
  task; no attempt left; a result path occupied by the worker of another plan.

## 5. What is proved

TLAPS proves, for every value of the constants that their assumptions admit, that
is for every number of processes, operations, paths and interruptions; of tasks,
attempts and plans, with every dependency relation and both schemas; of scopes,
controllers, openings, caps and shares; of writers and tickets; of job attempts with
every relation of children and retries; of batches over every bundle; and of launchers
and operations:

| Theorem | Property |
|---|---|
| `WorkflowKernelProofs!TypeCorrect` | `TypeOK` |
| `WorkflowKernelProofs!JournalMatchesState` | `LogMatchesState` |
| `WorkflowKernelProofs!OperationsAreUnique` | `EachOperationOnce` |
| `WorkflowKernelProofs!EventsAreBacked` | `EvidenceBacksEvents` |
| `WorkflowKernelProofs!AnswersHold` | `AnswersAreTruthful` |
| `WorkflowKernelProofs!RetentionIsByAge` | `RetentionByAge` |
| `WorkflowKernelProofs!KernelImplementsHistory` | `ImplementsHistory` |
| `WorkflowRunProofs!TypeCorrect` | `TypeOK` |
| `WorkflowRunProofs!DependenciesAreKept` | `DependenciesHold` |
| `WorkflowRunProofs!FinalAuditSettled` | `FinalAuditIsSettled` |
| `WorkflowRunProofs!CompletionAudited` | `CompleteIsAudited` |
| `WorkflowRunProofs!PlanOnlyIsInert` | `PlanOnlyNeverExecutes` |
| `WorkflowRunProofs!EndIsFinal` | `TerminalIsFinal` |
| `WorkflowRunProofs!AcceptanceIsKept` | `AcceptedIsKept` |
| `RunTaskProofs!BudgetWaitsAreShared` | `BudgetWaitIsShared` |
| `RunTaskProofs!CapacityHolds` | `ParallelCapHolds` |
| `RunTaskProofs!EvidenceStaysOwn` | `EvidenceIsOwn` |
| `RunTaskProofs!HistoriesStayValid` | `HistoryStaysValid` |
| `RunTaskProofs!BlockersDoNotLinger` | `BlockerFitsPhase` |
| `RunTaskProofs!ValidatorAgrees` | `HandlersAgreeWithValidator` |
| `RunTaskProofs!RunKeepsPromise` | `ImplementsPromise`, of the current schemas |
| `ContinuationBatchProofs!Typed` | `TypeOK` |
| `ContinuationBatchProofs!InOrder` | `StepsInOrder` |
| `ContinuationBatchProofs!ReceiptsTrail` | `ReceiptTrails` |
| `ContinuationBatchProofs!OneWorker` | `RivalsYield` |
| `ContinuationBatchProofs!ReceiptsProve` | `RecordsProve` |
| `ContinuationBatchProofs!BatchesMakeProgress` | `ImplementsProgress` |
| `BudgetJournalProofs!TypeCorrect` | `TypeOK` |
| `BudgetJournalProofs!EffectsAreUnique` | `EffectAtMostOnce` |
| `BudgetJournalProofs!UseIsNeverLost` | `UseIsHeld` |
| `BudgetJournalProofs!ReadyMeansClear` | `ReadyIsClear` |
| `BudgetJournalProofs!CapsAreKept` | `CapsHold` |
| `BudgetJournalProofs!LedgerAddsUp` | `ChargedOnce` |
| `BudgetJournalProofs!ClosedForGood` | `StaysClosed` |
| `WriteQueueProofs!Typed` | `TypeOK` |
| `WriteQueueProofs!AtMostOneWriter` | `OneWriter` |
| `WriteQueueProofs!TicketsAreKept` | `LiveTicketKept` |
| `WriteQueueProofs!InventoryFits` | `QueueFits` |
| `WriteQueueProofs!QueueIsALine` | `ImplementsLine` |
| `ExternalJobProofs!TypeCorrect` | `TypeOK` |
| `ExternalJobProofs!CancellationWins` | `EarlyCancelWins` |
| `ExternalJobProofs!RecoveryIsWhole` | `RecoveredIsWhole` |
| `ExternalJobProofs!JobsAreATree` | `ImplementsTree` |
| `PromptLaunchProofs!TypeCorrect` | `TypeOK` |
| `PromptLaunchProofs!OneStartEach` | `StartedOnce` |
| `PromptLaunchProofs!NoneBesideSealed` | `NothingBesideSealed` |
| `PromptLaunchProofs!PassOnlyAfterPass` | `PassIsProven` |
| `PromptLaunchProofs!AnswersOnDisk` | `AnswersEndure` |
| `PromptLaunchProofs!NoStartRecordTrue` | `NoStartIsTrue` |
| `PromptLaunchProofs!ReconciledBeforeLaunch` | `NothingOverUncertainty` |

The assumptions are those the modules declare on their constants. The special
values (`NoProcess`, `NoTask`, `NoTicket`, `Someone`, ...) are not members of the sets
they complement. Tasks are finitely many, the attempt budget is 1..10 as
`workflow/artifacts.py:304-309` enforces, and caps, shares and bounds are integers
that `uint` admits, as the `__post_init__` of the accounting records enforce; the
tasks and the operations of a journal are finitely many. A bundle
names no operation twice and a batch may apply at least one step, as
`workflow/continuation_batch.py:74` and `:292` check. The queue has
room for at least one ticket. Nothing is assumed of jobs but that children and prior
attempts are attempts, and nothing of launches but that launchers and operations are
told apart. One theorem has a hypothesis beside these: `RunKeepsPromise` is about runs
of the current schemas. Under the legacy schema the promise does not hold: an acceptance
enters the final audit while another required task is in rework (section 6), as TLC
shows when it is asked. That is the code's behaviour and not a gap of the proof.

*Kernel.* None of the four invariants is inductive by itself. `KernelInv` adds
`OneHolder` (whoever is inside the transaction holds the lock, so no two processes
are) and `CommitInv`, which says for each phase of a holder what has already
happened: from *prepared* on, its prospective state is the successor of the state
file and its operation id is unused; from *stored* on, its artifact is its own;
once *appended*, the last event is its own and the journal is exactly one ahead.
The step proof goes action by action; what the other processes can disturb is
dispatched once by `OthersAreOutside`. The refinement then maps `AppendEvent` to
`Record`, an interruption after the append and a torn append to `Seal`, and
everything else to stuttering.

*Retention.* `RetentionByAge` says of each checkpoint that an event refers to: it is in
the store, or a full store of checkpoints at least as recent is. A file is written
before the event that reports it, so `RetentionInv` says the same of a checkpoint that
its writer has written and not yet reported. The store may hold any number of files
beyond its bound, since each kill or failure between the write and the unlinks leaves
some. What carries the proof is that `UnlinkOldest` only ever takes an oldest file out of a
store with more than the bound (`UnlinkingKeeps`): those that stay are then a full
store of files not older than it, nor than any that it had displaced. A checkpoint
written later with an earlier time, after the clock was set back, may be the one to go.

*Run.* `TypeInv` strengthens the type by two facts the types of attempts and resume
phases depend on: a task in flight has a plan and an attempt, and a block can be
resumed. `SafeInv` adds that the stored state satisfies the code's own validator
(`Valid(run)`, which commits preserve by construction and the two steps that are
not commits by inspection) and `Settled(run)`. The latter is about the phase the
run *returns to*, not the one it shows, since a block or an external wait hides the
final audit; and about the tasks in flight, since audits and plans withdraw the
acceptances they were started on. The action properties follow from `TypeInv`.

*Capacity.* The cap on parallel tasks is looked at when a task starts and nowhere
else; a task that comes back from a budget wait does not look. `WaitInv` says why this
is enough: the run (or the phase it returns to) waits exactly while a task does, so
nothing starts in between; only one task waits at a time; and the tasks at work
*together with* the waiting one stay within the cap. `ParallelCapHolds` alone is not
inductive, since the return of a waiting task would break it.

*Evidence.* `EvidenceInv` has a part for each task and a part for the result paths.
`OwnTask` says that a result in review is what the named attempt wrote under the
present plan; it would be lost if a path could be taken twice. `GapFree` says that the
attempts of a history have consecutive numbers up to the present one. An attempt takes
the least number whose path is free, so a late worker of a superseded plan could make
it skip one. `PathsFollow`, `NoneAbove` and `AllBelow` exclude that: paths fill up in
order, no worker can still write above the attempt of its task, and every path below
it is taken.

*Blockers and validator.* What the validator demands of a blocker holds of a prepared
state because of what every committed state says of it. `FitInv` has both:
`BlockerInv` says which blockers a run may carry in which phase and where they may
lead back, `RoutesInv` that no attempt is routed unless plan or starts give routes, and
`HandlersAgreeWithValidator` that no operation but the exceptions it names has ever
been refused at its commit. For the last one each handler is followed to the state it
prepares; `OneTaskFits`, `SameTasksFit` and `ArchivedFits` take the states that differ
in one task, in none, or by an attempt put into the history.

*Promise.* The refinement reads the stage of a run from the phase it *returns to*, so
most steps are stuttering: an interruption changes the phase, but the phase it
leads back to is as far from the final audit as before. `OneTaskMoves` takes the steps
that change one task, `AuditMoves` those that enter or leave the audit.

*Batches.* The invariant `IInv` has one clause for each place of a batch (`Fits`),
which says how far the list of records is behind the batch's own commits: they are all
listed (`Full`), all but the operation in hand (`Lacks`), or all but the last
(`Trails`). `Holds` says what the records say: each names a step that the ledger holds
(`Backed`) and the revision of its transition, or a later one where somebody has
committed right behind (`Proves`); `Mine` says which are the batch's own. What others
do to the run meanwhile is dispatched once: each of their steps is a `RunStep`, which
only makes the run grow, and no clause about a batch can be disturbed by that. The one
action that reads the run and writes a record is the hard case: the revision it reads
may have been made by somebody else, and `Proves` must say exactly when. The refinement
reads a step as done when the ledger holds its operation and a claim as the number of
records in a receipt file.

*Journal.* `TypeInv` adds to the type that every settled operation has its
settlement row, without which an overflow could undo a settlement. `DispatchInv`
carries the two main theorems. `Admission` says, for each place of a controller,
what its operation must look like; `Alone`, that of the controllers called for one
operation at most one is past its reservation, because a reservation needs an
operation id that was never used. `UniqueRows` and `ReservationRows` say that no
key has two rows and that each reservation has its own; two operations with one
key can therefore not both be reserved. `Uses` relates what was performed to the
operation's state. `GateInv` adds that nothing is reserved in a scope that is not
opened, which is why no note or receipt can open one.

*Ledger.* `CapsHold` and `ChargedOnce` are about sums: what a scope holds and has
charged against what its operations were granted and have used. Induction over
data is out of the prover's reach, so the laws of sums are obtained without it: a sum of
naturals is the number of its `Units`, pairs of an element and a number, and the
cardinality facts of `FiniteSetTheorems` say what happens to it when a summand is added,
dropped or changed. That the fold which `Total` is defined by gives this number follows
from a smallest counterexample (`SumsUnique`). `LedgerInv` then relates, for every set of
owners, what the counters hold to the sums over the reservations (so that the run, a task
and the closeout share are cases of one statement). The caps need one more fact
about receipts, `EffectsWithin`: a provider may report more than was reserved; the code
books it and breaks the scope's gate. The caps bound what is admitted.

*Queue.* Mutual exclusion follows from three facts: the guard has one holder, a ticket
in line is locked by its owner, and whoever is past the queue has the least number of
all *locked* tickets (`FirstIsLeast`). That the last one survives a new ticket needs
`ScannedInv`: while a writer holds the guard, what its scan has seen and has still to
see is exactly the directory, so the number it takes is larger than that of every live
ticket. Forked children only keep locks, and a lock that is kept too long never lets
somebody in. The refinement forgets files, guard and scans and keeps the live tickets
and who is served.

*Jobs.* `FilesFit` says which files there are by how far the runner came, and of a
killed runner what readers rely on. `CancelSeen` carries the race: a cancellation
published before the completion marker has been noticed by every runner that is past
the place where it looks, so `EarlyWins` holds when the terminal status is written.
`SuccessIsClean` and `ChildrenFit` say that a success was written with every child
settled, and that what was settled stays so. The refinement opens an attempt with its
request file and closes it with its terminal status.

*Launches.* Everything rests on the cleanup marker. It is created exclusively and never
removed, only replaced, so of all launchers of an operation at most one has made it
(`OneHolder`), and only that one goes on to receipts, intent and reservation. The sync
at the end of `reserve_attempt_result` makes marker and intent durable, so after a
power loss either both are there and nobody prepares that operation again, or nothing
was started. `HolderInv` says for each place of the holder what it has on disk;
`OperationInv` and `VerdictInv` relate a terminal, wherever it is visible or merely
possible after a power loss, to the child's exit. `BeforeInv` carries a launcher's
scan: of every operation whose child had run when it was called, the child has passed,
or the operation is still ahead of the scan; what makes that hold is that a child that
ran leaves an intent that is never unlinked, so the walk over the intents meets it.
`Dark` says that nobody acts while the power is off. Steps that disturb nothing of
this are dispatched once (`CalmStep`), by what they put and where.

*Nothing beside a sealed launch.* `NothingBesideSealed` is about a launch p and one that
had sealed its request when p began to list them, a *rival* of p: p does not get past
its reconciliation while the rival is under way. (A launch that has sealed an operation
whose cleanup marker was there before it is no rival; it fails when it comes to make
that marker.) The sealed request of a launch stays until the launch is over (`SealInv`;
of two launches of one operation at most one has sealed it, `OneSealer`, so no other
takes it away), hence the walk meets it whenever it comes to its directory. `Facing`
follows p from there: while the rival is under way, its directory is still to be visited
or its request is on the list; a request on the list is held as an orphan, or has its
intent by now; and an intent is met on the walk over the intents, where nothing can
resolve it (`IntentShows`): a launch under way has no terminal and no record of no start.
`RivalInv` adds that a rival never comes back to seal again. The steps of the other
launchers are dispatched once, by what they leave alone (`Mindful`, `Mono`).

Every safety invariant, action property and refinement that a passing run checks is
thereby proved. Only model-checked are the liveness properties `EveryCallReturns`,
`EndsOrNeedsOperator`, `EveryCallEnds` and `EveryBatchEnds`: they need fairness and
`ENABLED`, which are out of the prover's reach. The properties of the runs that expect
a violation are false, and section 6 says of each why.

## 6. Where the code and its documents disagree

| Run | Source | What happens |
|---|---|---|
| `checkpoint_latest` | `context/checkpoint_store.py:200` | "retain only the latest bounded set": two milestones in one second are ordered by a digest, so a write can unlink the checkpoint it has just created and still report PASS |
| `routed_refused` | `workflow/budget_decisions.py:89`, `workflow/task_transitions.py:505` | a task with a model route under v4 and v5: the documented pause for a budget decision gives it a status that the validator of current states does not know, and acceptance leaves `attemptModelRoute` on it, which the validator forbids for accepted tasks. Both are always refused; the behaviour shows one after the other |
| `reopen_preserved` | `workflow/finalization.py:331` | a task preserved across plans keeps a history that names the earlier plan, so the final audit cannot reopen it although attempts are left |
| `job_stuck` | `adapter_sessions/external_jobs.py:624` | a process whose end the boundary cannot observe returns no `outputBytes`; the runner applies `int` to it, fails, and leaves its attempt without terminal status and result, which no later call repairs |

Because of `routed_refused`, the other runs on current schemas have no routes
(`Routed` and `Profiled` empty); budget decisions are explored under the legacy schema, where they take effect.

Further observations, which no document of the repository contradicts. They are
modelled as they are:

- The drift blocker of an adoption has no scope, so the validator refuses every
  drifting adoption under v4 (`workflow/plan_adoption.py:146`).
- A final audit may name any text as `resumePhase` (`finalization.py:388`); one
  that is no execution phase makes the wait unresumable except by a new plan.
- A grant that expires while tasks are RUNNING and none is VERIFYING cannot be
  renewed, and the submission that would change that needs the grant.
- An audit's REWORK of a task leaves its accepted dependents accepted.
- The outcome of an earlier plan's audit survives an adoption. A run that is audited
  anew may be finalized on that recorded outcome; what is validated again for the
  new plan is the audit document handed to `finalize_run`
  (`finalization.py:426-452`). Hence `RunPromise!Replan` keeps `approved`.
- An optional task blocked after the required ones were accepted keeps the run in
  RUNNING.
- Under the legacy schema, an acceptance enters the final audit when no other task is
  ready, although another may still run or be in rework, a block during a budget wait returns to that
  wait, and a reroute can leave a history with a gap.
- A split brain is refused forever and repaired by no operation.
- A resumed batch first projects step 1 of the bundle again, with its inputs, to learn
  where the run stands. If that step names a task that is no longer eligible, the
  projection fails and with it every resumption of the bundle.
- A record's `stateRevisionAfter` is read after the transition. If somebody commits
  right behind, it is theirs; such a receipt is never accepted as the proof of a
  resumption.
- A batch that loses a race for a step to a rival records the rival's transition and
  counts it in `appliedCount`.
- A reader that looks for the pending marker of an attempt before it is created, and
  reads the terminal after it was linked, accepts an outcome whose publication has not
  finished and may still be lost with the power. "Any failure leaves it in place, so
  even a visible terminal cannot authorize" (`adapter_sessions/attempt_authority.py:410`)
  holds of readers that look afterwards. Nothing false is accepted: the child did pass.
- A launcher whose preparation fails ends by replacing the cleanup marker of its
  operation with DONE, whoever made it (`codex_prompt_preparation.py:584`). If a second
  launcher of the operation has prepared meanwhile, its verification fails, or, if it
  is past that, its marker no longer says that raw input is left.
- Two launches of different operations can be under way together, with both children
  running. `reconcile_prelaunch_intents` is to reconcile "raw requests before a new
  child can start" (`adapter_sessions/input_lifecycle.py:248`), but its listing is a
  walk: one launch visits the sealed directory of the other's operation before the
  other seals (line 80), and its staging directory after the other has dropped its
  source (line 82), and finds neither. When the request is already sealed as the walk
  begins, this cannot happen; that is what `NothingBesideSealed` promises, and all it
  does. Where a launch finds the staged or sealed request of another that is well, it
  leaves a sticky marker that blocks every later launch until somebody resolves it by hand.
- A receipt with the status STOPPED may lack the last transition: when the batch was
  stopped by a refusal behind its own commit, and when the journal was being written
  while it looked.

## 7. What is not modelled

- In the modelled components: revocation, technical review interruptions with
  deadlines, the closing window and the other gates, mismatches of the source
  revision, usage accounting inside receipts, the Windows variants of file
  operations, restoration from a checkpoint, the preparation policy of an
  admission. Each refuses or reads only, except revocation, which is left for
  later.
- In the journal: scopes of storage mode COVERAGE_V2 with their usage observations
  and imported openings, and the closing of runs, after which every call answers
  CLOSED. Both share the database and are planned with retention.
- What a provider or host does outside the protocol: a false receipt for an
  operation that was claimed and never performed, or a false no-dispatch proof.
  The code takes both on authority and so does the model.
- In the batches: which action a state projects, which is an arbitrary choice; the
  receipts of a kind the code refuses to resume from by their shape alone.
- In the queue: foreign files, a replaced directory and hard links, each refused by an
  identity check. In the jobs: the budget around a process, a request's documents, and
  the threads, pipes and signals of the process boundary.
- In the launches: the prompt, the host's evidence and the audits, each a document that
  is accepted or refused; the removal of a file that fails and leaves
  PRIVATE_CLEANUP_PENDING; evidence in the layout of earlier releases; the Windows
  primitives; the routes other than the exact one.
- The components with status `not_modelled` in PROJECT.json, with the reason. Those
  planned for later are in section 8. The others, which are most of the repository's
  lines, keep no state and run beside nobody: functions from documents to documents or
  refusals, read-only reports, one-shot conversions, tools of its continuous
  integration and its releases, and the command line.

## 8. Plan

Order of importance: the kernel first, since everything durable rests on it; then
the run, which is the system's purpose; then the stores that have locks and crash
points of their own.

1. `WorkflowKernel`, `CheckpointStore`, `OperationHistory`, proofs: **done**.
2. `WorkflowRun`, `RunPromise`, proofs of its main invariants: **done**.
3. `BudgetJournal`, proofs of its main properties: **done**.
4. `WriteQueue`, `WaitingLine`, with proofs: **done**.
5. `ExternalJob`, `JobTree`, with proofs: **done**.
6. `ContinuationBatch` over what the kernel promises, `BundleProgress`, with proofs:
   **done**.
7. `PromptLaunch`, with directory entries that are visible before they are durable, and
   its proofs: **done**. Whether a missed rival matters is for the code's owners to
   say: a common lock around reconciliation and sealing would allow to state, and
   prove, that only one launch is under way.
8. `StorageGraph` (objects first, state last), the process boundary, the ledger head,
   retention with the closing of runs and COVERAGE_V2, review quorum.
9. Proofs of every safety property and refinement that the runs check, the sums of the
   journal and the refinement of `RunPromise` included: **done**. What remains is what
   the modules of item 8 will promise.
