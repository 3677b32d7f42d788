---------------------------- MODULE ExternalJob ----------------------------
(***************************************************************************)
(* External tool jobs (adapter_sessions/external_jobs.py): attempts, each  *)
(* a directory of create-only files written by one runner, whose process   *)
(* may be cancelled by anybody and whose declared children are settled     *)
(* before it may succeed.                                                  *)
(*                                                                         *)
(* A runner's steps are the points between which another process can act:  *)
(* the creation of the directory, the start of the process, its return     *)
(* with the completion marker, the look for a cancellation request, each   *)
(* child, and each of the last files.  What becomes visible in one step    *)
(* is what no reader tells apart.  The process boundary (run_process) is   *)
(* known by the results it returns; the budget around it is BudgetJournal, *)
(* and refuses here as a kill does.                                        *)
(***************************************************************************)
CONSTANTS
    Attempts,           \* requests: a job's identity with an attempt number
    Children,           \* Children[a]: the child requests given to a's runner
    Prior,              \* Prior[a]: the preceding attempt on a prepared route
    NoAttempt           \* no such attempt, or the route is not a prepared one

ASSUME JobAssumption ==
    /\ Children \in [Attempts -> SUBSET Attempts]
    /\ Prior \in [Attempts -> Attempts \union {NoAttempt}]
    /\ NoAttempt \notin Attempts

VARIABLES
    step,               \* how far the runner of an attempt has come
    files,              \* the files of an attempt that others look for
    cancel,             \* when a cancellation request was published
    asking,             \* the attempts that somebody found can be cancelled
    local,              \* local_cancel of a runner
    process,            \* what run_process has returned
    todo,               \* children not yet cancelled, or not yet settled
    blocked,            \* there is a child or a late write in the way of success
    terminal            \* what the terminal status says

vars == <<step, files, cancel, asking, local, process, todo, blocked, terminal>>

FileNames == {"request", "completion", "response", "status", "result"}

NoProcess == [how |-> "running", clean |-> FALSE]
NoStatus == [state |-> "RUNNING", clean |-> FALSE, again |-> FALSE]

Init ==
    /\ step = [a \in Attempts |-> "absent"]
    /\ files = [a \in Attempts |-> {}]
    /\ cancel = [a \in Attempts |-> "never"]
    /\ asking = {}
    /\ local = [a \in Attempts |-> FALSE]
    /\ process = [a \in Attempts |-> NoProcess]
    /\ todo = [a \in Attempts |-> {}]
    /\ blocked = [a \in Attempts |-> FALSE]
    /\ terminal = [a \in Attempts |-> NoStatus]

Go(a, s) == step' = [step EXCEPT ![a] = s]
Publish(a, S) == files' = [files EXCEPT ![a] = @ \union S]
Terminal(a) == "status" \in files[a]
-----------------------------------------------------------------------------
(* The results of run_process.                                             *)

\* How a process ended, and whether its cleanup was verified.  Transient is an
\* exit with 75 and no output, failed any other end without a result of use (or
\* a result without a verdict, past the wall limit, with artifacts that cannot
\* be taken), lost an exception after the start, which leaves neither a receipt
\* nor a count of the output.  A process is cancelled by its runner's
\* local_cancel only, so that this says whether it was.
ProcessResults ==
    [how : {"passed", "transient", "failed", "expired", "lost"}, clean : BOOLEAN]

\* _build_process_result and the three bounded failures, for a runner that has
\* or has not been told to cancel.
Returned(cancelled) ==
    [how : IF cancelled THEN {"failed", "lost"}
           ELSE {"passed", "transient", "failed", "expired", "lost"},
     clean : BOOLEAN]

Passed(r) == r.how = "passed" /\ r.clean

\* _require_prior_job_settled: the last attempt failed of itself, for a while
\* and without output, its process is gone and its record is complete.
Settled(a) ==
    /\ {"status", "result"} \subseteq files[a]
    /\ terminal[a].state = "FAILED"
    /\ terminal[a].again

MayStart(a) == Prior[a] # NoAttempt => Settled(Prior[a])
-----------------------------------------------------------------------------
(* run_external_job: up to the process.                                    *)

\* The directory, created exclusively: another caller is refused; request.json,
\* the QUEUED and the RUNNING status.
Create(a) ==
    /\ step[a] = "absent"
    /\ MayStart(a)
    /\ Publish(a, {"request"})
    /\ Go(a, "created")
    /\ UNCHANGED <<cancel, asking, local, process, todo, blocked, terminal>>

\* The prior attempt is looked at again; the monitor and the process start.
Invoke(a) ==
    /\ step[a] = "created"
    /\ MayStart(a)
    /\ Go(a, "invoked")
    /\ UNCHANGED <<files, cancel, asking, local, process, todo, blocked, terminal>>

\* _monitor_cancel, a thread from the start of the process until the look for
\* a cancellation request; the caller's own event may be set at any time.
Monitor(a) ==
    /\ step[a] \in {"invoked", "completed"}
    /\ ~local[a]
    /\ local' = [local EXCEPT ![a] = TRUE]
    /\ UNCHANGED <<step, files, cancel, asking, process, todo, blocked, terminal>>

\* The process returns, and completion-observed.json is written.
Return(a) ==
    /\ step[a] = "invoked"
    /\ \E r \in Returned(local[a]) : process' = [process EXCEPT ![a] = r]
    /\ Publish(a, {"completion"})
    /\ Go(a, "completed")
    /\ UNCHANGED <<cancel, asking, local, todo, blocked, terminal>>
-----------------------------------------------------------------------------
(* ... and after it.                                                       *)

\* Mutant: the monitor is trusted to have seen every request.
StopMonitor(a) ==
    /\ step[a] = "completed"
    /\ todo' = [todo EXCEPT ![a] = Children[a]]
    /\ Go(a, "cancelling")
    /\ UNCHANGED <<files, cancel, asking, local, process, blocked, terminal>>

\* The request is looked for once more, behind the marker.
NoticeCancel(a) ==
    /\ step[a] = "completed"
    /\ local' = [local EXCEPT ![a] = @ \/ cancel[a] # "never"]
    /\ todo' = [todo EXCEPT ![a] = Children[a]]
    /\ Go(a, "cancelling")
    /\ UNCHANGED <<files, cancel, asking, process, blocked, terminal>>

Block(a, b) == blocked' = [blocked EXCEPT ![a] = @ \/ b]
Done(a, c) == todo' = [todo EXCEPT ![a] = @ \ {c}]

\* What request_external_job_cancel finds before it publishes a request.
Cancellable(a) ==
    "request" \in files[a] /\ ~Terminal(a) /\ "completion" \notin files[a]
        /\ cancel[a] = "never"

\* _cancel_and_settle_children: first every child is asked to stop.  A request
\* that is overtaken by the completion it did not find is a RequestCancel ...
CancelChild(a) ==
    /\ step[a] = "cancelling"
    /\ \E c \in todo[a] :
        /\ Done(a, c)
        /\ Block(a, "request" \notin files[c])
        /\ cancel' = IF Cancellable(c) THEN [cancel EXCEPT ![c] = "early"] ELSE cancel
    /\ UNCHANGED <<step, files, asking, local, process, terminal>>

ChildrenCancelled(a) ==
    /\ step[a] = "cancelling"
    /\ todo[a] = {}
    /\ todo' = [todo EXCEPT ![a] = Children[a]]
    /\ Go(a, "settling")
    /\ UNCHANGED <<files, cancel, asking, local, process, blocked, terminal>>

\* ... and then its terminal status is waited for ...
SettleChild(a) ==
    /\ step[a] = "settling"
    /\ \E c \in todo[a] :
        /\ Terminal(c)
        /\ Done(a, c)
        /\ Block(a, ~terminal[c].clean)
    /\ UNCHANGED <<step, files, cancel, asking, local, process, terminal>>

\* Mutant: a child that is still running at the deadline is forgotten.
ForgetChild(a) ==
    /\ step[a] = "settling"
    /\ \E c \in todo[a] : Done(a, c)
    /\ UNCHANGED <<step, files, cancel, asking, local, process, blocked, terminal>>

\* ... until the deadline.
AbandonChild(a) ==
    /\ step[a] = "settling"
    /\ \E c \in todo[a] : Done(a, c)
    /\ Block(a, TRUE)
    /\ UNCHANGED <<step, files, cancel, asking, local, process, terminal>>

\* Mutant: the response is left to be completed later.
CaptureLater(a) ==
    /\ step[a] = "settling"
    /\ todo[a] = {}
    /\ \E late \in BOOLEAN : Block(a, late)
    /\ Go(a, "captured")
    /\ UNCHANGED <<files, cancel, asking, local, process, todo, terminal>>

\* _settle_artifacts and _capture_private_response; a write after the end blocks.
Capture(a) ==
    /\ step[a] = "settling"
    /\ todo[a] = {}
    /\ \E late \in BOOLEAN : Block(a, late)
    /\ Publish(a, {"response"})
    /\ Go(a, "captured")
    /\ UNCHANGED <<cancel, asking, local, process, todo, terminal>>

\* _terminal_state.
TerminalState(a) ==
    IF local[a] THEN "CANCELLED"
    ELSE IF process[a].how = "expired" THEN "EXPIRED"
    ELSE IF Passed(process[a]) /\ ~blocked[a] THEN "SUCCEEDED"
    ELSE "FAILED"

\* processCleanupStatus and postTerminalWriteDetected, which are read together.
Clean(a) == process[a].clean /\ ~blocked[a]

\* What a runner knows is gone with it; only its files last.
Forget(a) ==
    /\ local' = [local EXCEPT ![a] = FALSE]
    /\ process' = [process EXCEPT ![a] = NoProcess]
    /\ todo' = [todo EXCEPT ![a] = {}]
    /\ blocked' = [blocked EXCEPT ![a] = FALSE]

\* The terminal status is written ...
WriteStatus(a) ==
    /\ step[a] = "captured"
    /\ process[a].how # "lost"
    /\ terminal' = [terminal EXCEPT ![a] =
        [state |-> TerminalState(a), clean |-> Clean(a),
         again |-> process[a] = [how |-> "transient", clean |-> TRUE]]]
    /\ Publish(a, {"status"})
    /\ Go(a, "closed")
    /\ Forget(a)
    /\ UNCHANGED <<cancel, asking>>

\* ... but not without a count of the output: int(None) raises.
FailToFinalize(a) ==
    /\ step[a] = "captured"
    /\ process[a].how = "lost"
    /\ Go(a, "raised")
    /\ Forget(a)
    /\ UNCHANGED <<files, cancel, asking, terminal>>

\* The receipt of the process, if there is one, and last the result; who retries
\* looks for both, who recovers for the last.
WriteResult(a) ==
    /\ step[a] = "closed"
    /\ Publish(a, {"result"})
    /\ Go(a, "done")
    /\ UNCHANGED <<cancel, asking, local, process, todo, blocked, terminal>>

\* A runner is killed, interrupted or refused.
Die(a) ==
    /\ step[a] \notin {"absent", "done", "raised", "killed"}
    /\ Go(a, "killed")
    /\ Forget(a)
    /\ UNCHANGED <<files, cancel, asking, terminal>>
-----------------------------------------------------------------------------
(* request_external_job_cancel.                                            *)

RequestCancel(a) ==
    /\ Cancellable(a)
    /\ asking' = asking \union {a}
    /\ UNCHANGED <<step, files, cancel, local, process, todo, blocked, terminal>>

\* cancel-request.json is created by one of those that ask.
PublishCancel(a) ==
    /\ a \in asking
    /\ asking' = asking \ {a}
    /\ cancel' = IF cancel[a] # "never" THEN cancel ELSE [cancel EXCEPT ![a] =
                    IF "completion" \in files[a] THEN "late" ELSE "early"]
    /\ UNCHANGED <<step, files, local, process, todo, blocked, terminal>>
-----------------------------------------------------------------------------
Progress(a) ==
    \/ Invoke(a) \/ Return(a) \/ NoticeCancel(a)
    \/ CancelChild(a) \/ ChildrenCancelled(a)
    \/ SettleChild(a) \/ AbandonChild(a) \/ Capture(a)
    \/ WriteStatus(a) \/ FailToFinalize(a) \/ WriteResult(a)

Next == \E a \in Attempts :
    Create(a) \/ Progress(a) \/ Monitor(a) \/ Die(a)
        \/ RequestCancel(a) \/ PublishCancel(a)

Spec == Init /\ [][Next]_vars

\* A runner that is alive goes on: its process ends by maxWallSeconds and the
\* bounded cleanup, the wait for its children by a deadline.
Fairness == \A a \in Attempts : WF_vars(Progress(a))

FairSpec == Spec /\ Fairness
-----------------------------------------------------------------------------
(* Properties.                                                             *)

Steps == {"absent", "created", "invoked", "completed",
          "cancelling", "settling", "captured", "closed", "done",
          "raised", "killed"}
States == {"RUNNING", "SUCCEEDED", "FAILED", "CANCELLED", "EXPIRED"}

TypeOK ==
    /\ step \in [Attempts -> Steps]
    /\ files \in [Attempts -> SUBSET FileNames]
    /\ cancel \in [Attempts -> {"never", "early", "late"}]
    /\ asking \subseteq Attempts
    /\ local \in [Attempts -> BOOLEAN]
    /\ process \in [Attempts -> ProcessResults \union {NoProcess}]
    /\ todo \in [Attempts -> SUBSET Attempts]
    /\ blocked \in [Attempts -> BOOLEAN]
    /\ terminal \in [Attempts -> [state : States, clean : BOOLEAN, again : BOOLEAN]]

\* A cancellation that was published before the process was seen to be complete
\* wins, whoever looks when (docs/reference/external-tool-jobs.md "Run, inspect
\* and cancel"; _invoke_external_job_process, request_external_job_cancel).
EarlyCancelWins ==
    \A a \in Attempts : Terminal(a) /\ cancel[a] = "early"
        => terminal[a].state = "CANCELLED"

\* What recovery hands out as a result is whole, wherever runners were killed:
\* its files are all there, its process was verified to be gone, and so were
\* those of its children (_recover_complete_attempt).
Recoverable(a) == "result" \in files[a] /\ terminal[a].state = "SUCCEEDED"
RecoveredIsWhole ==
    \A a \in Attempts : Recoverable(a) =>
        /\ files[a] = FileNames
        /\ \A b \in {a} \union Children[a] : Terminal(b) /\ terminal[b].clean

\* The attempts implement the tree of jobs.
AttemptState(a) ==
    IF step[a] = "absent" THEN "absent"
    ELSE IF ~Terminal(a) THEN "open"
    ELSE IF terminal[a].state = "SUCCEEDED" THEN "succeeded"
    ELSE IF terminal[a].state = "FAILED" THEN "failed" ELSE "stopped"
SettledTree(a) == Terminal(a) /\ terminal[a].clean
Tree == INSTANCE JobTree WITH
    state <- [a \in Attempts |-> AttemptState(a)],
    settled <- {a \in Attempts : SettledTree(a)}
ImplementsTree == Tree!Spec

\* "The state sequence is QUEUED, RUNNING, then exactly one of SUCCEEDED, FAILED,
\* CANCELLED or EXPIRED" (docs/reference/external-tool-jobs.md): a runner that
\* nobody kills records the end of a process that has returned.
EndIsRecorded ==
    \A a \in Attempts :
        step[a] = "completed" ~> Terminal(a) \/ step[a] = "killed"
=============================================================================
