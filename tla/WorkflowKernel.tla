--------------------------- MODULE WorkflowKernel ---------------------------
(***************************************************************************)
(* The mutation kernel of a workflow run: several local processes (CLI     *)
(* calls, the managed runner, adapters) change one run.  A mutation takes  *)
(* the run's file lock, loads the state, prepares the next one in memory,  *)
(* writes its artifacts and its context checkpoint, appends one event to   *)
(* the journal and finally replaces the state file (commit_state in        *)
(* workflow/operation_kernel.py).  Each of these writes is a step, because *)
(* the process can be killed, or the file system can fail, between any two *)
(* of them.                                                                *)
(***************************************************************************)
EXTENDS CheckpointStore, Sequences

CONSTANTS
    Processes,          \* the processes that may call an operation of the run
    Operations,         \* caller-chosen operation ids
    Paths,              \* caller-chosen destinations of create-only artifacts
    NoProcess,          \* the holder of a free lock
    NoOperation,        \* the writer of an artifact that does not exist
    NoPath,             \* the artifact of an operation that writes none
    CheckpointRequired, \* the "required" flag of the plan's checkpoint policy
    MaxInterruptions,   \* bound: kills and I/O failures in one behaviour
    MaxClock            \* bound: the latest second the wall clock shows

ASSUME NoProcessAssumption == NoProcess \notin Processes
ASSUME NoOperationAssumption == NoOperation \notin Operations
ASSUME NoPathAssumption == NoPath \notin Paths
ASSUME CheckpointRequiredAssumption == CheckpointRequired \in BOOLEAN
ASSUME BoundsAssumption == MaxInterruptions \in Nat /\ MaxClock \in Nat

VARIABLES
    state,          \* the state file: revision, operationLedger, updatedAt
    eventLog,       \* the complete lines of the event journal
    torn,           \* TRUE iff the journal ends in an incomplete line
    artifacts,      \* which operation created the file at each path
    checkpoints,    \* the files of the checkpoint store
    lock,           \* the holder of the run's file lock
    pc,             \* where each process is in its current call
    call,           \* the arguments of each process's latest call
    prospective,    \* the next state a process has prepared in memory
    answer,         \* what the latest call of each process returned
    interruptions   \* kills and I/O failures so far

files  == <<state, eventLog, torn, artifacts, checkpoints>>
locals == <<lock, pc, call, prospective, answer>>
vars   == <<files, locals, interruptions>>

Phases == {"idle", "waiting", "locked", "prepared",
           "stored", "written", "unchecked", "appended", "replaced"}

\* The phases in which a process is inside workflow_transaction_context.
Holding == Phases \ {"idle", "waiting"}

Answers == {"none", "committed", "duplicate-operation", "refused", "unknown"}

States == [revision : Nat, ledger : SUBSET Operations, updatedAt : Nat]
Calls  == [op : Operations, expected : Nat, path : Paths \union {NoPath}]
Checkpoints == [op : Operations, revision : Nat, createdAt : Nat]
\* The checkpoint field of an event is empty when none was written for it.
Events == [revision : Nat, op : Operations, path : Paths \union {NoPath},
           checkpoint : SUBSET Checkpoints]

NoState == [revision |-> 0, ledger |-> {}, updatedAt |-> 0]
NoCall  == [op |-> NoOperation, expected |-> 0, path |-> NoPath]

CheckpointOf(op, s) ==
    [op |-> op, revision |-> s.revision + 1, createdAt |-> s.updatedAt]

-----------------------------------------------------------------------------
Init ==
    /\ state = [revision |-> 1, ledger |-> {}, updatedAt |-> 0]
    /\ eventLog = <<>>
    /\ torn = FALSE
    /\ artifacts = [path \in Paths |-> NoOperation]
    /\ checkpoints = {}
    /\ lock = NoProcess
    /\ pc = [p \in Processes |-> "idle"]
    /\ call = [p \in Processes |-> NoCall]
    /\ prospective = [p \in Processes |-> NoState]
    /\ answer = [p \in Processes |-> "none"]
    /\ interruptions = 0

(***************************************************************************)
(* The checks a mutation makes on what it reads under the lock.            *)
(***************************************************************************)

\* read_events accepts the journal: every line is a complete JSON object.
LogReadable == ~torn

\* Mutant: the journal is not compared with the state.
TrustState == FALSE

\* _require_no_split_brain: the last event is newer than the state.
SplitBrain ==
    eventLog # <<>> /\ eventLog[Len(eventLog)].revision > state.revision

\* Mutant: the expected revision is not checked.
AnyRevision(p) == LogReadable /\ ~SplitBrain

\* The checks of load_for_update that precede require_operation_unused.
Current(p) ==
    /\ LogReadable
    /\ ~SplitBrain
    /\ call[p].expected = state.revision

Admissible(p) == Current(p) /\ call[p].op \notin state.ledger

\* What the caller knows after the call; its arguments matter to it only when
\* it has been told where its operation is.
Return(p, result) ==
    /\ call' = IF result \in {"committed", "duplicate-operation"} THEN call
               ELSE [call EXCEPT ![p] = NoCall]
    /\ pc' = [pc EXCEPT ![p] = "idle"]
    /\ lock' = IF lock = p THEN NoProcess ELSE lock
    /\ answer' = [answer EXCEPT ![p] = result]
    /\ prospective' = [prospective EXCEPT ![p] = NoState]

Goto(p, phase) == pc' = [pc EXCEPT ![p] = phase]

-----------------------------------------------------------------------------
(***************************************************************************)
(* One mutation, in the order of the code.                                 *)
(***************************************************************************)

\* A caller names a fresh or a repeated operation id, a state revision it has
\* seen at some time, and where the operation's artifact is to be created.
Call(p) ==
    /\ pc[p] = "idle"
    /\ \E op \in Operations, expected \in 1..state.revision,
          path \in Paths \union {NoPath} :
          call' = [call EXCEPT ![p] = [op |-> op, expected |-> expected,
                                       path |-> path]]
    /\ Goto(p, "waiting")
    /\ answer' = [answer EXCEPT ![p] = "none"]
    /\ UNCHANGED <<files, lock, prospective, interruptions>>

\* Mutant: the lock does not exclude the other processes.
LockShared(p) ==
    /\ pc[p] = "waiting"
    /\ lock' = p
    /\ Goto(p, "locked")
    /\ UNCHANGED <<files, call, prospective, answer, interruptions>>

\* _try_lock: flock succeeds only while no other process holds the file.
Lock(p) ==
    /\ pc[p] = "waiting"
    /\ lock = NoProcess
    /\ lock' = p
    /\ Goto(p, "locked")
    /\ UNCHANGED <<files, call, prospective, answer, interruptions>>

\* Mutant: the lock is waited for without a time limit.
WaitForever(p) == FALSE

\* "another process holds the operation lock", after the lock's time limit.
LockTimeout(p) ==
    /\ pc[p] = "waiting"
    /\ lock # NoProcess
    /\ Return(p, "refused")
    /\ UNCHANGED <<files, interruptions>>

\* load_for_update, the operation's own work in memory, and the first half of
\* commit_state, which reads the state again, repeats the checks and builds the
\* next state (_prepare_mutation).  No file changes, and the lock is held, so
\* this is one step.  now_iso reads a wall clock that may also be set back.
Prepare(p) ==
    /\ pc[p] = "locked"
    /\ Admissible(p)
    /\ \E now \in 0..MaxClock :
          prospective' = [prospective EXCEPT ![p] =
              [revision  |-> state.revision + 1,
               ledger    |-> state.ledger \union {call[p].op},
               updatedAt |-> now]]
    /\ Goto(p, "prepared")
    /\ UNCHANGED <<files, lock, call, answer, interruptions>>

\* "workflow-split-brain", "state-revision-mismatch", "duplicate-operation".
RefuseLoad(p) ==
    /\ pc[p] = "locked"
    /\ ~Admissible(p)
    /\ Return(p, IF Current(p) THEN "duplicate-operation" ELSE "refused")
    /\ UNCHANGED <<files, interruptions>>

\* The operation's own rules, the validator of the next state, or a required
\* checkpoint that cannot be built refuse before anything is written.
RefusePrepare(p) ==
    /\ pc[p] = "locked"
    /\ Admissible(p)
    /\ Return(p, "refused")
    /\ UNCHANGED <<files, interruptions>>

\* Mutant: an existing artifact is overwritten.
OverwriteArtifact(p) ==
    /\ pc[p] = "prepared"
    /\ artifacts' = [path \in Paths |-> IF path = call[p].path THEN call[p].op
                                       ELSE artifacts[path]]
    /\ Goto(p, "stored")
    /\ UNCHANGED <<state, eventLog, torn, checkpoints, lock, call,
                   prospective, answer, interruptions>>

\* persist_json_artifact is create-only.
PersistArtifact(p) ==
    /\ pc[p] = "prepared"
    /\ IF call[p].path = NoPath
       THEN UNCHANGED artifacts
       ELSE /\ artifacts[call[p].path] = NoOperation
            /\ artifacts' = [artifacts EXCEPT ![call[p].path] = call[p].op]
    /\ Goto(p, "stored")
    /\ UNCHANGED <<state, eventLog, torn, checkpoints, lock, call,
                   prospective, answer, interruptions>>

ArtifactExists(p) ==
    /\ pc[p] = "prepared"
    /\ call[p].path # NoPath
    /\ artifacts[call[p].path] # NoOperation
    /\ Return(p, "refused")
    /\ UNCHANGED <<files, interruptions>>

\* write_context_checkpoint: the file of the new checkpoint, which carries the
\* next revision and the time of the previous commit, is replaced atomically.
WriteCheckpoint(p) ==
    /\ pc[p] = "stored"
    /\ checkpoints' = checkpoints \union {CheckpointOf(call[p].op, state)}
    /\ Goto(p, "written")
    /\ UNCHANGED <<state, eventLog, torn, artifacts, lock, call,
                   prospective, answer, interruptions>>

\* _retain_latest unlinks one file of those beyond the bound.
UnlinkOldest(p) ==
    /\ pc[p] = "written"
    /\ Overfull(checkpoints)
    /\ \E d \in Oldest(checkpoints) : checkpoints' = checkpoints \ {d}
    /\ UNCHANGED <<state, eventLog, torn, artifacts, locals, interruptions>>

\* A required checkpoint that fails stops the operation, an optional one is
\* reported in the event as not written; the files stay as they are.
GiveUpCheckpoint(p) ==
    /\ IF CheckpointRequired
       THEN Return(p, "refused")
       ELSE /\ Goto(p, "unchecked")
            /\ UNCHANGED <<lock, call, answer, prospective>>
    /\ UNCHANGED files

\* The checkpoint is refused before its file is written.
CheckpointFails(p) ==
    /\ pc[p] = "stored"
    /\ GiveUpCheckpoint(p)
    /\ UNCHANGED interruptions

\* The listing or an unlink of _retain_latest raises: the new file stays, and
\* so do those that were still to be unlinked.
RetentionFails(p) ==
    /\ pc[p] = "written"
    /\ interruptions < MaxInterruptions
    /\ interruptions' = interruptions + 1
    /\ GiveUpCheckpoint(p)

\* persist_checkpoint_gate has returned: with the receipt of the checkpoint it
\* has written, whether or not retention has kept it, or with a failure.
CheckpointSettled(p) ==
    \/ pc[p] = "written" /\ ~Overfull(checkpoints)
    \/ pc[p] = "unchecked"

\* append_event: this line is the commit point of the operation.
AppendEvent(p) ==
    /\ CheckpointSettled(p)
    /\ eventLog' = Append(eventLog,
           [revision   |-> prospective[p].revision,
            op         |-> call[p].op,
            path       |-> call[p].path,
            checkpoint |-> IF pc[p] = "written"
                           THEN {CheckpointOf(call[p].op, state)} ELSE {}])
    /\ Goto(p, "appended")
    /\ UNCHANGED <<state, torn, artifacts, checkpoints, lock, call,
                   prospective, answer, interruptions>>

\* write_state_replace: a private temporary file and an atomic rename.
ReplaceState(p) ==
    /\ pc[p] = "appended"
    /\ state' = prospective[p]
    /\ Goto(p, "replaced")
    /\ UNCHANGED <<eventLog, torn, artifacts, checkpoints, lock, call,
                   prospective, answer, interruptions>>

\* The context manager closes the lock file and the caller gets its answer.
Finish(p) ==
    /\ pc[p] = "replaced"
    /\ Return(p, "committed")
    /\ UNCHANGED <<files, interruptions>>

-----------------------------------------------------------------------------
(***************************************************************************)
(* What the machine may do to a call.                                      *)
(***************************************************************************)

\* The process is killed or an I/O call raises: the operating system or the
\* context manager releases the lock, and every file stays as it is.
Interrupt(p) ==
    /\ pc[p] # "idle"
    /\ interruptions < MaxInterruptions
    /\ interruptions' = interruptions + 1
    /\ Return(p, "unknown")
    /\ UNCHANGED files

\* append_authority_bytes is one write, not an atomic one: an interruption can
\* leave a strict prefix of the line behind.
TornAppend(p) ==
    /\ CheckpointSettled(p)
    /\ interruptions < MaxInterruptions
    /\ interruptions' = interruptions + 1
    /\ torn' = TRUE
    /\ Return(p, "unknown")
    /\ UNCHANGED <<state, eventLog, artifacts, checkpoints>>

-----------------------------------------------------------------------------
\* What a process does of its own accord once it has been called.
Step(p) ==
    \/ Lock(p)              \/ LockTimeout(p)
    \/ Prepare(p)           \/ RefuseLoad(p)    \/ RefusePrepare(p)
    \/ PersistArtifact(p)   \/ ArtifactExists(p)
    \/ WriteCheckpoint(p)   \/ UnlinkOldest(p)
    \/ CheckpointFails(p)   \/ RetentionFails(p)
    \/ AppendEvent(p)       \/ ReplaceState(p)     \/ Finish(p)

Next ==
    \E p \in Processes : Call(p) \/ Step(p) \/ Interrupt(p) \/ TornAppend(p)

Spec == Init /\ [][Next]_vars

\* A called process keeps running; nobody has to call, to fail or to wait.
FairSpec == Spec /\ \A p \in Processes : WF_vars(Step(p))

-----------------------------------------------------------------------------
(***************************************************************************)
(* Properties.                                                             *)
(***************************************************************************)

\* The type of every variable.
TypeOK ==
    /\ state \in States
    /\ eventLog \in Seq(Events)
    /\ torn \in BOOLEAN
    /\ artifacts \in [Paths -> Operations \union {NoOperation}]
    /\ checkpoints \subseteq Checkpoints
    /\ lock \in Processes \union {NoProcess}
    /\ pc \in [Processes -> Phases]
    /\ call \in [Processes -> Calls \union {NoCall}]
    /\ prospective \in [Processes -> States]
    /\ answer \in [Processes -> Answers]
    /\ interruptions \in 0..MaxInterruptions

\* The journal numbers the revisions without a gap, the state file is at most
\* one event behind it, and its ledger names exactly the operations of the
\* events it has absorbed: no interleaving of writers and no interruption makes
\* commit_state skip, repeat or reorder a revision.
LogMatchesState ==
    /\ \A i \in DOMAIN eventLog : eventLog[i].revision = i + 1
    /\ Len(eventLog) + 1 \in {state.revision, state.revision + 1}
    /\ state.ledger = {eventLog[i].op : i \in 1..(state.revision - 1)}

\* However often a caller repeats an operation id, after whatever answer or
\* interruption, the journal records it once (require_operation_unused).
EachOperationOnce ==
    \A i, j \in DOMAIN eventLog : eventLog[i].op = eventLog[j].op => i = j

\* An event never refers to evidence that was not written first, and the file
\* it refers to is the one its own operation created (persist_artifacts
\* precede append_event, and are create-only).
EvidenceBacksEvents ==
    \A i \in DOMAIN eventLog :
        eventLog[i].path # NoPath =>
            artifacts[eventLog[i].path] = eventLog[i].op

\* A caller told "committed" finds its operation in the journal at the very
\* revision that follows the one it expected, with its own artifact; a caller
\* told "duplicate-operation" finds it in the ledger.
AnswersAreTruthful ==
    \A p \in Processes :
        /\ answer[p] = "committed" =>
              \E i \in DOMAIN eventLog :
                  /\ eventLog[i].op = call[p].op
                  /\ eventLog[i].revision = call[p].expected + 1
                  /\ eventLog[i].path = call[p].path
                  /\ i < state.revision
        /\ answer[p] = "duplicate-operation" => call[p].op \in state.ledger

\* The checkpoint a committed event refers to is only ever deleted when a full
\* store of checkpoints at least as recent as it stays behind, also when a kill
\* or a failing unlink has left the store with more files than its bound.
RetentionByAge ==
    \A i \in DOMAIN eventLog : \A c \in eventLog[i].checkpoint \ checkpoints :
        Cardinality({k \in checkpoints : c.createdAt <= k.createdAt})
            >= MaxCheckpointsPerRun

\* write_context_checkpoint: "retain only the latest bounded set per run".  The
\* checkpoint that the latest event reports as written is in the store.
LatestCheckpointKept ==
    eventLog # <<>> => eventLog[Len(eventLog)].checkpoint \subseteq checkpoints

\* Every call returns: a crashed holder frees the lock, and waiting is bounded
\* by the lock's time limit.
EveryCallReturns ==
    \A p \in Processes : (pc[p] = "waiting") ~> (pc[p] = "idle")

\* The journal and the state can disagree for good only after an interrupted
\* commit; the kernel then accepts no further operation (OperationHistory's
\* sealed).  While a live process is between the two writes, nothing is sealed.
Sealed ==
    torn \/ (SplitBrain /\ \A p \in Processes : pc[p] # "appended")

History == INSTANCE OperationHistory WITH
    history <- [i \in DOMAIN eventLog |-> eventLog[i].op],
    sealed  <- Sealed

\* The kernel implements the abstract history: exactly-once, append-only, and
\* sealed by an interrupted commit.
ImplementsHistory == History!Spec
=============================================================================
