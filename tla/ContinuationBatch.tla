------------------------- MODULE ContinuationBatch -------------------------
(***************************************************************************)
(* Bounded continuation (workflow/continuation_batch.py): batches apply    *)
(* the steps of one input bundle, each as an ordinary transition of the    *)
(* run, and keep a receipt that a later batch resumes from.  Between a     *)
(* projection and its application, and between a transition and the        *)
(* receipt that reports it, other batches and operators change the run,    *)
(* and a batch can be killed.                                              *)
(*                                                                         *)
(* A transition goes through the mutation kernel.  Of the kernel this      *)
(* module uses what WorkflowKernel is shown to implement, OperationHistory *)
(* (the events and the seal), and that the state file follows an event in  *)
(* a write of its own.                                                     *)
(***************************************************************************)
EXTENDS Naturals, Sequences

CONSTANTS
    Batches,        \* calls of continue_workflow_batch
    Someone,        \* whoever else calls operations of the run
    NoBatch,        \* the author of the resume receipt of a batch that has none
    Bundle,         \* the steps of the input bundle: operation id and action type
    Foreign,        \* operation ids that are not in the bundle
    Actions,        \* ACTION_TYPES
    LocalTypes,     \* LOCAL_CHAIN_ACTION_TYPES
    MaxTransitions, \* --max-transitions of each call
    LocalOnly       \* the calls with --local-only

Operations == {Bundle[k].op : k \in DOMAIN Bundle} \union Foreign

ASSUME BundleAssumption ==
    /\ Bundle \in Seq([op : Operations, type : Actions])
    /\ \A j, k \in DOMAIN Bundle : Bundle[j].op = Bundle[k].op => j = k
ASSUME NamesAssumption ==
    Someone \notin Batches /\ NoBatch \notin Batches /\ LocalTypes \subseteq Actions
ASSUME CallsAssumption ==
    MaxTransitions \in [Batches -> Nat \ {0}] /\ LocalOnly \subseteq Batches

VARIABLES
    history,    \* the operations of the event journal
    sealed,     \* an interrupted commit has made the run read-only
    authors,    \* who committed each of them, and what had been projected
    revision,   \* stateRevision of the state file
    projected,  \* the action that the state file projects
    receipts,   \* the file at the output path of each batch
    batch       \* where each batch is, and what it knows

vars == <<history, sealed, authors, revision, projected, receipts, batch>>
run  == <<history, sealed, authors, revision, projected>>

Kernel == INSTANCE OperationHistory

Places == {"idle", "prepared", "loop", "projected", "appended", "applied",
           "refused", "recorded", "recorded last", "finalizing", "ended"}

\* stateRevisionAfter of each step record.
StepRecords == Seq(Nat)

NoReceipt == [status |-> "none", steps |-> <<>>]
Receipts  == [status : {"IN_PROGRESS", "STOPPED"}, steps : StepRecords]
             \union {NoReceipt}

NotCalled == [pc |-> "idle", resume |-> NoBatch, resumed |-> NoReceipt,
              seen |-> 0, steps |-> <<>>, applied |-> 0]

Init ==
    /\ Kernel!Init
    /\ authors = <<>>
    /\ revision = 1
    /\ projected \in Actions
    /\ receipts = [b \in Batches |-> NoReceipt]
    /\ batch = [b \in Batches |-> NotCalled]

-----------------------------------------------------------------------------
(***************************************************************************)
(* The run, as an operation finds it.                                      *)
(***************************************************************************)

\* The operations that the state file's ledger holds, and their revisions.
Ledger == {history[i] : i \in 1..(revision - 1)}
RevisionOf(op) == 1 + CHOOSE i \in DOMAIN history : history[i] = op

\* Somebody is between append_event and write_state_replace.
Committing == ~sealed /\ revision = Len(history)

\* read_events accepts the journal, unless its last line was torn.
Torn == sealed /\ revision > Len(history)

\* append_event of an operation that load_for_update admitted.
AppendEvent(op, by) ==
    /\ revision = Len(history) + 1
    /\ Kernel!Record(op)
    /\ authors' = Append(authors, [by |-> by, projected |-> projected])
    /\ UNCHANGED <<revision, projected>>

\* write_state_replace: the next state projects its own next action.
ReplaceState ==
    /\ revision' = revision + 1
    /\ projected' \in Actions
    /\ UNCHANGED <<history, sealed, authors>>

-----------------------------------------------------------------------------
(***************************************************************************)
(* One batch.                                                              *)
(***************************************************************************)
At(b, place) == batch[b].pc = place
Goto(b, place) == batch' = [batch EXCEPT ![b].pc = place]
Leave(b) == batch' = [batch EXCEPT ![b] = [NotCalled EXCEPT !.pc = "ended"]]

\* The step the batch is at: the first one it has no record of.
Position(b) == Len(batch[b].steps) + 1
Operation(b) == Bundle[Position(b)].op

\* _validate_retry_prefix: without a receipt no step of the bundle is in the
\* ledger; with one, exactly its steps are, each at the revision it names.
RetryPrefix(resume) ==
    LET used == {k \in DOMAIN Bundle : Bundle[k].op \in Ledger} IN
    IF resume = NoBatch
    THEN used = {}
    ELSE /\ receipts[resume] # NoReceipt
         /\ ~Torn
         /\ used = DOMAIN receipts[resume].steps
         /\ \A k \in used : receipts[resume].steps[k] = RevisionOf(Bundle[k].op)

\* Everything up to the reservation of the output.  A refusal changes nothing:
\* the call might as well not have been made.
Prepare(b) ==
    /\ At(b, "idle")
    /\ \E resume \in (Batches \ {b}) \union {NoBatch} :
          /\ RetryPrefix(resume)
          /\ LET resumed == IF resume = NoBatch THEN NoReceipt ELSE receipts[resume]
             IN  batch' = [batch EXCEPT ![b] =
                     [NotCalled EXCEPT !.pc = "prepared", !.resume = resume,
                        !.resumed = resumed, !.steps = resumed.steps]]
    /\ UNCHANGED <<run, receipts>>

\* _build_receipt.
Receipt(b, status) == [status |-> status, steps |-> batch[b].steps]

Publish(b, status) ==
    receipts' = [receipts EXCEPT ![b] = Receipt(b, status)]

\* _reserve_output, or _persist_initial_stop: the output is created, and the
\* batch goes on, or is BLOCKED by its first projection.
Reserve(b) ==
    /\ At(b, "prepared")
    /\ Publish(b, "IN_PROGRESS")
    /\ \E place \in {"loop", "finalizing"} : Goto(b, place)
    /\ UNCHANGED run

\* "batch output path already exists": the receipts of two batches never share one.
OutputExists(b) ==
    /\ At(b, "prepared")
    /\ Leave(b)
    /\ UNCHANGED <<run, receipts>>

\* The action that the state projects is the step's, and a batch may apply it.
Permitted(b) ==
    /\ projected = Bundle[Position(b)].type
    /\ b \in LocalOnly => projected \in LocalTypes

\* One turn of _run_batch up to its application: the projection is bound to the
\* revision it was made at, and the input files are as they were read.
Project(b) ==
    /\ At(b, "loop")
    /\ Position(b) \in DOMAIN Bundle
    /\ Permitted(b)
    /\ batch[b].applied < MaxTransitions[b]
    /\ batch[b].resume # NoBatch => receipts[batch[b].resume] = batch[b].resumed
    /\ batch' = [batch EXCEPT ![b].pc = "projected", ![b].seen = revision]
    /\ UNCHANGED <<run, receipts>>

\* Every other way a turn can end: a boundary, missing input, a cap, a blocker.
Stop(b) ==
    /\ At(b, "loop")
    /\ Goto(b, "finalizing")
    /\ UNCHANGED <<run, receipts>>

\* Mutant: the transition is applied to whatever revision it finds.
ApplyAnyway(b) ==
    /\ At(b, "projected")
    /\ AppendEvent(Operation(b), b)
    /\ Goto(b, "appended")
    /\ UNCHANGED receipts

\* continue_workflow repeats the projection, and the kernel admits the operation
\* at the projected revision only.
Apply(b) ==
    /\ At(b, "projected")
    /\ revision = batch[b].seen
    /\ AppendEvent(Operation(b), b)
    /\ Goto(b, "appended")
    /\ UNCHANGED receipts

Applied(b) ==
    /\ At(b, "appended")
    /\ ReplaceState
    /\ Goto(b, "applied")
    /\ UNCHANGED receipts

\* Any refusal of the projection, the kernel or the transition.
Refused(b) ==
    /\ At(b, "projected")
    /\ Goto(b, "refused")
    /\ UNCHANGED <<run, receipts>>

\* Mutant: what the ledger holds counts as applied, whoever applied it.
GoesOnIfDone(b) == {"recorded"}

\* Whether continue_workflow said APPLIED: not after a refusal, and otherwise unless
\* it found the state changed or unreadable when it looked at the next action.
GoesOn(b) ==
    IF At(b, "refused") THEN {"recorded last"} ELSE {"recorded", "recorded last"}

\* Mutant: a record names the revision its projection was made at.
RecordSeen(b) ==
    /\ batch[b].pc \in {"applied", "refused"}
    /\ Operation(b) \in Ledger
    /\ ~Torn
    /\ \E place \in GoesOn(b) :
          batch' = [batch EXCEPT ![b].pc = place, ![b].seen = 0,
                                 ![b].steps = Append(@, batch[b].seen),
                                 ![b].applied = @ + 1]
    /\ UNCHANGED <<run, receipts>>

\* The state is loaded once more.  A step that its ledger holds gets a record
\* with the revision just read.
Record(b) ==
    /\ batch[b].pc \in {"applied", "refused"}
    /\ Operation(b) \in Ledger
    /\ ~Torn
    /\ \E place \in GoesOn(b) :
          batch' = [batch EXCEPT ![b].pc = place, ![b].seen = 0,
                                 ![b].steps = Append(@, revision),
                                 ![b].applied = @ + 1]
    /\ UNCHANGED <<run, receipts>>

\* Mutant: after a refusal the step is projected again.
TryAgain(b) ==
    /\ batch[b].pc \in {"applied", "refused"}
    /\ Goto(b, "loop")
    /\ UNCHANGED <<run, receipts>>

\* The ledger does not hold the step, or the journal cannot be read, which may be
\* because somebody is writing it.
NoRecord(b) ==
    /\ batch[b].pc \in {"applied", "refused"}
    /\ Goto(b, "finalizing")
    /\ UNCHANGED <<run, receipts>>

\* Mutant: progress is written at the end only.
PersistLast(b) ==
    /\ batch[b].pc \in {"recorded", "recorded last"}
    /\ Goto(b, IF At(b, "recorded") THEN "loop" ELSE "finalizing")
    /\ UNCHANGED <<run, receipts>>

\* replace_private_json with the progress made.
Persist(b) ==
    /\ batch[b].pc \in {"recorded", "recorded last"}
    /\ Publish(b, "IN_PROGRESS")
    /\ Goto(b, IF At(b, "recorded") THEN "loop" ELSE "finalizing")
    /\ UNCHANGED run

\* Mutant: the final receipt lists no steps.
FinalizeAnew(b) ==
    /\ At(b, "finalizing")
    /\ receipts' = [receipts EXCEPT ![b] = [status |-> "STOPPED", steps |-> <<>>]]
    /\ Leave(b)
    /\ UNCHANGED run

\* _finalize.
Finalize(b) ==
    /\ At(b, "finalizing")
    /\ Publish(b, "STOPPED")
    /\ Leave(b)
    /\ UNCHANGED run

\* A commit breaks off inside append_event, which leaves a torn line, or before
\* write_state_replace: the run is read-only from then on.
BreakOff(b) ==
    /\ \/ At(b, "appended")
       \/ At(b, "projected") /\ revision = batch[b].seen /\ ~Committing
    /\ Kernel!Seal
    /\ UNCHANGED <<authors, revision, projected>>

\* The commit fails with a LifecycleError, which continue_workflow reports.
Interrupted(b) ==
    /\ BreakOff(b)
    /\ Goto(b, "refused")
    /\ UNCHANGED receipts

\* A kill anywhere, or an error that is no LifecycleError.
Die(b) ==
    /\ batch[b].pc \notin {"idle", "ended"}
    /\ \/ BreakOff(b)
       \/ ~At(b, "appended") /\ UNCHANGED run
    /\ Leave(b)
    /\ UNCHANGED receipts

-----------------------------------------------------------------------------
(***************************************************************************)
(* Others, who may also name an operation of the bundle.                   *)
(***************************************************************************)
OthersAppend(op) ==
    /\ AppendEvent(op, Someone)
    /\ UNCHANGED <<receipts, batch>>

OthersCommitting == Committing /\ authors[Len(authors)].by = Someone

OthersReplace ==
    /\ OthersCommitting
    /\ ReplaceState
    /\ UNCHANGED <<receipts, batch>>

OthersDie ==
    /\ OthersCommitting
    /\ Kernel!Seal
    /\ UNCHANGED <<authors, revision, projected, receipts, batch>>

-----------------------------------------------------------------------------
\* What a batch does of its own accord once it was called.
Step(b) ==
    \/ Reserve(b)  \/ OutputExists(b)
    \/ Project(b)  \/ Stop(b)
    \/ Apply(b)    \/ Applied(b)   \/ Refused(b)
    \/ Record(b)   \/ NoRecord(b)  \/ Persist(b)
    \/ Finalize(b) \/ Interrupted(b)

Next ==
    \/ \E b \in Batches : Prepare(b) \/ Step(b) \/ Die(b)
    \/ \E op \in Operations : OthersAppend(op)
    \/ OthersReplace \/ OthersDie

Spec == Init /\ [][Next]_vars

\* A batch that was called keeps running or dies; nobody has to call or commit.
FairSpec == Spec /\ \A b \in Batches : WF_vars(Step(b))

-----------------------------------------------------------------------------
(***************************************************************************)
(* Properties.                                                             *)
(***************************************************************************)
TypeOK ==
    /\ history \in Seq(Operations)
    /\ sealed \in BOOLEAN
    /\ authors \in Seq([by : Batches \union {Someone},
                        projected : Actions])
    /\ revision \in Nat
    /\ projected \in Actions
    /\ receipts \in [Batches -> Receipts]
    /\ batch \in [Batches ->
          [pc : Places, resume : Batches \union {NoBatch}, resumed : Receipts,
           seen : Nat, steps : StepRecords, applied : Nat]]
    /\ \A b \in Batches :
          /\ Len(batch[b].steps) <= Len(Bundle)
          /\ batch[b].applied <= MaxTransitions[b]

\* What batch b has committed itself, as positions in the history.
Own(b) == {i \in DOMAIN history : authors[i].by = b}

\* However batches race, die and resume each other, one of them commits a step of
\* the bundle only after all steps before it have been committed, only as the action
\* that the very state it changed projected for it and, in a local chain, only a
\* local one (_run_batch, the revision guards of continue_workflow and the kernel).
StepsInOrder ==
    \A i \in DOMAIN history : authors[i].by \in Batches =>
        \E k \in DOMAIN Bundle :
            /\ history[i] = Bundle[k].op
            /\ authors[i].projected = Bundle[k].type
            /\ authors[i].by \in LocalOnly => Bundle[k].type \in LocalTypes
            /\ \A j \in 1..(k - 1) : \E h \in 1..(i - 1) : history[h] = Bundle[j].op

\* Whenever a batch dies, and whatever it found unreadable, its receipt lacks at
\* most the last of the transitions it committed (progress is persisted before the
\* next projection).
ReceiptTrails ==
    \A b \in Batches : receipts[b] # NoReceipt =>
        \A i \in Own(b) :
            \/ \E k \in DOMAIN receipts[b].steps : history[i] = Bundle[k].op
            \/ \A j \in Own(b) : j <= i

\* A batch that has put somebody else's transition on its record, because it lost a
\* race for the step, is past its last commit: no two batches take turns in working
\* off one bundle (the status of continue_workflow decides, not the ledger).
RivalsYield ==
    \A b \in Batches :
        (\E k \in (Len(batch[b].resumed.steps) + 1)..Len(batch[b].steps) :
            \E i \in DOMAIN history \ Own(b) : history[i] = Bundle[k].op)
        => batch[b].pc \in {"recorded last", "finalizing", "ended"}

\* A record names a revision other than that of its transition only if somebody
\* else committed right behind that transition: the receipt of an undisturbed batch
\* is a proof that the next one accepts.
RecordsProve ==
    \A b \in Batches : \A k \in DOMAIN receipts[b].steps :
        LET r == RevisionOf(Bundle[k].op) IN
        receipts[b].steps[k] # r =>
            /\ receipts[b].steps[k] > r
            /\ r \in DOMAIN history /\ {authors[r - 1].by, authors[r].by} # {b}

\* Every batch ends, whatever the others do.
EveryBatchEnds ==
    \A b \in Batches : At(b, "prepared") ~> At(b, "ended")

\* The steps of the bundle whose operation the journal holds, whoever committed it.
Done == {k \in DOMAIN Bundle : \E i \in DOMAIN history : history[i] = Bundle[k].op}

Progress == INSTANCE BundleProgress WITH
    Receipts <- Batches,
    Steps    <- Len(Bundle),
    done     <- Done,
    claims   <- [b \in Batches |-> Len(receipts[b].steps)]

\* Batches implement the progress of the bundle: no receipt claims a step before it
\* and all steps before it were committed, and no claim is taken back.
ImplementsProgress == Progress!Spec
=============================================================================
