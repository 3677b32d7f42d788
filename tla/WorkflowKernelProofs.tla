------------------------ MODULE WorkflowKernelProofs ------------------------
(***************************************************************************)
(* Proofs about WorkflowKernel for every number of processes, operation    *)
(* ids, paths and interruptions.                                           *)
(***************************************************************************)
EXTENDS WorkflowKernel, FiniteSetTheorems, TLAPS

(***************************************************************************)
(* The types, and the one fact about control they rest on: the arguments   *)
(* of a call are those of a caller until the call returns.                 *)
(***************************************************************************)
CallsAreTyped == \A p \in Processes : pc[p] # "idle" => call[p] \in Calls

TypeInv == TypeOK /\ CallsAreTyped

\* A call that returns leaves every local variable of its process typed.
LEMMA ReturnTyped ==
    ASSUME TypeInv, NEW p \in Processes, NEW result \in Answers, Return(p, result)
    PROVE  /\ lock' \in Processes \union {NoProcess}
           /\ pc' \in [Processes -> Phases]
           /\ call' \in [Processes -> Calls \union {NoCall}]
           /\ prospective' \in [Processes -> States]
           /\ answer' \in [Processes -> Answers]
           /\ \A q \in Processes : pc'[q] # "idle" => call'[q] \in Calls
<1>1. NoState \in States
  BY DEF NoState, States
<1>2. pc' \in [Processes -> Phases] /\ pc'[p] = "idle"
  BY DEF Return, TypeInv, TypeOK, Phases
<1>3. call' \in [Processes -> Calls \union {NoCall}]
  BY DEF Return, TypeInv, TypeOK
<1>4. \A q \in Processes : pc'[q] # "idle" => call'[q] \in Calls
  <2>1. SUFFICES ASSUME NEW q \in Processes, pc'[q] # "idle"
                 PROVE  call'[q] \in Calls
    OBVIOUS
  <2>2. q # p /\ pc[q] # "idle" /\ call'[q] = call[q]
    BY <2>1, <1>2 DEF Return, TypeInv, TypeOK
  <2> QED
    BY <2>2 DEF TypeInv, CallsAreTyped
<1> QED
  BY <1>1, <1>2, <1>3, <1>4 DEF Return, TypeInv, TypeOK

LEMMA TypeInit == Init => TypeInv
<1> SUFFICES ASSUME Init PROVE TypeInv
  OBVIOUS
<1>1. state \in States /\ NoState \in States
  BY DEF Init, States, NoState
<1>2. TypeOK
  <2>1. checkpoints \subseteq Checkpoints /\ eventLog \in Seq(Events)
    BY DEF Init
  <2>2. interruptions \in 0..MaxInterruptions
    BY BoundsAssumption DEF Init
  <2> QED
    BY <1>1, <2>1, <2>2 DEF Init, TypeOK, Phases, Answers
<1> QED
  BY <1>2 DEF Init, TypeInv, CallsAreTyped

LEMMA TypeStep == TypeInv /\ [Next]_vars => TypeInv'
<1> SUFFICES ASSUME TypeInv, [Next]_vars PROVE TypeInv'
  OBVIOUS
<1> USE DEF TypeInv
<1>1. ASSUME NEW p \in Processes, Call(p) PROVE TypeInv'
  BY <1>1 DEF Call, Goto, TypeOK, CallsAreTyped, files, Phases, Answers, Calls, States
<1>2. ASSUME NEW p \in Processes, Lock(p) PROVE TypeInv'
  BY <1>2 DEF Lock, Goto, TypeOK, CallsAreTyped, files, Phases
<1>3. ASSUME NEW p \in Processes, LockTimeout(p) PROVE TypeInv'
  BY <1>3, ReturnTyped DEF LockTimeout, TypeOK, CallsAreTyped, files, Answers
<1>4. ASSUME NEW p \in Processes, Prepare(p) PROVE TypeInv'
  <2>1. PICK now \in 0..MaxClock :
          prospective' = [prospective EXCEPT ![p] =
              [revision  |-> state.revision + 1,
               ledger    |-> state.ledger \union {call[p].op},
               updatedAt |-> now]]
    BY <1>4 DEF Prepare
  <2>2. call[p] \in Calls
    BY <1>4 DEF Prepare, CallsAreTyped
  <2>3. [revision |-> state.revision + 1, ledger |-> state.ledger \union {call[p].op},
         updatedAt |-> now] \in States
    BY <2>2, BoundsAssumption DEF TypeOK, States, Calls
  <2>4. prospective' \in [Processes -> States]
    BY <2>1, <2>3 DEF TypeOK
  <2> QED
    BY <1>4, <2>4 DEF Prepare, Goto, TypeOK, CallsAreTyped, files, Phases
<1>5. ASSUME NEW p \in Processes, RefuseLoad(p) PROVE TypeInv'
  <2>1. PICK result \in Answers : Return(p, result)
    BY <1>5 DEF RefuseLoad, Answers
  <2> QED
    BY <1>5, <2>1, ReturnTyped DEF RefuseLoad, TypeOK, CallsAreTyped, files
<1>6. ASSUME NEW p \in Processes, RefusePrepare(p) PROVE TypeInv'
  BY <1>6, ReturnTyped DEF RefusePrepare, TypeOK, CallsAreTyped, files, Answers
<1>7. ASSUME NEW p \in Processes, PersistArtifact(p) PROVE TypeInv'
  <2>1. call[p].op \in Operations
    BY <1>7 DEF PersistArtifact, CallsAreTyped, Calls
  <2>2. artifacts' \in [Paths -> Operations \union {NoOperation}]
    BY <1>7, <2>1 DEF PersistArtifact, TypeOK
  <2> QED
    BY <1>7, <2>2 DEF PersistArtifact, Goto, TypeOK, CallsAreTyped, Phases
<1>8. ASSUME NEW p \in Processes, ArtifactExists(p) PROVE TypeInv'
  BY <1>8, ReturnTyped DEF ArtifactExists, TypeOK, CallsAreTyped, files, Answers
<1>9. ASSUME NEW p \in Processes, WriteCheckpoint(p) PROVE TypeInv'
  <2>1. CheckpointOf(call[p].op, state) \in Checkpoints
    BY <1>9 DEF WriteCheckpoint, CallsAreTyped, Calls, TypeOK, States,
                CheckpointOf, Checkpoints
  <2>2. checkpoints' \subseteq Checkpoints
    BY <1>9, <2>1 DEF WriteCheckpoint, TypeOK
  <2> QED
    BY <1>9, <2>2 DEF WriteCheckpoint, Goto, TypeOK, CallsAreTyped, Phases
<1>10. ASSUME NEW p \in Processes, CheckpointFails(p) \/ RetentionFails(p)
       PROVE  TypeInv'
  <2>1. /\ pc[p] # "idle" /\ UNCHANGED files
        /\ interruptions' \in 0..MaxInterruptions
    BY <1>10, BoundsAssumption
    DEF CheckpointFails, RetentionFails, GiveUpCheckpoint, TypeOK
  <2>2. CASE Return(p, "refused")
    BY <2>1, <2>2, ReturnTyped DEF TypeOK, CallsAreTyped, files, Answers
  <2>3. CASE Goto(p, "unchecked") /\ UNCHANGED <<lock, call, answer, prospective>>
    BY <2>1, <2>3 DEF Goto, TypeOK, CallsAreTyped, files, Phases
  <2> QED
    BY <1>10, <2>2, <2>3 DEF CheckpointFails, RetentionFails, GiveUpCheckpoint
<1>11. ASSUME NEW p \in Processes, AppendEvent(p) PROVE TypeInv'
  <2> DEFINE event == [revision   |-> prospective[p].revision,
                       op         |-> call[p].op,
                       path       |-> call[p].path,
                       checkpoint |-> IF pc[p] = "written"
                                      THEN {CheckpointOf(call[p].op, state)} ELSE {}]
  <2>1. CheckpointOf(call[p].op, state) \in Checkpoints
    BY <1>11 DEF AppendEvent, CheckpointSettled, CallsAreTyped, Calls, TypeOK, States,
                 CheckpointOf, Checkpoints
  <2>2. event \in Events
    BY <1>11, <2>1 DEF AppendEvent, CheckpointSettled, CallsAreTyped, Calls, TypeOK, States, Events
  <2>3. eventLog' \in Seq(Events)
    BY <1>11, <2>2 DEF AppendEvent, CheckpointSettled, TypeOK
  <2> QED
    BY <1>11, <2>3 DEF AppendEvent, CheckpointSettled, Goto, TypeOK, CallsAreTyped, Phases
<1>12. ASSUME NEW p \in Processes, ReplaceState(p) PROVE TypeInv'
  BY <1>12 DEF ReplaceState, Goto, TypeOK, CallsAreTyped, Phases
<1>13. ASSUME NEW p \in Processes, Finish(p) PROVE TypeInv'
  BY <1>13, ReturnTyped DEF Finish, TypeOK, CallsAreTyped, files, Answers
<1>14. ASSUME NEW p \in Processes, Interrupt(p) PROVE TypeInv'
  BY <1>14, ReturnTyped, BoundsAssumption
     DEF Interrupt, TypeOK, CallsAreTyped, files, Answers
<1>15. ASSUME NEW p \in Processes, TornAppend(p) PROVE TypeInv'
  BY <1>15, ReturnTyped, BoundsAssumption
     DEF TornAppend, CheckpointSettled, TypeOK, CallsAreTyped, Answers
<1>16. CASE UNCHANGED vars
  BY <1>16 DEF TypeOK, CallsAreTyped, vars, files, locals
<1>17. ASSUME NEW p \in Processes, UnlinkOldest(p) PROVE TypeInv'
  <2>1. checkpoints' \subseteq Checkpoints
    BY <1>17 DEF UnlinkOldest, TypeOK
  <2> QED
    BY <1>17, <2>1 DEF UnlinkOldest, locals, TypeOK, CallsAreTyped
<1> QED
  BY <1>1, <1>2, <1>3, <1>4, <1>5, <1>6, <1>7, <1>8, <1>9, <1>10, <1>11,
     <1>12, <1>13, <1>14, <1>15, <1>16, <1>17 DEF Next, Step

(***************************************************************************)
(* Every file and every local variable keeps its type.                     *)
(***************************************************************************)
THEOREM TypeCorrect == Spec => []TypeOK
<1>1. TypeInv => TypeOK
  BY DEF TypeInv
<1> QED
  BY <1>1, TypeInit, TypeStep, PTL DEF Spec

-----------------------------------------------------------------------------
(***************************************************************************)
(* The inductive invariant.  What is promised of the files holds because   *)
(* at most one process is past the lock, and because that process acts on  *)
(* a state that has not changed since it checked it.                       *)
(***************************************************************************)
OneHolder == \A p \in Processes : lock = p <=> pc[p] \in Holding

BeforeEvent == {"prepared", "stored", "written", "unchecked"}
WithArtifact == {"stored", "written", "unchecked", "appended"}

\* The next state a process holds in memory is the successor of the file's.
SuccessorPrepared(p) ==
    /\ call[p].expected = state.revision
    /\ prospective[p].revision = state.revision + 1
    /\ prospective[p].ledger = state.ledger \union {call[p].op}

Committed(p) ==
    \E i \in DOMAIN eventLog :
        /\ eventLog[i].op = call[p].op
        /\ eventLog[i].revision = call[p].expected + 1
        /\ eventLog[i].path = call[p].path
        /\ i < state.revision

CommitInv ==
    \A p \in Processes :
        /\ pc[p] \in BeforeEvent =>
              /\ ~torn
              /\ Len(eventLog) + 1 = state.revision
              /\ call[p].op \notin state.ledger
              /\ SuccessorPrepared(p)
        /\ pc[p] \in WithArtifact =>
              (call[p].path # NoPath => artifacts[call[p].path] = call[p].op)
        /\ pc[p] = "appended" =>
              /\ ~torn
              /\ Len(eventLog) = state.revision
              /\ eventLog[Len(eventLog)].op = call[p].op
              /\ eventLog[Len(eventLog)].path = call[p].path
              /\ SuccessorPrepared(p)
        /\ pc[p] = "replaced" => Committed(p)

KernelInv ==
    /\ TypeInv
    /\ state.revision # 0
    /\ LogMatchesState
    /\ EachOperationOnce
    /\ EvidenceBacksEvents
    /\ AnswersAreTruthful
    /\ OneHolder
    /\ CommitInv

LEMMA HoldingPhases ==
    Holding = {"locked", "prepared", "stored", "written", "unchecked",
               "appended", "replaced"}
BY DEF Holding, Phases

LEMMA KernelInit == Init => KernelInv
<1> SUFFICES ASSUME Init PROVE KernelInv
  OBVIOUS
<1>1. TypeInv
  BY TypeInit
<1>2. LogMatchesState /\ EachOperationOnce /\ EvidenceBacksEvents
  BY DEF Init, LogMatchesState, EachOperationOnce, EvidenceBacksEvents
<1>3. AnswersAreTruthful
  BY DEF Init, AnswersAreTruthful
<1>4. state.revision # 0 /\ OneHolder /\ CommitInv
  BY HoldingPhases, NoProcessAssumption
     DEF Init, OneHolder, CommitInv, BeforeEvent, WithArtifact
<1> QED
  BY <1>1, <1>2, <1>3, <1>4 DEF KernelInv

\* While one process is past the lock, every other is idle or waiting.
LEMMA OthersAreOutside ==
    ASSUME KernelInv, NEW p \in Processes, pc[p] \in Holding,
           NEW q \in Processes, q # p
    PROVE  pc[q] \notin Holding
BY DEF KernelInv, OneHolder

\* A step that leaves the journal and the state alone and overwrites no
\* artifact keeps everything that is promised of the journal.
LEMMA JournalKept ==
    ASSUME KernelInv, UNCHANGED <<state, eventLog>>,
           \A path \in Paths : artifacts[path] # NoOperation => artifacts'[path] = artifacts[path]
    PROVE  /\ (state.revision # 0)' /\ LogMatchesState' /\ EachOperationOnce'
           /\ EvidenceBacksEvents'
<1>1. (state.revision # 0)' /\ LogMatchesState' /\ EachOperationOnce'
  BY DEF KernelInv, LogMatchesState, EachOperationOnce
<1>2. EvidenceBacksEvents'
  <2>1. SUFFICES ASSUME NEW i \in DOMAIN eventLog, eventLog[i].path # NoPath
                 PROVE  artifacts'[eventLog[i].path] = eventLog[i].op
    BY DEF EvidenceBacksEvents
  <2>2. eventLog[i].path \in Paths /\ eventLog[i].op \in Operations
    <3>1. eventLog[i] \in Events
      BY <2>1 DEF KernelInv, TypeInv, TypeOK
    <3> QED
      BY <2>1, <3>1 DEF Events
  <2>3. artifacts[eventLog[i].path] = eventLog[i].op
    BY <2>1 DEF KernelInv, EvidenceBacksEvents
  <2> QED
    BY <2>2, <2>3, NoOperationAssumption
<1> QED
  BY <1>1, <1>2

\* A call that returns without touching a file, and without claiming to have
\* been recorded, disturbs nothing.
LEMMA ReturnKeeps ==
    ASSUME KernelInv, NEW p \in Processes, NEW result \in Answers,
           Return(p, result), UNCHANGED <<state, eventLog, artifacts>>,
           torn' = torn \/ pc[p] \in Holding,
           result = "committed" => Committed(p),
           result = "duplicate-operation" => call[p].op \in state.ledger
    PROVE  /\ (state.revision # 0)'
           /\ LogMatchesState' /\ EachOperationOnce' /\ EvidenceBacksEvents'
           /\ AnswersAreTruthful' /\ OneHolder' /\ CommitInv'
<1>1. (state.revision # 0)' /\ LogMatchesState' /\ EachOperationOnce' /\ EvidenceBacksEvents'
  BY DEF KernelInv, LogMatchesState, EachOperationOnce, EvidenceBacksEvents
<1>2. /\ pc'[p] = "idle"
      /\ \A q \in Processes : q # p =>
            /\ pc'[q] = pc[q] /\ call'[q] = call[q]
            /\ prospective'[q] = prospective[q] /\ answer'[q] = answer[q]
      /\ answer'[p] = result
      /\ result \in {"committed", "duplicate-operation"} => call'[p] = call[p]
  BY DEF Return, KernelInv, TypeInv, TypeOK
<1>3. AnswersAreTruthful'
  BY <1>2 DEF KernelInv, AnswersAreTruthful, Committed
<1>4. OneHolder'
  BY <1>2, HoldingPhases, NoProcessAssumption DEF Return, KernelInv, OneHolder
<1>5. CommitInv'
  <2>1. SUFFICES ASSUME NEW q \in Processes, q # p
                 PROVE  /\ pc[q] = pc'[q] /\ call[q] = call'[q]
                        /\ prospective'[q] = prospective[q]
                        /\ pc[q] \in BeforeEvent \union {"appended"} => torn' = torn
    BY <1>2 DEF KernelInv, CommitInv, SuccessorPrepared, Committed, BeforeEvent, WithArtifact
  <2>2. pc[q] \in BeforeEvent \union {"appended"} => pc[p] \notin Holding
    BY <2>1, OthersAreOutside, HoldingPhases DEF BeforeEvent
  <2> QED
    BY <2>1, <2>2, <1>2 DEF KernelInv, TypeInv, TypeOK
<1> QED
  BY <1>1, <1>3, <1>4, <1>5

\* Every step of the kernel preserves the inductive invariant.
LEMMA KernelStep == KernelInv /\ [Next]_vars => KernelInv'
<1> SUFFICES ASSUME KernelInv, [Next]_vars PROVE KernelInv'
  OBVIOUS
<1> DEFINE Rest == /\ state.revision # 0
                   /\ LogMatchesState /\ EachOperationOnce /\ EvidenceBacksEvents
                   /\ AnswersAreTruthful /\ OneHolder /\ CommitInv
           Journal == /\ state.revision # 0
                      /\ LogMatchesState /\ EachOperationOnce /\ EvidenceBacksEvents
<1>0. TypeInv'
  BY TypeStep DEF KernelInv
<1>1. ASSUME NEW p \in Processes, Call(p) PROVE Rest'
  <2>1. Journal'
    BY <1>1, JournalKept DEF Call, files
  <2>2. /\ \A q \in Processes : q # p =>
              pc'[q] = pc[q] /\ call'[q] = call[q] /\ answer'[q] = answer[q]
        /\ pc[p] = "idle" /\ pc'[p] = "waiting" /\ answer'[p] = "none"
        /\ UNCHANGED <<files, lock, prospective>>
    BY <1>1 DEF Call, Goto, KernelInv, TypeInv, TypeOK
  <2>3. AnswersAreTruthful'
    BY <2>2 DEF files, KernelInv, AnswersAreTruthful
  <2>4. OneHolder'
    BY <2>2, HoldingPhases DEF KernelInv, OneHolder
  <2>5. CommitInv'
    BY <2>2 DEF files, KernelInv, CommitInv, SuccessorPrepared, Committed,
                BeforeEvent, WithArtifact
  <2> QED
    BY <2>1, <2>3, <2>4, <2>5
<1>2. ASSUME NEW p \in Processes, Lock(p) PROVE Rest'
  <2>1. Journal' /\ AnswersAreTruthful'
    BY <1>2, JournalKept DEF Lock, files, KernelInv, AnswersAreTruthful
  <2>2. /\ \A q \in Processes : q # p => pc'[q] = pc[q]
        /\ pc[p] = "waiting" /\ pc'[p] = "locked" /\ lock = NoProcess /\ lock' = p
        /\ UNCHANGED <<files, call, prospective>>
    BY <1>2 DEF Lock, Goto, KernelInv, TypeInv, TypeOK
  <2>3. OneHolder'
    BY <2>2, HoldingPhases, NoProcessAssumption DEF KernelInv, OneHolder
  <2>4. CommitInv'
    BY <2>2 DEF files, KernelInv, CommitInv, SuccessorPrepared, Committed,
                BeforeEvent, WithArtifact
  <2> QED
    BY <2>1, <2>3, <2>4
<1>3. ASSUME NEW p \in Processes, LockTimeout(p) PROVE Rest'
  BY <1>3, ReturnKeeps DEF LockTimeout, files, Answers
<1>4. ASSUME NEW p \in Processes, Prepare(p) PROVE Rest'
  <2>1. Journal' /\ AnswersAreTruthful'
    BY <1>4, JournalKept DEF Prepare, files, KernelInv, AnswersAreTruthful
  <2>2. /\ \A q \in Processes : q # p =>
              pc'[q] = pc[q] /\ prospective'[q] = prospective[q]
        /\ pc[p] = "locked" /\ pc'[p] = "prepared"
        /\ prospective'[p].revision = state.revision + 1
        /\ prospective'[p].ledger = state.ledger \union {call[p].op}
        /\ UNCHANGED <<files, lock, call>>
    BY <1>4 DEF Prepare, Goto, KernelInv, TypeInv, TypeOK
  <2>3. OneHolder'
    BY <2>2, HoldingPhases DEF KernelInv, OneHolder
  <2>4. ~torn /\ Len(eventLog) + 1 = state.revision
    <3>1. ~torn /\ ~SplitBrain
      BY <1>4 DEF Prepare, Admissible, Current, LogReadable
    <3>2. /\ Len(eventLog) \in Nat /\ state.revision \in Nat
          /\ Len(eventLog) + 1 \in {state.revision, state.revision + 1}
          /\ eventLog # <<>> => eventLog[Len(eventLog)].revision = Len(eventLog) + 1
          /\ eventLog = <<>> => Len(eventLog) = 0
      BY DEF KernelInv, LogMatchesState, TypeInv, TypeOK, States
    <3>3. CASE eventLog = <<>>
      BY <3>1, <3>2, <3>3 DEF KernelInv
    <3>4. CASE eventLog # <<>>
      BY <3>1, <3>2, <3>4 DEF SplitBrain
    <3> QED
      BY <3>3, <3>4
  <2>5. call[p].op \notin state.ledger /\ call[p].expected = state.revision
    BY <1>4 DEF Prepare, Admissible, Current
  <2>6. CommitInv'
    BY <2>2, <2>4, <2>5 DEF files, KernelInv, CommitInv, SuccessorPrepared,
                            Committed, BeforeEvent, WithArtifact
  <2> QED
    BY <2>1, <2>3, <2>6
<1>5. ASSUME NEW p \in Processes, RefuseLoad(p) PROVE Rest'
  <2> DEFINE result == IF Current(p) THEN "duplicate-operation" ELSE "refused"
  <2>1. result = "duplicate-operation" => call[p].op \in state.ledger
    BY <1>5 DEF RefuseLoad, Admissible
  <2>2. result \in Answers /\ result # "committed" /\ Return(p, result)
    BY <1>5 DEF RefuseLoad, Answers
  <2>3. UNCHANGED <<state, eventLog, artifacts, torn>>
    BY <1>5 DEF RefuseLoad, files
  <2> HIDE DEF result
  <2> QED
    BY <2>1, <2>2, <2>3, ReturnKeeps
<1>6. ASSUME NEW p \in Processes, RefusePrepare(p) PROVE Rest'
  BY <1>6, ReturnKeeps DEF RefusePrepare, files, Answers
<1>7. ASSUME NEW p \in Processes, PersistArtifact(p) PROVE Rest'
  <2>1. call[p] \in Calls
    BY <1>7 DEF PersistArtifact, KernelInv, TypeInv, CallsAreTyped
  <2>2. /\ \A path \in Paths : artifacts[path] # NoOperation => artifacts'[path] = artifacts[path]
        /\ call[p].path # NoPath => artifacts'[call[p].path] = call[p].op
    BY <1>7, <2>1 DEF PersistArtifact, KernelInv, TypeInv, TypeOK, Calls
  <2>3. Journal' /\ AnswersAreTruthful'
    BY <1>7, <2>2, JournalKept DEF PersistArtifact, KernelInv, AnswersAreTruthful
  <2>4. /\ \A q \in Processes : q # p => pc'[q] = pc[q]
        /\ pc[p] = "prepared" /\ pc'[p] = "stored"
        /\ UNCHANGED <<state, eventLog, torn, lock, call, prospective>>
    BY <1>7 DEF PersistArtifact, Goto, KernelInv, TypeInv, TypeOK
  <2>5. OneHolder'
    BY <2>4, HoldingPhases DEF KernelInv, OneHolder
  <2>6. CommitInv'
    <3>1. \A q \in Processes : q # p => pc'[q] \notin WithArtifact
      BY <2>4, OthersAreOutside, HoldingPhases DEF WithArtifact
    <3> QED
      BY <2>2, <2>4, <3>1 DEF KernelInv, CommitInv, SuccessorPrepared,
                              Committed, BeforeEvent, WithArtifact
  <2> QED
    BY <2>3, <2>5, <2>6
<1>8. ASSUME NEW p \in Processes, ArtifactExists(p) PROVE Rest'
  BY <1>8, ReturnKeeps DEF ArtifactExists, files, Answers
<1>9. ASSUME NEW p \in Processes, pc[p] \in {"stored", "written"},
             pc' = [pc EXCEPT ![p] = "written"] \/ pc' = [pc EXCEPT ![p] = "unchecked"],
             UNCHANGED <<state, eventLog, torn, artifacts, lock, call, prospective, answer>>
      PROVE  Rest'
  <2>1. Journal' /\ AnswersAreTruthful'
    BY <1>9, JournalKept DEF KernelInv, AnswersAreTruthful
  <2>2. /\ \A q \in Processes : q # p => pc'[q] = pc[q]
        /\ pc'[p] \in {"written", "unchecked"}
    BY <1>9 DEF KernelInv, TypeInv, TypeOK
  <2>3. OneHolder'
    BY <1>9, <2>2, HoldingPhases DEF KernelInv, OneHolder
  <2>4. CommitInv'
    BY <1>9, <2>2 DEF KernelInv, CommitInv, SuccessorPrepared, Committed,
                      BeforeEvent, WithArtifact
  <2> QED
    BY <2>1, <2>3, <2>4
<1>10. ASSUME NEW p \in Processes, WriteCheckpoint(p) \/ UnlinkOldest(p) PROVE Rest'
  <2>1. CASE WriteCheckpoint(p)
    BY <1>9, <2>1 DEF WriteCheckpoint, Goto
  <2>2. CASE UnlinkOldest(p)
    <3>1. pc' = [pc EXCEPT ![p] = "written"]
      BY <2>2 DEF UnlinkOldest, locals, KernelInv, TypeInv, TypeOK
    <3> QED
      BY <1>9, <2>2, <3>1 DEF UnlinkOldest, locals
  <2> QED
    BY <1>10, <2>1, <2>2
<1>11. ASSUME NEW p \in Processes, CheckpointFails(p) \/ RetentionFails(p) PROVE Rest'
  <2>1. pc[p] \in {"stored", "written"} /\ UNCHANGED files
    BY <1>11 DEF CheckpointFails, RetentionFails, GiveUpCheckpoint
  <2>2. CASE Return(p, "refused")
    BY <2>1, <2>2, ReturnKeeps DEF files, Answers
  <2>3. CASE Goto(p, "unchecked") /\ UNCHANGED <<lock, call, answer, prospective>>
    BY <1>9, <2>1, <2>3 DEF Goto, files
  <2> QED
    BY <1>11, <2>2, <2>3 DEF CheckpointFails, RetentionFails, GiveUpCheckpoint
<1>12. ASSUME NEW p \in Processes, AppendEvent(p) PROVE Rest'
  <2> DEFINE n == Len(eventLog)
             checkpoint == IF pc[p] = "written"
                           THEN {CheckpointOf(call[p].op, state)} ELSE {}
  <2>1. /\ n \in Nat /\ n + 1 = state.revision /\ ~torn
        /\ call[p].op \notin state.ledger /\ SuccessorPrepared(p)
        /\ call[p].path # NoPath => artifacts[call[p].path] = call[p].op
    BY <1>12 DEF AppendEvent, CheckpointSettled, KernelInv, CommitInv, BeforeEvent,
                 WithArtifact, TypeInv, TypeOK
  <2>2. eventLog' = Append(eventLog, [revision |-> prospective[p].revision,
                                      op |-> call[p].op, path |-> call[p].path,
                                      checkpoint |-> checkpoint])
    BY <1>12 DEF AppendEvent, CheckpointSettled
  <2> HIDE DEF checkpoint
  <2>3. /\ Len(eventLog') = n + 1
        /\ DOMAIN eventLog = 1..n
        /\ DOMAIN eventLog' = 1..(n + 1)
        /\ \A i \in 1..n : eventLog'[i] = eventLog[i]
        /\ eventLog'[n + 1].revision = n + 2
        /\ eventLog'[n + 1].op = call[p].op
        /\ eventLog'[n + 1].path = call[p].path
    BY <2>1, <2>2 DEF SuccessorPrepared, KernelInv, TypeInv, TypeOK
  <2>4. UNCHANGED <<state, torn, artifacts, lock, call, prospective, answer>>
    BY <1>12 DEF AppendEvent, CheckpointSettled
  <2>5. state.ledger = {eventLog[i].op : i \in 1..n}
    <3>1. state.revision - 1 = n
      BY <2>1
    <3> QED
      BY <3>1 DEF KernelInv, LogMatchesState
  <2>6. LogMatchesState'
    <3>1. \A i \in DOMAIN eventLog' : eventLog'[i].revision = i + 1
      BY <2>1, <2>3 DEF KernelInv, LogMatchesState
    <3>2. state.ledger = {eventLog'[i].op : i \in 1..(state.revision - 1)}
      BY <2>1, <2>3, <2>5
    <3> QED
      BY <2>1, <2>3, <2>4, <3>1, <3>2 DEF LogMatchesState
  <2>7. EachOperationOnce'
    BY <2>1, <2>3, <2>5 DEF KernelInv, EachOperationOnce
  <2>8. EvidenceBacksEvents'
    BY <2>1, <2>3, <2>4 DEF KernelInv, EvidenceBacksEvents
  <2>9. \A q \in Processes : Committed(q) => Committed(q)'
    BY <2>1, <2>3, <2>4 DEF Committed
  <2>10. AnswersAreTruthful'
    <3>1. \A q \in Processes : answer'[q] = "committed" => Committed(q)'
      BY <2>4, <2>9 DEF KernelInv, AnswersAreTruthful, Committed
    <3> QED
      BY <2>4, <3>1 DEF KernelInv, AnswersAreTruthful, Committed
  <2>11. /\ \A q \in Processes : q # p => pc'[q] = pc[q] /\ pc[q] \notin Holding
         /\ pc[p] \in {"written", "unchecked"} /\ pc'[p] = "appended"
    BY <1>12, OthersAreOutside, HoldingPhases
       DEF AppendEvent, CheckpointSettled, Goto, KernelInv, TypeInv, TypeOK
  <2>12. OneHolder'
    BY <2>4, <2>11, HoldingPhases DEF KernelInv, OneHolder
  <2>13. CommitInv'
    BY <2>1, <2>3, <2>4, <2>9, <2>11, HoldingPhases
       DEF CommitInv, SuccessorPrepared, BeforeEvent, WithArtifact
  <2> QED
    BY <2>4, <2>6, <2>7, <2>8, <2>10, <2>12, <2>13 DEF KernelInv
<1>13. ASSUME NEW p \in Processes, ReplaceState(p) PROVE Rest'
  <2> DEFINE n == Len(eventLog)
  <2>1. /\ n \in Nat /\ n = state.revision /\ ~torn
        /\ eventLog[n].op = call[p].op /\ eventLog[n].path = call[p].path
        /\ SuccessorPrepared(p)
    BY <1>13 DEF ReplaceState, KernelInv, CommitInv, TypeInv, TypeOK
  <2>2. /\ state'.revision = n + 1
        /\ state'.ledger = state.ledger \union {call[p].op}
        /\ UNCHANGED <<eventLog, torn, artifacts, lock, call, answer>>
    BY <1>13, <2>1 DEF ReplaceState, SuccessorPrepared
  <2>3. n # 0 /\ n \in DOMAIN eventLog
    BY <2>1 DEF KernelInv, TypeInv, TypeOK
  <2>4. state'.ledger = {eventLog[i].op : i \in 1..n}
    <3>1. state.ledger = {eventLog[i].op : i \in 1..(n - 1)}
      BY <2>1 DEF KernelInv, LogMatchesState
    <3> QED
      BY <2>1, <2>2, <2>3, <3>1
  <2>5. Journal'
    BY <2>1, <2>2, <2>4 DEF KernelInv, LogMatchesState, EachOperationOnce, EvidenceBacksEvents
  <2>6. \A q \in Processes : Committed(q) => Committed(q)'
    BY <2>1, <2>2 DEF Committed
  <2>7. Committed(p)'
    <3>1. eventLog[n].revision = n + 1 /\ call[p].expected = n
      BY <2>1, <2>3 DEF KernelInv, LogMatchesState, SuccessorPrepared
    <3> QED
      BY <2>1, <2>2, <2>3, <3>1 DEF Committed
  <2>8. AnswersAreTruthful'
    <3>1. \A q \in Processes : answer'[q] = "committed" => Committed(q)'
      BY <2>2, <2>6 DEF KernelInv, AnswersAreTruthful, Committed
    <3> QED
      BY <2>2, <3>1 DEF KernelInv, AnswersAreTruthful, Committed
  <2>9. /\ \A q \in Processes : q # p => pc'[q] = pc[q] /\ pc[q] \notin Holding
        /\ pc[p] = "appended" /\ pc'[p] = "replaced"
    BY <1>13, OthersAreOutside, HoldingPhases DEF ReplaceState, Goto, KernelInv, TypeInv, TypeOK
  <2>10. OneHolder'
    BY <2>2, <2>9, HoldingPhases DEF KernelInv, OneHolder
  <2>11. CommitInv'
    BY <2>7, <2>9, HoldingPhases DEF CommitInv, BeforeEvent, WithArtifact
  <2> QED
    BY <2>5, <2>8, <2>10, <2>11
<1>14. ASSUME NEW p \in Processes, Finish(p) PROVE Rest'
  <2>1. Committed(p)
    BY <1>14 DEF Finish, KernelInv, CommitInv
  <2> QED
    BY <1>14, <2>1, ReturnKeeps DEF Finish, files, Answers
<1>15. ASSUME NEW p \in Processes, Interrupt(p) PROVE Rest'
  BY <1>15, ReturnKeeps DEF Interrupt, files, Answers
<1>16. ASSUME NEW p \in Processes, TornAppend(p) PROVE Rest'
  BY <1>16, ReturnKeeps, HoldingPhases DEF TornAppend, CheckpointSettled, Answers
<1>17. ASSUME UNCHANGED vars PROVE Rest'
  <2>1. Journal'
    BY <1>17, JournalKept DEF vars, files
  <2>2. AnswersAreTruthful'
    BY <1>17 DEF vars, files, locals, KernelInv, AnswersAreTruthful
  <2>3. OneHolder'
    BY <1>17 DEF vars, locals, KernelInv, OneHolder
  <2>4. CommitInv'
    BY <1>17 DEF vars, files, locals, KernelInv, CommitInv, SuccessorPrepared, Committed
  <2> QED
    BY <2>1, <2>2, <2>3, <2>4
<1>18. Rest'
  <2> HIDE DEF Rest
  <2> QED
    BY <1>1, <1>2, <1>3, <1>4, <1>5, <1>6, <1>7, <1>8, <1>10, <1>11, <1>12,
       <1>13, <1>14, <1>15, <1>16, <1>17 DEF Next, Step
<1> QED
  BY <1>0, <1>18 DEF KernelInv

(***************************************************************************)
(* The inductive invariant holds, and with it what the runs check.         *)
(***************************************************************************)
LEMMA KernelInvariant == Spec => []KernelInv
BY KernelInit, KernelStep, PTL DEF Spec

\* Whatever the processes do and wherever they are interrupted, the state file
\* is the journal without its last event at most.
THEOREM JournalMatchesState == Spec => []LogMatchesState
<1>1. KernelInv => LogMatchesState
  BY DEF KernelInv
<1> QED
  BY <1>1, KernelInvariant, PTL

\* No operation id is ever recorded twice.
THEOREM OperationsAreUnique == Spec => []EachOperationOnce
<1>1. KernelInv => EachOperationOnce
  BY DEF KernelInv
<1> QED
  BY <1>1, KernelInvariant, PTL

\* No event refers to evidence that is missing or was written by another
\* operation.
THEOREM EventsAreBacked == Spec => []EvidenceBacksEvents
<1>1. KernelInv => EvidenceBacksEvents
  BY DEF KernelInv
<1> QED
  BY <1>1, KernelInvariant, PTL

\* A caller is told "committed" only of an operation recorded at the revision
\* it asked for.
THEOREM AnswersHold == Spec => []AnswersAreTruthful
<1>1. KernelInv => AnswersAreTruthful
  BY DEF KernelInv
<1> QED
  BY <1>1, KernelInvariant, PTL

-----------------------------------------------------------------------------
(***************************************************************************)
(* What becomes of checkpoints, for every bound on the store, every clock  *)
(* and every interruption.                                                 *)
(*                                                                         *)
(* RetentionByAge speaks of the checkpoints that events refer to.  Of the  *)
(* one that a process has written and not yet announced the same must be   *)
(* true, since its event is appended without another look at the store.    *)
(* Nothing is said of the size of the store: a kill between the write and  *)
(* the unlinks leaves one file more each time.  What carries the proof is  *)
(* that a file is unlinked only from a store with more than the bound, and *)
(* that an oldest one goes: those that stay are a full store's worth of    *)
(* checkpoints not older than it, nor than any that it had displaced.      *)
(***************************************************************************)
\* The files of the store that are at least as recent as the checkpoint c.
AsRecent(c, store) == {k \in store : c.createdAt <= k.createdAt}

\* The checkpoint c is in the store, or a full store of checkpoints at least as recent is.
KeptOrOlder(c, store) ==
    c \in store \/ Cardinality(AsRecent(c, store)) >= MaxCheckpointsPerRun

RetentionInv ==
    /\ IsFiniteSet(checkpoints)
    /\ \A i \in DOMAIN eventLog : \A c \in eventLog[i].checkpoint : KeptOrOlder(c, checkpoints)
    /\ \A p \in Processes :
          pc[p] = "written" => KeptOrOlder(CheckpointOf(call[p].op, state), checkpoints)

\* A file that is added takes nothing from what is said of the others.
LEMMA WritingKeeps ==
    ASSUME NEW store, IsFiniteSet(store), NEW new, NEW c, KeptOrOlder(c, store)
    PROVE  KeptOrOlder(c, store \union {new})
<1>1. CASE c \in store
  BY <1>1 DEF KeptOrOlder
<1>2. CASE Cardinality(AsRecent(c, store)) >= MaxCheckpointsPerRun
  <2>1. IsFiniteSet(AsRecent(c, store \union {new}))
    <3>1. IsFiniteSet(store \union {new})
      BY FS_AddElement
    <3>2. AsRecent(c, store \union {new}) \subseteq store \union {new}
      BY DEF AsRecent
    <3> QED
      BY <3>1, <3>2, FS_Subset
  <2>2. AsRecent(c, store) \subseteq AsRecent(c, store \union {new})
    BY DEF AsRecent
  <2>3. /\ Cardinality(AsRecent(c, store)) <= Cardinality(AsRecent(c, store \union {new}))
        /\ IsFiniteSet(AsRecent(c, store))
    BY <2>1, <2>2, FS_Subset
  <2>4. /\ Cardinality(AsRecent(c, store)) \in Nat
        /\ Cardinality(AsRecent(c, store \union {new})) \in Nat
    BY <2>1, <2>3, FS_CardinalityType
  <2> QED
    BY <1>2, <2>3, <2>4, MaxCheckpointsPerRunAssumption DEF KeptOrOlder
<1> QED
  BY <1>1, <1>2 DEF KeptOrOlder

\* An oldest file that is unlinked from an overfull store leaves a full store's worth of
\* files not older than it behind, and than every checkpoint that had to go before.
LEMMA UnlinkingKeeps ==
    ASSUME NEW store \in SUBSET Checkpoints, IsFiniteSet(store), Overfull(store),
           NEW d \in Oldest(store), NEW c \in Checkpoints, KeptOrOlder(c, store)
    PROVE  KeptOrOlder(c, store \ {d})
<1> DEFINE left == store \ {d}
<1>1. d \in store /\ \A k \in store : d.createdAt <= k.createdAt
  BY DEF Oldest
<1>2. Cardinality(left) >= MaxCheckpointsPerRun
  <2>1. Cardinality(left) = Cardinality(store) - 1 /\ Cardinality(store) \in Nat
    BY <1>1, FS_RemoveElement, FS_CardinalityType
  <2> QED
    BY <2>1, MaxCheckpointsPerRunAssumption DEF Overfull
<1>3. \A k \in store : k.createdAt \in Nat
  BY DEF Checkpoints
<1>4. c.createdAt \in Nat
  BY DEF Checkpoints
<1> HIDE DEF left
<1>5. CASE c.createdAt <= d.createdAt
  <2>1. \A k \in left : c.createdAt <= k.createdAt
    <3> SUFFICES ASSUME NEW k \in left PROVE c.createdAt <= k.createdAt
      OBVIOUS
    <3>1. k \in store
      BY DEF left
    <3>2. d.createdAt <= k.createdAt /\ k.createdAt \in Nat /\ d.createdAt \in Nat
      BY <1>1, <1>3, <3>1
    <3> QED
      BY <1>4, <1>5, <3>2
  <2>2. AsRecent(c, left) = left
    BY <2>1 DEF AsRecent
  <2> QED
    BY <1>2, <2>2 DEF KeptOrOlder, left
<1>6. CASE ~(c.createdAt <= d.createdAt)
  <2>1. AsRecent(c, left) = AsRecent(c, store)
    BY <1>6 DEF AsRecent, left
  <2>2. c \in store => c \in left
    <3>1. c # d
      BY <1>4, <1>6
    <3> QED
      BY <3>1 DEF left
  <2> QED
    BY <2>1, <2>2 DEF KeptOrOlder, left
<1> QED
  BY <1>5, <1>6

\* A step that leaves the store, the journal and the state alone, and brings no process
\* to the point where its checkpoint is written.
LEMMA StoreUntouched ==
    ASSUME RetentionInv, UNCHANGED <<checkpoints, eventLog, state>>,
           \A q \in Processes :
               pc'[q] = "written" => pc[q] = "written" /\ call'[q] = call[q]
    PROVE  RetentionInv'
BY DEF RetentionInv, KeptOrOlder, AsRecent

LEMMA ReturnUntouched ==
    ASSUME KernelInv, RetentionInv, NEW p \in Processes, NEW result,
           Return(p, result), UNCHANGED <<checkpoints, eventLog, state>>
    PROVE  RetentionInv'
<1>1. \A q \in Processes :
          pc'[q] = "written" => pc[q] = "written" /\ call'[q] = call[q]
  BY DEF Return, KernelInv, TypeInv, TypeOK
<1> QED
  BY <1>1, StoreUntouched

\* What retention is asked to keep are checkpoints.
LEMMA CheckpointsOfRun ==
    ASSUME KernelInv
    PROVE  /\ checkpoints \in SUBSET Checkpoints
           /\ \A i \in DOMAIN eventLog : eventLog[i].checkpoint \subseteq Checkpoints
           /\ \A q \in Processes :
                 pc[q] # "idle" => CheckpointOf(call[q].op, state) \in Checkpoints
<1>1. checkpoints \in SUBSET Checkpoints
  BY DEF KernelInv, TypeInv, TypeOK
<1>2. \A i \in DOMAIN eventLog : eventLog[i].checkpoint \subseteq Checkpoints
  <2>1. \A i \in DOMAIN eventLog : eventLog[i] \in Events
    BY DEF KernelInv, TypeInv, TypeOK
  <2> QED
    BY <2>1 DEF Events
<1>3. \A q \in Processes :
          pc[q] # "idle" => CheckpointOf(call[q].op, state) \in Checkpoints
  BY DEF KernelInv, TypeInv, TypeOK, CallsAreTyped, CheckpointOf, Checkpoints, Calls, States
<1> QED
  BY <1>1, <1>2, <1>3

LEMMA WriteRetains ==
    ASSUME KernelInv, RetentionInv, NEW p \in Processes, WriteCheckpoint(p)
    PROVE  RetentionInv'
<1> DEFINE new == CheckpointOf(call[p].op, state)
<1>1. /\ checkpoints' = checkpoints \union {new}
      /\ UNCHANGED <<state, eventLog, call>>
  BY DEF WriteCheckpoint
<1>2. \A q \in Processes : q # p => pc'[q] = pc[q]
  BY DEF WriteCheckpoint, Goto, KernelInv, TypeInv, TypeOK
<1>3. IsFiniteSet(checkpoints')
  BY <1>1, FS_AddElement DEF RetentionInv
<1>4. \A c : KeptOrOlder(c, checkpoints) => KeptOrOlder(c, checkpoints')
  <2> SUFFICES ASSUME NEW c, KeptOrOlder(c, checkpoints)
               PROVE  KeptOrOlder(c, checkpoints \union {new})
    BY <1>1
  <2> HIDE DEF new
  <2> QED
    BY WritingKeeps DEF RetentionInv
<1>5. ASSUME NEW q \in Processes, pc'[q] = "written"
      PROVE  KeptOrOlder(CheckpointOf(call[q].op, state), checkpoints')
  <2>1. CASE q = p
    BY <1>1, <2>1 DEF KeptOrOlder
  <2>2. CASE q # p
    BY <1>2, <1>4, <1>5, <2>2 DEF RetentionInv
  <2> QED
    BY <2>1, <2>2
<1>6. ASSUME NEW i \in DOMAIN eventLog, NEW c \in eventLog[i].checkpoint
      PROVE  KeptOrOlder(c, checkpoints')
  BY <1>4 DEF RetentionInv
<1> QED
  BY <1>1, <1>3, <1>5, <1>6 DEF RetentionInv, CheckpointOf

LEMMA UnlinkRetains ==
    ASSUME KernelInv, RetentionInv, NEW p \in Processes, UnlinkOldest(p)
    PROVE  RetentionInv'
<1>1. PICK d \in Oldest(checkpoints) : checkpoints' = checkpoints \ {d}
  BY DEF UnlinkOldest
<1>2. Overfull(checkpoints) /\ UNCHANGED <<state, eventLog, call, pc>>
  BY DEF UnlinkOldest, locals
<1>3. IsFiniteSet(checkpoints) /\ IsFiniteSet(checkpoints')
  BY <1>1, FS_RemoveElement DEF RetentionInv
<1>4. \A c \in Checkpoints : KeptOrOlder(c, checkpoints) => KeptOrOlder(c, checkpoints')
  BY <1>1, <1>2, <1>3, CheckpointsOfRun, UnlinkingKeeps
<1>5. ASSUME NEW i \in DOMAIN eventLog, NEW c \in eventLog[i].checkpoint
      PROVE  KeptOrOlder(c, checkpoints')
  BY <1>4, CheckpointsOfRun DEF RetentionInv
<1>6. ASSUME NEW q \in Processes, pc[q] = "written"
      PROVE  KeptOrOlder(CheckpointOf(call[q].op, state), checkpoints')
  BY <1>4, <1>6, CheckpointsOfRun DEF RetentionInv
<1> QED
  BY <1>2, <1>3, <1>5, <1>6 DEF RetentionInv, CheckpointOf

LEMMA AppendRetains ==
    ASSUME KernelInv, RetentionInv, NEW p \in Processes, AppendEvent(p)
    PROVE  RetentionInv'
<1> DEFINE mine == IF pc[p] = "written" THEN {CheckpointOf(call[p].op, state)} ELSE {}
<1> DEFINE event ==
        [revision |-> prospective[p].revision, op |-> call[p].op, path |-> call[p].path,
         checkpoint |-> mine]
<1>1. /\ eventLog' = Append(eventLog, event)
      /\ UNCHANGED <<state, checkpoints, call>>
  BY DEF AppendEvent, CheckpointSettled
<1>2. \A q \in Processes : pc'[q] = "written" => pc[q] = "written"
  BY DEF AppendEvent, CheckpointSettled, Goto, KernelInv, TypeInv, TypeOK
<1>3. eventLog \in Seq(Events)
  BY DEF KernelInv, TypeInv, TypeOK
<1>4. \A c \in event.checkpoint : KeptOrOlder(c, checkpoints)
  BY DEF RetentionInv
<1> HIDE DEF event
<1>5. ASSUME NEW i \in DOMAIN eventLog'
      PROVE  eventLog'[i].checkpoint \in {event.checkpoint}
                 \union {eventLog[j].checkpoint : j \in DOMAIN eventLog}
  BY <1>1, <1>3
<1>6. \A i \in DOMAIN eventLog' : \A c \in eventLog'[i].checkpoint : KeptOrOlder(c, checkpoints)
  BY <1>4, <1>5 DEF RetentionInv
<1> QED
  BY <1>1, <1>2, <1>6 DEF RetentionInv, KeptOrOlder, AsRecent, CheckpointOf

LEMMA ReplaceRetains ==
    ASSUME KernelInv, RetentionInv, NEW p \in Processes, ReplaceState(p)
    PROVE  RetentionInv'
<1>1. pc[p] \in Holding /\ UNCHANGED <<eventLog, checkpoints, call>>
  BY HoldingPhases DEF ReplaceState
<1>2. \A q \in Processes : pc'[q] # "written"
  <2> SUFFICES ASSUME NEW q \in Processes PROVE pc'[q] # "written"
    OBVIOUS
  <2>1. CASE q = p
    BY <2>1 DEF ReplaceState, Goto, KernelInv, TypeInv, TypeOK
  <2>2. CASE q # p
    <3>1. pc[q] \notin Holding /\ pc'[q] = pc[q]
      BY <1>1, <2>2, OthersAreOutside DEF ReplaceState, Goto, KernelInv, TypeInv, TypeOK
    <3> QED
      BY <3>1, HoldingPhases
  <2> QED
    BY <2>1, <2>2
<1> QED
  BY <1>1, <1>2 DEF RetentionInv, KeptOrOlder, AsRecent

\* A step that moves one process on and does nothing else to what retention reads.
LEMMA GotoUntouched ==
    ASSUME KernelInv, RetentionInv, NEW p \in Processes, NEW phase, Goto(p, phase),
           phase # "written", UNCHANGED <<checkpoints, eventLog, state>>,
           \A q \in Processes : q # p => call'[q] = call[q]
    PROVE  RetentionInv'
<1>1. \A q \in Processes :
          pc'[q] = "written" => pc[q] = "written" /\ call'[q] = call[q]
  BY DEF Goto, KernelInv, TypeInv, TypeOK
<1> QED
  BY <1>1, StoreUntouched

LEMMA RetentionInit == Init => RetentionInv
BY FS_EmptySet DEF Init, RetentionInv

LEMMA RetentionStep == KernelInv /\ RetentionInv /\ [Next]_vars => RetentionInv'
<1> SUFFICES ASSUME KernelInv, RetentionInv, [Next]_vars PROVE RetentionInv'
  OBVIOUS
<1>1. ASSUME NEW p \in Processes, Call(p) PROVE RetentionInv'
  <2>1. \A q \in Processes : q # p => call'[q] = call[q]
    BY <1>1 DEF Call, KernelInv, TypeInv, TypeOK
  <2> QED
    BY <1>1, <2>1, GotoUntouched DEF Call, files
<1>2. ASSUME NEW p \in Processes,
             \/ Lock(p) \/ Prepare(p) \/ PersistArtifact(p)
      PROVE  RetentionInv'
  BY <1>2, GotoUntouched DEF Lock, Prepare, PersistArtifact, files
<1>3. ASSUME NEW p \in Processes,
             \/ LockTimeout(p) \/ RefuseLoad(p) \/ RefusePrepare(p) \/ ArtifactExists(p)
             \/ Finish(p) \/ Interrupt(p) \/ TornAppend(p)
      PROVE  RetentionInv'
  BY <1>3, ReturnUntouched
  DEF LockTimeout, RefuseLoad, RefusePrepare, ArtifactExists, Finish, Interrupt, TornAppend,
      files
<1>4. ASSUME NEW p \in Processes, CheckpointFails(p) \/ RetentionFails(p)
      PROVE  RetentionInv'
  <2>1. GiveUpCheckpoint(p)
    BY <1>4 DEF CheckpointFails, RetentionFails
  <2>2. CASE CheckpointRequired
    BY <2>1, <2>2, ReturnUntouched DEF GiveUpCheckpoint, files
  <2>3. CASE ~CheckpointRequired
    BY <2>1, <2>3, GotoUntouched DEF GiveUpCheckpoint, files
  <2> QED
    BY <2>2, <2>3
<1>5. CASE UNCHANGED vars
  BY <1>5, StoreUntouched DEF vars, files, locals
<1> QED
  BY <1>1, <1>2, <1>3, <1>4, <1>5, WriteRetains, UnlinkRetains, AppendRetains,
     ReplaceRetains
  DEF Next, Step

\* Whatever the clock shows and wherever commits are interrupted, also between the write
\* of a checkpoint and the unlinks that make room for it, a checkpoint that an event
\* refers to left the store only for a full set of checkpoints not older than it.
THEOREM RetentionIsByAge == Spec => []RetentionByAge
<1>1. RetentionInv => RetentionByAge
  BY DEF RetentionInv, KeptOrOlder, AsRecent, RetentionByAge
<1>2. Init => KernelInv /\ RetentionInv
  BY KernelInit, RetentionInit
<1>3. KernelInv /\ RetentionInv /\ [Next]_vars => (KernelInv /\ RetentionInv)'
  BY KernelStep, RetentionStep
<1> QED
  BY <1>1, <1>2, <1>3, PTL DEF Spec

-----------------------------------------------------------------------------
(***************************************************************************)
(* The kernel implements the abstract history.  Only AppendEvent extends   *)
(* it; only an interruption between the two writes of a commit, or within  *)
(* the first, seals it.                                                    *)
(***************************************************************************)
Recorded == [i \in DOMAIN eventLog |-> eventLog[i].op]

\* The state is behind the journal exactly when their lengths say so.
LEMMA SplitBrainByLength ==
    ASSUME KernelInv
    PROVE  SplitBrain <=> Len(eventLog) = state.revision
<1>1. /\ Len(eventLog) \in Nat /\ state.revision \in Nat
      /\ Len(eventLog) + 1 \in {state.revision, state.revision + 1}
      /\ eventLog # <<>> <=> Len(eventLog) # 0
      /\ eventLog # <<>> => eventLog[Len(eventLog)].revision = Len(eventLog) + 1
  BY DEF KernelInv, LogMatchesState, TypeInv, TypeOK, States
<1> QED
  BY <1>1 DEF SplitBrain, KernelInv

LEMMA HistoryInit == Init => History!Init
<1> SUFFICES ASSUME Init PROVE History!Init
  OBVIOUS
<1>1. Recorded = <<>>
  BY DEF Init, Recorded
<1> QED
  BY <1>1 DEF Init, History!Init, Recorded, Sealed, SplitBrain

LEMMA HistoryStep ==
    KernelInv /\ KernelInv' /\ [Next]_vars => [History!Next]_<<Recorded, Sealed>>
<1> SUFFICES ASSUME KernelInv, KernelInv', [Next]_vars
             PROVE  [History!Next]_<<Recorded, Sealed>>
  OBVIOUS
<1>1. ASSUME UNCHANGED <<state, eventLog, torn>>,
             \A q \in Processes : pc[q] = "appended" <=> pc'[q] = "appended"
      PROVE  UNCHANGED <<Recorded, Sealed>>
  BY <1>1 DEF Recorded, Sealed, SplitBrain
<1>2. ASSUME NEW p \in Processes, NEW result \in Answers, Return(p, result),
             UNCHANGED <<state, eventLog>>,
             torn' = torn \/ (torn' = TRUE /\ pc[p] \in Holding /\ ~torn)
      PROVE  UNCHANGED <<Recorded, Sealed>> \/ History!Seal
  <2>1. UNCHANGED Recorded
    BY <1>2 DEF Recorded
  <2>2. Sealed => Sealed'
    BY <1>2 DEF Sealed, SplitBrain, Return, KernelInv, TypeInv, TypeOK
  <2>3. Sealed \in BOOLEAN /\ Sealed' \in BOOLEAN
    BY DEF Sealed, SplitBrain, KernelInv, TypeInv, TypeOK
  <2> QED
    BY <2>1, <2>2, <2>3 DEF History!Seal, Recorded
<1>3. ASSUME NEW p \in Processes, AppendEvent(p),
             NEW op \in Operations, op = call[p].op
      PROVE  History!Record(op)
  <2> DEFINE n == Len(eventLog)
  <2>1. /\ n \in Nat /\ n + 1 = state.revision /\ ~torn
        /\ call[p].op \notin state.ledger /\ SuccessorPrepared(p)
    BY <1>3 DEF AppendEvent, CheckpointSettled, KernelInv, CommitInv, BeforeEvent, TypeInv, TypeOK
  <2>2. state.ledger = {eventLog[i].op : i \in 1..n}
    <3>1. state.revision - 1 = n
      BY <2>1
    <3> QED
      BY <3>1 DEF KernelInv, LogMatchesState
  <2>3. ~Sealed
    BY <2>1, SplitBrainByLength DEF Sealed
  <2>4. ~Sealed'
    <3>1. torn' = torn /\ pc'[p] = "appended"
      BY <1>3 DEF AppendEvent, CheckpointSettled, Goto, KernelInv, TypeInv, TypeOK
    <3> QED
      BY <2>1, <3>1 DEF Sealed
  <2>5. Recorded' = Append(Recorded, op)
    <3>1. PICK event : eventLog' = Append(eventLog, event) /\ event.op = call[p].op
      BY <1>3 DEF AppendEvent, CheckpointSettled
    <3>2. /\ DOMAIN eventLog = 1..n /\ DOMAIN eventLog' = 1..(n + 1)
          /\ \A i \in 1..n : eventLog'[i] = eventLog[i]
          /\ eventLog'[n + 1].op = call[p].op
      BY <2>1, <3>1 DEF KernelInv, TypeInv, TypeOK
    <3>3. Recorded \in Seq(Operations) /\ Len(Recorded) = n
      <4>1. \A i \in 1..n : eventLog[i].op \in Operations
        <5> SUFFICES ASSUME NEW i \in 1..n PROVE eventLog[i].op \in Operations
          OBVIOUS
        <5>1. eventLog[i] \in Events
          BY <3>2 DEF KernelInv, TypeInv, TypeOK
        <5> QED
          BY <5>1 DEF Events
      <4> QED
        BY <2>1, <3>2, <4>1 DEF Recorded
    <3> QED
      BY <1>3, <2>1, <3>2, <3>3 DEF Recorded
  <2>6. ~History!Contains(Recorded, op)
    <3>1. Len(Recorded) = n /\ DOMAIN eventLog = 1..n
      BY <2>1 DEF Recorded, KernelInv, TypeInv, TypeOK
    <3> QED
      BY <1>3, <2>1, <2>2, <3>1 DEF Recorded, History!Contains
  <2>7. UNCHANGED Sealed
    <3>1. Sealed \in BOOLEAN /\ Sealed' \in BOOLEAN
      BY DEF Sealed, SplitBrain, KernelInv, TypeInv, TypeOK
    <3> HIDE DEF Sealed
    <3> QED
      BY <2>3, <2>4, <3>1
  <2> QED
    BY <2>3, <2>5, <2>6, <2>7, <1>3 DEF History!Record, Recorded
<1>4. ASSUME NEW p \in Processes, ReplaceState(p)
      PROVE  UNCHANGED <<Recorded, Sealed>>
  <2>1. /\ Len(eventLog) \in Nat /\ Len(eventLog) = state.revision /\ ~torn
        /\ state'.revision = state.revision + 1
        /\ UNCHANGED <<eventLog, torn>> /\ pc[p] = "appended"
    BY <1>4 DEF ReplaceState, KernelInv, CommitInv, SuccessorPrepared, TypeInv, TypeOK
  <2>2. ~SplitBrain'
    <3>1. eventLog # <<>> => eventLog[Len(eventLog)].revision = Len(eventLog) + 1
      BY <2>1 DEF KernelInv, LogMatchesState, TypeInv, TypeOK
    <3> QED
      BY <2>1, <3>1 DEF SplitBrain
  <2> QED
    BY <2>1, <2>2 DEF Recorded, Sealed
<1>5. ASSUME NEW p \in Processes,
             Call(p) \/ Step(p) \/ Interrupt(p) \/ TornAppend(p)
      PROVE  \/ UNCHANGED <<Recorded, Sealed>>
             \/ History!Seal
             \/ \E op \in Operations : History!Record(op)
  <2>1. CASE Call(p) \/ Lock(p) \/ Prepare(p) \/ PersistArtifact(p)
             \/ WriteCheckpoint(p) \/ UnlinkOldest(p)
    <3>1. UNCHANGED <<state, eventLog, torn>>
      BY <2>1 DEF Call, Lock, Prepare, PersistArtifact, WriteCheckpoint, UnlinkOldest,
                  files
    <3>2. \A q \in Processes : pc[q] = "appended" <=> pc'[q] = "appended"
      BY <2>1 DEF Call, Lock, Prepare, PersistArtifact, WriteCheckpoint, UnlinkOldest,
                  Goto, locals, KernelInv, TypeInv, TypeOK
    <3> QED
      BY <1>1, <3>1, <3>2
  <2>2. CASE \/ LockTimeout(p) \/ RefusePrepare(p) \/ ArtifactExists(p) \/ RefuseLoad(p)
             \/ Finish(p) \/ Interrupt(p)
    <3>1. PICK result \in Answers : Return(p, result)
      BY <2>2 DEF LockTimeout, RefusePrepare, ArtifactExists, RefuseLoad, Finish,
                  Interrupt, Answers
    <3>2. UNCHANGED <<state, eventLog, torn>>
      BY <2>2 DEF LockTimeout, RefusePrepare, ArtifactExists, RefuseLoad, Finish,
                  Interrupt, files
    <3> QED
      BY <1>2, <3>1, <3>2
  <2>3. CASE CheckpointFails(p) \/ RetentionFails(p)
    <3>1. UNCHANGED <<state, eventLog, torn>> /\ pc[p] \in {"stored", "written"}
      BY <2>3 DEF CheckpointFails, RetentionFails, GiveUpCheckpoint, files
    <3>2. CASE Return(p, "refused")
      BY <1>2, <3>1, <3>2 DEF Answers
    <3>3. CASE Goto(p, "unchecked")
      <4>1. \A q \in Processes : pc[q] = "appended" <=> pc'[q] = "appended"
        BY <3>1, <3>3 DEF Goto, KernelInv, TypeInv, TypeOK
      <4> QED
        BY <1>1, <3>1, <4>1
    <3> QED
      BY <2>3, <3>2, <3>3 DEF CheckpointFails, RetentionFails, GiveUpCheckpoint
  <2>4. CASE TornAppend(p)
    <3>1. ~torn /\ pc[p] \in Holding
      BY <2>4, HoldingPhases DEF TornAppend, CheckpointSettled, KernelInv, CommitInv, BeforeEvent
    <3>2. UNCHANGED <<state, eventLog>> /\ torn' = TRUE /\ Return(p, "unknown")
      BY <2>4 DEF TornAppend, CheckpointSettled
    <3>3. "unknown" \in Answers
      BY DEF Answers
    <3>4. torn' = torn \/ (torn' = TRUE /\ pc[p] \in Holding /\ ~torn)
      BY <3>1, <3>2
    <3> HIDE DEF Answers
    <3> QED
      BY <1>2, <3>2, <3>3, <3>4
  <2>5. CASE AppendEvent(p)
    <3>1. PICK op \in Operations : op = call[p].op
      BY <2>5 DEF AppendEvent, CheckpointSettled, KernelInv, TypeInv, CallsAreTyped, Calls
    <3> QED
      BY <1>3, <2>5, <3>1
  <2>6. CASE ReplaceState(p)
    BY <1>4, <2>6
  <2> QED
    BY <1>5, <2>1, <2>2, <2>3, <2>4, <2>5, <2>6 DEF Step
<1>6. CASE UNCHANGED vars
  BY <1>1, <1>6 DEF vars, files, locals
<1> QED
  BY <1>5, <1>6 DEF Next, History!Next

(***************************************************************************)
(* For any number of processes, every behaviour of the kernel is one of    *)
(* the abstract history: each operation once, nothing taken back, and      *)
(* nothing after an interrupted commit has sealed the run.                 *)
(***************************************************************************)
THEOREM KernelImplementsHistory == Spec => ImplementsHistory
<1>1. History!Init /\ [][History!Next]_<<Recorded, Sealed>> => ImplementsHistory
  BY DEF ImplementsHistory, History!Spec, Recorded
<1> QED
  BY <1>1, HistoryInit, HistoryStep, KernelInvariant, PTL DEF Spec
=============================================================================
