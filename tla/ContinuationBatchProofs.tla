---------------------- MODULE ContinuationBatchProofs ----------------------
(***************************************************************************)
(* Proofs about ContinuationBatch, for every bundle, every number of       *)
(* batches, all caps and whatever others do to the run.                    *)
(***************************************************************************)
EXTENDS ContinuationBatch, TLAPS

(***************************************************************************)
(* What is said of a list S of records, the operations L of the ledger,    *)
(* the positions own of a batch's commits in the history h, and their      *)
(* authors a.                                                              *)
(***************************************************************************)
Listed(op, S) == \E k \in DOMAIN S : op = Bundle[k].op

\* The records name steps of the bundle that the ledger holds.
Backed(S, L) ==
    /\ Len(S) <= Len(Bundle)
    /\ \A k \in DOMAIN S : Bundle[k].op \in L

\* The records list all commits, or all but the last one.
Full(S, own, h) == \A i \in own : Listed(h[i], S)
Trails(S, own, h) == \A i \in own : Listed(h[i], S) \/ \A j \in own : j <= i

\* The records list all commits but that of operation op, if it is the last one.
Lacks(S, op, own, h) ==
    \A i \in own : Listed(h[i], S) \/ (h[i] = op /\ \A j \in own : j <= i)

\* The records behind the first n are of the batch's own commits.
Mine(S, n, own, h) ==
    \A k \in DOMAIN S : k > n => \E i \in own : h[i] = Bundle[k].op

\* The records of batch b name the revisions of their transitions, or later ones
\* where somebody else has committed right behind.
Proves(b, S, h, a) ==
    \A k \in DOMAIN S : \A i \in DOMAIN h : h[i] = Bundle[k].op =>
        \/ S[k] = i + 1
        \/ S[k] > i + 1 /\ i + 1 \in DOMAIN h /\ ~(a[i].by = b /\ a[i + 1].by = b)

RunInv ==
    /\ Len(authors) = Len(history)
    /\ revision >= 1
    /\ revision = Len(history) \/ revision = Len(history) + 1
    /\ \A i, j \in DOMAIN history : history[i] = history[j] => i = j

\* What batch b, in state s and with receipt r, has done so far, by where it is.
Fits(b, s, r) ==
    LET step == Bundle[Len(s.steps) + 1] IN
    /\ s.pc = "idle" => s = NotCalled
    /\ s.pc \in {"idle", "prepared"} => Own(b) = {} /\ r = NoReceipt
    /\ s.pc \notin {"idle", "prepared", "ended"} => r # NoReceipt
    /\ s.pc \in {"loop", "projected"}
        => r.steps = s.steps /\ Full(s.steps, Own(b), history)
    /\ s.pc \in {"projected", "appended", "applied", "refused"}
        => Len(s.steps) < Len(Bundle) /\ s.applied < MaxTransitions[b]
    /\ s.pc = "projected"
        => /\ s.seen <= revision
           /\ s.seen = revision
                => projected = step.type /\ (b \in LocalOnly => projected \in LocalTypes)
    /\ s.pc = "appended"
        => Committing /\ authors[Len(history)].by = b
    /\ s.pc \in {"appended", "applied"}
        => \E i \in Own(b) : history[i] = step.op
    /\ s.pc \in {"appended", "applied", "refused"}
        => Lacks(s.steps, step.op, Own(b), history)
    /\ s.pc \in {"recorded", "recorded last"} => Full(s.steps, Own(b), history)
    /\ s.pc = "finalizing" => Trails(s.steps, Own(b), history)
    /\ s.pc \in Places \ {"ended", "recorded last", "finalizing"}
        => Mine(s.steps, Len(s.resumed.steps), Own(b), history)
    /\ s.pc \notin {"idle", "ended"} => Len(r.steps) <= Len(s.steps)

\* Its records, and those of its receipt.
Holds(b, s, r) ==
    /\ r # NoReceipt => Trails(r.steps, Own(b), history)
    /\ \A S \in {r.steps, s.steps} :
          Backed(S, Ledger) /\ Proves(b, S, history, authors)

PhaseInv(b)  == Fits(b, batch[b], receipts[b])
RecordInv(b) == Holds(b, batch[b], receipts[b])

\* The inductive invariant.
IInv ==
    /\ TypeOK
    /\ RunInv
    /\ StepsInOrder
    /\ \A b \in Batches : PhaseInv(b) /\ RecordInv(b)

-----------------------------------------------------------------------------
(***************************************************************************)
(* How a step changes the run.                                             *)
(***************************************************************************)
\* What batch or stranger x may do to it.
RunStep(x) ==
    \/ UNCHANGED run
    \/ \E op \in Operations : AppendEvent(op, x)
    \/ Committing /\ authors[Len(history)].by = x /\ ReplaceState
    \/ /\ Kernel!Seal
       /\ Committing => authors[Len(history)].by = x
       /\ UNCHANGED <<authors, revision, projected>>

\* Contains of SequencesExt.
LEMMA ContainsMeans ==
    ASSUME NEW s, NEW e, ~Kernel!Contains(s, e)
    PROVE  \A i \in DOMAIN s : s[i] # e
BY DEF Kernel!Contains

\* The facts of an append that the other proofs use.
LEMMA AppendFacts ==
    ASSUME TypeOK, RunInv, NEW op \in Operations, NEW x, AppendEvent(op, x)
    PROVE  /\ ~sealed /\ sealed' = sealed
           /\ revision = Len(history) + 1 /\ revision' = revision
           /\ projected' = projected
           /\ Len(history') = Len(history) + 1
           /\ DOMAIN history' = DOMAIN history \union {Len(history) + 1}
           /\ history' \in Seq(Operations)
           /\ history'[Len(history) + 1] = op
           /\ authors'[Len(history) + 1] = [by |-> x, projected |-> projected]
           /\ Len(authors') = Len(history) + 1
           /\ DOMAIN authors' = DOMAIN history'
           /\ \A i \in DOMAIN history :
                /\ history'[i] = history[i] /\ authors'[i] = authors[i]
                /\ history[i] # op
<1>1. \A i \in DOMAIN history : history[i] # op
  BY ContainsMeans DEF AppendEvent, Kernel!Record
<1>2. history \in Seq(Operations) /\ authors \in Seq([by : Batches \union {Someone}, projected : Actions])
  BY DEF TypeOK
<1>3. /\ history' = Append(history, op) /\ sealed' = sealed /\ ~sealed
      /\ authors' = Append(authors, [by |-> x, projected |-> projected])
      /\ revision = Len(history) + 1 /\ revision' = revision /\ projected' = projected
  BY DEF AppendEvent, Kernel!Record
<1>4. Len(authors) = Len(history)
  BY DEF RunInv
<1>. QED  BY <1>1, <1>2, <1>3, <1>4

\* The run only grows.
LEMMA RunGrows ==
    ASSUME TypeOK, RunInv, NEW x \in Batches \union {Someone}, RunStep(x)
    PROVE  /\ RunInv'
           /\ DOMAIN history \subseteq DOMAIN history'
           /\ \A i \in DOMAIN history :
                history'[i] = history[i] /\ authors'[i] = authors[i]
           /\ revision <= revision'
           /\ Ledger \subseteq Ledger'
           /\ \A i \in DOMAIN history' \ DOMAIN history :
                /\ i = Len(history) + 1 /\ authors'[i].by = x
                /\ \A j \in DOMAIN history : history'[i] # history[j]
<1>1. /\ history \in Seq(Operations) /\ revision \in Nat
      /\ DOMAIN history = 1..Len(history) /\ Len(history) \in Nat
  BY DEF TypeOK
<1>2. CASE UNCHANGED run
  BY <1>1, <1>2 DEF run, RunInv, Ledger
<1>3. ASSUME NEW op \in Operations, AppendEvent(op, x)
      PROVE  /\ RunInv'
             /\ DOMAIN history \subseteq DOMAIN history'
             /\ \A i \in DOMAIN history :
                  history'[i] = history[i] /\ authors'[i] = authors[i]
             /\ revision <= revision'
             /\ Ledger \subseteq Ledger'
             /\ \A i \in DOMAIN history' \ DOMAIN history :
                  /\ i = Len(history) + 1 /\ authors'[i].by = x
                  /\ \A j \in DOMAIN history : history'[i] # history[j]
  <2>1. /\ revision = Len(history) + 1 /\ revision' = revision
        /\ Len(history') = Len(history) + 1
        /\ DOMAIN history' = DOMAIN history \union {Len(history) + 1}
        /\ history'[Len(history) + 1] = op
        /\ authors'[Len(history) + 1] = [by |-> x, projected |-> projected]
        /\ Len(authors') = Len(history) + 1
        /\ \A i \in DOMAIN history :
             /\ history'[i] = history[i] /\ authors'[i] = authors[i]
             /\ history[i] # op
    BY <1>3, AppendFacts
  <2>2. Ledger \subseteq Ledger'
    BY <1>1, <2>1 DEF Ledger
  <2>3. \A i, j \in DOMAIN history' : history'[i] = history'[j] => i = j
    BY <2>1 DEF RunInv
  <2>4. RunInv'
    BY <1>1, <2>1, <2>3 DEF RunInv
  <2>. QED  BY <1>1, <2>1, <2>2, <2>4
<1>4. CASE Committing /\ ReplaceState
  <2>1. revision = Len(history) /\ revision' = revision + 1
        /\ history' = history /\ authors' = authors
    BY <1>4 DEF Committing, ReplaceState
  <2>2. Ledger \subseteq Ledger'
    BY <1>1, <2>1 DEF Ledger
  <2>. QED  BY <1>1, <2>1, <2>2 DEF RunInv
<1>5. CASE Kernel!Seal /\ UNCHANGED <<authors, revision, projected>>
  BY <1>1, <1>5 DEF RunInv, Kernel!Seal, Ledger
<1>. QED
  BY <1>2, <1>3, <1>4, <1>5 DEF RunStep

\* Who is not involved commits nothing.
LEMMA OthersOwnNothingNew ==
    ASSUME TypeOK, RunInv, NEW x \in Batches \union {Someone}, RunStep(x),
           NEW c \in Batches, c # x
    PROVE  Own(c)' = Own(c)
BY RunGrows DEF Own

\* Own commits are positions in the history.
LEMMA OwnIsIn == ASSUME NEW b \in Batches PROVE Own(b) \subseteq DOMAIN history
BY DEF Own

\* What is said of records stays true while the run grows.
LEMMA RecordsLast ==
    ASSUME TypeOK, RunInv, NEW x \in Batches \union {Someone}, RunStep(x),
           NEW b \in Batches, NEW S \in StepRecords,
           Backed(S, Ledger), Proves(b, S, history, authors)
    PROVE  Backed(S, Ledger') /\ Proves(b, S, history', authors')
<1>1. /\ DOMAIN history \subseteq DOMAIN history'
      /\ \A i \in DOMAIN history :
           history'[i] = history[i] /\ authors'[i] = authors[i]
      /\ Ledger \subseteq Ledger'
      /\ \A i \in DOMAIN history' \ DOMAIN history :
           \A j \in DOMAIN history : history'[i] # history[j]
  BY RunGrows
<1>2. Backed(S, Ledger')
  BY <1>1 DEF Backed
<1>3. \A k \in DOMAIN S : \E j \in DOMAIN history : history[j] = Bundle[k].op
  <2>1. 1..(revision - 1) \subseteq DOMAIN history
    BY DEF RunInv, TypeOK
  <2>. QED  BY <2>1 DEF Backed, Ledger
<1>4. ASSUME NEW k \in DOMAIN S, NEW i \in DOMAIN history', history'[i] = Bundle[k].op
      PROVE  \/ S[k] = i + 1
             \/ /\ S[k] > i + 1 /\ i + 1 \in DOMAIN history'
                /\ ~(authors'[i].by = b /\ authors'[i + 1].by = b)
  <2>1. i \in DOMAIN history
    BY <1>1, <1>3, <1>4
  <2>. QED  BY <1>1, <1>4, <2>1 DEF Proves
<1>5. Proves(b, S, history', authors')
  BY <1>4 DEF Proves
<1>. QED  BY <1>2, <1>5

-----------------------------------------------------------------------------
\* What the lists of records say depends on the own commits alone.
LEMMA ListsLast ==
    ASSUME NEW own, NEW h, NEW h2, \A i \in own : h2[i] = h[i], NEW S
    PROVE  /\ Full(S, own, h) => Full(S, own, h2)
           /\ Trails(S, own, h) => Trails(S, own, h2)
           /\ \A op : Lacks(S, op, own, h) => Lacks(S, op, own, h2)
           /\ \A n : Mine(S, n, own, h) => Mine(S, n, own, h2)
BY DEF Full, Trails, Lacks, Mine

LEMMA SequenceFacts ==
    ASSUME NEW T, NEW s \in Seq(T)
    PROVE  DOMAIN s = 1..Len(s) /\ Len(s) \in Nat /\ \A k \in DOMAIN s : s[k] \in T
OBVIOUS

LEMMA BlankFacts == NoReceipt \in Receipts /\ <<>> \in StepRecords
<1>1. <<>> \in StepRecords
  BY DEF StepRecords
<1>. QED  BY <1>1 DEF Receipts

LEMMA ReceiptSteps == \A r \in Receipts : r.steps \in StepRecords
<1>1. \A r \in [status : {"IN_PROGRESS", "STOPPED"}, steps : StepRecords] :
         r.steps \in StepRecords
  BY Zenon
<1>2. NoReceipt.steps \in StepRecords
  BY BlankFacts DEF NoReceipt
<1>. QED  BY <1>1, <1>2 DEF Receipts

LEMMA EmptyFits == ASSUME NEW T PROVE <<>> \in Seq(T)
OBVIOUS

\* Types of the parts of a batch, for the leaves.
LEMMA BatchTypes ==
    ASSUME TypeOK, NEW b \in Batches
    PROVE  /\ batch[b] \in [pc : Places, resume : Batches \union {NoBatch},
                            resumed : Receipts, seen : Nat, steps : StepRecords,
                            applied : Nat]
           /\ receipts[b] \in Receipts /\ receipts[b].steps \in StepRecords
           /\ NoReceipt \in Receipts /\ NotCalled.steps = <<>>
           /\ revision \in Nat /\ Len(Bundle) \in Nat /\ MaxTransitions[b] \in Nat
           /\ DOMAIN Bundle = 1..Len(Bundle)
           /\ Len(batch[b].steps) \in Nat /\ Len(receipts[b].steps) \in Nat
           /\ \A S \in StepRecords : DOMAIN S = 1..Len(S) /\ Len(S) \in Nat
           /\ \A k \in DOMAIN Bundle :
                Bundle[k].op \in Operations /\ Bundle[k].type \in Actions
<1>1. /\ <<>> \in StepRecords
      /\ \A S \in StepRecords : DOMAIN S = 1..Len(S) /\ Len(S) \in Nat
  BY DEF StepRecords
<1>2. NoReceipt.steps = <<>> /\ NoReceipt \in Receipts
  BY DEF Receipts, NoReceipt
<1>3. \A r \in Receipts : r.steps \in StepRecords
  <2>1. \A r \in [status : {"IN_PROGRESS", "STOPPED"}, steps : StepRecords] :
           r.steps \in StepRecords
    BY Zenon
  <2>. QED  BY <1>1, <1>2, <2>1 DEF Receipts
<1>4. /\ batch[b] \in [pc : Places, resume : Batches \union {NoBatch},
                       resumed : Receipts, seen : Nat, steps : StepRecords,
                       applied : Nat]
      /\ receipts[b] \in Receipts /\ revision \in Nat
  BY DEF TypeOK
<1>5. /\ DOMAIN Bundle = 1..Len(Bundle) /\ Len(Bundle) \in Nat
      /\ \A k \in DOMAIN Bundle :
           Bundle[k].op \in Operations /\ Bundle[k].type \in Actions
  <2>1. Bundle \in Seq([op : Operations, type : Actions])
    BY BundleAssumption
  <2>2. \A k \in DOMAIN Bundle : Bundle[k] \in [op : Operations, type : Actions]
    BY <2>1, SequenceFacts
  <2>. QED  BY <2>1, <2>2, SequenceFacts
<1>6. MaxTransitions[b] \in Nat
  BY CallsAssumption
<1>7. NotCalled.steps = <<>>
  BY DEF NotCalled
<1>8. batch[b].steps \in StepRecords /\ receipts[b].steps \in StepRecords
  BY <1>3, <1>4
<1>. QED
  BY <1>1, <1>2, <1>4, <1>5, <1>6, <1>7, <1>8

\* A batch that takes no part is not affected.
LEMMA Frame ==
    ASSUME IInv, NEW x \in Batches \union {Someone}, RunStep(x),
           NEW c \in Batches, c # x,
           batch'[c] = batch[c], receipts'[c] = receipts[c]
    PROVE  PhaseInv(c)' /\ RecordInv(c)'
<1>1. TypeOK /\ RunInv /\ PhaseInv(c) /\ RecordInv(c)
  BY DEF IInv
<1>2. Own(c)' = Own(c) /\ Own(c) \subseteq DOMAIN history
  BY <1>1, OthersOwnNothingNew, OwnIsIn
<1>3. /\ revision <= revision'
      /\ \A i \in Own(c) : history'[i] = history[i]
  BY <1>1, <1>2, RunGrows
<1>5. \A S :
        /\ Full(S, Own(c), history) => Full(S, Own(c)', history')
        /\ Trails(S, Own(c), history) => Trails(S, Own(c)', history')
        /\ \A op : Lacks(S, op, Own(c), history) => Lacks(S, op, Own(c)', history')
        /\ \A n : Mine(S, n, Own(c), history) => Mine(S, n, Own(c)', history')
  BY <1>2, <1>3, ListsLast
<1>6. \A S \in {receipts[c].steps, batch[c].steps} :
         Backed(S, Ledger') /\ Proves(c, S, history', authors')
  BY <1>1, BatchTypes, RecordsLast DEF RecordInv, Holds
<1>7. RecordInv(c)'
  BY <1>1, <1>5, <1>6 DEF RecordInv, Holds
<1>8. ASSUME batch[c].pc = "projected"
      PROVE  /\ batch[c].seen <= revision'
             /\ batch[c].seen = revision'
                  => /\ projected' = Bundle[Len(batch[c].steps) + 1].type
                     /\ c \in LocalOnly => projected' \in LocalTypes
  <2>1. /\ batch[c].seen <= revision
        /\ batch[c].seen = revision
             => /\ projected = Bundle[Len(batch[c].steps) + 1].type
                /\ c \in LocalOnly => projected \in LocalTypes
        /\ revision \in Nat /\ batch[c].seen \in Nat
    BY <1>1, <1>8, BatchTypes DEF PhaseInv, Fits
  <2>2. (revision' = revision => projected' = projected) /\ revision' \in Nat
    BY <2>1 DEF RunStep, run, AppendEvent, ReplaceState
  <2>. QED  BY <1>3, <2>1, <2>2
<1>9. ASSUME batch[c].pc = "appended"
      PROVE  Committing' /\ authors'[Len(history')].by = c
  <2>1. Committing /\ authors[Len(history)].by = c
    BY <1>1, <1>9 DEF PhaseInv, Fits
  <2>2. Len(history) \in Nat
    BY <1>1 DEF TypeOK
  <2>3. UNCHANGED run
    BY <2>1, <2>2 DEF RunStep, AppendEvent, Committing
  <2>. QED  BY <2>1, <2>3 DEF run, Committing
<1>10. batch[c].pc \in {"appended", "applied"}
         => \E i \in Own(c)' : history'[i] = Bundle[Len(batch[c].steps) + 1].op
  BY <1>1, <1>2, <1>3 DEF PhaseInv, Fits
<1>11. PhaseInv(c)'
  BY <1>1, <1>2, <1>5, <1>8, <1>9, <1>10 DEF PhaseInv, Fits
<1>. QED  BY <1>7, <1>11

-----------------------------------------------------------------------------
(***************************************************************************)
(* Steps that leave the run alone.                                         *)
(***************************************************************************)
BatchStates ==
    [pc : Places, resume : Batches \union {NoBatch}, resumed : Receipts,
     seen : Nat, steps : StepRecords, applied : Nat]

\* The invariant after a step of b, from what concerns b.
LEMMA StepKeeps ==
    ASSUME IInv, NEW x \in Batches \union {Someone}, RunStep(x),
           TypeOK', StepsInOrder',
           \A c \in Batches \ {x} :
              batch'[c] = batch[c] /\ receipts'[c] = receipts[c],
           x \in Batches => PhaseInv(x)' /\ RecordInv(x)'
    PROVE  IInv'
<1>1. RunInv'
  BY RunGrows DEF IInv
<1>2. \A b \in Batches : PhaseInv(b)' /\ RecordInv(b)'
  BY Frame
<1>. QED  BY <1>1, <1>2 DEF IInv

\* A step of b to state s and receipt r.
LEMMA LocalStep ==
    ASSUME IInv, NEW b \in Batches, UNCHANGED run,
           NEW s \in BatchStates, batch' = [batch EXCEPT ![b] = s],
           NEW r \in Receipts, receipts' = [receipts EXCEPT ![b] = r],
           Len(s.steps) <= Len(Bundle), s.applied <= MaxTransitions[b],
           Fits(b, s, r), Holds(b, s, r)
    PROVE  IInv'
<1>1. /\ batch \in [Batches -> BatchStates] /\ receipts \in [Batches -> Receipts]
      /\ \A c \in Batches : Len(batch[c].steps) <= Len(Bundle)
                            /\ batch[c].applied <= MaxTransitions[c]
  BY DEF IInv, TypeOK, BatchStates
<1>2. /\ batch'[b] = s /\ receipts'[b] = r
      /\ \A c \in Batches \ {b} :
            batch'[c] = batch[c] /\ receipts'[c] = receipts[c]
      /\ batch' \in [Batches -> BatchStates] /\ receipts' \in [Batches -> Receipts]
  BY <1>1
<1>3. \A c \in Batches : /\ Len(batch'[c].steps) <= Len(Bundle)
                         /\ batch'[c].applied <= MaxTransitions[c]
  BY <1>1, <1>2
<1>4. TypeOK'
  BY <1>2, <1>3 DEF IInv, TypeOK, run, BatchStates
<1>5. StepsInOrder'
  BY DEF IInv, StepsInOrder, run
<1>6. RunStep(b)
  BY DEF RunStep
<1>7. /\ history' = history /\ sealed' = sealed /\ authors' = authors
      /\ revision' = revision /\ projected' = projected
  BY DEF run
<1>8. Own(b)' = Own(b) /\ Ledger' = Ledger /\ Committing' = Committing
  BY <1>7 DEF Own, Ledger, Committing
<1>9. PhaseInv(b)'
  BY <1>2, <1>7, <1>8 DEF PhaseInv, Fits
<1>10. RecordInv(b)'
  BY <1>2, <1>7, <1>8 DEF RecordInv, Holds
<1>. QED  BY <1>2, <1>4, <1>5, <1>6, <1>9, <1>10, StepKeeps

\* Nothing is said of a batch that is over but for its receipt.
LEMMA LeaveKeeps ==
    ASSUME IInv, NEW b \in Batches, UNCHANGED run, Leave(b),
           NEW r \in Receipts, receipts' = [receipts EXCEPT ![b] = r],
           Holds(b, batch[b], r)
    PROVE  IInv'
<1> DEFINE s == [NotCalled EXCEPT !.pc = "ended"]
<1>1. s \in BatchStates /\ s.pc = "ended" /\ s.steps = <<>> /\ s.applied = 0
  <2>1. NoReceipt \in Receipts /\ <<>> \in StepRecords /\ "ended" \in Places
    BY BlankFacts DEF Places
  <2>2. s = [pc |-> "ended", resume |-> NoBatch, resumed |-> NoReceipt,
             seen |-> 0, steps |-> <<>>, applied |-> 0]
    BY DEF NotCalled
  <2>. QED  BY <2>1, <2>2 DEF BatchStates
<1>2. batch' = [batch EXCEPT ![b] = s]
  BY DEF Leave
<1> HIDE DEF s
<1>3. Len(s.steps) <= Len(Bundle) /\ s.applied <= MaxTransitions[b]
  BY <1>1, BatchTypes DEF IInv
<1>4. Fits(b, s, r)
  BY <1>1 DEF Fits, Places
<1>5. Holds(b, s, r)
  BY <1>1, <1>3 DEF Holds, Backed, Proves
<1>. QED  BY <1>1, <1>2, <1>3, <1>4, <1>5, LocalStep

\* What a step of b may use.
LEMMA Before ==
    ASSUME IInv, NEW b \in Batches
    PROVE  /\ batch[b] \in BatchStates /\ receipts[b] \in Receipts
           /\ batch \in [Batches -> BatchStates] /\ receipts \in [Batches -> Receipts]
           /\ receipts = [receipts EXCEPT ![b] = receipts[b]]
           /\ Len(batch[b].steps) <= Len(Bundle)
           /\ batch[b].applied <= MaxTransitions[b]
           /\ batch[b].steps \in StepRecords /\ receipts[b].steps \in StepRecords
           /\ batch[b].applied \in Nat /\ revision \in Nat
           /\ Fits(b, batch[b], receipts[b]) /\ Holds(b, batch[b], receipts[b])
<1>1. /\ batch \in [Batches -> BatchStates] /\ receipts \in [Batches -> Receipts]
      /\ Len(batch[b].steps) <= Len(Bundle)
      /\ batch[b].applied <= MaxTransitions[b] /\ revision \in Nat
  BY DEF IInv, TypeOK, BatchStates
<1>2. batch[b].steps \in StepRecords /\ receipts[b].steps \in StepRecords
  BY BatchTypes DEF IInv
<1>3. Fits(b, batch[b], receipts[b]) /\ Holds(b, batch[b], receipts[b])
  BY DEF IInv, PhaseInv, RecordInv
<1>4. batch[b].applied \in Nat
  BY <1>1 DEF BatchStates
<1>. QED  BY <1>1, <1>2, <1>3, <1>4

LEMMA ReserveKeeps ==
    ASSUME IInv, NEW b \in Batches, Reserve(b)
    PROVE  IInv'
<1>1. PICK place \in {"loop", "finalizing"} : Goto(b, place)
  BY DEF Reserve
<1> DEFINE s == [batch[b] EXCEPT !.pc = place]
           r == Receipt(b, "IN_PROGRESS")
<1>2. /\ s.pc = place /\ s.steps = batch[b].steps /\ s.applied = batch[b].applied
      /\ s.resumed = batch[b].resumed /\ s \in BatchStates
  BY Before DEF BatchStates, Places
<1>3. r.steps = s.steps /\ r \in Receipts /\ r # NoReceipt
  BY Before DEF Receipt, Receipts, NoReceipt
<1>4. batch' = [batch EXCEPT ![b] = s]
  BY <1>1, Before DEF Goto
<1>5. receipts' = [receipts EXCEPT ![b] = r] /\ UNCHANGED run /\ batch[b].pc = "prepared"
  BY DEF Reserve, Publish, At
<1> HIDE DEF s, r
<1>6. Own(b) = {}
  BY <1>5, Before DEF Fits
<1>7. /\ Mine(batch[b].steps, Len(batch[b].resumed.steps), Own(b), history)
  BY <1>5, Before DEF Fits, Places
<1>8. Len(s.steps) \in Nat
  BY <1>2, BatchTypes, Before DEF IInv
<1>9. Fits(b, s, r)
  <2>1. Full(s.steps, Own(b), history) /\ Trails(s.steps, Own(b), history)
    BY <1>6 DEF Full, Trails
  <2>2. Mine(s.steps, Len(s.resumed.steps), Own(b), history)
    BY <1>2, <1>7
  <2>. QED  BY <1>1, <1>2, <1>3, <1>8, <2>1, <2>2 DEF Fits
<1>10. Holds(b, s, r)
  BY <1>2, <1>3, <1>6, Before DEF Holds, Trails
<1>. QED  BY <1>2, <1>3, <1>4, <1>5, <1>9, <1>10, Before, LocalStep

LEMMA OutputExistsKeeps ==
    ASSUME IInv, NEW b \in Batches, OutputExists(b)
    PROVE  IInv'
<1>1. Leave(b) /\ UNCHANGED run /\ receipts' = [receipts EXCEPT ![b] = receipts[b]]
  BY Before DEF OutputExists
<1>. QED  BY <1>1, Before, LeaveKeeps

LEMMA PrepareKeeps ==
    ASSUME IInv, NEW b \in Batches, Prepare(b)
    PROVE  IInv'
<1>1. PICK resume \in (Batches \ {b}) \union {NoBatch}, R \in Receipts :
         /\ RetryPrefix(resume)
         /\ R = IF resume = NoBatch THEN NoReceipt ELSE receipts[resume]
         /\ batch' = [batch EXCEPT ![b] =
                    [NotCalled EXCEPT !.pc = "prepared", !.resume = resume,
                       !.resumed = R, !.steps = R.steps]]
  BY BlankFacts, Before DEF Prepare
<1> DEFINE s == [NotCalled EXCEPT !.pc = "prepared", !.resume = resume,
                    !.resumed = R, !.steps = R.steps]
<1>2. /\ batch' = [batch EXCEPT ![b] = s]
      /\ UNCHANGED run /\ receipts' = [receipts EXCEPT ![b] = receipts[b]]
  BY <1>1, Before DEF Prepare
<1>3. R \in Receipts /\ R.steps \in StepRecords
  BY <1>1, BlankFacts, Before DEF NoReceipt
<1>4. /\ s.pc = "prepared" /\ s.steps = R.steps /\ s.resumed = R /\ s.applied = 0
      /\ s \in BatchStates
  <2>1. "prepared" \in Places /\ resume \in Batches \union {NoBatch}
    BY DEF Places
  <2>2. NotCalled \in BatchStates /\ NotCalled.applied = 0
    BY BlankFacts DEF NotCalled, BatchStates, Places
  <2>. QED  BY <1>3, <2>1, <2>2 DEF BatchStates
<1>5. Own(b) = {} /\ receipts[b] = NoReceipt
  BY Before DEF Prepare, At, Fits
<1>6. Backed(R.steps, Ledger)
  <2>1. CASE resume = NoBatch
    BY <1>1, <2>1, BatchTypes DEF Backed, NoReceipt, IInv
  <2>2. CASE resume # NoBatch
    BY <1>1, <2>2, Before DEF Holds
  <2>. QED  BY <2>1, <2>2
<1>7. ASSUME NEW k \in DOMAIN R.steps, NEW i \in DOMAIN history, history[i] = Bundle[k].op
      PROVE  R.steps[k] = i + 1
  <2>1. resume # NoBatch
    BY <1>1, <1>7 DEF NoReceipt
  <2>2. k \in DOMAIN Bundle /\ Bundle[k].op \in Ledger
    BY <1>3, <1>6, <1>7, BatchTypes DEF Backed, IInv
  <2>3. R.steps[k] = RevisionOf(Bundle[k].op)
    BY <1>1, <1>7, <2>1, <2>2 DEF RetryPrefix
  <2>4. \A j \in DOMAIN history : history[j] = Bundle[k].op => j = i
    BY <1>7 DEF IInv, RunInv
  <2>5. RevisionOf(Bundle[k].op) = 1 + i
    BY <1>7, <2>4 DEF RevisionOf
  <2>6. i \in Nat
    BY SequenceFacts DEF IInv, TypeOK
  <2>. QED  BY <2>3, <2>5, <2>6
<1> HIDE DEF s
<1>8. Proves(b, R.steps, history, authors)
  BY <1>7 DEF Proves
<1>9. Len(s.steps) <= Len(Bundle) /\ s.applied <= MaxTransitions[b]
      /\ Len(s.steps) \in Nat
  BY <1>3, <1>4, <1>6, BatchTypes DEF Backed, IInv
<1>10. Mine(s.steps, Len(s.resumed.steps), Own(b), history)
  BY <1>3, <1>4, BatchTypes DEF Mine, IInv
<1>11. Fits(b, s, receipts[b])
  <2>1. Len(receipts[b].steps) = 0
    BY <1>5 DEF NoReceipt
  <2>. QED  BY <1>4, <1>5, <1>9, <1>10, <2>1 DEF Fits
<1>12. Holds(b, s, receipts[b])
  BY <1>4, <1>5, <1>6, <1>8, Before DEF Holds
<1>. QED  BY <1>2, <1>4, <1>9, <1>11, <1>12, Before, LocalStep

LEMMA ProjectKeeps ==
    ASSUME IInv, NEW b \in Batches, Project(b)
    PROVE  IInv'
<1> DEFINE s == [batch[b] EXCEPT !.pc = "projected", !.seen = revision]
<1>1. /\ s.pc = "projected" /\ s.steps = batch[b].steps /\ s.seen = revision
      /\ s.applied = batch[b].applied /\ s.resumed = batch[b].resumed
      /\ s \in BatchStates
  BY Before DEF BatchStates, Places
<1>2. /\ batch' = [batch EXCEPT ![b] = s] /\ batch[b].pc = "loop"
      /\ UNCHANGED run /\ receipts' = [receipts EXCEPT ![b] = receipts[b]]
  BY Before DEF Project, At
<1>3. /\ Len(s.steps) + 1 \in DOMAIN Bundle /\ s.applied < MaxTransitions[b]
      /\ projected = Bundle[Len(s.steps) + 1].type
      /\ b \in LocalOnly => projected \in LocalTypes
  BY <1>1 DEF Project, Permitted, Position
<1> HIDE DEF s
<1>4. Len(s.steps) < Len(Bundle)
  BY <1>1, <1>3, Before, BatchTypes DEF IInv
<1>5. /\ receipts[b] # NoReceipt /\ receipts[b].steps = s.steps
      /\ Full(s.steps, Own(b), history)
      /\ Mine(s.steps, Len(s.resumed.steps), Own(b), history)
      /\ Len(receipts[b].steps) <= Len(s.steps)
  BY <1>1, <1>2, Before DEF Fits, Places
<1>6. Fits(b, s, receipts[b])
  <2>1. revision <= revision
    BY Before
  <2>. QED  BY <1>1, <1>3, <1>4, <1>5, <2>1 DEF Fits
<1>7. Holds(b, s, receipts[b])
  BY <1>1, Before DEF Holds
<1>. QED  BY <1>1, <1>2, <1>6, <1>7, Before, LocalStep

\* A batch goes to place.
LEMMA GotoKeeps ==
    ASSUME IInv, NEW b \in Batches, NEW place \in Places, Goto(b, place),
           UNCHANGED <<run, receipts>>,
           \A s : /\ s.pc = place /\ s.steps = batch[b].steps
                  /\ s.applied = batch[b].applied /\ s.resumed = batch[b].resumed
                  => Fits(b, s, receipts[b])
    PROVE  IInv'
<1> DEFINE s == [batch[b] EXCEPT !.pc = place]
<1>1. /\ s.pc = place /\ s.steps = batch[b].steps /\ s.seen = batch[b].seen
      /\ s.applied = batch[b].applied /\ s.resumed = batch[b].resumed
      /\ s \in BatchStates
  BY Before DEF BatchStates
<1>2. /\ batch' = [batch EXCEPT ![b] = s]
      /\ UNCHANGED run /\ receipts' = [receipts EXCEPT ![b] = receipts[b]]
  BY Before DEF Goto
<1> HIDE DEF s
<1>3. Fits(b, s, receipts[b])
  BY <1>1
<1>4. Holds(b, s, receipts[b])
  BY <1>1, Before DEF Holds
<1>. QED  BY <1>1, <1>2, <1>3, <1>4, Before, LocalStep

LEMMA StopKeeps ==
    ASSUME IInv, NEW b \in Batches, Stop(b)
    PROVE  IInv'
<1>1. /\ Goto(b, "finalizing") /\ UNCHANGED <<run, receipts>>
      /\ "finalizing" \in Places /\ batch[b].pc = "loop"
  BY DEF Stop, At, Places
<1>2. /\ receipts[b] # NoReceipt
      /\ Full(batch[b].steps, Own(b), history)
      /\ Len(receipts[b].steps) <= Len(batch[b].steps)
  BY <1>1, Before DEF Fits
<1>3. Trails(batch[b].steps, Own(b), history)
  BY <1>2 DEF Full, Trails
<1>4. ASSUME NEW s, s.pc = "finalizing", s.steps = batch[b].steps
      PROVE  Fits(b, s, receipts[b])
  BY <1>2, <1>3, <1>4 DEF Fits
<1>. QED  BY <1>1, <1>4, GotoKeeps

LEMMA NoRecordKeeps ==
    ASSUME IInv, NEW b \in Batches, NoRecord(b)
    PROVE  IInv'
<1>1. /\ Goto(b, "finalizing") /\ UNCHANGED <<run, receipts>>
      /\ "finalizing" \in Places /\ batch[b].pc \in {"applied", "refused"}
  BY DEF NoRecord, Places
<1>2. /\ receipts[b] # NoReceipt
      /\ Lacks(batch[b].steps, Bundle[Len(batch[b].steps) + 1].op, Own(b), history)
      /\ Len(receipts[b].steps) <= Len(batch[b].steps)
  BY <1>1, Before DEF Fits
<1>3. Trails(batch[b].steps, Own(b), history)
  BY <1>2 DEF Lacks, Trails
<1>4. ASSUME NEW s, s.pc = "finalizing", s.steps = batch[b].steps
      PROVE  Fits(b, s, receipts[b])
  BY <1>2, <1>3, <1>4 DEF Fits
<1>. QED  BY <1>1, <1>4, GotoKeeps

LEMMA RefusedKeeps ==
    ASSUME IInv, NEW b \in Batches, Refused(b)
    PROVE  IInv'
<1>1. /\ Goto(b, "refused") /\ UNCHANGED <<run, receipts>>
      /\ "refused" \in Places /\ batch[b].pc = "projected"
  BY DEF Refused, At, Places
<1>2. /\ receipts[b] # NoReceipt
      /\ Full(batch[b].steps, Own(b), history)
      /\ Len(batch[b].steps) < Len(Bundle) /\ batch[b].applied < MaxTransitions[b]
      /\ Mine(batch[b].steps, Len(batch[b].resumed.steps), Own(b), history)
      /\ Len(receipts[b].steps) <= Len(batch[b].steps)
  BY <1>1, Before DEF Fits, Places
<1>3. \A op : Lacks(batch[b].steps, op, Own(b), history)
  BY <1>2 DEF Full, Lacks
<1>4. ASSUME NEW s, s.pc = "refused", s.steps = batch[b].steps,
             s.applied = batch[b].applied, s.resumed = batch[b].resumed
      PROVE  Fits(b, s, receipts[b])
  BY <1>2, <1>3, <1>4 DEF Fits
<1>. QED  BY <1>1, <1>4, GotoKeeps

\* A position of the ledger is the last one, or has one behind it in the history.
LEMMA Positions ==
    ASSUME NEW n \in Nat, NEW r \in Nat, r = n \/ r = n + 1, NEW i \in 1..(r - 1)
    PROVE  /\ i \in 1..n /\ i \in Nat
           /\ r = i + 1 \/ (r > i + 1 /\ i + 1 \in 1..n)
OBVIOUS

\* The record of a step, whoever applied it.
LEMMA RecordKeeps ==
    ASSUME IInv, NEW b \in Batches, Record(b)
    PROVE  IInv'
<1>1. PICK place \in GoesOn(b) :
         batch' = [batch EXCEPT ![b].pc = place, ![b].seen = 0,
                                ![b].steps = Append(@, revision),
                                ![b].applied = @ + 1]
  BY DEF Record
<1> DEFINE old == batch[b].steps
           new == Append(old, revision)
           op  == Bundle[Len(old) + 1].op
<1>2. /\ batch[b].pc \in {"applied", "refused"} /\ op \in Ledger
      /\ UNCHANGED run /\ receipts' = [receipts EXCEPT ![b] = receipts[b]]
  BY Before DEF Record, Operation, Position
<1>3. /\ place \in {"recorded", "recorded last"} /\ place \in Places
      /\ batch[b].pc = "refused" => place = "recorded last"
  BY DEF GoesOn, At, Places
<1>4. /\ new \in StepRecords /\ Len(new) = Len(old) + 1 /\ Len(old) \in Nat
      /\ DOMAIN new = DOMAIN old \union {Len(old) + 1}
      /\ DOMAIN old = 1..Len(old)
      /\ new[Len(old) + 1] = revision /\ \A k \in DOMAIN old : new[k] = old[k]
  BY Before DEF StepRecords
<1> HIDE DEF new
<1> DEFINE s == [batch[b] EXCEPT !.pc = place, !.seen = 0, !.steps = new,
                                 !.applied = batch[b].applied + 1]
<1>5. /\ s.pc = place /\ s.steps = new /\ s.applied = batch[b].applied + 1
      /\ s.resumed = batch[b].resumed /\ s \in BatchStates
  <2>1. /\ batch[b] \in BatchStates /\ batch[b].applied + 1 \in Nat
        /\ place \in Places /\ new \in StepRecords
    <3>1. batch[b] \in BatchStates /\ batch[b].applied \in Nat
      BY Before
    <3>2. batch[b].applied + 1 \in Nat
      BY <3>1
    <3>. QED  BY <1>3, <1>4, <3>1, <3>2
  <2>. QED  BY <2>1 DEF BatchStates
<1>6. batch' = [batch EXCEPT ![b] = s]
  BY <1>1, Before DEF BatchStates, new
<1>7. /\ receipts[b] # NoReceipt /\ Len(receipts[b].steps) <= Len(old)
      /\ Len(old) < Len(Bundle) /\ batch[b].applied < MaxTransitions[b]
      /\ Lacks(old, op, Own(b), history)
      /\ Mine(old, Len(batch[b].resumed.steps), Own(b), history)
      /\ batch[b].pc = "applied" => \E i \in Own(b) : history[i] = op
  BY <1>2, Before DEF Fits, Places
<1>8. /\ Backed(old, Ledger) /\ Proves(b, old, history, authors)
      /\ Trails(receipts[b].steps, Own(b), history)
      /\ Backed(receipts[b].steps, Ledger)
      /\ Proves(b, receipts[b].steps, history, authors)
  BY <1>7, Before DEF Holds
<1>9. Len(receipts[b].steps) \in Nat /\ MaxTransitions[b] \in Nat /\ Len(Bundle) \in Nat
  BY BatchTypes DEF IInv
<1> HIDE DEF s, old
<1>10. Backed(new, Ledger)
  BY <1>2, <1>4, <1>7, <1>8, <1>9 DEF Backed
<1>11. Full(new, Own(b), history)
  BY <1>4, <1>7 DEF Full, Lacks, Listed
<1>12. place = "recorded" => Mine(new, Len(batch[b].resumed.steps), Own(b), history)
  BY <1>2, <1>3, <1>4, <1>7 DEF Mine
<1>13. ASSUME NEW i \in DOMAIN history, history[i] = op
       PROVE  \/ revision = i + 1
              \/ /\ revision > i + 1 /\ i + 1 \in DOMAIN history
                 /\ ~(authors[i].by = b /\ authors[i + 1].by = b)
  <2>1. /\ DOMAIN history = 1..Len(history) /\ Len(history) \in Nat
        /\ revision \in Nat
        /\ revision = Len(history) \/ revision = Len(history) + 1
    BY <1>13, SequenceFacts DEF IInv, RunInv, TypeOK
  <2>2. i \in 1..(revision - 1)
    <3>1. \A j \in DOMAIN history : history[j] = op => j = i
      BY <1>13 DEF IInv, RunInv
    <3>2. PICK j \in 1..(revision - 1) : history[j] = op
      BY <1>2 DEF Ledger
    <3>3. j \in DOMAIN history
      BY <2>1, <3>2, Positions
    <3>. QED  BY <3>1, <3>2, <3>3
  <2>3. ~Listed(op, old)
    BY <1>4, <1>7, <1>9, BundleAssumption, BatchTypes DEF Listed, IInv
  <2>4. ASSUME i \in Own(b)
        PROVE  \A j \in Own(b) : j <= i
    BY <1>7, <1>13, <2>3, <2>4 DEF Lacks
  <2>5. /\ i \in Nat
        /\ revision = i + 1 \/ (revision > i + 1 /\ i + 1 \in DOMAIN history)
    BY <2>1, <2>2, Positions
  <2>6. ASSUME i + 1 \in DOMAIN history, authors[i].by = b, authors[i + 1].by = b
        PROVE  FALSE
    <3>1. i \in Own(b) /\ i + 1 \in Own(b)
      BY <1>13, <2>6 DEF Own
    <3>2. i + 1 <= i
      BY <2>4, <3>1
    <3>. QED  BY <2>5, <3>2
  <2>. QED  BY <2>5, <2>6
<1>14. Proves(b, new, history, authors)
  BY <1>4, <1>8, <1>13 DEF Proves
<1>15. Fits(b, s, receipts[b])
  <2>1. Len(receipts[b].steps) <= Len(s.steps)
    BY <1>4, <1>5, <1>7, <1>9
  <2>2. s.pc = "recorded" => Mine(s.steps, Len(s.resumed.steps), Own(b), history)
    BY <1>5, <1>12
  <2>3. Full(s.steps, Own(b), history)
    BY <1>5, <1>11
  <2>4. s.pc \in {"recorded", "recorded last"} /\ receipts[b] # NoReceipt
    BY <1>3, <1>5, <1>7
  <2>. HIDE DEF op
  <2>. QED  BY <2>1, <2>2, <2>3, <2>4 DEF Fits
<1>16. Holds(b, s, receipts[b])
  BY <1>5, <1>8, <1>10, <1>14 DEF Holds
<1>17. Len(s.steps) <= Len(Bundle) /\ s.applied <= MaxTransitions[b]
  BY <1>4, <1>5, <1>7, <1>9, Before
<1>. QED  BY <1>2, <1>5, <1>6, <1>15, <1>16, <1>17, Before, LocalStep

LEMMA PersistKeeps ==
    ASSUME IInv, NEW b \in Batches, Persist(b)
    PROVE  IInv'
<1> DEFINE place == IF At(b, "recorded") THEN "loop" ELSE "finalizing"
           s == [batch[b] EXCEPT !.pc = place]
           r == Receipt(b, "IN_PROGRESS")
<1>1. /\ batch[b].pc \in {"recorded", "recorded last"}
      /\ batch' = [batch EXCEPT ![b] = s] /\ UNCHANGED run
      /\ receipts' = [receipts EXCEPT ![b] = r]
  BY Before DEF Persist, Goto, Publish
<1>2. /\ s.pc = place /\ s.steps = batch[b].steps /\ s.applied = batch[b].applied
      /\ s.resumed = batch[b].resumed /\ s \in BatchStates
  BY Before DEF BatchStates, Places
<1>3. r.steps = s.steps /\ r \in Receipts /\ r # NoReceipt
  BY Before DEF Receipt, Receipts, NoReceipt
<1>4. (place = "loop" /\ batch[b].pc = "recorded") \/ place = "finalizing"
  BY DEF At
<1> HIDE DEF place, s, r
<1>5. /\ Full(s.steps, Own(b), history)
      /\ place = "loop" => Mine(s.steps, Len(s.resumed.steps), Own(b), history)
  BY <1>1, <1>2, <1>4, Before DEF Fits, Places
<1>6. Trails(s.steps, Own(b), history)
  BY <1>5 DEF Full, Trails
<1>7. Len(s.steps) \in Nat
  BY <1>2, BatchTypes, Before DEF IInv
<1>8. Fits(b, s, r)
  <2>1. Len(r.steps) <= Len(s.steps)
    BY <1>3, <1>7
  <2>2. CASE place = "loop"
    BY <1>2, <1>3, <1>5, <2>1, <2>2 DEF Fits
  <2>3. CASE place = "finalizing"
    BY <1>2, <1>3, <1>6, <2>1, <2>3 DEF Fits
  <2>. QED  BY <1>4, <2>2, <2>3
<1>9. Holds(b, s, r)
  BY <1>2, <1>3, <1>6, Before DEF Holds
<1>. QED  BY <1>1, <1>2, <1>3, <1>8, <1>9, Before, LocalStep

LEMMA FinalizeKeeps ==
    ASSUME IInv, NEW b \in Batches, Finalize(b)
    PROVE  IInv'
<1> DEFINE r == Receipt(b, "STOPPED")
<1>1. /\ batch[b].pc = "finalizing" /\ Leave(b) /\ UNCHANGED run
      /\ receipts' = [receipts EXCEPT ![b] = r]
  BY DEF Finalize, At, Publish
<1>2. r.steps = batch[b].steps /\ r \in Receipts
  BY Before DEF Receipt, Receipts
<1> HIDE DEF r
<1>3. Holds(b, batch[b], r)
  <2>1. Trails(batch[b].steps, Own(b), history)
    BY <1>1, Before DEF Fits
  <2>. QED  BY <1>2, <2>1, Before DEF Holds
<1>. QED  BY <1>1, <1>2, <1>3, LeaveKeeps

-----------------------------------------------------------------------------
(***************************************************************************)
(* Steps that change the run.                                              *)
(***************************************************************************)
\* Types after such a step; the batches only move.
LEMMA RunTypes ==
    ASSUME IInv, NEW x \in Batches \union {Someone}, RunStep(x),
           UNCHANGED receipts, batch' \in [Batches -> BatchStates],
           \A c \in Batches : /\ Len(batch'[c].steps) <= Len(Bundle)
                              /\ batch'[c].applied <= MaxTransitions[c]
    PROVE  TypeOK'
<1>1. /\ TypeOK /\ RunInv
      /\ authors \in Seq([by : Batches \union {Someone}, projected : Actions])
      /\ projected \in Actions
  BY DEF IInv, TypeOK
<1>2. CASE UNCHANGED run
  BY <1>1, <1>2 DEF TypeOK, run, BatchStates
<1>3. ASSUME NEW op \in Operations, AppendEvent(op, x)
      PROVE  TypeOK'
  <2>1. history' \in Seq(Operations) /\ sealed' = sealed /\ revision' = revision
        /\ projected' = projected
    BY <1>1, <1>3, AppendFacts
  <2>2. [by |-> x, projected |-> projected]
          \in [by : Batches \union {Someone}, projected : Actions]
    BY <1>1
  <2>3. authors' \in Seq([by : Batches \union {Someone}, projected : Actions])
    BY <1>1, <1>3, <2>2 DEF AppendEvent
  <2>. QED  BY <1>1, <2>1, <2>3 DEF TypeOK, BatchStates
<1>4. CASE ReplaceState
  BY <1>1, <1>4 DEF TypeOK, ReplaceState, BatchStates
<1>5. CASE Kernel!Seal /\ UNCHANGED <<authors, revision, projected>>
  BY <1>1, <1>5 DEF TypeOK, Kernel!Seal, BatchStates
<1>. QED  BY <1>2, <1>3, <1>4, <1>5 DEF RunStep

\* The types of a batch that goes somewhere, or leaves.
LEMMA MoveTypes ==
    ASSUME IInv, NEW b \in Batches,
           Leave(b) \/ \E place \in Places : Goto(b, place)
    PROVE  /\ batch' \in [Batches -> BatchStates]
           /\ \A c \in Batches : /\ Len(batch'[c].steps) <= Len(Bundle)
                                 /\ batch'[c].applied <= MaxTransitions[c]
           /\ \A c \in Batches \ {b} : batch'[c] = batch[c]
<1>1. /\ batch \in [Batches -> BatchStates]
      /\ \A c \in Batches : /\ Len(batch[c].steps) <= Len(Bundle)
                            /\ batch[c].applied <= MaxTransitions[c]
  BY DEF IInv, TypeOK, BatchStates
<1>2. ASSUME NEW s \in BatchStates, batch' = [batch EXCEPT ![b] = s],
             Len(s.steps) <= Len(Bundle), s.applied <= MaxTransitions[b]
      PROVE  /\ batch' \in [Batches -> BatchStates]
             /\ \A c \in Batches : /\ Len(batch'[c].steps) <= Len(Bundle)
                                   /\ batch'[c].applied <= MaxTransitions[c]
             /\ \A c \in Batches \ {b} : batch'[c] = batch[c]
  BY <1>1, <1>2
<1>3. CASE Leave(b)
  <2> DEFINE s == [NotCalled EXCEPT !.pc = "ended"]
  <2>1. s \in BatchStates /\ s.steps = <<>> /\ s.applied = 0
    <3>1. NotCalled \in BatchStates
      BY BlankFacts DEF NotCalled, BatchStates, Places
    <3>2. NotCalled.steps = <<>> /\ NotCalled.applied = 0 /\ "ended" \in Places
      BY DEF NotCalled, Places
    <3>. QED  BY <3>1, <3>2 DEF BatchStates
  <2>2. batch' = [batch EXCEPT ![b] = s]
    BY <1>3 DEF Leave
  <2> HIDE DEF s
  <2>3. Len(s.steps) <= Len(Bundle) /\ s.applied <= MaxTransitions[b]
    BY <2>1, BatchTypes DEF IInv
  <2>. QED  BY <1>2, <2>1, <2>2, <2>3
<1>4. ASSUME NEW place \in Places, Goto(b, place)
      PROVE  /\ batch' \in [Batches -> BatchStates]
             /\ \A c \in Batches : /\ Len(batch'[c].steps) <= Len(Bundle)
                                   /\ batch'[c].applied <= MaxTransitions[c]
             /\ \A c \in Batches \ {b} : batch'[c] = batch[c]
  <2> DEFINE s == [batch[b] EXCEPT !.pc = place]
  <2>1. s \in BatchStates /\ s.steps = batch[b].steps /\ s.applied = batch[b].applied
    BY <1>1 DEF BatchStates
  <2>2. batch' = [batch EXCEPT ![b] = s]
    BY <1>1, <1>4 DEF Goto
  <2> HIDE DEF s
  <2>. QED  BY <1>1, <1>2, <2>1, <2>2
<1>. QED  BY <1>3, <1>4

\* The order of the steps is a matter of new commits.
LEMMA OrderKept ==
    ASSUME StepsInOrder, UNCHANGED <<history, authors>>
    PROVE  StepsInOrder'
BY DEF StepsInOrder

\* Breaking off leaves all else as it is.
LEMMA BreakOffFacts ==
    ASSUME IInv, NEW b \in Batches, BreakOff(b)
    PROVE  /\ RunStep(b) /\ StepsInOrder'
           /\ history' = history /\ authors' = authors /\ revision' = revision
           /\ Own(b)' = Own(b) /\ Ledger' = Ledger
           /\ batch[b].pc \in {"appended", "projected"}
<1>1. Kernel!Seal /\ UNCHANGED <<authors, revision, projected>>
  BY DEF BreakOff
<1>2. Committing => authors[Len(history)].by = b
  BY Before DEF BreakOff, At, Fits
<1>3. history' = history
  BY <1>1 DEF Kernel!Seal
<1>. QED
  BY <1>1, <1>2, <1>3, OrderKept DEF RunStep, IInv, Own, Ledger, BreakOff, At

LEMMA InterruptedKeeps ==
    ASSUME IInv, NEW b \in Batches, Interrupted(b)
    PROVE  IInv'
<1>1. /\ BreakOff(b) /\ Goto(b, "refused") /\ UNCHANGED receipts /\ "refused" \in Places
  BY DEF Interrupted, Places
<1>2. /\ RunStep(b) /\ StepsInOrder'
      /\ history' = history /\ authors' = authors /\ revision' = revision
      /\ Own(b)' = Own(b) /\ Ledger' = Ledger
      /\ batch[b].pc \in {"appended", "projected"}
  BY <1>1, BreakOffFacts
<1>3. /\ TypeOK'
      /\ \A c \in Batches \ {b} : batch'[c] = batch[c] /\ receipts'[c] = receipts[c]
  BY <1>1, <1>2, MoveTypes, RunTypes
<1>4. /\ batch'[b].pc = "refused" /\ batch'[b].steps = batch[b].steps
      /\ batch'[b].applied = batch[b].applied /\ batch'[b].resumed = batch[b].resumed
  BY <1>1, Before DEF Goto, BatchStates
<1>5. /\ receipts[b] # NoReceipt
      /\ Len(batch[b].steps) < Len(Bundle) /\ batch[b].applied < MaxTransitions[b]
      /\ Mine(batch[b].steps, Len(batch[b].resumed.steps), Own(b), history)
      /\ Len(receipts[b].steps) <= Len(batch[b].steps)
  BY <1>2, Before DEF Fits, Places
<1>6. Lacks(batch[b].steps, Bundle[Len(batch[b].steps) + 1].op, Own(b), history)
  BY <1>2, Before DEF Fits, Full, Lacks
<1>7. PhaseInv(b)'
  BY <1>1, <1>2, <1>4, <1>5, <1>6 DEF PhaseInv, Fits
<1>8. RecordInv(b)'
  BY <1>1, <1>2, <1>4, Before DEF RecordInv, Holds
<1>. QED  BY <1>2, <1>3, <1>7, <1>8, StepKeeps

LEMMA DieKeeps ==
    ASSUME IInv, NEW b \in Batches, Die(b)
    PROVE  IInv'
<1>1. Leave(b) /\ UNCHANGED receipts /\ (BreakOff(b) \/ UNCHANGED run)
  BY DEF Die
<1>2. CASE UNCHANGED run
  <2>1. receipts' = [receipts EXCEPT ![b] = receipts[b]]
    BY <1>1, Before
  <2>. QED  BY <1>1, <1>2, <2>1, Before, LeaveKeeps
<1>3. CASE BreakOff(b)
  <2>1. /\ RunStep(b) /\ StepsInOrder'
        /\ history' = history /\ authors' = authors /\ revision' = revision
        /\ Own(b)' = Own(b) /\ Ledger' = Ledger
    BY <1>3, BreakOffFacts
  <2>2. /\ TypeOK'
        /\ \A c \in Batches \ {b} : batch'[c] = batch[c] /\ receipts'[c] = receipts[c]
    BY <1>1, <2>1, MoveTypes, RunTypes
  <2>3. batch'[b].pc = "ended" /\ batch'[b].steps = <<>>
    BY <1>1, Before DEF Leave, NotCalled
  <2>4. PhaseInv(b)'
    BY <2>3 DEF PhaseInv, Fits, Places
  <2>5. Len(Bundle) \in Nat
    BY BatchTypes DEF IInv
  <2>6. RecordInv(b)'
    BY <1>1, <2>1, <2>3, <2>5, Before DEF RecordInv, Holds, Backed, Proves
  <2>. QED  BY <2>1, <2>2, <2>4, <2>6, StepKeeps
<1>. QED  BY <1>1, <1>2, <1>3

LEMMA AppliedKeeps ==
    ASSUME IInv, NEW b \in Batches, Applied(b)
    PROVE  IInv'
<1>1. /\ ReplaceState /\ Goto(b, "applied") /\ UNCHANGED receipts /\ "applied" \in Places
      /\ batch[b].pc = "appended"
  BY DEF Applied, At, Places
<1>2. /\ Committing /\ authors[Len(history)].by = b
      /\ receipts[b] # NoReceipt
      /\ Len(batch[b].steps) < Len(Bundle) /\ batch[b].applied < MaxTransitions[b]
      /\ Mine(batch[b].steps, Len(batch[b].resumed.steps), Own(b), history)
      /\ Len(receipts[b].steps) <= Len(batch[b].steps)
      /\ Lacks(batch[b].steps, Bundle[Len(batch[b].steps) + 1].op, Own(b), history)
      /\ \E i \in Own(b) : history[i] = Bundle[Len(batch[b].steps) + 1].op
  BY <1>1, Before DEF Fits, Places
<1>3. RunStep(b) /\ history' = history /\ authors' = authors /\ Own(b)' = Own(b)
  BY <1>1, <1>2 DEF RunStep, ReplaceState, Own
<1>4. StepsInOrder'
  BY <1>3, OrderKept DEF IInv
<1>5. /\ TypeOK'
      /\ \A c \in Batches \ {b} : batch'[c] = batch[c] /\ receipts'[c] = receipts[c]
  BY <1>1, <1>3, MoveTypes, RunTypes
<1>6. /\ batch'[b].pc = "applied" /\ batch'[b].steps = batch[b].steps
      /\ batch'[b].applied = batch[b].applied /\ batch'[b].resumed = batch[b].resumed
  BY <1>1, Before DEF Goto, BatchStates
<1>7. PhaseInv(b)'
  BY <1>1, <1>2, <1>3, <1>6 DEF PhaseInv, Fits
<1>8. \A S \in {receipts[b].steps, batch[b].steps} :
         Backed(S, Ledger') /\ Proves(b, S, history', authors')
  BY <1>3, Before, RecordsLast DEF Holds, IInv
<1>9. RecordInv(b)'
  BY <1>1, <1>3, <1>6, <1>8, Before DEF RecordInv, Holds
<1>. QED  BY <1>3, <1>4, <1>5, <1>7, <1>9, StepKeeps

\* A commit keeps the order if it is somebody else's, or of the step that is next.
LEMMA OrderGrows ==
    ASSUME IInv, NEW op \in Operations, NEW x \in Batches \union {Someone},
           AppendEvent(op, x),
           x \in Batches =>
              \E k \in DOMAIN Bundle :
                 /\ op = Bundle[k].op /\ projected = Bundle[k].type
                 /\ x \in LocalOnly => Bundle[k].type \in LocalTypes
                 /\ \A j \in 1..(k - 1) :
                       \E h \in DOMAIN history : history[h] = Bundle[j].op
    PROVE  StepsInOrder'
<1> DEFINE n == Len(history) + 1
<1>1. /\ DOMAIN history' = DOMAIN history \union {n} /\ DOMAIN history = 1..Len(history)
      /\ Len(history) \in Nat
      /\ history'[n] = op /\ authors'[n] = [by |-> x, projected |-> projected]
      /\ \A i \in DOMAIN history : history'[i] = history[i] /\ authors'[i] = authors[i]
  BY AppendFacts, SequenceFacts DEF IInv, TypeOK
<1>2. ASSUME NEW i \in DOMAIN history, authors'[i].by \in Batches
      PROVE  \E k \in DOMAIN Bundle :
                /\ history'[i] = Bundle[k].op
                /\ authors'[i].projected = Bundle[k].type
                /\ authors'[i].by \in LocalOnly => Bundle[k].type \in LocalTypes
                /\ \A j \in 1..(k - 1) : \E h \in 1..(i - 1) : history'[h] = Bundle[j].op
  <2>1. PICK k \in DOMAIN Bundle :
                /\ history[i] = Bundle[k].op
                /\ authors[i].projected = Bundle[k].type
                /\ authors[i].by \in LocalOnly => Bundle[k].type \in LocalTypes
                /\ \A j \in 1..(k - 1) : \E h \in 1..(i - 1) : history[h] = Bundle[j].op
    BY <1>1, <1>2 DEF IInv, StepsInOrder
  <2>2. \A h \in 1..(i - 1) : h \in DOMAIN history /\ history'[h] = history[h]
    BY <1>1
  <2>3. \A j \in 1..(k - 1) : \E h \in 1..(i - 1) : history'[h] = Bundle[j].op
    <3>1. SUFFICES ASSUME NEW j \in 1..(k - 1)
                   PROVE  \E h \in 1..(i - 1) : history'[h] = Bundle[j].op
      OBVIOUS
    <3>2. PICK h \in 1..(i - 1) : history[h] = Bundle[j].op
      BY <2>1
    <3>. QED  BY <2>2, <3>2
  <2>4. history'[i] = history[i] /\ authors'[i] = authors[i]
    BY <1>1
  <2>. QED  BY <2>1, <2>3, <2>4
<1>3. ASSUME authors'[n].by \in Batches
      PROVE  \E k \in DOMAIN Bundle :
                /\ history'[n] = Bundle[k].op
                /\ authors'[n].projected = Bundle[k].type
                /\ authors'[n].by \in LocalOnly => Bundle[k].type \in LocalTypes
                /\ \A j \in 1..(k - 1) : \E h \in 1..(n - 1) : history'[h] = Bundle[j].op
  <2>1. PICK k \in DOMAIN Bundle :
                 /\ op = Bundle[k].op /\ projected = Bundle[k].type
                 /\ x \in LocalOnly => Bundle[k].type \in LocalTypes
                 /\ \A j \in 1..(k - 1) :
                       \E h \in DOMAIN history : history[h] = Bundle[j].op
    BY <1>1, <1>3
  <2>2. /\ 1..(n - 1) = DOMAIN history
        /\ \A h \in DOMAIN history : history'[h] = history[h]
    BY <1>1
  <2>3. \A j \in 1..(k - 1) : \E h \in 1..(n - 1) : history'[h] = Bundle[j].op
    <3>1. SUFFICES ASSUME NEW j \in 1..(k - 1)
                   PROVE  \E h \in 1..(n - 1) : history'[h] = Bundle[j].op
      OBVIOUS
    <3>2. PICK h \in DOMAIN history : history[h] = Bundle[j].op
      BY <2>1
    <3>. QED  BY <2>2, <3>2
  <2>4. /\ history'[n] = op /\ authors'[n].by = x
        /\ authors'[n].projected = projected
    BY <1>1
  <2>. QED  BY <2>1, <2>3, <2>4
<1> HIDE DEF n
<1>. QED  BY <1>1, <1>2, <1>3 DEF StepsInOrder

LEMMA ApplyKeeps ==
    ASSUME IInv, NEW b \in Batches, Apply(b)
    PROVE  IInv'
<1> DEFINE old == batch[b].steps
           k   == Len(old) + 1
           op  == Bundle[k].op
           n   == Len(history) + 1
<1>1. /\ AppendEvent(op, b) /\ Goto(b, "appended") /\ UNCHANGED receipts
      /\ "appended" \in Places /\ batch[b].pc = "projected" /\ revision = batch[b].seen
  BY DEF Apply, At, Places, Operation, Position
<1>2. /\ receipts[b] # NoReceipt /\ receipts[b].steps = old
      /\ Full(old, Own(b), history)
      /\ Len(old) < Len(Bundle) /\ batch[b].applied < MaxTransitions[b]
      /\ projected = Bundle[k].type /\ (b \in LocalOnly => projected \in LocalTypes)
      /\ Mine(old, Len(batch[b].resumed.steps), Own(b), history)
  BY <1>1, Before DEF Fits, Places
<1>3. k \in DOMAIN Bundle /\ op \in Operations /\ Len(old) \in Nat /\ k - 1 = Len(old)
  <2>1. /\ Len(old) \in Nat /\ Len(Bundle) \in Nat /\ DOMAIN Bundle = 1..Len(Bundle)
        /\ \A j \in DOMAIN Bundle : Bundle[j].op \in Operations
    BY BatchTypes DEF IInv
  <2>2. k \in 1..Len(Bundle) /\ k - 1 = Len(old)
    BY <1>2, <2>1
  <2>. QED  BY <2>1, <2>2
<1>4. RunStep(b)
  BY <1>1, <1>3 DEF RunStep
<1>5. /\ ~sealed' /\ revision' = Len(history')
      /\ DOMAIN history' = DOMAIN history \union {n}
      /\ Len(history') = n /\ history'[n] = op
      /\ authors'[n].by = b
      /\ \A i \in DOMAIN history : history'[i] = history[i] /\ authors'[i] = authors[i]
  <2>. HIDE DEF op
  <2>1. /\ ~sealed /\ sealed' = sealed
        /\ revision = n /\ revision' = revision /\ Len(history') = n
        /\ DOMAIN history' = DOMAIN history \union {n} /\ history'[n] = op
        /\ authors'[n] = [by |-> b, projected |-> projected]
        /\ \A i \in DOMAIN history :
              history'[i] = history[i] /\ authors'[i] = authors[i]
    BY <1>1, <1>3, AppendFacts DEF IInv
  <2>2. authors'[n].by = b
    BY <2>1
  <2>. QED  BY <2>1, <2>2
<1>6. \A j \in 1..(k - 1) : \E h \in DOMAIN history : history[h] = Bundle[j].op
  <2>1. 1..(revision - 1) \subseteq DOMAIN history
    BY DEF IInv, RunInv, TypeOK
  <2>2. DOMAIN old = 1..Len(old)
    BY Before, BatchTypes DEF IInv
  <2>3. \A j \in DOMAIN old : Bundle[j].op \in Ledger
    BY Before DEF Holds, Backed
  <2>. QED  BY <1>3, <2>1, <2>2, <2>3 DEF Ledger
<1>7. StepsInOrder'
  BY <1>1, <1>2, <1>3, <1>6, OrderGrows
<1>8. /\ TypeOK'
      /\ \A c \in Batches \ {b} : batch'[c] = batch[c] /\ receipts'[c] = receipts[c]
  BY <1>1, <1>4, MoveTypes, RunTypes
<1>9. /\ batch'[b].pc = "appended" /\ batch'[b].steps = old
      /\ batch'[b].applied = batch[b].applied /\ batch'[b].resumed = batch[b].resumed
  BY <1>1, Before DEF Goto, BatchStates
<1>10. /\ Own(b)' = Own(b) \union {n} /\ Own(b) \subseteq DOMAIN history
       /\ \A j \in Own(b)' : j <= n
  <2>1. Own(b)' = Own(b) \union {n} /\ Own(b) \subseteq DOMAIN history
    BY <1>5 DEF Own
  <2>2. \A j \in DOMAIN history : j <= n
    BY SequenceFacts DEF IInv, TypeOK
  <2>3. n <= n
    BY SequenceFacts DEF IInv, TypeOK
  <2>. QED  BY <2>1, <2>2, <2>3
<1>11. Committing'
  BY <1>5 DEF Committing
<1> HIDE DEF old, k, op, n
<1>12. /\ Trails(old, Own(b)', history')
       /\ Lacks(old, op, Own(b)', history')
       /\ Mine(old, Len(batch[b].resumed.steps), Own(b)', history')
  <2>1. \A i \in Own(b) : history'[i] = history[i] /\ Listed(history'[i], old)
    BY <1>2, <1>5, <1>10 DEF Full
  <2>2. Trails(old, Own(b)', history') /\ Lacks(old, op, Own(b)', history')
    BY <1>5, <1>10, <2>1 DEF Trails, Lacks
  <2>3. Mine(old, Len(batch[b].resumed.steps), Own(b)', history')
    BY <1>2, <1>10, <2>1 DEF Mine
  <2>. QED  BY <2>2, <2>3
<1>13. PhaseInv(b)'
  <2>1. \E i \in Own(b)' : history'[i] = op
    BY <1>5, <1>10
  <2>2. op = Bundle[Len(old) + 1].op
    BY DEF op, k
  <2>3. authors'[Len(history')].by = b
    BY <1>5
  <2>4. Len(receipts'[b].steps) <= Len(old) /\ receipts'[b] # NoReceipt
    BY <1>1, <1>2, <1>3
  <2>. QED
    BY <1>2, <1>9, <1>11, <1>12, <2>1, <2>2, <2>3, <2>4 DEF PhaseInv, Fits
<1>14. \A S \in {receipts[b].steps, batch[b].steps} :
         Backed(S, Ledger') /\ Proves(b, S, history', authors')
  BY <1>4, Before, RecordsLast DEF Holds, IInv
<1>15. RecordInv(b)'
  BY <1>1, <1>2, <1>9, <1>12, <1>14 DEF RecordInv, Holds, old
<1>. QED  BY <1>4, <1>7, <1>8, <1>13, <1>15, StepKeeps

LEMMA OthersKeep ==
    ASSUME IInv,
           (\E op \in Operations : OthersAppend(op)) \/ OthersReplace \/ OthersDie
    PROVE  IInv'
<1>1. UNCHANGED <<receipts, batch>>
  BY DEF OthersAppend, OthersReplace, OthersDie
<1>2. /\ batch' \in [Batches -> BatchStates]
      /\ \A c \in Batches : /\ Len(batch'[c].steps) <= Len(Bundle)
                            /\ batch'[c].applied <= MaxTransitions[c]
  BY <1>1 DEF IInv, TypeOK, BatchStates
<1>3. Someone \notin Batches
  BY NamesAssumption
<1>4. CASE \E op \in Operations : OthersAppend(op)
  <2>1. PICK op \in Operations : AppendEvent(op, Someone)
    BY <1>4 DEF OthersAppend
  <2>2. RunStep(Someone)
    BY <2>1 DEF RunStep
  <2>3. StepsInOrder'
    BY <1>3, <2>1, OrderGrows
  <2>4. TypeOK'
    BY <1>1, <1>2, <2>2, RunTypes
  <2>. QED  BY <1>1, <1>3, <2>2, <2>3, <2>4, StepKeeps
<1>5. CASE OthersReplace \/ OthersDie
  <2>1. Committing /\ authors[Len(history)].by = Someone
    BY <1>5 DEF OthersReplace, OthersDie, OthersCommitting, IInv, RunInv
  <2>2. RunStep(Someone) /\ history' = history /\ authors' = authors
    BY <1>5, <2>1 DEF OthersReplace, OthersDie, RunStep, ReplaceState, Kernel!Seal
  <2>3. StepsInOrder'
    BY <2>2, OrderKept DEF IInv
  <2>4. TypeOK'
    BY <1>1, <1>2, <2>2, RunTypes
  <2>. QED  BY <1>1, <1>3, <2>2, <2>3, <2>4, StepKeeps
<1>. QED  BY <1>4, <1>5

-----------------------------------------------------------------------------
(***************************************************************************)
(* The invariant.                                                          *)
(***************************************************************************)
LEMMA InvInit == Init => IInv
<1> SUFFICES ASSUME Init PROVE IInv
  OBVIOUS
<1>1. /\ history = <<>> /\ sealed = FALSE /\ authors = <<>> /\ revision = 1
      /\ projected \in Actions
      /\ receipts = [b \in Batches |-> NoReceipt]
      /\ batch = [b \in Batches |-> NotCalled]
  BY DEF Init, Kernel!Init
<1>2. /\ NoReceipt.steps = <<>> /\ NotCalled.steps = <<>> /\ NotCalled.applied = 0
      /\ NotCalled.pc = "idle" /\ NotCalled.resumed = NoReceipt
  BY DEF NoReceipt, NotCalled
<1>3. NotCalled \in BatchStates
  BY BlankFacts DEF NotCalled, BatchStates, Places
<1>4. TypeOK
  <2>1. \A b \in Batches : Len(NotCalled.steps) <= Len(Bundle)
                           /\ NotCalled.applied <= MaxTransitions[b]
    <3>1. Len(Bundle) \in Nat
      BY BundleAssumption, SequenceFacts
    <3>. QED  BY <1>2, <3>1, CallsAssumption
  <2>2. /\ receipts \in [Batches -> Receipts] /\ batch \in [Batches -> BatchStates]
    BY <1>1, <1>3, BlankFacts
  <2>3. \A b \in Batches : batch[b] = NotCalled
    BY <1>1
  <2>4. /\ history \in Seq(Operations) /\ sealed \in BOOLEAN /\ revision \in Nat
        /\ authors \in Seq([by : Batches \union {Someone}, projected : Actions])
    BY <1>1, EmptyFits
  <2>5. \A b \in Batches : Len(batch[b].steps) <= Len(Bundle)
                           /\ batch[b].applied <= MaxTransitions[b]
    BY <2>1, <2>3
  <2>. QED  BY <1>1, <2>2, <2>4, <2>5 DEF TypeOK, BatchStates
<1>5. RunInv /\ StepsInOrder
  BY <1>1 DEF RunInv, StepsInOrder
<1>6. ASSUME NEW b \in Batches
      PROVE  PhaseInv(b) /\ RecordInv(b)
  <2>1. Own(b) = {} /\ batch[b] = NotCalled /\ receipts[b] = NoReceipt
    BY <1>1 DEF Own
  <2>2. PhaseInv(b)
    <3>1. Mine(NotCalled.steps, Len(NotCalled.resumed.steps), Own(b), history)
      BY <1>2 DEF Mine
    <3>2. Len(NoReceipt.steps) <= Len(NotCalled.steps)
      BY <1>2
    <3>. QED  BY <1>2, <2>1, <3>1, <3>2 DEF PhaseInv, Fits
  <2>3. Len(Bundle) \in Nat
    BY BundleAssumption, SequenceFacts
  <2>4. RecordInv(b)
    BY <1>2, <2>1, <2>3 DEF RecordInv, Holds, Backed, Proves
  <2>. QED  BY <2>2, <2>4
<1>. QED  BY <1>4, <1>5, <1>6 DEF IInv

LEMMA InvNext == IInv /\ [Next]_vars => IInv'
<1> SUFFICES ASSUME IInv, [Next]_vars PROVE IInv'
  OBVIOUS
<1>1. ASSUME NEW b \in Batches, Prepare(b) \/ Step(b) \/ Die(b)
      PROVE  IInv'
  BY <1>1, PrepareKeeps, ReserveKeeps, OutputExistsKeeps, ProjectKeeps, StopKeeps,
     ApplyKeeps, AppliedKeeps, RefusedKeeps, RecordKeeps, NoRecordKeeps, PersistKeeps,
     FinalizeKeeps, InterruptedKeeps, DieKeeps DEF Step
<1>2. CASE (\E op \in Operations : OthersAppend(op)) \/ OthersReplace \/ OthersDie
  BY <1>2, OthersKeep
<1>3. CASE UNCHANGED vars
  <2>1. UNCHANGED run /\ UNCHANGED <<receipts, batch, history, authors>>
    BY <1>3 DEF vars, run
  <2>2. RunStep(Someone)
    BY <2>1 DEF RunStep
  <2>3. StepsInOrder'
    BY <2>1, OrderKept DEF IInv
  <2>4. /\ batch' \in [Batches -> BatchStates]
        /\ \A c \in Batches : /\ Len(batch'[c].steps) <= Len(Bundle)
                              /\ batch'[c].applied <= MaxTransitions[c]
    BY <2>1 DEF IInv, TypeOK, BatchStates
  <2>5. TypeOK'
    BY <2>1, <2>2, <2>4, RunTypes
  <2>6. Someone \notin Batches
    BY NamesAssumption
  <2>. QED  BY <2>1, <2>2, <2>3, <2>5, <2>6, StepKeeps
<1>. QED  BY <1>1, <1>2, <1>3 DEF Next

THEOREM Invariance == Spec => []IInv
BY InvInit, InvNext, PTL DEF Spec

\* Types, and that no batch passes its cap or the end of the bundle.
THEOREM Typed == Spec => []TypeOK
<1>1. IInv => TypeOK
  BY DEF IInv
<1>. QED  BY Invariance, <1>1, PTL

\* However batches race, die and resume each other, each step is committed behind
\* all steps before it and as the action projected for the state it changed.
THEOREM InOrder == Spec => []StepsInOrder
<1>1. IInv => StepsInOrder
  BY DEF IInv
<1>. QED  BY Invariance, <1>1, PTL

\* A receipt lacks at most the last transition of its batch.
THEOREM ReceiptsTrail == Spec => []ReceiptTrails
<1>1. IInv => ReceiptTrails
  BY DEF IInv, RecordInv, Holds, Trails, Listed, ReceiptTrails
<1>. QED  BY Invariance, <1>1, PTL

LEMMA Behind ==
    ASSUME NEW n \in Nat, NEW m \in Nat, NEW k \in (n + 1)..m
    PROVE  k \in 1..m /\ k > n
OBVIOUS

LEMMA PairFacts ==
    ASSUME NEW x, NEW y, NEW z, ~(x = z /\ y = z)
    PROVE  {x, y} # {z}
OBVIOUS

LEMMA RivalsInv ==
    ASSUME IInv
    PROVE  RivalsYield
<1> SUFFICES ASSUME NEW b \in Batches,
                    NEW k \in (Len(batch[b].resumed.steps) + 1)..Len(batch[b].steps),
                    NEW i \in DOMAIN history \ Own(b), history[i] = Bundle[k].op,
                    batch[b].pc \notin {"recorded last", "finalizing", "ended"}
             PROVE  FALSE
  BY DEF RivalsYield
<1>1. /\ batch[b].pc \in Places /\ batch[b].resumed \in Receipts
      /\ DOMAIN batch[b].steps = 1..Len(batch[b].steps)
      /\ Len(batch[b].steps) \in Nat
  BY Before, BatchTypes DEF BatchStates, IInv
<1>2. Mine(batch[b].steps, Len(batch[b].resumed.steps), Own(b), history)
  BY <1>1, Before DEF Fits
<1>3. Len(batch[b].resumed.steps) \in Nat
  BY <1>1, ReceiptSteps, SequenceFacts DEF StepRecords
<1>4. k \in DOMAIN batch[b].steps /\ k > Len(batch[b].resumed.steps)
  BY <1>1, <1>3, Behind
<1>5. PICK j \in Own(b) : history[j] = Bundle[k].op
  BY <1>2, <1>4 DEF Mine
<1>6. j \in DOMAIN history
  BY <1>5, OwnIsIn
<1>. QED  BY <1>5, <1>6 DEF IInv, RunInv

\* A batch that recorded a rival's transition commits no more.
THEOREM OneWorker == Spec => []RivalsYield
<1>1. IInv => RivalsYield
  BY RivalsInv
<1>. QED  BY Invariance, <1>1, PTL

LEMMA ProvesInv ==
    ASSUME IInv
    PROVE  RecordsProve
<1> SUFFICES ASSUME NEW b \in Batches, NEW k \in DOMAIN receipts[b].steps,
                    receipts[b].steps[k] # RevisionOf(Bundle[k].op)
             PROVE  LET r == RevisionOf(Bundle[k].op) IN
                    /\ receipts[b].steps[k] > r
                    /\ r \in DOMAIN history
                    /\ {authors[r - 1].by, authors[r].by} # {b}
  BY DEF RecordsProve
<1>1. /\ Backed(receipts[b].steps, Ledger)
      /\ Proves(b, receipts[b].steps, history, authors)
  BY Before DEF Holds
<1>2. 1..(revision - 1) \subseteq DOMAIN history
  BY DEF IInv, RunInv, TypeOK
<1>3. PICK i \in DOMAIN history : history[i] = Bundle[k].op
  BY <1>1, <1>2 DEF Backed, Ledger
<1>4. \A j \in DOMAIN history : history[j] = Bundle[k].op => j = i
  BY <1>3 DEF IInv, RunInv
<1>5. i \in Nat
  BY SequenceFacts DEF IInv, TypeOK
<1>6. RevisionOf(Bundle[k].op) = i + 1
  BY <1>3, <1>4, <1>5 DEF RevisionOf
<1>7. /\ receipts[b].steps[k] > i + 1 /\ i + 1 \in DOMAIN history
      /\ ~(authors[i].by = b /\ authors[i + 1].by = b)
  BY <1>1, <1>3, <1>6 DEF Proves
<1>8. {authors[i].by, authors[i + 1].by} # {b}
  BY <1>7, PairFacts
<1>9. RevisionOf(Bundle[k].op) - 1 = i
  BY <1>5, <1>6
<1>. QED  BY Zenon, <1>6, <1>7, <1>8, <1>9

\* The records of an undisturbed batch are proofs.
THEOREM ReceiptsProve == Spec => []RecordsProve
<1>1. IInv => RecordsProve
  BY ProvesInv
<1>. QED  BY Invariance, <1>1, PTL

-----------------------------------------------------------------------------
(***************************************************************************)
(* The refinement.                                                         *)
(***************************************************************************)
Claims == [b \in Batches |-> Len(receipts[b].steps)]

LEMMA ProgressInit == Init => Progress!Init
<1> SUFFICES ASSUME Init PROVE Progress!Init
  OBVIOUS
<1>1. history = <<>> /\ receipts = [b \in Batches |-> NoReceipt]
  BY DEF Init, Kernel!Init
<1>2. Done = {}
  BY <1>1 DEF Done
<1>3. [b \in Batches |-> Len(receipts[b].steps)] = [b \in Batches |-> 0]
  BY <1>1 DEF NoReceipt
<1>. QED  BY <1>2, <1>3 DEF Progress!Init

\* Commits do steps of the bundle, or nothing.
LEMMA CommitIsProgress ==
    ASSUME IInv, NEW x \in Batches \union {Someone}, RunStep(x), UNCHANGED receipts
    PROVE  [Progress!Next]_<<Done, Claims>>
<1>1. Claims' = Claims
  BY DEF Claims
<1>2. CASE history' = history
  BY <1>1, <1>2 DEF Done
<1>3. ASSUME NEW op \in Operations, AppendEvent(op, x)
      PROVE  [Progress!Next]_<<Done, Claims>>
  <2>1. /\ DOMAIN history' = DOMAIN history \union {Len(history) + 1}
        /\ history'[Len(history) + 1] = op
        /\ \A i \in DOMAIN history : history'[i] = history[i] /\ history[i] # op
    BY <1>3, AppendFacts DEF IInv
  <2>2. Done' = Done \union {k \in DOMAIN Bundle : Bundle[k].op = op}
    BY <2>1 DEF Done
  <2>3. CASE \E k \in DOMAIN Bundle : Bundle[k].op = op
    <3>1. PICK k \in DOMAIN Bundle : Bundle[k].op = op
      BY <2>3
    <3>2. {j \in DOMAIN Bundle : Bundle[j].op = op} = {k}
      BY <3>1, BundleAssumption
    <3>3. k \notin Done
      BY <2>1, <3>1 DEF Done
    <3>4. k \in 1..Len(Bundle)
      BY <3>1, BundleAssumption, SequenceFacts
    <3>. QED  BY <1>1, <2>2, <3>2, <3>3, <3>4 DEF Progress!Next, Progress!Do, Claims
  <2>4. CASE ~ \E k \in DOMAIN Bundle : Bundle[k].op = op
    BY <1>1, <2>2, <2>4
  <2>. QED  BY <2>3, <2>4
<1>4. history' = history \/ \E op \in Operations : AppendEvent(op, x)
  BY DEF RunStep, run, ReplaceState, Kernel!Seal
<1>. QED  BY <1>2, <1>3, <1>4

\* A receipt claims what its batch has on its record, which has been done.
LEMMA PublishIsProgress ==
    ASSUME IInv, NEW b \in Batches, NEW status, Publish(b, status), UNCHANGED run,
           batch[b].pc \notin {"idle", "ended"}
    PROVE  [Progress!Next]_<<Done, Claims>>
<1> DEFINE n == Len(batch[b].steps)
<1>1. /\ n \in Nat /\ n <= Len(Bundle) /\ Len(receipts[b].steps) <= n
      /\ Len(receipts[b].steps) \in Nat /\ DOMAIN batch[b].steps = 1..n
      /\ Len(Bundle) \in Nat /\ DOMAIN Bundle = 1..Len(Bundle)
  BY Before, BatchTypes DEF Fits, IInv
<1>2. receipts \in [Batches -> Receipts]
  BY Before
<1>3. /\ receipts'[b].steps = batch[b].steps
      /\ \A c \in Batches \ {b} : receipts'[c] = receipts[c]
  BY <1>2 DEF Publish, Receipt
<1>4. Claims' = [Claims EXCEPT ![b] = n]
  BY <1>3 DEF Claims
<1>5. Done' = Done
  BY DEF run, Done
<1>6. 1..(revision - 1) \subseteq DOMAIN history
  BY DEF IInv, RunInv, TypeOK
<1>7. \A k \in DOMAIN batch[b].steps : Bundle[k].op \in Ledger
  BY Before DEF Holds, Backed
<1>8. 1..n \subseteq Done
  BY <1>1, <1>6, <1>7 DEF Ledger, Done
<1>9. n \in Claims[b]..Len(Bundle)
  BY <1>1 DEF Claims
<1> HIDE DEF n
<1>. QED  BY <1>4, <1>5, <1>8, <1>9 DEF Progress!Next, Progress!Publish, Claims

LEMMA ProgressNext == IInv /\ [Next]_vars => [Progress!Next]_<<Done, Claims>>
<1> SUFFICES ASSUME IInv, [Next]_vars PROVE [Progress!Next]_<<Done, Claims>>
  OBVIOUS
<1>1. ASSUME NEW b \in Batches, Reserve(b) \/ Persist(b) \/ Finalize(b)
      PROVE  [Progress!Next]_<<Done, Claims>>
  BY <1>1, PublishIsProgress DEF Reserve, Persist, Finalize, At
<1>2. ASSUME NEW b \in Batches, Apply(b)
      PROVE  [Progress!Next]_<<Done, Claims>>
  <2>1. Operation(b) \in Operations
    <3>1. Len(batch[b].steps) < Len(Bundle)
      BY <1>2, Before DEF Apply, At, Fits
    <3>2. /\ Len(batch[b].steps) \in Nat /\ Len(Bundle) \in Nat
          /\ DOMAIN Bundle = 1..Len(Bundle)
          /\ \A j \in DOMAIN Bundle : Bundle[j].op \in Operations
      BY BatchTypes DEF IInv
    <3>3. Len(batch[b].steps) + 1 \in DOMAIN Bundle
      BY <3>1, <3>2
    <3>. QED  BY <3>2, <3>3 DEF Operation, Position
  <2>. QED  BY <1>2, <2>1, CommitIsProgress DEF Apply, RunStep
<1>3. CASE UNCHANGED <<history, receipts>>
  BY <1>3 DEF Done, Claims
<1>4. ASSUME NEW op \in Operations, OthersAppend(op)
      PROVE  [Progress!Next]_<<Done, Claims>>
  BY <1>4, CommitIsProgress DEF OthersAppend, RunStep
<1>5. ASSUME NEW b \in Batches,
             \/ Prepare(b) \/ OutputExists(b) \/ Project(b) \/ Stop(b) \/ Applied(b)
             \/ Refused(b) \/ Record(b) \/ NoRecord(b) \/ Interrupted(b) \/ Die(b)
      PROVE  UNCHANGED <<history, receipts>>
  BY <1>5 DEF Prepare, OutputExists, Project, Stop, Applied, Refused, Record, NoRecord,
     Interrupted, Die, BreakOff, ReplaceState, Kernel!Seal, run
<1>6. OthersReplace \/ OthersDie \/ UNCHANGED vars => UNCHANGED <<history, receipts>>
  BY DEF OthersReplace, OthersDie, ReplaceState, Kernel!Seal, vars
<1>. QED  BY <1>1, <1>2, <1>3, <1>4, <1>5, <1>6 DEF Next, Step

\* Batches implement the progress of the bundle: no receipt claims a step before it
\* and all steps before it were committed, and no claim is taken back.
THEOREM BatchesMakeProgress == Spec => ImplementsProgress
<1>1. IInv /\ [Next]_vars => [Progress!Next]_<<Done, [b \in Batches |-> Len(receipts[b].steps)]>>
  BY ProgressNext DEF Claims
<1>. QED  BY Invariance, ProgressInit, <1>1, PTL DEF Spec, ImplementsProgress, Progress!Spec

=============================================================================
