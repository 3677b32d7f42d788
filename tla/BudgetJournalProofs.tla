------------------------ MODULE BudgetJournalProofs ------------------------
(***************************************************************************)
(* Proofs about BudgetJournal for all scopes, policies, operations and     *)
(* controllers.                                                            *)
(*                                                                         *)
(* The reservation is what makes dispatch unique: Reserve needs an         *)
(* operation id that was never used, so of the controllers called for one  *)
(* operation at most one gets past it (Admission), and the identity rows   *)
(* written with the reservation keep every other operation with one of its *)
(* keys from being reserved (Keys).  Uses relates what was performed to    *)
(* the state of its operation; it needs that a controller about to perform *)
(* has an operation that is neither performed, finished nor cancelled,     *)
(* which is part of Admission.                                             *)
(*                                                                         *)
(* The caps and the ledger are about sums over owners and operations.  A   *)
(* sum is the number of its units (TotalCounts), so what FiniteSetTheorems *)
(* says of cardinalities gives the laws of sums; LedgerInv then says what  *)
(* the sums of a scope are, and EffectsWithin is needed only where the     *)
(* code itself lets a receipt exceed its bound.                            *)
(***************************************************************************)
EXTENDS BudgetJournal, FiniteSetTheorems, TLAPS

(***************************************************************************)
(* Types.  They rest on two facts: a controller has a plan while it is     *)
(* called, and a settled operation has a settlement row, so no overflow    *)
(* can undo it.                                                            *)
(***************************************************************************)
Places ==
    {"idle", "qualified", "stale", "reserved", "claimed", "checked",
     "dispatching", "performed"}

Calls == \A c \in Controllers : pc[c] = "idle" <=> plan[c] = NoBinding

ControlTyped ==
    /\ pc \in [Controllers -> Places]
    /\ plan \in [Controllers -> Bindings \union {NoBinding}]
    /\ Calls

OperationsTyped ==
    /\ operations \in [Scopes -> [OperationIds -> OperationRecords]]
    /\ \A s \in Scopes, id \in OperationIds : Reservation(s, id)

SettledRows ==
    \A b \in Bindings : Operation(b).state = "SETTLED" =>
        \E row \in identities : row.key = SettlementKey(b)

GateTyped ==
    /\ gate \in [Scopes -> {"UNOPENED", "READY", "INCOMPLETE", "BOUND_BROKEN", "CONFLICT"}]
    /\ qualified \in [Scopes -> BOOLEAN]

AmountsTyped ==
    /\ opening \in [Scopes -> Openings \union {NoOpening}]
    /\ spent \in [Scopes -> [Owners -> Nat]]
    /\ protected \in [Scopes -> [Owners -> Nat]]
    /\ effects \in [Bindings -> [times : Nat, tokens : Nat]]

RowsTyped == \A row \in identities : row.scope \in Scopes

TypeInv ==
    /\ ControlTyped
    /\ OperationsTyped
    /\ GateTyped
    /\ AmountsTyped
    /\ RowsTyped
    /\ SettledRows

\* The control state keeps its type however a step records and returns.
LEMMA ControlKept ==
    ASSUME ControlTyped, NEW c \in Controllers, NEW scopes, NEW next \in Places \ {"idle"},
           \/ Recorded(scopes)
           \/ pc[c] # "idle" /\ RecordedBy(c, scopes, next)
           \/ Raise(c)
           \/ RaiseAfter(c, scopes)
    PROVE  ControlTyped'
<1>1. CASE Recorded(scopes)
  BY <1>1 DEF Recorded, Snapshots, ControlTyped, Calls, Places
<1>2. CASE pc[c] # "idle" /\ RecordedBy(c, scopes, next)
  BY <1>2 DEF RecordedBy, Snapshots, ControlTyped, Calls, Places
<1>3. CASE Raise(c)
  BY <1>3, BindingsAssumption DEF Raise, ControlTyped, Calls, Places
<1>4. CASE RaiseAfter(c, scopes)
  BY <1>4, BindingsAssumption DEF RaiseAfter, Snapshots, ControlTyped, Calls, Places
<1> QED
  BY <1>1, <1>2, <1>3, <1>4

\* A step that records without a controller keeps the control state typed.
LEMMA RecordedKept ==
    ASSUME ControlTyped, NEW scopes, Recorded(scopes)
    PROVE  ControlTyped'
BY DEF Recorded, Snapshots, ControlTyped, Calls, Places

LEMMA BindingFacts ==
    ASSUME NEW b \in Bindings
    PROVE  /\ b.scope \in Scopes /\ b.id \in OperationIds /\ b.owner \in Owners
           /\ b.upper \in 0..MaxInteger /\ b.upper \in Nat
           /\ b.closeout \in BOOLEAN /\ b # NoBinding
BY BindingsAssumption, PolicyAssumption DEF OperationIds

\* Store changes the operation of one scope and id, and only that.
LEMMA StoreEffect ==
    ASSUME OperationsTyped, NEW b \in Bindings, NEW op, Store(b, op)
    PROVE  \A s \in Scopes, id \in OperationIds :
             operations'[s][id] =
               IF s = b.scope /\ id = b.id THEN op ELSE operations[s][id]
BY BindingFacts DEF Store, OperationsTyped

LEMMA StoreKept ==
    ASSUME OperationsTyped, NEW b \in Bindings, NEW op \in OperationRecords, Store(b, op),
           op.binding = b, op.state # "NONE",
           op.reservation = IF op.state \in {"SETTLED", "CANCELLED_WITH_NO_DISPATCH_PROOF"}
                            THEN 0 ELSE b.upper
    PROVE  OperationsTyped'
<1>1. operations' \in [Scopes -> [OperationIds -> OperationRecords]]
  BY BindingFacts DEF Store, OperationsTyped
<1>2. ASSUME NEW s \in Scopes, NEW id \in OperationIds
      PROVE  Reservation(s, id)'
  <2>1. CASE s = b.scope /\ id = b.id
    BY <2>1, StoreEffect DEF Reservation
  <2>2. CASE ~(s = b.scope /\ id = b.id)
    BY <2>2, StoreEffect DEF Reservation, OperationsTyped
  <2> QED
    BY <2>1, <2>2
<1> QED
  BY <1>1, <1>2 DEF OperationsTyped
\* Marking scopes keeps the types, and nothing but the gates changes.
LEMMA ConflictKept ==
    ASSUME TypeInv, NEW scopes, Conflict(scopes), ControlTyped'
    PROVE  TypeInv'
<1>1. GateTyped'
  BY DEF Conflict, GateTyped, TypeInv, Opened
<1>2. OperationsTyped'
  BY DEF Conflict, OperationsTyped, TypeInv, Reservation
<1>3. AmountsTyped' /\ RowsTyped'
  BY DEF Conflict, AmountsTyped, RowsTyped, TypeInv
<1>4. SettledRows'
  BY DEF Conflict, SettledRows, TypeInv, Operation
<1> QED
  BY <1>1, <1>2, <1>3, <1>4 DEF TypeInv

\* New rows of a scope keep the rows typed and every old row.
LEMMA TakeKept ==
    ASSUME RowsTyped, NEW keys, NEW s \in Scopes, NEW value, Take(keys, s, value)
    PROVE  RowsTyped' /\ identities \subseteq identities'
BY DEF Take, RowsTyped

\* SettledRows survives a step that settles at most b, and b with its row.
LEMMA SettledKept ==
    ASSUME OperationsTyped, SettledRows, NEW b \in Bindings, NEW op, Store(b, op),
           identities \subseteq identities',
           op.state = "SETTLED" =>
             \/ Operation(b).state = "SETTLED"
             \/ \E row \in identities' : row.key = SettlementKey(b)
    PROVE  SettledRows'
<1> SUFFICES ASSUME NEW a \in Bindings, Operation(a)'.state = "SETTLED"
             PROVE  \E row \in identities' : row.key = SettlementKey(a)
  BY DEF SettledRows, SettlementKey
<1>1. CASE a.scope = b.scope /\ a.id = b.id
  <2>1. Operation(a)' = op /\ Operation(a) = Operation(b)
    BY <1>1, StoreEffect, BindingFacts DEF Operation
  <2>2. SettlementKey(a) = SettlementKey(b)
    BY <1>1 DEF SettlementKey
  <2> QED
    BY <2>1, <2>2 DEF SettledRows
<1>2. CASE ~(a.scope = b.scope /\ a.id = b.id)
  BY <1>2, StoreEffect, BindingFacts DEF Operation, SettledRows
<1> QED
  BY <1>1, <1>2

\* The gate keeps its type under each of the ways it is computed.
LEMMA GateValues ==
    ASSUME GateTyped, NEW b \in Bindings, NEW tokens
    PROVE  /\ \A s \in Scopes :
                /\ Blocked(gate[s]) \in {"INCOMPLETE", "BOUND_BROKEN", "CONFLICT"}
                /\ Broken(gate[s]) \in {"BOUND_BROKEN", "CONFLICT"}
           /\ Resolved(b, tokens) \in
                {"UNOPENED", "READY", "INCOMPLETE", "BOUND_BROKEN", "CONFLICT"}
BY BindingFacts DEF GateTyped, Blocked, Broken, Resolved

LEMMA ReleasedTyped ==
    ASSUME AmountsTyped, NEW b \in Bindings, NEW tokens \in Nat
    PROVE  Released(b, tokens) \in [Scopes -> [Owners -> Nat]]
<1>1. CASE b.closeout /\ tokens < b.upper
  <2>1. protected[b.scope][b.owner] + (b.upper - tokens) \in Nat
    BY <1>1, BindingFacts DEF AmountsTyped
  <2> QED
    BY <1>1, <2>1, BindingFacts DEF AmountsTyped, Released, Amount
<1> QED
  BY <1>1 DEF AmountsTyped, Released

LEMMA TypeInit == Init => TypeInv
<1> SUFFICES ASSUME Init PROVE TypeInv
  OBVIOUS
<1>1. ControlTyped
  BY DEF Init, ControlTyped, Calls, Places
<1>2. OperationsTyped
  <2>1. NotReserved \in OperationRecords
    BY PolicyAssumption DEF NotReserved, OperationRecords, OperationStates
  <2> QED
    BY <2>1 DEF Init, OperationsTyped, Reservation
<1>3. GateTyped /\ AmountsTyped /\ RowsTyped
  BY DEF Init, GateTyped, AmountsTyped, RowsTyped
<1>4. SettledRows
  BY BindingFacts DEF Init, SettledRows, Operation, NotReserved
<1> QED
  BY <1>1, <1>2, <1>3, <1>4 DEF TypeInv
\* The controllers' own steps.
LEMMA TypeOfStep ==
    ASSUME TypeInv, NEW c \in Controllers, Step(c)
    PROVE  TypeInv'
<1> USE DEF TypeInv
<1>1. ASSUME NEW b \in Bindings, Qualify(c, b) PROVE TypeInv'
  <2>1. ControlTyped'
    BY <1>1, BindingFacts DEF Qualify, ControlTyped, Calls, Places
  <2> QED
    BY <1>1, <2>1 DEF Qualify, journal, scopeVars, OperationsTyped, Reservation,
                      GateTyped, AmountsTyped, RowsTyped, SettledRows, Operation
<1>2. pc[c] # "idle" => plan[c] \in Bindings
  BY DEF ControlTyped, Calls
<1> DEFINE b == plan[c]
<1>3. CASE Reserve(c)
  <2> DEFINE new == [state |-> "RESERVED", binding |-> b, claimed |-> FALSE,
                     reservation |-> b.upper, actual |-> 0]
  <2>1. b \in Bindings /\ Store(b, new)
    BY <1>2, <1>3 DEF Reserve
  <2>2. new \in OperationRecords
    BY <2>1, BindingFacts DEF OperationRecords, OperationStates
  <2>3. OperationsTyped'
    BY <2>1, <2>2, StoreKept
  <2>4. ControlTyped'
    BY <1>3, ControlKept DEF Reserve, Places
  <2>5. RowsTyped' /\ identities \subseteq identities'
    BY <1>3, <2>1, TakeKept, BindingFacts DEF Reserve
  <2>6. SettledRows'
    BY <2>1, <2>5, SettledKept
  <2>7. protected' \in [Scopes -> [Owners -> Nat]]
    <3>1. CASE b.closeout
      <4>1. protected[b.scope][b.owner] - b.upper \in Nat
        BY <1>3, <2>1, <3>1, BindingFacts DEF Reserve, ReservationFits, AmountsTyped
      <4> QED
        BY <1>3, <2>1, <3>1, <4>1, BindingFacts DEF Reserve, AmountsTyped, Amount
    <3> QED
      BY <1>3, <3>1 DEF Reserve, AmountsTyped
  <2>8. AmountsTyped' /\ GateTyped'
    BY <1>3, <2>7 DEF Reserve, AmountsTyped, GateTyped
  <2> QED
    BY <2>3, <2>4, <2>5, <2>6, <2>8
<1>4. CASE ReserveChanged(c) \/ ReserveMismatch(c) \/ ReserveRival(c)
  <2>1. PICK scopes : Conflict(scopes) /\ RaiseAfter(c, scopes)
    BY <1>4 DEF ReserveChanged, ReserveMismatch, ReserveRival, ReserveConflict
  <2>2. ControlTyped'
    BY <2>1, ControlKept DEF Places
  <2> QED
    BY <2>1, <2>2, ConflictKept
<1>5. CASE Claim(c) \/ NoteDispatch(c) \/ NoteUnavailable(c)
  <2>1. PICK new :
          /\ Store(b, new)
          /\ \/ new = [Operation(b) EXCEPT !.claimed = TRUE] /\ Operation(b).state = "RESERVED"
             \/ /\ new = [Operation(b) EXCEPT !.state = "DISPATCHED"]
                /\ Operation(b).state \in {"RESERVED", "DISPATCHED", "UNAVAILABLE"}
             \/ /\ new = [Operation(b) EXCEPT !.state = "UNAVAILABLE"]
                /\ Operation(b).state \in {"RESERVED", "DISPATCHED", "UNAVAILABLE"}
    BY <1>5 DEF Claim, NoteDispatch, NoteUnavailable, Notable
  <2>2. b \in Bindings
    BY <1>2, <1>5 DEF Claim, NoteDispatch, NoteUnavailable
  <2>3. Operation(b) \in OperationRecords
    BY <2>2, BindingFacts DEF OperationsTyped, Operation
  <2>4. new \in OperationRecords
    BY <2>1, <2>3 DEF OperationRecords, OperationStates
  <2>5. OperationsTyped'
    <3>1. operations' \in [Scopes -> [OperationIds -> OperationRecords]]
      BY <2>1, <2>2, <2>4, BindingFacts DEF Store, OperationsTyped
    <3>2. ASSUME NEW s \in Scopes, NEW id \in OperationIds PROVE Reservation(s, id)'
      <4>1. CASE s = b.scope /\ id = b.id
        <5>1. operations'[s][id] = new /\ operations[s][id] = Operation(b)
          BY <4>1, <2>1, <2>2, StoreEffect DEF Operation
        <5>2. Reservation(s, id)
          BY DEF OperationsTyped
        <5> QED
          BY <5>1, <5>2, <2>1, <2>3 DEF Reservation, NotReserved, OperationRecords
      <4>2. CASE ~(s = b.scope /\ id = b.id)
        BY <4>2, <2>1, <2>2, StoreEffect DEF Reservation, OperationsTyped
      <4> QED
        BY <4>1, <4>2
    <3> QED
      BY <3>1, <3>2 DEF OperationsTyped
  <2>6. ControlTyped'
    BY <1>5, ControlKept DEF Claim, NoteDispatch, NoteUnavailable, Places
  <2>7. identities' = identities
    BY <1>5 DEF Claim, NoteDispatch, NoteUnavailable
  <2>8. SettledRows'
    <3>1. new.state # "SETTLED"
      BY <2>1, <2>3 DEF OperationRecords
    <3> QED
      BY <2>1, <2>2, <2>7, <3>1, SettledKept
  <2>9. GateTyped'
    BY <1>5, <2>2, GateValues, BindingFacts DEF Claim, NoteDispatch, NoteUnavailable, GateTyped
  <2>10. AmountsTyped' /\ RowsTyped'
    BY <1>5 DEF Claim, NoteDispatch, NoteUnavailable, AmountsTyped, RowsTyped
  <2> QED
    BY <2>5, <2>6, <2>8, <2>9, <2>10
<1>6. CASE Recheck(c) \/ Abandon(c)
  <2>1. ControlTyped'
    BY <1>6, ControlKept DEF Recheck, Abandon, ControlTyped, Calls, Places
  <2> QED
    BY <1>6, <2>1 DEF Recheck, Abandon, journal, scopeVars, OperationsTyped, Reservation,
                      GateTyped, AmountsTyped, RowsTyped, SettledRows, Operation
<1>7. ASSUME NEW tokens \in Amounts, Perform(c, tokens) PROVE TypeInv'
  <2>1. b \in Bindings /\ tokens \in Nat
    BY <1>2, <1>7, PolicyAssumption DEF Perform
  <2>2. ControlTyped'
    BY <1>7 DEF Perform, ControlTyped, Calls, Places
  <2>3. AmountsTyped'
    BY <1>7, <2>1 DEF Perform, journal, scopeVars, AmountsTyped
  <2> QED
    BY <1>7, <2>2, <2>3 DEF Perform, journal, scopeVars, OperationsTyped, Reservation,
                            GateTyped, RowsTyped, SettledRows, Operation
<1> QED
  BY <1>1, <1>3, <1>4, <1>5, <1>6, <1>7 DEF Step
\* Opening, opening again and rebuilding.
LEMMA TypeOfScopeStep ==
    ASSUME TypeInv, NEW s \in Scopes, ScopeStep(s)
    PROVE  TypeInv'
<1> USE DEF TypeInv
<1>1. ASSUME NEW o \in Openings, OpenScope(s, o) PROVE TypeInv'
  <2> DEFINE keys == {SourceKey(e) : e \in o.covered}
  <2>1. /\ o.spent \in [Owners -> Nat] /\ o.known \in BOOLEAN
        /\ Closeout \in [Owners -> Nat]
    BY OpeningsAssumption, PolicyAssumption
  <2>2. AmountsTyped'
    BY <1>1, <2>1 DEF OpenScope, OpenWith, AmountsTyped
  <2>3. operations' = operations
    BY <1>1 DEF OpenScope, OpenWith
  <2>4. CASE Rivals(keys, s, o) = {}
    <3>1. Take(keys, s, o) /\ Recorded({s}) /\ GateTyped'
      BY <1>1, <2>1, <2>4 DEF OpenScope, OpenWith, GateTyped
    <3>2. RowsTyped' /\ identities \subseteq identities'
      BY <3>1, TakeKept
    <3> QED
      BY <2>2, <2>3, <3>1, <3>2, RecordedKept
         DEF OperationsTyped, Reservation, SettledRows, Operation
  <2>5. CASE Rivals(keys, s, o) # {}
    <3>1. PICK rival \in Rivals(keys, s, o) :
            /\ gate' = [gate EXCEPT ![s] = "CONFLICT", ![rival.scope] = "CONFLICT"]
            /\ qualified' = [qualified EXCEPT ![s] = FALSE, ![rival.scope] = FALSE]
            /\ Recorded({s, rival.scope})
            /\ UNCHANGED identities
      BY <1>1, <2>5 DEF OpenScope, OpenWith
    <3>2. GateTyped'
      BY <3>1 DEF GateTyped
    <3> QED
      BY <2>2, <2>3, <3>1, <3>2, RecordedKept
         DEF OperationsTyped, Reservation, SettledRows, Operation, RowsTyped
  <2> QED
    BY <2>4, <2>5
<1>2. ASSUME NEW o \in Openings, OpenAgain(s, o) PROVE TypeInv'
  <2>1. Conflict({s}) /\ ControlTyped'
    BY <1>2, RecordedKept DEF OpenAgain
  <2> QED
    BY <2>1, ConflictKept
<1>3. CASE Rebuild(s)
  <2>1. ControlTyped' /\ RowsTyped' /\ AmountsTyped'
    BY <1>3, RecordedKept DEF Rebuild, RowsTyped, AmountsTyped
  <2>2. GateTyped'
    BY <1>3 DEF Rebuild, GateTyped, Blocked
  <2>3. ASSUME NEW id \in Uncertain(s)
        PROVE  [operations[s][id] EXCEPT !.state = "UNAVAILABLE"] \in OperationRecords
    <3>1. operations[s][id] \in OperationRecords
      BY DEF Uncertain, OperationsTyped
    <3> QED
      BY <3>1 DEF OperationRecords, OperationStates
  <2>4. operations' \in [Scopes -> [OperationIds -> OperationRecords]]
    BY <1>3, <2>3 DEF Rebuild, OperationsTyped
  <2>5. ASSUME NEW t \in Scopes, NEW id \in OperationIds
        PROVE  /\ Reservation(t, id)'
               /\ operations'[t][id].state = "SETTLED" => operations[t][id].state = "SETTLED"
    <3>1. CASE t = s /\ id \in Uncertain(s)
      <4>1. operations'[t][id] = [operations[t][id] EXCEPT !.state = "UNAVAILABLE"]
        BY <1>3, <3>1 DEF Rebuild, OperationsTyped
      <4>2. /\ operations[t][id] \in OperationRecords
            /\ operations[t][id].claimed
            /\ operations[t][id].state \in {"RESERVED", "DISPATCHED"}
            /\ Reservation(t, id)
        BY <3>1 DEF Uncertain, OperationsTyped
      <4> QED
        BY <4>1, <4>2 DEF Reservation, NotReserved, OperationRecords
    <3>2. CASE ~(t = s /\ id \in Uncertain(s))
      <4>1. operations'[t][id] = operations[t][id]
        BY <1>3, <3>2 DEF Rebuild, OperationsTyped
      <4> QED
        BY <4>1 DEF Reservation, OperationsTyped
    <3> QED
      BY <3>1, <3>2
  <2>6. OperationsTyped'
    BY <2>4, <2>5 DEF OperationsTyped
  <2>7. SettledRows'
    BY <1>3, <2>5, BindingFacts DEF Rebuild, SettledRows, Operation
  <2> QED
    BY <2>1, <2>2, <2>6, <2>7
<1> QED
  BY <1>1, <1>2, <1>3 DEF ScopeStep

\* A receipt that may be charged names an operation that is held in full.
LEMMA ChargeableHeld ==
    ASSUME TypeInv, NEW r \in Receipts, Chargeable(r)
    PROVE  /\ r.binding \in Bindings /\ r.tokens \in Nat
           /\ Operation(r.binding) \in OperationRecords
           /\ Operation(r.binding).binding = r.binding
           /\ Operation(r.binding).claimed
           /\ Operation(r.binding).state \in {"RESERVED", "DISPATCHED", "UNAVAILABLE"}
           /\ Operation(r.binding).reservation = r.binding.upper
<1> DEFINE b == r.binding
<1>1. b \in Bindings /\ r.tokens \in Nat
  BY PolicyAssumption DEF Receipts
<1>2. Operation(b) \in OperationRecords /\ Reservation(b.scope, b.id)
  BY <1>1, BindingFacts DEF TypeInv, OperationsTyped, Operation
<1>3. Operation(b).binding = b /\ Operation(b) # NotReserved
  <2>1. Operation(b).binding = b /\ b # NoBinding
    BY <1>1, BindingFacts DEF Chargeable
  <2>2. NotReserved.binding = NoBinding
    BY DEF NotReserved
  <2> QED
    BY <2>1, <2>2
<1>4. Operation(b).state # "NONE"
  BY <1>2, <1>3 DEF Reservation, Operation
<1>5. Operation(b).claimed /\ Operation(b).state # "CANCELLED_WITH_NO_DISPATCH_PROOF"
  BY <1>2, <1>4 DEF Chargeable, Contradicts
<1>6. Operation(b).state # "SETTLED"
  BY <1>1 DEF Chargeable, TypeInv, SettledRows
<1>7. Operation(b).state \in {"RESERVED", "DISPATCHED", "UNAVAILABLE"}
  BY <1>2, <1>4, <1>5, <1>6 DEF OperationRecords, OperationStates
<1>8. Operation(b).reservation = b.upper
  BY <1>2, <1>3, <1>7 DEF Reservation, Operation
<1> QED
  BY <1>1, <1>2, <1>3, <1>5, <1>7, <1>8
\* Cancellation and receipts.
LEMMA TypeOfResolution ==
    ASSUME TypeInv, Resolution
    PROVE  TypeInv'
<1> USE DEF TypeInv
<1>1. ASSUME NEW b \in Bindings, CancelWithoutDispatch(b) PROVE TypeInv'
  <2> DEFINE new == [Operation(b) EXCEPT !.state = "CANCELLED_WITH_NO_DISPATCH_PROOF",
                                         !.reservation = 0, !.actual = 0]
  <2>1. Store(b, new) /\ Operation(b).binding = b
    BY <1>1 DEF CancelWithoutDispatch, Finished
  <2>2. Operation(b) \in OperationRecords
    BY BindingFacts DEF OperationsTyped, Operation
  <2>3. /\ new \in OperationRecords /\ new.binding = b /\ new.reservation = 0
        /\ new.state = "CANCELLED_WITH_NO_DISPATCH_PROOF"
    <3>1. 0 \in 0..MaxInteger
      BY PolicyAssumption
    <3> QED
      BY <2>1, <2>2, <3>1 DEF OperationRecords, OperationStates
  <2> HIDE DEF new
  <2>4. OperationsTyped'
    BY <2>1, <2>3, StoreKept
  <2>5. identities' = identities /\ UNCHANGED <<qualified, opening, spent, effects>>
    BY <1>1 DEF CancelWithoutDispatch
  <2>6. SettledRows'
    BY <2>1, <2>3, <2>5, SettledKept
  <2>7. protected' \in [Scopes -> [Owners -> Nat]]
    BY <1>1, ReleasedTyped DEF CancelWithoutDispatch
  <2>8. GateTyped'
    BY <1>1, <2>5, GateValues DEF CancelWithoutDispatch, GateTyped
  <2>9. ControlTyped'
    BY <1>1, RecordedKept DEF CancelWithoutDispatch
  <2> QED
    BY <2>4, <2>5, <2>6, <2>7, <2>8, <2>9 DEF AmountsTyped, RowsTyped
<1>2. ASSUME NEW r \in Receipts, SettleConflict(r) PROVE TypeInv'
  <2>1. PICK scopes : Conflict(scopes) /\ Recorded(scopes)
    BY <1>2 DEF SettleConflict
  <2> QED
    BY <2>1, RecordedKept, ConflictKept
<1>3. ASSUME NEW r \in Receipts, SettleOverflow(r) \/ Settle(r) PROVE TypeInv'
  <2> DEFINE b == r.binding
             keys == {SettlementKey(b), SourceKey(r.event)}
  <2>1. /\ b \in Bindings /\ r.tokens \in Nat
        /\ Operation(b) \in OperationRecords
        /\ Operation(b).binding = b
        /\ Operation(b).reservation = b.upper
    BY <1>3, ChargeableHeld DEF SettleOverflow, Settle
  <2>2. Take(keys, b.scope, r)
    BY <1>3 DEF SettleOverflow, Settle, TakeReceipt
  <2>3. RowsTyped' /\ identities \subseteq identities'
    BY <2>1, <2>2, TakeKept, BindingFacts
  <2>4. \E row \in identities' : row.key = SettlementKey(b)
    <3>1. [key |-> SettlementKey(b), scope |-> b.scope, value |-> r] \in identities'
      BY <2>2 DEF Take
    <3> QED
      BY <3>1
  <2>5. ControlTyped'
    BY <1>3, RecordedKept DEF SettleOverflow, Settle
  <2>6. CASE SettleOverflow(r)
    <3> DEFINE new == [Operation(b) EXCEPT !.state = "UNAVAILABLE"]
    <3>1. Store(b, new)
      BY <2>6 DEF SettleOverflow
    <3>2. /\ new \in OperationRecords /\ new.binding = b /\ new.state = "UNAVAILABLE"
          /\ new.reservation = b.upper
      BY <2>1 DEF OperationRecords, OperationStates
    <3> HIDE DEF new
    <3>3. OperationsTyped'
      BY <2>1, <3>1, <3>2, StoreKept
    <3>4. SettledRows'
      BY <2>1, <2>3, <3>1, <3>2, SettledKept
    <3>5. GateTyped'
      BY <2>1, <2>6, GateValues, BindingFacts DEF SettleOverflow, GateTyped
    <3>6. AmountsTyped'
      BY <2>6 DEF SettleOverflow, AmountsTyped
    <3> QED
      BY <2>3, <2>5, <3>3, <3>4, <3>5, <3>6
  <2>7. CASE Settle(r)
    <3> DEFINE new == [Operation(b) EXCEPT !.state = "SETTLED", !.reservation = 0,
                                           !.actual = r.tokens]
    <3>1. Store(b, new)
      BY <2>7 DEF Settle, Finished
    <3>2. /\ new \in OperationRecords /\ new.binding = b /\ new.state = "SETTLED"
          /\ new.reservation = 0
      <4>1. 0 \in 0..MaxInteger
        BY PolicyAssumption
      <4> QED
        BY <2>1, <4>1 DEF OperationRecords, OperationStates
    <3> HIDE DEF new
    <3>3. OperationsTyped'
      BY <2>1, <3>1, <3>2, StoreKept
    <3>4. SettledRows'
      BY <2>1, <2>3, <2>4, <3>1, SettledKept
    <3>5. GateTyped'
      BY <2>1, <2>7, GateValues DEF Settle, GateTyped
    <3>6. protected' \in [Scopes -> [Owners -> Nat]]
      BY <2>1, <2>7, ReleasedTyped DEF Settle
    <3>7. spent' \in [Scopes -> [Owners -> Nat]]
      <4>1. spent[b.scope][b.owner] + r.tokens \in Nat
        BY <2>1, BindingFacts DEF AmountsTyped
      <4> QED
        BY <2>1, <2>7, <4>1, BindingFacts DEF Settle, AmountsTyped, Amount
    <3> QED
      BY <2>3, <2>5, <2>7, <3>3, <3>4, <3>5, <3>6, <3>7 DEF Settle, AmountsTyped
  <2> QED
    BY <1>3, <2>6, <2>7
<1> QED
  BY <1>1, <1>2, <1>3 DEF Resolution

LEMMA TypeStep == TypeInv /\ [Next]_vars => TypeInv'
<1> SUFFICES ASSUME TypeInv, [Next]_vars PROVE TypeInv'
  OBVIOUS
<1>1. CASE UNCHANGED vars
  BY <1>1 DEF vars, journal, scopeVars, TypeInv, ControlTyped, Calls, OperationsTyped,
              Reservation, GateTyped, AmountsTyped, RowsTyped, SettledRows, Operation
<1> QED
  BY <1>1, TypeOfStep, TypeOfScopeStep, TypeOfResolution DEF Next

LEMMA TypeInvariant == Spec => []TypeInv
BY TypeInit, TypeStep, PTL DEF Spec

(***************************************************************************)
(* The journal, its identity rows and the controllers are well-formed, and *)
(* a reservation is held in full exactly until its operation is finished.  *)
(***************************************************************************)
THEOREM TypeCorrect == Spec => []TypeOK
<1>1. TypeInv => TypeOK
  BY DEF TypeInv, ControlTyped, OperationsTyped, GateTyped, AmountsTyped, RowsTyped,
         TypeOK, Places
<1> QED
  BY <1>1, TypeInvariant, PTL
(***************************************************************************)
(* Dispatch.  A reservation needs an operation id that was never used, so  *)
(* of the controllers called for an operation at most one is admitted; the *)
(* rows written with the reservation keep every other operation with one   *)
(* of its keys out.  What was performed can be related to the state of its *)
(* operation because a controller about to perform has an operation that   *)
(* was neither performed, settled nor cancelled.                           *)
(***************************************************************************)
Admitted == {"reserved", "claimed", "checked", "dispatching", "performed"}
Outstanding == {"DISPATCHED", "UNAVAILABLE"}

\* What an admitted controller knows of its operation.
Admission ==
    \A c \in Controllers : pc[c] \in Admitted =>
        /\ Operation(plan[c]).binding = plan[c]
        /\ pc[c] # "reserved" => Operation(plan[c]).claimed
        /\ pc[c] # "performed" => effects[plan[c]].times = 0
        /\ pc[c] = "dispatching" => Operation(plan[c]).state \in Outstanding

Alone ==
    \A c, d \in Controllers :
        pc[c] \in Admitted /\ pc[d] \in Admitted /\ plan[c] = plan[d] => c = d

Uses ==
    \A b \in Bindings : effects[b].times > 0 =>
        /\ effects[b].times = 1
        /\ Operation(b).binding = b
        /\ Operation(b).claimed
        /\ \/ Operation(b).state \in Outstanding
           \/ Operation(b).state = "SETTLED" /\ Operation(b).actual = effects[b].tokens

\* A key has one row.
UniqueRows ==
    /\ \A row \in identities :
        row = [key |-> row.key, scope |-> row.scope, value |-> row.value]
    /\ \A x, y \in identities : x.key = y.key => x = y

\* Every reservation has its rows.
ReservationRows ==
    \A b \in Bindings : Operation(b).binding = b =>
        \A k \in ReservationKeys(b) :
            [key |-> k, scope |-> b.scope, value |-> b] \in identities

DispatchInv == Admission /\ Alone /\ Uses /\ UniqueRows /\ ReservationRows

\* No controller becomes admitted or moves on within invoke.
Quiet ==
    \A c \in Controllers : pc'[c] \in Admitted => pc'[c] = pc[c] /\ plan'[c] = plan[c]

\* Reservations stand: none appears, none is lost or given to another binding,
\* no claim is taken back, and what somebody may be performing is outstanding.
Lasting ==
    /\ \A b \in Bindings :
        /\ Operation(b).binding = b <=> Operation(b)'.binding = b
        /\ Operation(b).claimed => Operation(b)'.claimed
    /\ \A b \in Bindings, c \in Controllers :
        (pc[c] = "dispatching" /\ plan[c] = b
           /\ Operation(b).binding = b /\ Operation(b).state \in Outstanding)
          => Operation(b)'.state \in Outstanding

LEMMA QuietControl ==
    ASSUME ControlTyped, NEW c \in Controllers, NEW scopes,
           Recorded(scopes) \/ Raise(c) \/ RaiseAfter(c, scopes)
    PROVE  Quiet
<1>1. CASE Recorded(scopes)
  BY <1>1 DEF Recorded, Snapshots, Quiet, Admitted, ControlTyped
<1>2. CASE Raise(c)
  BY <1>2 DEF Raise, Quiet, Admitted, ControlTyped
<1>3. CASE RaiseAfter(c, scopes)
  BY <1>3 DEF RaiseAfter, Snapshots, Quiet, Admitted, ControlTyped
<1> QED
  BY <1>1, <1>2, <1>3

LEMMA QuietRecording ==
    ASSUME ControlTyped, NEW scopes, Recorded(scopes)
    PROVE  Quiet
BY DEF Recorded, Snapshots, Quiet, Admitted, ControlTyped

LEMMA PlanOfCalled ==
    ASSUME ControlTyped, NEW c \in Controllers, pc[c] # "idle"
    PROVE  plan[c] \in Bindings
BY DEF ControlTyped, Calls

\* A quiet step that lets reservations stand keeps the knowledge of controllers.
LEMMA AdmissionQuiet ==
    ASSUME ControlTyped, Admission, Alone, Quiet, Lasting, UNCHANGED effects
    PROVE  Admission' /\ Alone'
<1>1. ASSUME NEW c \in Controllers, pc'[c] \in Admitted
      PROVE  pc'[c] = pc[c] /\ plan'[c] = plan[c] /\ plan[c] \in Bindings
  BY <1>1, PlanOfCalled DEF Quiet, Admitted
<1>2. Alone'
  BY <1>1 DEF Alone
<1>3. Admission'
  <2> SUFFICES ASSUME NEW c \in Controllers, pc'[c] \in Admitted
               PROVE  /\ operations'[plan'[c].scope][plan'[c].id].binding = plan'[c]
                      /\ pc'[c] # "reserved" =>
                           operations'[plan'[c].scope][plan'[c].id].claimed
                      /\ pc'[c] # "performed" => effects'[plan'[c]].times = 0
                      /\ pc'[c] = "dispatching" =>
                           operations'[plan'[c].scope][plan'[c].id].state \in Outstanding
    BY DEF Admission, Operation
  <2>1. pc'[c] = pc[c] /\ plan'[c] = plan[c] /\ plan[c] \in Bindings
    BY <1>1
  <2> QED
    BY <2>1 DEF Admission, Operation, Lasting
<1> QED
  BY <1>2, <1>3

\* The rows of reservations survive a step that adds rows but no reservation.
LEMMA RowsQuiet ==
    ASSUME ReservationRows, Lasting, identities \subseteq identities'
    PROVE  ReservationRows'
BY DEF ReservationRows, Lasting, Operation, ReservationKeys, DispatchKey, PermitKey

\* Writing rows without a rival keeps the rows unique.
LEMMA TakeUnique ==
    ASSUME UniqueRows, NEW keys, NEW s, NEW value, Take(keys, s, value),
           Rivals(keys, s, value) = {}
    PROVE  UniqueRows'
<1>1. ASSUME NEW row \in identities'
      PROVE  /\ row = [key |-> row.key, scope |-> row.scope, value |-> row.value]
             /\ row \in identities \/ (row.key \in keys /\ row.scope = s /\ row.value = value)
  BY <1>1 DEF Take, UniqueRows
<1>2. ASSUME NEW row \in identities, row.key \in keys
      PROVE  row.scope = s /\ row.value = value
  BY <1>2 DEF Rivals
<1>3. ASSUME NEW x \in identities', NEW y \in identities', x.key = y.key
      PROVE  x = y
  <2>1. CASE x \in identities /\ y \in identities
    BY <1>3, <2>1 DEF UniqueRows
  <2>2. CASE ~(x \in identities /\ y \in identities)
    <3>1. x.scope = s /\ y.scope = s /\ x.value = value /\ y.value = value
      BY <1>1, <1>2, <1>3, <2>2
    <3> QED
      BY <1>1, <1>3, <3>1
  <2> QED
    BY <2>1, <2>2
<1> QED
  BY <1>1, <1>3 DEF UniqueRows

\* A store that keeps binding and claim of b lets the reservations stand.
LEMMA StoreLasting ==
    ASSUME OperationsTyped, NEW b \in Bindings, NEW new, Store(b, new),
           Operation(b).binding = b, new.binding = b,
           Operation(b).claimed => new.claimed,
           new.state \in Outstanding
             \/ \A c \in Controllers : plan[c] = b => pc[c] # "dispatching"
    PROVE  Lasting
<1>1. \A a \in Bindings : Operation(a)' =
         IF a.scope = b.scope /\ a.id = b.id THEN new ELSE Operation(a)
  BY StoreEffect, BindingFacts DEF Operation
<1>2. \A a \in Bindings : a.scope = b.scope /\ a.id = b.id => Operation(a) = Operation(b)
  BY DEF Operation
<1>3. \A a \in Bindings :
        /\ Operation(a).binding = a <=> Operation(a)'.binding = a
        /\ Operation(a).claimed => Operation(a)'.claimed
  BY <1>1, <1>2
<1>4. ASSUME NEW a \in Bindings, NEW c \in Controllers,
             pc[c] = "dispatching", plan[c] = a, Operation(a).state \in Outstanding,
             Operation(a).binding = a
      PROVE  Operation(a)'.state \in Outstanding
  BY <1>1, <1>2, <1>4
<1> QED
  BY <1>3, <1>4 DEF Lasting
\* A quiet step that lets reservations stand and performs nothing.
LEMMA DispatchQuiet ==
    ASSUME TypeInv, DispatchInv, Quiet, Lasting, UNCHANGED effects,
           identities \subseteq identities', UniqueRows',
           \A b \in Bindings : effects[b].times > 0 =>
               \/ Operation(b)'.state \in Outstanding
               \/ /\ Operation(b)'.state = "SETTLED"
                  /\ Operation(b)'.actual = effects[b].tokens
    PROVE  DispatchInv'
<1>1. Admission' /\ Alone'
  BY AdmissionQuiet DEF TypeInv, DispatchInv
<1>2. ReservationRows'
  BY RowsQuiet DEF DispatchInv
<1>3. Uses'
  BY DEF DispatchInv, Uses, Lasting, Operation
<1> QED
  BY <1>1, <1>2, <1>3 DEF DispatchInv

\* A quiet step that leaves the operations and the rows alone.
LEMMA DispatchUntouched ==
    ASSUME TypeInv, DispatchInv, Quiet, UNCHANGED <<operations, effects, identities>>
    PROVE  DispatchInv'
<1>1. Lasting /\ UniqueRows'
  BY DEF Lasting, Operation, DispatchInv, UniqueRows
<1>2. \A b \in Bindings : effects[b].times > 0 =>
        \/ Operation(b)'.state \in Outstanding
        \/ /\ Operation(b)'.state = "SETTLED"
           /\ Operation(b)'.actual = effects[b].tokens
  BY DEF DispatchInv, Uses, Operation
<1> QED
  BY <1>1, <1>2, DispatchQuiet

LEMMA DispatchInit == Init => DispatchInv
<1> SUFFICES ASSUME Init PROVE DispatchInv
  OBVIOUS
<1>1. Admission /\ Alone
  BY DEF Init, Admission, Alone, Admitted
<1>2. Uses
  BY DEF Init, Uses
<1>3. UniqueRows
  BY DEF Init, UniqueRows
<1>4. ReservationRows
  BY BindingFacts DEF Init, ReservationRows, Operation, NotReserved
<1> QED
  BY <1>1, <1>2, <1>3, <1>4 DEF DispatchInv

\* The one step that admits a controller.
LEMMA DispatchOfReserve ==
    ASSUME TypeInv, DispatchInv, NEW c \in Controllers, Reserve(c)
    PROVE  DispatchInv'
<1> DEFINE b == plan[c]
           new == [state |-> "RESERVED", binding |-> b, claimed |-> FALSE,
                   reservation |-> b.upper, actual |-> 0]
<1>1. b \in Bindings /\ Store(b, new) /\ pc[c] = "qualified"
  BY PlanOfCalled DEF Reserve, TypeInv
<1>2. \A a \in Bindings : Operation(a)' =
         IF a.scope = b.scope /\ a.id = b.id THEN new ELSE Operation(a)
  BY <1>1, StoreEffect, BindingFacts DEF Operation, TypeInv
<1>3. Operation(b) = NotReserved
  BY <1>1, BindingFacts DEF Reserve, TypeInv, OperationsTyped, Reservation, Operation
<1>4. \A a \in Bindings : a.scope = b.scope /\ a.id = b.id =>
         Operation(a).binding = NoBinding /\ a # NoBinding
  BY <1>3, BindingFacts DEF Operation, NotReserved
<1>5. \A a \in Bindings : a # b /\ Operation(a)'.binding = a => Operation(a).binding = a
  BY <1>2
<1>6. \A a \in Bindings : Operation(a).binding = a => Operation(a)' = Operation(a)
  BY <1>2, <1>4
<1>7. effects' = effects /\ plan' = plan
  BY DEF Reserve, RecordedBy
<1>8. /\ pc'[c] = "reserved"
      /\ \A d \in Controllers \ {c} : pc'[d] \in Admitted => pc'[d] = pc[d]
  BY <1>1 DEF Reserve, RecordedBy, Snapshots, Admitted, TypeInv, ControlTyped
<1>9. \A d \in Controllers \ {c} : pc'[d] \in Admitted =>
         plan[d] \in Bindings /\ Operation(plan[d]).binding = plan[d] /\ plan[d] # b
  <2> SUFFICES ASSUME NEW d \in Controllers \ {c}, pc'[d] \in Admitted
               PROVE  /\ plan[d] \in Bindings /\ Operation(plan[d]).binding = plan[d]
                      /\ plan[d] # b
    OBVIOUS
  <2>1. pc[d] \in Admitted /\ pc[d] # "idle"
    BY <1>8 DEF Admitted
  <2>2. plan[d] \in Bindings
    BY <2>1, PlanOfCalled DEF TypeInv
  <2>3. Operation(plan[d]).binding = plan[d]
    BY <2>1 DEF DispatchInv, Admission
  <2> QED
    BY <1>1, <1>4, <2>2, <2>3
<1>10. effects[b].times = 0
  <2>1. ~(effects[b].times > 0)
    BY <1>1, <1>4 DEF DispatchInv, Uses
  <2>2. effects[b].times \in Nat
    BY <1>1 DEF TypeInv, AmountsTyped
  <2> QED
    BY <2>1, <2>2
<1>11. Admission'
  <2> SUFFICES ASSUME NEW d \in Controllers, pc'[d] \in Admitted
               PROVE  /\ operations'[plan[d].scope][plan[d].id].binding = plan[d]
                      /\ pc'[d] # "reserved" =>
                           operations'[plan[d].scope][plan[d].id].claimed
                      /\ pc'[d] # "performed" => effects[plan[d]].times = 0
                      /\ pc'[d] = "dispatching" =>
                           operations'[plan[d].scope][plan[d].id].state \in Outstanding
    BY <1>7 DEF Admission, Operation
  <2>1. CASE d = c
    BY <2>1, <1>1, <1>2, <1>8, <1>10 DEF Operation
  <2>2. CASE d # c
    <3>1. pc'[d] = pc[d] /\ plan[d] \in Bindings /\ Operation(plan[d]).binding = plan[d]
      BY <2>2, <1>8, <1>9
    <3>2. operations'[plan[d].scope][plan[d].id] = Operation(plan[d])
      BY <3>1, <1>6 DEF Operation
    <3> QED
      BY <3>1, <3>2 DEF DispatchInv, Admission
  <2> QED
    BY <2>1, <2>2
<1>12. Alone'
  <2>1. ASSUME NEW d \in Controllers, NEW e \in Controllers,
               pc'[d] \in Admitted, pc'[e] \in Admitted, plan[d] = plan[e]
        PROVE  d = e
    BY <2>1, <1>8, <1>9 DEF DispatchInv, Alone
  <2> QED
    BY <2>1, <1>7 DEF Alone
<1>13. Uses'
  <2> SUFFICES ASSUME NEW a \in Bindings, effects[a].times > 0
               PROVE  /\ effects[a].times = 1
                      /\ Operation(a)'.binding = a
                      /\ Operation(a)'.claimed
                      /\ \/ Operation(a)'.state \in Outstanding
                         \/ /\ Operation(a)'.state = "SETTLED"
                            /\ Operation(a)'.actual = effects[a].tokens
    BY <1>7 DEF Uses, Operation
  <2> QED
    BY <1>6 DEF DispatchInv, Uses
<1>14. UniqueRows'
  BY TakeUnique DEF Reserve, DispatchInv
<1>15. ReservationRows'
  <2>1. ASSUME NEW k \in ReservationKeys(b)
        PROVE  [key |-> k, scope |-> b.scope, value |-> b] \in identities'
    BY DEF Reserve, Take
  <2>2. identities \subseteq identities'
    BY DEF Reserve, Take
  <2> SUFFICES ASSUME NEW a \in Bindings, Operation(a)'.binding = a,
                      NEW k \in ReservationKeys(a)
               PROVE  [key |-> k, scope |-> a.scope, value |-> a] \in identities'
    BY DEF ReservationRows, Operation, ReservationKeys, DispatchKey, PermitKey
  <2> QED
    BY <2>1, <2>2, <1>5 DEF DispatchInv, ReservationRows
<1> QED
  BY <1>11, <1>12, <1>13, <1>14, <1>15 DEF DispatchInv
\* Steps by which an admitted controller moves on without performing.
LEMMA DispatchOfAdvance ==
    ASSUME TypeInv, DispatchInv, NEW c \in Controllers,
           Claim(c) \/ Recheck(c) \/ NoteDispatch(c)
    PROVE  DispatchInv'
<1>0. pc[c] \in {"reserved", "claimed", "checked"}
  BY DEF Claim, Recheck, NoteDispatch
<1>plan. PICK b \in Bindings : b = plan[c]
  BY <1>0, PlanOfCalled DEF TypeInv
<1>1. pc[c] \in Admitted /\ Operation(b).binding = b /\ effects[b].times = 0
  BY <1>0, <1>plan DEF DispatchInv, Admission, Admitted
<1>2. effects' = effects /\ identities' = identities /\ plan' = plan
  BY DEF Claim, Recheck, NoteDispatch, RecordedBy, journal, scopeVars
<1>3. /\ pc'[c] \in {"claimed", "checked", "dispatching"}
      /\ \A d \in Controllers \ {c} : pc'[d] \in Admitted => pc'[d] = pc[d]
  BY DEF Claim, Recheck, NoteDispatch, RecordedBy, Snapshots, Admitted, TypeInv, ControlTyped
<1>4. /\ \A a \in Bindings : Operation(a).binding = a /\ a # b => Operation(a)' = Operation(a)
      /\ \A a \in Bindings : Operation(a).binding = a <=> Operation(a)'.binding = a
      /\ Operation(b)'.claimed
      /\ pc'[c] = "dispatching" => Operation(b)'.state \in Outstanding
  <2>1. CASE Claim(c)
    <3> DEFINE new == [Operation(b) EXCEPT !.claimed = TRUE]
    <3>1. Store(b, new) /\ pc'[c] = "claimed"
      BY <2>1, <1>plan DEF Claim, RecordedBy, Snapshots, TypeInv, ControlTyped
    <3>2. Operation(b) \in OperationRecords
      BY <1>1, BindingFacts DEF TypeInv, OperationsTyped, Operation
    <3>3. new.binding = b /\ new.claimed
      BY <1>1, <3>2 DEF OperationRecords
    <3> HIDE DEF new
    <3>4. \A a \in Bindings : Operation(a)' =
             IF a.scope = b.scope /\ a.id = b.id THEN new ELSE Operation(a)
      BY <1>1, <3>1, StoreEffect, BindingFacts DEF Operation, TypeInv
    <3>5. \A a \in Bindings : a.scope = b.scope /\ a.id = b.id => Operation(a) = Operation(b)
      BY DEF Operation
    <3> QED
      BY <1>1, <3>1, <3>3, <3>4, <3>5
  <2>2. CASE Recheck(c)
    <3>1. operations' = operations /\ pc[c] = "claimed" /\ pc'[c] = "checked"
      BY <2>2 DEF Recheck, journal, scopeVars, TypeInv, ControlTyped
    <3> QED
      BY <1>0, <1>plan, <1>1, <3>1 DEF Operation, DispatchInv, Admission, Admitted
  <2>3. CASE NoteDispatch(c)
    <3> DEFINE new == [Operation(b) EXCEPT !.state = "DISPATCHED"]
    <3>1. Store(b, new) /\ Operation(b).claimed
      BY <2>3, <1>plan DEF NoteDispatch, Notable
    <3>2. Operation(b) \in OperationRecords
      BY <1>1, BindingFacts DEF TypeInv, OperationsTyped, Operation
    <3>3. new.binding = b /\ new.claimed /\ new.state \in Outstanding
      BY <1>1, <3>1, <3>2 DEF OperationRecords, Outstanding
    <3> HIDE DEF new
    <3>4. \A a \in Bindings : Operation(a)' =
             IF a.scope = b.scope /\ a.id = b.id THEN new ELSE Operation(a)
      BY <1>1, <3>1, StoreEffect, BindingFacts DEF Operation, TypeInv
    <3>5. \A a \in Bindings : a.scope = b.scope /\ a.id = b.id => Operation(a) = Operation(b)
      BY DEF Operation
    <3> QED
      BY <1>1, <3>3, <3>4, <3>5
  <2> QED
    BY <2>1, <2>2, <2>3
<1>5. \A d \in Controllers \ {c} : pc'[d] \in Admitted =>
         /\ pc[d] = pc'[d] /\ plan[d] \in Bindings
         /\ Operation(plan[d]).binding = plan[d] /\ plan[d] # b
  <2> SUFFICES ASSUME NEW d \in Controllers \ {c}, pc'[d] \in Admitted
               PROVE  /\ pc[d] = pc'[d] /\ plan[d] \in Bindings
                      /\ Operation(plan[d]).binding = plan[d] /\ plan[d] # b
    OBVIOUS
  <2>1. pc[d] = pc'[d] /\ pc[d] \in Admitted /\ pc[d] # "idle"
    BY <1>3 DEF Admitted
  <2> QED
    BY <2>1, <1>1, <1>plan, PlanOfCalled DEF TypeInv, DispatchInv, Admission, Alone
<1>6. Admission'
  <2> SUFFICES ASSUME NEW d \in Controllers, pc'[d] \in Admitted
               PROVE  /\ operations'[plan[d].scope][plan[d].id].binding = plan[d]
                      /\ pc'[d] # "reserved" =>
                           operations'[plan[d].scope][plan[d].id].claimed
                      /\ pc'[d] # "performed" => effects[plan[d]].times = 0
                      /\ pc'[d] = "dispatching" =>
                           operations'[plan[d].scope][plan[d].id].state \in Outstanding
    BY <1>2 DEF Admission, Operation
  <2>1. CASE d = c
    BY <2>1, <1>plan, <1>1, <1>4 DEF Operation
  <2>2. CASE d # c
    <3>1. operations'[plan[d].scope][plan[d].id] = Operation(plan[d])
      BY <2>2, <1>4, <1>5 DEF Operation
    <3> QED
      BY <2>2, <3>1, <1>5 DEF DispatchInv, Admission
  <2> QED
    BY <2>1, <2>2
<1>7. Alone'
  <2>1. ASSUME NEW d \in Controllers, NEW e \in Controllers,
               pc'[d] \in Admitted, pc'[e] \in Admitted, plan[d] = plan[e]
        PROVE  d = e
    BY <2>1, <1>plan, <1>3, <1>5 DEF DispatchInv, Alone
  <2> QED
    BY <2>1, <1>2 DEF Alone
<1>8. Uses'
  <2> SUFFICES ASSUME NEW a \in Bindings, effects[a].times > 0
               PROVE  /\ effects[a].times = 1
                      /\ Operation(a)'.binding = a
                      /\ Operation(a)'.claimed
                      /\ \/ Operation(a)'.state \in Outstanding
                         \/ /\ Operation(a)'.state = "SETTLED"
                            /\ Operation(a)'.actual = effects[a].tokens
    BY <1>2 DEF Uses, Operation
  <2> QED
    BY <1>1, <1>4 DEF DispatchInv, Uses
<1>9. UniqueRows' /\ ReservationRows'
  BY <1>2, <1>4 DEF DispatchInv, UniqueRows, ReservationRows, Operation, ReservationKeys,
                    DispatchKey, PermitKey
<1> QED
  BY <1>6, <1>7, <1>8, <1>9 DEF DispatchInv

\* The effect itself.
LEMMA DispatchOfPerform ==
    ASSUME TypeInv, DispatchInv, NEW c \in Controllers, NEW tokens \in Amounts,
           Perform(c, tokens)
    PROVE  DispatchInv'
<1> DEFINE b == plan[c]
<1>1. /\ b \in Bindings /\ pc[c] = "dispatching"
      /\ Operation(b).binding = b /\ Operation(b).claimed
      /\ Operation(b).state \in Outstanding /\ effects[b].times = 0
  BY PlanOfCalled DEF Perform, TypeInv, DispatchInv, Admission, Admitted
<1>2. /\ plan' = plan /\ operations' = operations /\ identities' = identities
      /\ effects' = [effects EXCEPT ![b] =
           [times |-> @.times + 1, tokens |-> @.tokens + tokens]]
      /\ pc' = [pc EXCEPT ![c] = "performed"]
  BY DEF Perform, journal, scopeVars
<1>3. /\ \A a \in Bindings \ {b} : effects'[a] = effects[a]
      /\ effects'[b].times = 1
  BY <1>1, <1>2 DEF TypeInv, AmountsTyped
<1>4. \A d \in Controllers \ {c} : pc'[d] \in Admitted =>
         pc[d] = pc'[d] /\ plan[d] \in Bindings /\ plan[d] # b
  <2> SUFFICES ASSUME NEW d \in Controllers \ {c}, pc'[d] \in Admitted
               PROVE  pc[d] = pc'[d] /\ plan[d] \in Bindings /\ plan[d] # b
    OBVIOUS
  <2>1. pc[d] = pc'[d] /\ pc[d] \in Admitted /\ pc[d] # "idle"
    BY <1>2 DEF Admitted, TypeInv, ControlTyped
  <2> QED
    BY <2>1, <1>1, PlanOfCalled DEF TypeInv, DispatchInv, Alone, Admitted
<1>5. Admission'
  <2> SUFFICES ASSUME NEW d \in Controllers, pc'[d] \in Admitted
               PROVE  /\ Operation(plan[d]).binding = plan[d]
                      /\ pc'[d] # "reserved" => Operation(plan[d]).claimed
                      /\ pc'[d] # "performed" => effects'[plan[d]].times = 0
                      /\ pc'[d] = "dispatching" =>
                           Operation(plan[d]).state \in Outstanding
    BY <1>2 DEF Admission, Operation
  <2>1. CASE d = c
    BY <2>1, <1>1, <1>2 DEF TypeInv, ControlTyped
  <2>2. CASE d # c
    BY <2>2, <1>3, <1>4 DEF DispatchInv, Admission
  <2> QED
    BY <2>1, <2>2
<1>6. Alone'
  <2>1. ASSUME NEW d \in Controllers, NEW e \in Controllers,
               pc'[d] \in Admitted, pc'[e] \in Admitted, plan[d] = plan[e]
        PROVE  d = e
    BY <2>1, <1>4 DEF DispatchInv, Alone
  <2> QED
    BY <2>1, <1>2 DEF Alone
<1>7. Uses'
  <2> SUFFICES ASSUME NEW a \in Bindings, effects'[a].times > 0
               PROVE  /\ effects'[a].times = 1
                      /\ Operation(a).binding = a
                      /\ Operation(a).claimed
                      /\ \/ Operation(a).state \in Outstanding
                         \/ /\ Operation(a).state = "SETTLED"
                            /\ Operation(a).actual = effects'[a].tokens
    BY <1>2 DEF Uses, Operation
  <2> QED
    BY <1>1, <1>3 DEF DispatchInv, Uses
<1>8. UniqueRows' /\ ReservationRows'
  BY <1>2 DEF DispatchInv, UniqueRows, ReservationRows, Operation
<1> QED
  BY <1>5, <1>6, <1>7, <1>8 DEF DispatchInv
LEMMA DispatchOfStep ==
    ASSUME TypeInv, DispatchInv, NEW c \in Controllers, Step(c)
    PROVE  DispatchInv'
<1> USE DEF TypeInv
<1>1. ASSUME NEW b \in Bindings, Qualify(c, b) PROVE DispatchInv'
  <2>1. Quiet
    BY <1>1 DEF Qualify, Quiet, Admitted, ControlTyped
  <2> QED
    BY <1>1, <2>1, DispatchUntouched DEF Qualify, journal, scopeVars
<1>2. CASE ReserveChanged(c) \/ ReserveMismatch(c) \/ ReserveRival(c)
  <2>1. PICK scopes : Conflict(scopes) /\ RaiseAfter(c, scopes)
    BY <1>2 DEF ReserveChanged, ReserveMismatch, ReserveRival, ReserveConflict
  <2> QED
    BY <2>1, QuietControl, DispatchUntouched DEF Conflict
<1>3. CASE Abandon(c)
  BY <1>3, QuietControl, DispatchUntouched DEF Abandon, journal, scopeVars
<1>4. CASE NoteUnavailable(c)
  <2>1. PICK b \in Bindings : b = plan[c]
    BY <1>4, PlanOfCalled DEF NoteUnavailable
  <2> DEFINE new == [Operation(b) EXCEPT !.state = "UNAVAILABLE"]
  <2>2. /\ Store(b, new) /\ Operation(b).claimed /\ Operation(b).binding = b
        /\ Quiet /\ effects' = effects /\ identities' = identities
    BY <1>4, <2>1, QuietControl DEF NoteUnavailable, Notable, DispatchInv, Admission, Admitted
  <2>3. Operation(b) \in OperationRecords
    BY BindingFacts DEF OperationsTyped, Operation
  <2>4. new.binding = b /\ new.claimed /\ new.state \in Outstanding
    BY <2>2, <2>3 DEF OperationRecords, Outstanding
  <2> HIDE DEF new
  <2>5. Lasting
    BY <2>2, <2>4, StoreLasting
  <2>6. \A a \in Bindings : Operation(a)' = new \/ Operation(a)' = Operation(a)
    BY <2>2, StoreEffect, BindingFacts DEF Operation
  <2>7. UniqueRows'
    BY <2>2 DEF DispatchInv, UniqueRows
  <2>8. \A a \in Bindings : effects[a].times > 0 =>
          \/ Operation(a)'.state \in Outstanding
          \/ /\ Operation(a)'.state = "SETTLED"
             /\ Operation(a)'.actual = effects[a].tokens
    BY <2>4, <2>6 DEF DispatchInv, Uses
  <2> QED
    BY <2>2, <2>5, <2>7, <2>8, DispatchQuiet
<1> QED
  BY <1>1, <1>2, <1>3, <1>4, DispatchOfReserve, DispatchOfAdvance, DispatchOfPerform DEF Step

LEMMA DispatchOfScopeStep ==
    ASSUME TypeInv, DispatchInv, NEW s \in Scopes, ScopeStep(s)
    PROVE  DispatchInv'
<1> USE DEF TypeInv
<1>1. ASSUME NEW o \in Openings, OpenScope(s, o) PROVE DispatchInv'
  <2> DEFINE keys == {SourceKey(e) : e \in o.covered}
  <2>1. operations' = operations /\ effects' = effects
    BY <1>1 DEF OpenScope, OpenWith
  <2>2. Quiet
    BY <1>1, QuietRecording DEF OpenScope, OpenWith
  <2>3. UniqueRows' /\ identities \subseteq identities'
    <3>1. CASE Rivals(keys, s, o) = {}
      <4>1. Take(keys, s, o)
        BY <1>1, <3>1 DEF OpenScope, OpenWith
      <4> QED
        BY <3>1, <4>1, TakeUnique, TakeKept DEF DispatchInv
    <3>2. CASE Rivals(keys, s, o) # {}
      BY <1>1, <3>2 DEF OpenScope, OpenWith, DispatchInv, UniqueRows
    <3> QED
      BY <3>1, <3>2
  <2>4. Lasting
    BY <2>1 DEF Lasting, Operation
  <2>5. \A a \in Bindings : effects[a].times > 0 =>
          \/ Operation(a)'.state \in Outstanding
          \/ /\ Operation(a)'.state = "SETTLED"
             /\ Operation(a)'.actual = effects[a].tokens
    BY <2>1 DEF DispatchInv, Uses, Operation
  <2> QED
    BY <2>1, <2>2, <2>3, <2>4, <2>5, DispatchQuiet
<1>2. ASSUME NEW o \in Openings, OpenAgain(s, o) PROVE DispatchInv'
  BY <1>2, QuietRecording, DispatchUntouched DEF OpenAgain, Conflict
<1>3. CASE Rebuild(s)
  <2>1. Quiet /\ effects' = effects /\ identities' = identities
    BY <1>3, QuietRecording DEF Rebuild
  <2>2. ASSUME NEW a \in Bindings
        PROVE  \/ Operation(a)' = Operation(a)
               \/ /\ Operation(a)' = [Operation(a) EXCEPT !.state = "UNAVAILABLE"]
                  /\ Operation(a).state \in {"RESERVED", "DISPATCHED"}
    BY <1>3, BindingFacts DEF Rebuild, Operation, OperationsTyped, Uncertain
  <2>3. ASSUME NEW a \in Bindings
        PROVE  /\ Operation(a)'.binding = Operation(a).binding
               /\ Operation(a)'.claimed = Operation(a).claimed
               /\ \/ Operation(a)' = Operation(a)
                  \/ Operation(a)'.state \in Outstanding
    <3>1. Operation(a) \in OperationRecords
      BY BindingFacts DEF OperationsTyped, Operation
    <3> QED
      BY <2>2, <3>1 DEF OperationRecords, Outstanding
  <2>4. Lasting
    BY <2>3 DEF Lasting
  <2>5. UniqueRows'
    BY <2>1 DEF DispatchInv, UniqueRows
  <2>6. \A a \in Bindings : effects[a].times > 0 =>
          \/ Operation(a)'.state \in Outstanding
          \/ /\ Operation(a)'.state = "SETTLED"
             /\ Operation(a)'.actual = effects[a].tokens
    BY <2>3 DEF DispatchInv, Uses
  <2> QED
    BY <2>1, <2>4, <2>5, <2>6, DispatchQuiet
<1> QED
  BY <1>1, <1>2, <1>3 DEF ScopeStep
\* Settling what is authentic: its effect was performed, so nobody is about to.
LEMMA DispatchOfReceipt ==
    ASSUME TypeInv, DispatchInv, NEW r \in Receipts, Authentic(r), Chargeable(r),
           TakeReceipt(r), UNCHANGED effects, Recorded({r.binding.scope}),
           NEW new, Store(r.binding, new), new.binding = r.binding, new.claimed,
           \/ new.state \in Outstanding
           \/ new.state = "SETTLED" /\ new.actual = r.tokens
    PROVE  DispatchInv'
<1> USE DEF TypeInv
<1> DEFINE b == r.binding
           keys == {SettlementKey(b), SourceKey(r.event)}
<1>1. b \in Bindings /\ Operation(b).binding = b
  BY ChargeableHeld
<1>2. Quiet
  BY QuietRecording
<1>3. effects[b].times > 0 /\ r.tokens = effects[b].tokens /\ effects[b].times # 0
  BY <1>1 DEF Authentic, AmountsTyped
<1>4. \A c \in Controllers : plan[c] = b => pc[c] # "dispatching"
  BY <1>3 DEF DispatchInv, Admission, Admitted
<1>5. Lasting
  BY <1>1, <1>4, StoreLasting
<1>6. UniqueRows' /\ identities \subseteq identities'
  <2>1. Rivals(keys, b.scope, r) = {}
    BY DEF Chargeable, SourceRivals, Rivals
  <2>2. Take(keys, b.scope, r)
    BY DEF TakeReceipt
  <2> HIDE DEF keys
  <2> QED
    BY <1>1, <2>1, <2>2, TakeUnique, TakeKept, BindingFacts DEF DispatchInv
<1>7. ASSUME NEW a \in Bindings, effects[a].times > 0
      PROVE  \/ Operation(a)'.state \in Outstanding
             \/ /\ Operation(a)'.state = "SETTLED"
                /\ Operation(a)'.actual = effects[a].tokens
  <2>1. CASE a = b
    <3>1. Operation(a)' = new
      BY <1>1, <2>1, StoreEffect, BindingFacts DEF Operation
    <3> QED
      BY <1>3, <2>1, <3>1
  <2>2. CASE a # b
    <3>1. Operation(a).binding = a
      BY <1>7 DEF DispatchInv, Uses
    <3>2. ~(a.scope = b.scope /\ a.id = b.id)
      BY <1>1, <2>2, <3>1 DEF Operation
    <3>3. Operation(a)' = Operation(a)
      BY <1>1, <3>2, StoreEffect, BindingFacts DEF Operation
    <3> QED
      BY <1>7, <3>3 DEF DispatchInv, Uses
  <2> QED
    BY <2>1, <2>2
<1> QED
  BY <1>2, <1>5, <1>6, <1>7, DispatchQuiet

LEMMA DispatchOfResolution ==
    ASSUME TypeInv, DispatchInv, Resolution
    PROVE  DispatchInv'
<1> USE DEF TypeInv
<1>1. ASSUME NEW b \in Bindings, CancelWithoutDispatch(b) PROVE DispatchInv'
  <2> DEFINE new == [Operation(b) EXCEPT !.state = "CANCELLED_WITH_NO_DISPATCH_PROOF",
                                         !.reservation = 0, !.actual = 0]
  <2>1. /\ Store(b, new) /\ Operation(b).binding = b /\ effects[b].times = 0
        /\ \A c \in Controllers : plan[c] = b => pc[c] # "dispatching"
        /\ effects' = effects /\ identities' = identities /\ Recorded({b.scope})
    BY <1>1 DEF CancelWithoutDispatch, Finished, NotDispatched
  <2>2. Operation(b) \in OperationRecords
    BY BindingFacts DEF OperationsTyped, Operation
  <2>3. new.binding = b /\ (Operation(b).claimed => new.claimed)
    BY <2>1, <2>2 DEF OperationRecords
  <2> HIDE DEF new
  <2>4. Lasting
    BY <2>1, <2>3, StoreLasting
  <2>5. ASSUME NEW a \in Bindings, effects[a].times > 0
        PROVE  \/ Operation(a)'.state \in Outstanding
               \/ /\ Operation(a)'.state = "SETTLED"
                  /\ Operation(a)'.actual = effects[a].tokens
    <3>1. Operation(a).binding = a /\ a # b
      BY <2>1, <2>5 DEF DispatchInv, Uses
    <3>2. ~(a.scope = b.scope /\ a.id = b.id)
      BY <2>1, <3>1 DEF Operation
    <3>3. Operation(a)' = Operation(a)
      BY <2>1, <3>2, StoreEffect, BindingFacts DEF Operation
    <3> QED
      BY <2>5, <3>3 DEF DispatchInv, Uses
  <2>6. UniqueRows' /\ Quiet
    BY <2>1, QuietRecording DEF DispatchInv, UniqueRows
  <2> QED
    BY <2>1, <2>4, <2>5, <2>6, DispatchQuiet
<1>2. ASSUME NEW r \in Receipts, SettleConflict(r) PROVE DispatchInv'
  <2>1. PICK scopes : Conflict(scopes) /\ Recorded(scopes)
    BY <1>2 DEF SettleConflict
  <2> QED
    BY <2>1, QuietRecording, DispatchUntouched DEF Conflict
<1>3. ASSUME NEW r \in Receipts, SettleOverflow(r) PROVE DispatchInv'
  <2> DEFINE b == r.binding
             new == [Operation(b) EXCEPT !.state = "UNAVAILABLE"]
  <2>1. /\ Operation(b) \in OperationRecords /\ Operation(b).binding = b
        /\ Operation(b).claimed
    BY <1>3, ChargeableHeld DEF SettleOverflow
  <2>2. new.binding = b /\ new.claimed /\ new.state \in Outstanding
    BY <2>1 DEF OperationRecords, Outstanding
  <2>3. Store(b, new)
    BY <1>3 DEF SettleOverflow
  <2> HIDE DEF new
  <2> QED
    BY <1>3, <2>2, <2>3, DispatchOfReceipt DEF SettleOverflow
<1>4. ASSUME NEW r \in Receipts, Settle(r) PROVE DispatchInv'
  <2> DEFINE b == r.binding
             new == [Operation(b) EXCEPT !.state = "SETTLED", !.reservation = 0,
                                         !.actual = r.tokens]
  <2>1. /\ Operation(b) \in OperationRecords /\ Operation(b).binding = b
        /\ Operation(b).claimed
    BY <1>4, ChargeableHeld DEF Settle
  <2>2. /\ new.binding = b /\ new.claimed /\ new.state = "SETTLED"
        /\ new.actual = r.tokens
    BY <2>1 DEF OperationRecords
  <2>3. Store(b, new)
    BY <1>4 DEF Settle, Finished
  <2> HIDE DEF new
  <2> QED
    BY <1>4, <2>2, <2>3, DispatchOfReceipt DEF Settle
<1> QED
  BY <1>1, <1>2, <1>3, <1>4 DEF Resolution

LEMMA DispatchStep == TypeInv /\ DispatchInv /\ [Next]_vars => DispatchInv'
<1> SUFFICES ASSUME TypeInv, DispatchInv, [Next]_vars PROVE DispatchInv'
  OBVIOUS
<1>1. CASE UNCHANGED vars
  BY <1>1 DEF vars, journal, scopeVars, DispatchInv, Admission, Alone, Uses, UniqueRows,
              ReservationRows, Operation
<1> QED
  BY <1>1, DispatchOfStep, DispatchOfScopeStep, DispatchOfResolution DEF Next

LEMMA DispatchInvariant == Spec => []DispatchInv
BY TypeInvariant, DispatchInit, DispatchStep, PTL DEF Spec

(***************************************************************************)
(* No operation is performed twice, and no two that share an operation id, *)
(* a dispatch key or a permit are both performed.                          *)
(***************************************************************************)
THEOREM EffectsAreUnique == Spec => []EffectAtMostOnce
<1>1. DispatchInv => EffectAtMostOnce
  <2> SUFFICES ASSUME DispatchInv, NEW a \in Bindings, NEW b \in Bindings,
                      effects[a].times > 0, effects[b].times > 0
               PROVE  IF a = b THEN effects[a].times = 1
                      ELSE /\ a.permit # b.permit
                           /\ a.scope = b.scope => a.id # b.id /\ a.dispatch # b.dispatch
    BY DEF EffectAtMostOnce
  <2>1. /\ effects[a].times = 1
        /\ Operation(a).binding = a /\ Operation(b).binding = b
    BY DEF DispatchInv, Uses
  <2> DEFINE Row(k, x) == [key |-> k, scope |-> x.scope, value |-> x]
  <2>2. /\ Row(DispatchKey(a), a) \in identities /\ Row(PermitKey(a), a) \in identities
        /\ Row(DispatchKey(b), b) \in identities /\ Row(PermitKey(b), b) \in identities
    BY <2>1 DEF DispatchInv, ReservationRows, ReservationKeys
  <2>3. ASSUME a.permit = b.permit PROVE a = b
    <3>1. Row(PermitKey(a), a) = Row(PermitKey(b), b)
      BY <2>2, <2>3 DEF DispatchInv, UniqueRows, PermitKey
    <3> QED
      BY <3>1
  <2>4. ASSUME a.scope = b.scope, a.dispatch = b.dispatch PROVE a = b
    <3>1. Row(DispatchKey(a), a) = Row(DispatchKey(b), b)
      BY <2>2, <2>4 DEF DispatchInv, UniqueRows, DispatchKey
    <3> QED
      BY <3>1
  <2>5. ASSUME a.scope = b.scope, a.id = b.id PROVE a = b
    BY <2>1, <2>5 DEF Operation
  <2> QED
    BY <2>1, <2>3, <2>4, <2>5
<1> QED
  BY <1>1, DispatchInvariant, PTL

(***************************************************************************)
(* What was performed is charged or held in full, and never cancelled.     *)
(***************************************************************************)
THEOREM UseIsNeverLost == Spec => []UseIsHeld
<1>1. TypeInv /\ DispatchInv => UseIsHeld
  <2> SUFFICES ASSUME TypeInv, DispatchInv, NEW b \in Bindings, effects[b].times > 0
               PROVE  /\ Operation(b).binding = b
                      /\ \/ /\ Operation(b).state \in {"DISPATCHED", "UNAVAILABLE"}
                            /\ Operation(b).reservation = b.upper
                         \/ /\ Operation(b).state = "SETTLED"
                            /\ Operation(b).actual = effects[b].tokens
    BY DEF UseIsHeld
  <2>1. /\ Operation(b).binding = b
        /\ \/ Operation(b).state \in Outstanding
           \/ Operation(b).state = "SETTLED" /\ Operation(b).actual = effects[b].tokens
    BY DEF DispatchInv, Uses
  <2>2. Reservation(b.scope, b.id) /\ Operation(b) # NotReserved
    <3>1. NotReserved.binding = NoBinding /\ b # NoBinding
      BY BindingFacts DEF NotReserved
    <3> QED
      BY <2>1, <3>1, BindingFacts DEF TypeInv, OperationsTyped
  <2> QED
    BY <2>1, <2>2 DEF Reservation, Operation, Outstanding
<1> QED
  BY <1>1, TypeInvariant, DispatchInvariant, PTL
(***************************************************************************)
(* The gate.  A scope is READY only while all its amounts are known and no *)
(* outcome is uncertain; nothing is reserved before it is opened.          *)
(***************************************************************************)
Unopened ==
    \A s \in Scopes : gate[s] = "UNOPENED" =>
        \A id \in OperationIds : operations[s][id] = NotReserved

GateInv == ReadyIsClear /\ Unopened

\* A scope with a reservation is opened.
LEMMA ReservedOpened ==
    ASSUME Unopened, NEW b \in Bindings, Operation(b).binding = b
    PROVE  gate[b.scope] # "UNOPENED"
<1>1. NotReserved.binding = NoBinding /\ b # NoBinding
  BY BindingFacts DEF NotReserved
<1> QED
  BY <1>1, BindingFacts DEF Unopened, Operation

\* A step that stores one operation of an opened scope and computes its gate.
LEMMA GateStore ==
    ASSUME TypeInv, GateInv, NEW b \in Bindings, NEW new, Store(b, new),
           NEW g, gate' = [gate EXCEPT ![b.scope] = g], g # "UNOPENED",
           \A s \in Scopes \ {b.scope} : qualified'[s] = qualified[s],
           g = "READY" =>
             /\ qualified'[b.scope]
             /\ new.state # "UNAVAILABLE"
             /\ \A id \in OperationIds \ {b.id} :
                  operations[b.scope][id].state # "UNAVAILABLE"
    PROVE  GateInv'
<1>1. \A s \in Scopes, id \in OperationIds :
        operations'[s][id] = IF s = b.scope /\ id = b.id THEN new ELSE operations[s][id]
  BY StoreEffect DEF TypeInv
<1>2. \A s \in Scopes : gate'[s] = IF s = b.scope THEN g ELSE gate[s]
  BY BindingFacts DEF TypeInv, GateTyped
<1>3. ReadyIsClear'
  BY <1>1, <1>2 DEF GateInv, ReadyIsClear
<1>4. Unopened'
  BY <1>1, <1>2 DEF GateInv, Unopened
<1> QED
  BY <1>3, <1>4 DEF GateInv

\* A step that stores a certain operation and leaves the gates alone.
LEMMA GateKept ==
    ASSUME TypeInv, GateInv, NEW b \in Bindings, NEW new, Store(b, new),
           UNCHANGED <<gate, qualified>>, gate[b.scope] # "UNOPENED",
           new.state # "UNAVAILABLE"
    PROVE  GateInv'
<1>1. gate' = [gate EXCEPT ![b.scope] = gate[b.scope]]
  BY DEF TypeInv, GateTyped
<1>2. gate[b.scope] = "READY" =>
        /\ qualified'[b.scope]
        /\ \A id \in OperationIds \ {b.id} : operations[b.scope][id].state # "UNAVAILABLE"
  BY BindingFacts DEF GateInv, ReadyIsClear
<1> QED
  BY <1>1, <1>2, GateStore

LEMMA GateConflict ==
    ASSUME TypeInv, GateInv, NEW scopes, Conflict(scopes)
    PROVE  GateInv'
BY DEF Conflict, Opened, GateInv, ReadyIsClear, Unopened

\* The gate after a cancellation or a receipt within the range of amounts.
LEMMA GateResolved ==
    ASSUME TypeInv, GateInv, NEW b \in Bindings, NEW tokens, NEW new, Store(b, new),
           Operation(b).binding = b, new.state # "UNAVAILABLE",
           gate' = [gate EXCEPT ![b.scope] = Resolved(b, tokens)], UNCHANGED qualified
    PROVE  GateInv'
<1> DEFINE g == Resolved(b, tokens)
<1>1. gate[b.scope] # "UNOPENED"
  BY ReservedOpened DEF GateInv
<1>2. g # "UNOPENED"
  BY <1>1 DEF Resolved, Broken
<1>3. ASSUME g = "READY"
      PROVE  /\ qualified[b.scope]
             /\ \A id \in OperationIds \ {b.id} :
                  operations[b.scope][id].state # "UNAVAILABLE"
  <2>1. \/ gate[b.scope] = "READY"
        \/ /\ qualified[b.scope]
           /\ {id \in OperationIds \ {b.id} :
                 operations[b.scope][id].state = "UNAVAILABLE"} = {}
    BY <1>3 DEF Resolved, Broken
  <2>2. CASE gate[b.scope] = "READY"
    BY <2>2, BindingFacts DEF GateInv, ReadyIsClear
  <2> QED
    BY <2>1, <2>2
<1> HIDE DEF g
<1> QED
  BY <1>2, <1>3, GateStore DEF g

LEMMA GateInit == Init => GateInv
BY DEF Init, GateInv, ReadyIsClear, Unopened

LEMMA GateOfStep ==
    ASSUME TypeInv, GateInv, NEW c \in Controllers, Step(c)
    PROVE  GateInv'
<1>1. ASSUME NEW b \in Bindings, Qualify(c, b) PROVE GateInv'
  BY <1>1 DEF Qualify, journal, scopeVars, GateInv, ReadyIsClear, Unopened
<1>2. ASSUME NEW tokens \in Amounts, Perform(c, tokens) PROVE GateInv'
  BY <1>2 DEF Perform, journal, scopeVars, GateInv, ReadyIsClear, Unopened
<1>3. CASE Recheck(c) \/ Abandon(c)
  BY <1>3 DEF Recheck, Abandon, journal, scopeVars, GateInv, ReadyIsClear, Unopened
<1>4. CASE ReserveChanged(c) \/ ReserveMismatch(c) \/ ReserveRival(c)
  BY <1>4, GateConflict DEF ReserveChanged, ReserveMismatch, ReserveRival, ReserveConflict
<1>5. ASSUME pc[c] # "idle" PROVE \E b \in Bindings : b = plan[c]
  BY <1>5 DEF TypeInv, ControlTyped, Calls
<1>6. CASE Reserve(c)
  <2>1. PICK b \in Bindings : b = plan[c]
    BY <1>5, <1>6 DEF Reserve
  <2> DEFINE new == [state |-> "RESERVED", binding |-> b, claimed |-> FALSE,
                     reservation |-> b.upper, actual |-> 0]
  <2>2. Store(b, new) /\ gate[b.scope] = "READY" /\ UNCHANGED <<gate, qualified>>
    BY <1>6, <2>1 DEF Reserve
  <2>3. new.state # "UNAVAILABLE"
    OBVIOUS
  <2> HIDE DEF new
  <2> QED
    BY <2>2, <2>3, GateKept
<1>7. CASE Claim(c)
  <2>1. PICK b \in Bindings : b = plan[c]
    BY <1>5, <1>7 DEF Claim
  <2> DEFINE new == [Operation(b) EXCEPT !.claimed = TRUE]
  <2>2. /\ Store(b, new) /\ gate[b.scope] = "READY" /\ UNCHANGED <<gate, qualified>>
        /\ Operation(b).state = "RESERVED"
    BY <1>7, <2>1 DEF Claim
  <2>3. Operation(b) \in OperationRecords
    BY BindingFacts DEF TypeInv, OperationsTyped, Operation
  <2>4. new.state # "UNAVAILABLE"
    BY <2>2, <2>3 DEF OperationRecords
  <2> HIDE DEF new
  <2> QED
    BY <2>2, <2>4, GateKept
<1>8. CASE NoteDispatch(c)
  <2>1. PICK b \in Bindings : b = plan[c]
    BY <1>5, <1>8 DEF NoteDispatch
  <2> DEFINE new == [Operation(b) EXCEPT !.state = "DISPATCHED"]
  <2>2. Store(b, new) /\ UNCHANGED <<gate, qualified>> /\ Operation(b).claimed
    BY <1>8, <2>1 DEF NoteDispatch, Notable
  <2>3. Operation(b) \in OperationRecords
    BY BindingFacts DEF TypeInv, OperationsTyped, Operation
  <2>4. new.state # "UNAVAILABLE"
    BY <2>3 DEF OperationRecords
  <2>5. gate[b.scope] # "UNOPENED"
    BY <2>2, BindingFacts DEF GateInv, Unopened, Operation, NotReserved
  <2> HIDE DEF new
  <2> QED
    BY <2>2, <2>4, <2>5, GateKept
<1>9. CASE NoteUnavailable(c)
  <2>1. PICK b \in Bindings : b = plan[c]
    BY <1>5, <1>9 DEF NoteUnavailable
  <2> DEFINE new == [Operation(b) EXCEPT !.state = "UNAVAILABLE"]
             g == Blocked(gate[b.scope])
  <2>2. /\ Store(b, new) /\ gate' = [gate EXCEPT ![b.scope] = g]
        /\ UNCHANGED qualified
    BY <1>9, <2>1 DEF NoteUnavailable
  <2>3. g # "UNOPENED" /\ g # "READY"
    BY DEF Blocked
  <2> HIDE DEF new, g
  <2> QED
    BY <2>2, <2>3, GateStore
<1> QED
  BY <1>1, <1>2, <1>3, <1>4, <1>6, <1>7, <1>8, <1>9 DEF Step

LEMMA GateOfScopeStep ==
    ASSUME TypeInv, GateInv, NEW s \in Scopes, ScopeStep(s)
    PROVE  GateInv'
<1>1. ASSUME NEW o \in Openings, OpenScope(s, o) PROVE GateInv'
  <2> DEFINE keys == {SourceKey(e) : e \in o.covered}
  <2>1. /\ operations' = operations
        /\ \A id \in OperationIds : operations[s][id] = NotReserved
    BY <1>1 DEF OpenScope, OpenWith, GateInv, Unopened, Opened
  <2>2. CASE Rivals(keys, s, o) = {}
    <3>1. /\ gate' = [gate EXCEPT ![s] = IF o.known THEN "READY" ELSE "INCOMPLETE"]
          /\ qualified' = [qualified EXCEPT ![s] = o.known]
      BY <1>1, <2>2 DEF OpenScope, OpenWith
    <3>2. /\ gate'[s] = IF o.known THEN "READY" ELSE "INCOMPLETE"
          /\ qualified'[s] = o.known /\ o.known \in BOOLEAN
          /\ \A x \in Scopes \ {s} : gate'[x] = gate[x] /\ qualified'[x] = qualified[x]
      BY <3>1, OpeningsAssumption DEF TypeInv, GateTyped
    <3>3. NotReserved.state # "UNAVAILABLE"
      BY DEF NotReserved
    <3>4. ReadyIsClear'
      BY <2>1, <3>2, <3>3 DEF GateInv, ReadyIsClear
    <3>5. Unopened'
      BY <2>1, <3>2 DEF GateInv, Unopened
    <3> QED
      BY <3>4, <3>5 DEF GateInv
  <2>3. CASE Rivals(keys, s, o) # {}
    <3>1. PICK rival \in Rivals(keys, s, o) :
            /\ gate' = [gate EXCEPT ![s] = "CONFLICT", ![rival.scope] = "CONFLICT"]
            /\ qualified' = [qualified EXCEPT ![s] = FALSE, ![rival.scope] = FALSE]
      BY <1>1, <2>3 DEF OpenScope, OpenWith
    <3> QED
      BY <2>1, <3>1 DEF TypeInv, GateTyped, GateInv, ReadyIsClear, Unopened
  <2> QED
    BY <2>2, <2>3
<1>2. ASSUME NEW o \in Openings, OpenAgain(s, o) PROVE GateInv'
  BY <1>2, GateConflict DEF OpenAgain
<1>3. CASE Rebuild(s)
  <2>1. gate' = [gate EXCEPT ![s] = Blocked(gate[s])] /\ qualified' = qualified
    BY <1>3 DEF Rebuild
  <2>2. \A x \in Scopes \ {s} : operations'[x] = operations[x]
    BY <1>3 DEF Rebuild, TypeInv, OperationsTyped
  <2>3. gate'[s] # "READY" /\ gate'[s] # "UNOPENED"
    BY <2>1 DEF TypeInv, GateTyped, Blocked
  <2> QED
    BY <2>1, <2>2, <2>3 DEF TypeInv, GateTyped, GateInv, ReadyIsClear, Unopened
<1> QED
  BY <1>1, <1>2, <1>3 DEF ScopeStep

LEMMA GateOfResolution ==
    ASSUME TypeInv, GateInv, Resolution
    PROVE  GateInv'
<1>1. ASSUME NEW b \in Bindings, CancelWithoutDispatch(b) PROVE GateInv'
  <2> DEFINE new == [Operation(b) EXCEPT !.state = "CANCELLED_WITH_NO_DISPATCH_PROOF",
                                         !.reservation = 0, !.actual = 0]
  <2>1. /\ Store(b, new) /\ Operation(b).binding = b /\ UNCHANGED qualified
        /\ gate' = [gate EXCEPT ![b.scope] = Resolved(b, 0)]
    BY <1>1 DEF CancelWithoutDispatch, Finished
  <2>2. Operation(b) \in OperationRecords
    BY BindingFacts DEF TypeInv, OperationsTyped, Operation
  <2>3. new.state # "UNAVAILABLE"
    BY <2>2 DEF OperationRecords
  <2> HIDE DEF new
  <2> QED
    BY <2>1, <2>3, GateResolved
<1>2. ASSUME NEW r \in Receipts, SettleConflict(r) PROVE GateInv'
  BY <1>2, GateConflict DEF SettleConflict
<1>3. ASSUME NEW r \in Receipts, SettleOverflow(r) PROVE GateInv'
  <2>1. PICK b \in Bindings : b = r.binding
    BY <1>3 DEF Receipts
  <2> DEFINE new == [Operation(b) EXCEPT !.state = "UNAVAILABLE"]
             g == Broken(gate[b.scope])
  <2>2. /\ Store(b, new) /\ gate' = [gate EXCEPT ![b.scope] = g]
        /\ qualified' = [qualified EXCEPT ![b.scope] = FALSE]
    BY <1>3, <2>1 DEF SettleOverflow
  <2>3. g # "UNOPENED" /\ g # "READY"
    BY DEF Broken
  <2>4. \A s \in Scopes \ {b.scope} : qualified'[s] = qualified[s]
    BY <2>2 DEF TypeInv, GateTyped
  <2> HIDE DEF new, g
  <2> QED
    BY <2>2, <2>3, <2>4, GateStore
<1>4. ASSUME NEW r \in Receipts, Settle(r) PROVE GateInv'
  <2>1. PICK b \in Bindings : b = r.binding
    BY <1>4 DEF Receipts
  <2> DEFINE new == [Operation(b) EXCEPT !.state = "SETTLED", !.reservation = 0,
                                         !.actual = r.tokens]
  <2>2. /\ Store(b, new) /\ Operation(b).binding = b /\ UNCHANGED qualified
        /\ gate' = [gate EXCEPT ![b.scope] = Resolved(b, r.tokens)]
    BY <1>4, <2>1 DEF Settle, Finished, Chargeable
  <2>3. Operation(b) \in OperationRecords
    BY BindingFacts DEF TypeInv, OperationsTyped, Operation
  <2>4. new.state # "UNAVAILABLE"
    BY <2>3 DEF OperationRecords
  <2> HIDE DEF new
  <2> QED
    BY <2>2, <2>4, GateResolved
<1> QED
  BY <1>1, <1>2, <1>3, <1>4 DEF Resolution

LEMMA GateStep == TypeInv /\ GateInv /\ [Next]_vars => GateInv'
<1>1. ASSUME GateInv, UNCHANGED vars PROVE GateInv'
  BY <1>1 DEF vars, journal, scopeVars, GateInv, ReadyIsClear, Unopened
<1> QED
  BY <1>1, GateOfStep, GateOfScopeStep, GateOfResolution DEF Next

(***************************************************************************)
(* A scope that admits work is qualified and free of uncertain outcomes.   *)
(***************************************************************************)
THEOREM ReadyMeansClear == Spec => []ReadyIsClear
<1>1. GateInv => ReadyIsClear
  BY DEF GateInv
<1> QED
  BY <1>1, TypeInvariant, GateInit, GateStep, PTL DEF Spec

(***************************************************************************)
(* What a step may do to a closed scope.  Only Reserve takes an operation  *)
(* from NONE and only Claim sets claimed, and both need the gate READY;    *)
(* every other step stores over a reservation and keeps its claim.         *)
(***************************************************************************)
GateStays(s) ==
    /\ gate[s] = "CONFLICT" => gate'[s] = "CONFLICT"
    /\ gate[s] = "BOUND_BROKEN" => gate'[s] \in {"BOUND_BROKEN", "CONFLICT"}

NothingStarts(s) ==
    \A id \in OperationIds :
        /\ operations[s][id].state = "NONE" => operations'[s][id].state = "NONE"
        /\ operations'[s][id].claimed = operations[s][id].claimed

StaysShut ==
    \A s \in Scopes :
        /\ GateStays(s)
        /\ gate[s] \in {"BOUND_BROKEN", "CONFLICT"} => NothingStarts(s)

LEMMA ShutUntouched ==
    ASSUME UNCHANGED <<gate, operations>>
    PROVE  StaysShut
BY DEF StaysShut, GateStays, NothingStarts

LEMMA ShutConflict ==
    ASSUME TypeInv, NEW scopes, Conflict(scopes)
    PROVE  StaysShut
BY DEF TypeInv, GateTyped, Conflict, Opened, StaysShut, GateStays, NothingStarts

\* A step that stores one operation: nothing starts unless its scope is READY.
LEMMA ShutStore ==
    ASSUME TypeInv, NEW b \in Bindings, NEW new, Store(b, new),
           NEW g, gate' = [gate EXCEPT ![b.scope] = g],
           gate[b.scope] = "CONFLICT" => g = "CONFLICT",
           gate[b.scope] = "BOUND_BROKEN" => g \in {"BOUND_BROKEN", "CONFLICT"},
           \/ gate[b.scope] = "READY"
           \/ Operation(b).state # "NONE" /\ new.claimed = Operation(b).claimed
    PROVE  StaysShut
<1>1. \A s \in Scopes, id \in OperationIds :
        operations'[s][id] = IF s = b.scope /\ id = b.id THEN new ELSE operations[s][id]
  BY StoreEffect DEF TypeInv
<1>2. \A s \in Scopes : gate'[s] = IF s = b.scope THEN g ELSE gate[s]
  BY BindingFacts DEF TypeInv, GateTyped
<1>3. ASSUME NEW s \in Scopes PROVE GateStays(s)
  BY <1>2 DEF GateStays
<1>4. ASSUME NEW s \in Scopes, gate[s] \in {"BOUND_BROKEN", "CONFLICT"}
      PROVE  NothingStarts(s)
  BY <1>1, <1>4 DEF NothingStarts, Operation
<1> QED
  BY <1>3, <1>4 DEF StaysShut

LEMMA ShutOfStep ==
    ASSUME TypeInv, NEW c \in Controllers, Step(c)
    PROVE  StaysShut
<1>1. ASSUME NEW b \in Bindings, Qualify(c, b) PROVE StaysShut
  BY <1>1, ShutUntouched DEF Qualify, journal, scopeVars
<1>2. ASSUME NEW tokens \in Amounts, Perform(c, tokens) PROVE StaysShut
  BY <1>2, ShutUntouched DEF Perform, journal, scopeVars
<1>3. CASE Recheck(c) \/ Abandon(c)
  BY <1>3, ShutUntouched DEF Recheck, Abandon, journal, scopeVars
<1>4. CASE ReserveChanged(c) \/ ReserveMismatch(c) \/ ReserveRival(c)
  BY <1>4, ShutConflict DEF ReserveChanged, ReserveMismatch, ReserveRival, ReserveConflict
<1>5. CASE Reserve(c) \/ Claim(c) \/ NoteDispatch(c)
  <2>1. PICK b \in Bindings : b = plan[c]
    BY <1>5 DEF Reserve, Claim, NoteDispatch, TypeInv, ControlTyped, Calls
  <2>2. Operation(b) \in OperationRecords
    BY BindingFacts DEF TypeInv, OperationsTyped, Operation
  <2>3. PICK new :
          /\ Store(b, new)
          /\ \/ gate[b.scope] = "READY"
             \/ new = [Operation(b) EXCEPT !.state = "DISPATCHED"] /\ Operation(b).state # "NONE"
    BY <1>5, <2>1 DEF Reserve, Claim, NoteDispatch, Notable
  <2>4. \/ gate[b.scope] = "READY"
        \/ Operation(b).state # "NONE" /\ new.claimed = Operation(b).claimed
    BY <2>2, <2>3 DEF OperationRecords
  <2>5. gate' = [gate EXCEPT ![b.scope] = gate[b.scope]]
    BY <1>5 DEF Reserve, Claim, NoteDispatch, TypeInv, GateTyped
  <2> QED
    BY <2>3, <2>4, <2>5, ShutStore
<1>6. CASE NoteUnavailable(c)
  <2>1. PICK b \in Bindings : b = plan[c]
    BY <1>6 DEF NoteUnavailable, TypeInv, ControlTyped, Calls
  <2>2. Operation(b) \in OperationRecords
    BY BindingFacts DEF TypeInv, OperationsTyped, Operation
  <2> DEFINE new == [Operation(b) EXCEPT !.state = "UNAVAILABLE"]
             g == Blocked(gate[b.scope])
  <2>3. /\ Store(b, new) /\ Operation(b).state # "NONE"
        /\ gate' = [gate EXCEPT ![b.scope] = g]
    BY <1>6, <2>1 DEF NoteUnavailable, Notable
  <2>4. new.claimed = Operation(b).claimed
    BY <2>2 DEF OperationRecords
  <2>5. /\ gate[b.scope] = "CONFLICT" => g = "CONFLICT"
        /\ gate[b.scope] = "BOUND_BROKEN" => g \in {"BOUND_BROKEN", "CONFLICT"}
    BY DEF Blocked
  <2> HIDE DEF new, g
  <2> QED
    BY <2>3, <2>4, <2>5, ShutStore
<1> QED
  BY <1>1, <1>2, <1>3, <1>4, <1>5, <1>6 DEF Step

LEMMA ShutOfScopeStep ==
    ASSUME TypeInv, NEW s \in Scopes, ScopeStep(s)
    PROVE  StaysShut
<1>1. ASSUME NEW o \in Openings, OpenScope(s, o) PROVE StaysShut
  <2> DEFINE rivals == Rivals({SourceKey(e) : e \in o.covered}, s, o)
  <2>1. operations' = operations /\ gate[s] = "UNOPENED"
    BY <1>1 DEF OpenScope, OpenWith, Opened
  <2>2. \/ gate' = [gate EXCEPT ![s] = IF o.known THEN "READY" ELSE "INCOMPLETE"]
        \/ \E rival \in rivals :
             gate' = [gate EXCEPT ![s] = "CONFLICT", ![rival.scope] = "CONFLICT"]
    BY <1>1 DEF OpenScope, OpenWith
  <2> HIDE DEF rivals
  <2>3. \A x \in Scopes : GateStays(x)
    BY <2>1, <2>2 DEF TypeInv, GateTyped, GateStays
  <2> QED
    BY <2>1, <2>3 DEF StaysShut, NothingStarts
<1>2. ASSUME NEW o \in Openings, OpenAgain(s, o) PROVE StaysShut
  BY <1>2, ShutConflict DEF OpenAgain
<1>3. CASE Rebuild(s)
  <2>1. gate' = [gate EXCEPT ![s] = Blocked(gate[s])]
    BY <1>3 DEF Rebuild
  <2>2. \A x \in Scopes : GateStays(x)
    BY <2>1 DEF TypeInv, GateTyped, GateStays, Blocked
  <2>3. ASSUME NEW x \in Scopes, NEW id \in OperationIds
        PROVE  /\ operations[x][id].state = "NONE" => operations'[x][id].state = "NONE"
               /\ operations'[x][id].claimed = operations[x][id].claimed
    <3>1. operations[x][id] \in OperationRecords
      BY DEF TypeInv, OperationsTyped
    <3>2. \/ operations'[x][id] = operations[x][id]
          \/ /\ operations'[x][id] = [operations[x][id] EXCEPT !.state = "UNAVAILABLE"]
             /\ operations[x][id].state \in {"RESERVED", "DISPATCHED"}
      BY <1>3 DEF Rebuild, Uncertain, TypeInv, OperationsTyped
    <3> QED
      BY <3>1, <3>2 DEF OperationRecords
  <2> QED
    BY <2>2, <2>3 DEF StaysShut, NothingStarts
<1> QED
  BY <1>1, <1>2, <1>3 DEF ScopeStep

LEMMA ShutOfResolution ==
    ASSUME TypeInv, Resolution
    PROVE  StaysShut
<1>1. ASSUME NEW r \in Receipts, SettleConflict(r) PROVE StaysShut
  BY <1>1, ShutConflict DEF SettleConflict
<1>2. ASSUME NEW b \in Bindings, CancelWithoutDispatch(b) PROVE StaysShut
  <2> DEFINE new == [Operation(b) EXCEPT !.state = "CANCELLED_WITH_NO_DISPATCH_PROOF",
                                         !.reservation = 0, !.actual = 0]
             g == Resolved(b, 0)
  <2>1. /\ Store(b, new) /\ Operation(b).state # "NONE"
        /\ gate' = [gate EXCEPT ![b.scope] = g]
    BY <1>2 DEF CancelWithoutDispatch, Finished
  <2>2. Operation(b) \in OperationRecords
    BY BindingFacts DEF TypeInv, OperationsTyped, Operation
  <2>3. new.claimed = Operation(b).claimed
    BY <2>2 DEF OperationRecords
  <2>4. /\ gate[b.scope] = "CONFLICT" => g = "CONFLICT"
        /\ gate[b.scope] = "BOUND_BROKEN" => g \in {"BOUND_BROKEN", "CONFLICT"}
    BY DEF Resolved, Broken
  <2> HIDE DEF new, g
  <2> QED
    BY <2>1, <2>3, <2>4, ShutStore
<1>3. ASSUME NEW r \in Receipts, SettleOverflow(r) PROVE StaysShut
  <2>1. PICK b \in Bindings : b = r.binding
    BY <1>3 DEF Receipts
  <2> DEFINE new == [Operation(b) EXCEPT !.state = "UNAVAILABLE"]
             g == Broken(gate[b.scope])
  <2>2. Operation(b) \in OperationRecords /\ Operation(b).state # "NONE"
    BY <1>3, <2>1, ChargeableHeld DEF SettleOverflow
  <2>3. Store(b, new) /\ gate' = [gate EXCEPT ![b.scope] = g]
    BY <1>3, <2>1 DEF SettleOverflow
  <2>4. new.claimed = Operation(b).claimed
    BY <2>2 DEF OperationRecords
  <2>5. /\ gate[b.scope] = "CONFLICT" => g = "CONFLICT"
        /\ gate[b.scope] = "BOUND_BROKEN" => g \in {"BOUND_BROKEN", "CONFLICT"}
    BY DEF Broken
  <2> HIDE DEF new, g
  <2> QED
    BY <2>2, <2>3, <2>4, <2>5, ShutStore
<1>4. ASSUME NEW r \in Receipts, Settle(r) PROVE StaysShut
  <2>1. PICK b \in Bindings : b = r.binding
    BY <1>4 DEF Receipts
  <2> DEFINE new == [Operation(b) EXCEPT !.state = "SETTLED", !.reservation = 0,
                                         !.actual = r.tokens]
             g == Resolved(b, r.tokens)
  <2>2. Operation(b) \in OperationRecords /\ Operation(b).state # "NONE"
    BY <1>4, <2>1, ChargeableHeld DEF Settle
  <2>3. Store(b, new) /\ gate' = [gate EXCEPT ![b.scope] = g]
    BY <1>4, <2>1 DEF Settle, Finished
  <2>4. new.claimed = Operation(b).claimed
    BY <2>2 DEF OperationRecords
  <2>5. /\ gate[b.scope] = "CONFLICT" => g = "CONFLICT"
        /\ gate[b.scope] = "BOUND_BROKEN" => g \in {"BOUND_BROKEN", "CONFLICT"}
    BY DEF Resolved, Broken
  <2> HIDE DEF new, g
  <2> QED
    BY <2>2, <2>3, <2>4, <2>5, ShutStore
<1> QED
  BY <1>1, <1>2, <1>3, <1>4 DEF Resolution

(***************************************************************************)
(* A closed scope stays closed, and nothing starts in it.                  *)
(***************************************************************************)
THEOREM ClosedForGood == Spec => StaysClosed
<1>1. TypeInv /\ [Next]_vars => [StaysShut]_vars
  BY ShutOfStep, ShutOfScopeStep, ShutOfResolution DEF Next
<1>2. StaysShut <=>
        \A s \in Scopes :
          /\ gate[s] = "CONFLICT" => gate'[s] = "CONFLICT"
          /\ gate[s] = "BOUND_BROKEN" => gate'[s] \in {"BOUND_BROKEN", "CONFLICT"}
          /\ gate[s] \in {"BOUND_BROKEN", "CONFLICT"} =>
               \A id \in OperationIds :
                  /\ operations[s][id].state = "NONE" =>
                       operations'[s][id].state = "NONE"
                  /\ operations'[s][id].claimed = operations[s][id].claimed
  BY DEF StaysShut, GateStays, NothingStarts
<1> QED
  BY <1>1, <1>2, TypeInvariant, PTL DEF Spec, StaysClosed

(***************************************************************************)
(* Sums over finite sets.  A sum is the number of its units, so what is    *)
(* known of cardinalities holds of sums.                                   *)
(***************************************************************************)
\* One pair for every token of every amount.
Units(f, S) == {u \in S \X Nat : 1 <= u[2] /\ u[2] <= f[u[1]]}

Counts(f, S) == IsFiniteSet(S) /\ \A x \in S : f[x] \in Nat

LEMMA OneBlock ==
    ASSUME NEW f, NEW x, f[x] \in Nat
    PROVE  IsFiniteSet(Units(f, {x})) /\ Cardinality(Units(f, {x})) = f[x]
<1> DEFINE block == [n \in 1..f[x] |-> <<x, n>>]
<1>1. block \in Bijection(1..f[x], Units(f, {x}))
  <2>1. \A n \in 1..f[x] : block[n] \in Units(f, {x})
    BY DEF Units
  <2>2. \A m, n \in 1..f[x] : block[m] = block[n] => m = n
    OBVIOUS
  <2>3. ASSUME NEW u \in Units(f, {x}) PROVE \E n \in 1..f[x] : block[n] = u
    <3>1. u[1] = x /\ u[2] \in 1..f[x] /\ u = <<u[1], u[2]>>
      BY DEF Units
    <3> QED
      BY <3>1
  <2> QED
    BY <2>1, <2>2, <2>3 DEF Bijection, Injection, IsInjective, Surjection
<1>2. IsFiniteSet(1..f[x]) /\ Cardinality(1..f[x]) = f[x]
  BY FS_Interval
<1> HIDE DEF block
<1> QED
  BY <1>1, <1>2, FS_Bijection DEF ExistsBijection

LEMMA UnitsFinite ==
    ASSUME NEW f, NEW S, Counts(f, S)
    PROVE  IsFiniteSet(Units(f, S)) /\ Cardinality(Units(f, S)) \in Nat
<1> DEFINE blocks == {Units(f, {x}) : x \in S}
           blockOf == [x \in S |-> Units(f, {x})]
<1>1. IsFiniteSet(blocks)
  <2>1. blockOf \in Surjection(S, blocks)
    BY DEF Surjection
  <2> HIDE DEF blockOf, blocks
  <2> QED
    BY <2>1, FS_Surjection DEF Counts
<1>2. \A T \in blocks : IsFiniteSet(T)
  BY OneBlock DEF Counts
<1>3. Units(f, S) = UNION blocks
  BY DEF Units
<1> HIDE DEF blocks
<1>4. IsFiniteSet(Units(f, S))
  BY <1>1, <1>2, <1>3, FS_UNION
<1> QED
  BY <1>4, FS_CardinalityType

LEMMA UnitsSplit ==
    ASSUME NEW f, NEW S, NEW T, Counts(f, S), Counts(f, T), S \intersect T = {}
    PROVE  Cardinality(Units(f, S \union T)) = Cardinality(Units(f, S)) + Cardinality(Units(f, T))
<1>1. Units(f, S \union T) = Units(f, S) \union Units(f, T)
  BY DEF Units
<1>2. Units(f, S) \intersect Units(f, T) = {}
  BY DEF Units
<1>3. /\ IsFiniteSet(Units(f, S)) /\ Cardinality(Units(f, S)) \in Nat
      /\ IsFiniteSet(Units(f, T)) /\ Cardinality(Units(f, T)) \in Nat
  BY UnitsFinite
<1>4. Cardinality(Units(f, S) \intersect Units(f, T)) = 0
  BY <1>2, FS_EmptySet
<1>5. Cardinality(Units(f, S) \union Units(f, T))
        = Cardinality(Units(f, S)) + Cardinality(Units(f, T)) - 0
  BY <1>3, <1>4, FS_Union
<1>6. Cardinality(Units(f, S)) + Cardinality(Units(f, T)) - 0
        = Cardinality(Units(f, S)) + Cardinality(Units(f, T))
  BY <1>3
<1> QED
  BY <1>1, <1>5, <1>6

\* The recursion that MapThenSumSet chooses its function by.
Sums(g, f, S) ==
    g = [s \in SUBSET S |->
           IF s = {} THEN 0
           ELSE f[CHOOSE x \in s : TRUE] + g[s \ {CHOOSE x \in s : TRUE}]]

LEMMA UnitsSum ==
    ASSUME NEW f, NEW S, Counts(f, S)
    PROVE  Sums([s \in SUBSET S |-> Cardinality(Units(f, s))], f, S)
<1> DEFINE g == [s \in SUBSET S |-> Cardinality(Units(f, s))]
<1>1. ASSUME NEW s \in SUBSET S
      PROVE  g[s] = IF s = {} THEN 0
                    ELSE f[CHOOSE x \in s : TRUE] + g[s \ {CHOOSE x \in s : TRUE}]
  <2>1. CASE s = {}
    BY <2>1, FS_EmptySet DEF Units
  <2>2. CASE s # {}
    <3>1. PICK x \in s : x = CHOOSE y \in s : TRUE
      BY <2>2
    <3>2. Counts(f, s \ {x}) /\ Counts(f, {x})
      BY FS_Subset, FS_Singleton DEF Counts
    <3>3. s = (s \ {x}) \union {x} /\ (s \ {x}) \intersect {x} = {}
      OBVIOUS
    <3>4. Cardinality(Units(f, s)) = Cardinality(Units(f, s \ {x})) + Cardinality(Units(f, {x}))
      BY <3>2, <3>3, UnitsSplit
    <3>5. Cardinality(Units(f, {x})) = f[x] /\ f[x] \in Nat
      BY OneBlock DEF Counts
    <3>6. Cardinality(Units(f, s \ {x})) \in Nat
      BY <3>2, UnitsFinite
    <3>7. g[s] = f[x] + g[s \ {x}]
      BY <3>4, <3>5, <3>6
    <3> QED
      BY <2>2, <3>1, <3>7
  <2> QED
    BY <2>1, <2>2
<1> QED
  BY <1>1 DEF Sums

\* Where two functions by this recursion differ, they differ on a smaller set.
LEMMA SumsUnique ==
    ASSUME NEW f, NEW S, IsFiniteSet(S), NEW g, Sums(g, f, S), NEW h, Sums(h, f, S)
    PROVE  g[S] = h[S]
<1> DEFINE bad == {s \in SUBSET S : g[s] # h[s]}
<1> SUFFICES ASSUME bad # {} PROVE FALSE
  OBVIOUS
<1>1. PICK s \in bad : \A t \in bad : <<t, s>> \notin StrictSubsetOrdering(S)
  <2>1. IsWellFoundedOn(StrictSubsetOrdering(S), SUBSET S)
    BY FS_StrictSubsetOrderingWellFounded, FS_FiniteSubsetsOfFinite
  <2> HIDE DEF bad
  <2>2. bad \subseteq SUBSET S
    BY DEF bad
  <2> QED
    BY <2>1, <2>2, WFMin
<1>2. \A t \in SUBSET S :
         /\ g[t] = IF t = {} THEN 0 ELSE f[CHOOSE x \in t : TRUE] + g[t \ {CHOOSE x \in t : TRUE}]
         /\ h[t] = IF t = {} THEN 0 ELSE f[CHOOSE x \in t : TRUE] + h[t \ {CHOOSE x \in t : TRUE}]
  BY DEF Sums
<1>3. s # {}
  <2>1. s \in SUBSET S /\ g[s] # h[s]
    OBVIOUS
  <2> QED
    BY <1>2, <2>1
<1>4. PICK x \in s : x = CHOOSE y \in s : TRUE
  BY <1>3
<1>5. g[s \ {x}] # h[s \ {x}]
  <2>1. s \in SUBSET S /\ g[s] # h[s]
    OBVIOUS
  <2>2. g[s] = f[x] + g[s \ {x}] /\ h[s] = f[x] + h[s \ {x}]
    BY <1>2, <1>3, <1>4, <2>1
  <2> QED
    BY <2>1, <2>2
<1>6. s \ {x} \in bad /\ <<s \ {x}, s>> \in StrictSubsetOrdering(S)
  BY <1>5 DEF StrictSubsetOrdering
<1> QED
  BY <1>1, <1>6

LEMMA TotalCounts ==
    ASSUME NEW f, NEW S, Counts(f, S)
    PROVE  Total(f, S) = Cardinality(Units(f, S))
<1> DEFINE g == [s \in SUBSET S |-> Cardinality(Units(f, s))]
           h == CHOOSE k : Sums(k, f, S)
<1>1. Sums(g, f, S) /\ g[S] = Cardinality(Units(f, S))
  BY UnitsSum
<1> HIDE DEF g
<1>2. Sums(h, f, S)
  BY <1>1
<1>3. Total(f, S) = h[S]
  BY <1>1 DEF Total, MapThenSumSet, MapThenFoldSet, Sums
<1> HIDE DEF h
<1> QED
  BY <1>1, <1>2, <1>3, SumsUnique DEF Counts
LEMMA TotalNat ==
    ASSUME NEW f, NEW S, Counts(f, S)
    PROVE  Total(f, S) \in Nat
BY TotalCounts, UnitsFinite

LEMMA TotalOne ==
    ASSUME NEW f, NEW x, f[x] \in Nat
    PROVE  Counts(f, {x}) /\ Total(f, {x}) = f[x]
<1>1. Counts(f, {x})
  BY FS_Singleton DEF Counts
<1> QED
  BY <1>1, TotalCounts, OneBlock

LEMMA TotalEmpty ==
    ASSUME NEW f
    PROVE  Counts(f, {}) /\ Total(f, {}) = 0
<1>1. Counts(f, {}) /\ Units(f, {}) = {}
  BY FS_EmptySet DEF Counts, Units
<1> QED
  BY <1>1, TotalCounts, FS_EmptySet

\* The sum over two sets without a common element.
LEMMA TotalSplit ==
    ASSUME NEW f, NEW S, NEW T, Counts(f, S), Counts(f, T), S \intersect T = {}
    PROVE  Counts(f, S \union T) /\ Total(f, S \union T) = Total(f, S) + Total(f, T)
<1>1. Counts(f, S \union T)
  BY FS_Union DEF Counts
<1> QED
  BY <1>1, TotalCounts, UnitsSplit

\* One amount more.
LEMMA TotalAdd ==
    ASSUME NEW f, NEW S, Counts(f, S), NEW x, x \notin S, f[x] \in Nat
    PROVE  Counts(f, S \union {x}) /\ Total(f, S \union {x}) = Total(f, S) + f[x]
<1>1. Counts(f, {x}) /\ Total(f, {x}) = f[x]
  BY TotalOne
<1> DEFINE T == {x}
<1>2. S \intersect T = {}
  OBVIOUS
<1> HIDE DEF T
<1>3. Counts(f, S \union T) /\ Total(f, S \union T) = Total(f, S) + Total(f, T)
  BY <1>1, <1>2, TotalSplit DEF T
<1> QED
  BY <1>1, <1>3 DEF T

\* A sum depends on the amounts of its set only.
LEMMA TotalSame ==
    ASSUME NEW f, NEW g, NEW S, Counts(f, S), \A x \in S : g[x] = f[x]
    PROVE  Counts(g, S) /\ Total(g, S) = Total(f, S)
<1>1. Counts(g, S) /\ Units(g, S) = Units(f, S)
  BY DEF Counts, Units
<1> QED
  BY <1>1, TotalCounts

\* One amount changes.
LEMMA TotalChange ==
    ASSUME NEW f, NEW g, NEW S, Counts(f, S), NEW x \in S, g[x] \in Nat,
           \A y \in S \ {x} : g[y] = f[y]
    PROVE  Counts(g, S) /\ Total(g, S) + f[x] = Total(f, S) + g[x]
<1>1. Counts(f, S \ {x}) /\ f[x] \in Nat
  BY FS_Subset DEF Counts
<1>2. Counts(g, S \ {x}) /\ Total(g, S \ {x}) = Total(f, S \ {x})
  BY <1>1, TotalSame
<1>3. S = (S \ {x}) \union {x} /\ x \notin S \ {x}
  OBVIOUS
<1>4. Total(f, S) = Total(f, S \ {x}) + f[x]
  BY <1>1, <1>3, TotalAdd
<1>5. Counts(g, S) /\ Total(g, S) = Total(g, S \ {x}) + g[x]
  BY <1>2, <1>3, TotalAdd
<1>6. Total(f, S \ {x}) \in Nat
  BY <1>1, TotalNat
<1> QED
  BY <1>1, <1>2, <1>4, <1>5, <1>6

\* The amounts of S, one by one, are at most those of the elements of T that j
\* takes them to.
LEMMA TotalInto ==
    ASSUME NEW f, NEW S, Counts(f, S), NEW g, NEW T, Counts(g, T), NEW j,
           \A x \in S : f[x] > 0 => j[x] \in T /\ f[x] <= g[j[x]],
           \A x, y \in S : f[x] > 0 /\ f[y] > 0 /\ j[x] = j[y] => x = y
    PROVE  Total(f, S) <= Total(g, T)
<1> DEFINE move == [u \in Units(f, S) |-> <<j[u[1]], u[2]>>]
<1>1. move \in Injection(Units(f, S), Units(g, T))
  <2>1. ASSUME NEW u \in Units(f, S)
        PROVE  /\ u[1] \in S /\ u[2] \in Nat /\ u = <<u[1], u[2]>>
               /\ 1 <= u[2] /\ u[2] <= f[u[1]] /\ f[u[1]] \in Nat /\ f[u[1]] > 0
    BY DEF Units, Counts
  <2>2. ASSUME NEW u \in Units(f, S) PROVE move[u] \in Units(g, T)
    <3>1. j[u[1]] \in T /\ f[u[1]] <= g[j[u[1]]] /\ g[j[u[1]]] \in Nat
      BY <2>1 DEF Counts
    <3>2. u[2] <= g[j[u[1]]]
      BY <2>1, <3>1
    <3> QED
      BY <2>1, <3>1, <3>2 DEF Units
  <2>3. ASSUME NEW u \in Units(f, S), NEW v \in Units(f, S), move[u] = move[v]
        PROVE  u = v
    <3>1. j[u[1]] = j[v[1]] /\ u[2] = v[2]
      BY <2>3
    <3>2. u[1] = v[1]
      BY <2>1, <3>1
    <3> QED
      BY <2>1, <3>1, <3>2
  <2> QED
    BY <2>2, <2>3 DEF Injection, IsInjective
<1> HIDE DEF move
<1>2. IsFiniteSet(Units(f, S)) /\ IsFiniteSet(Units(g, T))
  BY UnitsFinite
<1> QED
  BY <1>1, <1>2, TotalCounts, FS_Injection

\* The sum over a part is at most the sum over the whole.
LEMMA TotalPart ==
    ASSUME NEW f, NEW S, Counts(f, S), NEW T \in SUBSET S
    PROVE  Counts(f, T) /\ Total(f, T) <= Total(f, S)
<1>1. Counts(f, T)
  BY FS_Subset DEF Counts
<1> DEFINE same == [x \in T |-> x]
<1>2. \A x \in T : f[x] > 0 => same[x] \in S /\ f[x] <= f[same[x]]
  BY DEF Counts
<1>3. \A x, y \in T : f[x] > 0 /\ f[y] > 0 /\ same[x] = same[y] => x = y
  OBVIOUS
<1> HIDE DEF same
<1> QED
  BY <1>1, <1>2, <1>3, TotalInto

\* The sum of sums.
LEMMA TotalBoth ==
    ASSUME NEW f, NEW g, NEW h, NEW S, Counts(f, S), Counts(g, S),
           \A x \in S : h[x] = f[x] + g[x]
    PROVE  Counts(h, S) /\ Total(h, S) = Total(f, S) + Total(g, S)
<1> DEFINE sum == [s \in SUBSET S |-> Total(f, s) + Total(g, s)]
           units == [s \in SUBSET S |-> Cardinality(Units(h, s))]
<1>1. Counts(h, S)
  BY DEF Counts
<1>2. Sums(units, h, S)
  BY <1>1, UnitsSum
<1>3. ASSUME NEW s \in SUBSET S
      PROVE  sum[s] = IF s = {} THEN 0
                      ELSE h[CHOOSE x \in s : TRUE] + sum[s \ {CHOOSE x \in s : TRUE}]
  <2>1. CASE s = {}
    <3>1. Total(f, s) = 0 /\ Total(g, s) = 0
      BY <2>1, TotalEmpty
    <3> QED
      BY <2>1, <3>1
  <2>2. CASE s # {}
    <3>1. PICK x \in s : x = CHOOSE y \in s : TRUE
      BY <2>2
    <3>2. s = (s \ {x}) \union {x} /\ x \notin s \ {x} /\ x \in S /\ s \ {x} \in SUBSET S
      OBVIOUS
    <3>3. Counts(f, s \ {x}) /\ Counts(g, s \ {x})
      BY <3>2, TotalPart
    <3>4. f[x] \in Nat /\ g[x] \in Nat
      BY <3>2 DEF Counts
    <3>5. Total(f, s) = Total(f, s \ {x}) + f[x] /\ Total(g, s) = Total(g, s \ {x}) + g[x]
      BY <3>2, <3>3, <3>4, TotalAdd
    <3>6. Total(f, s \ {x}) \in Nat /\ Total(g, s \ {x}) \in Nat
      BY <3>3, TotalNat
    <3>7. h[x] = f[x] + g[x]
      BY <3>2
    <3>8. sum[s] = h[x] + sum[s \ {x}]
      BY <3>4, <3>5, <3>6, <3>7
    <3> QED
      BY <2>2, <3>1, <3>8
  <2> QED
    BY <2>1, <2>2
<1>4. Sums(sum, h, S)
  BY <1>3 DEF Sums
<1>5. sum[S] = Total(f, S) + Total(g, S) /\ units[S] = Cardinality(Units(h, S))
  OBVIOUS
<1> HIDE DEF sum, units
<1> QED
  BY <1>1, <1>2, <1>4, <1>5, SumsUnique, TotalCounts DEF Counts

\* One amount grows.
LEMMA TotalMore ==
    ASSUME NEW f, NEW g, NEW S, Counts(f, S), NEW x \in S, NEW n \in Nat,
           g[x] = f[x] + n, \A y \in S \ {x} : g[y] = f[y]
    PROVE  Counts(g, S) /\ Total(g, S) = Total(f, S) + n
<1>1. f[x] \in Nat /\ g[x] \in Nat
  BY DEF Counts
<1>2. Counts(g, S) /\ Total(g, S) + f[x] = Total(f, S) + g[x]
  BY ONLY <1>1, TotalChange, Counts(f, S), x \in S, \A y \in S \ {x} : g[y] = f[y]
<1>3. Total(f, S) \in Nat /\ Total(g, S) \in Nat
  BY <1>2, TotalNat
<1> QED
  BY <1>1, <1>2, <1>3

\* An amount joins the sum.
LEMMA TotalNew ==
    ASSUME NEW f, NEW g, NEW S, Counts(f, S), NEW x, x \notin S, g[x] \in Nat,
           \A y \in S : g[y] = f[y]
    PROVE  Total(g, S \union {x}) = Total(f, S) + g[x]
<1>1. Counts(g, S) /\ Total(g, S) = Total(f, S)
  BY TotalSame
<1>2. Total(g, S \union {x}) = Total(g, S) + g[x]
  BY <1>1, TotalAdd
<1> QED
  BY <1>1, <1>2
-----------------------------------------------------------------------------
(***************************************************************************)
(* The ledger.  For any set W of owners: their spending is their opening   *)
(* and what their operations were charged (LedgerOf); while the effects    *)
(* stay within their bounds, what is left of their closeout shares and     *)
(* what their closeout operations hold or used is all of the shares        *)
(* (ShareOf); and once an operation of a run or a task is reserved, what   *)
(* is committed there is within the cap (CapsOf).  Only a reservation, a   *)
(* cancellation, a receipt and an opening change the books of a scope.     *)
(***************************************************************************)
CloseoutOf(s, W) == {id \in ReservationsOf(s, W) : operations[s][id].binding.closeout}

\* What an operation holds or has been charged.
Drawn(s) == [id \in OperationIds |-> Held(s)[id] + Charged(s)[id]]

Finality == {"SETTLED", "CANCELLED_WITH_NO_DISPATCH_PROOF"}

\* What is known of the records the sums are taken over.
Uncharged ==
    \A s \in Scopes, id \in OperationIds :
        operations[s][id].state # "SETTLED" => operations[s][id].actual = 0
OpeningKept == \A s \in Scopes : Opened(s) => opening[s] \in Openings
RowsOpened == \A row \in identities : Opened(row.scope)
SourceRows ==
    \A row \in identities : row.key[1] = "settlement" =>
        [row EXCEPT !.key = SourceKey(row.value.event)] \in identities
Unused == \A b \in Bindings : effects[b].times = 0 => effects[b].tokens = 0

RecordsInv == Uncharged /\ OpeningKept /\ RowsOpened /\ SourceRows /\ Unused

LedgerOf(s) ==
    \A W \in SUBSET Owners : Opened(s) =>
        Total(spent[s], W) = Total(opening[s].spent, W) + Total(Charged(s), ReservationsOf(s, W))
ShareOf(s) ==
    \A W \in SUBSET Owners : Opened(s) /\ EffectsWithin(s) =>
        Total(protected[s], W) + Total(Drawn(s), CloseoutOf(s, W)) = Total(Closeout, W)
CapsOf(s) ==
    EffectsWithin(s) =>
        /\ ReservationsOf(s, Owners) # {} => Committed(s, Owners) <= RunCap
        /\ \A t \in Tasks : ReservationsOf(s, {t}) # {} => Committed(s, {t}) <= TaskCap[t]

Books(s) == LedgerOf(s) /\ ShareOf(s) /\ CapsOf(s)
LedgerInv == \A s \in Scopes : Books(s)

\* The scope keeps its amounts and what its operations hold and were charged.
SameBooks(s) ==
    /\ Opened(s)' = Opened(s)
    /\ spent'[s] = spent[s] /\ protected'[s] = protected[s] /\ opening'[s] = opening[s]
    /\ \A id \in OperationIds :
        LET old == operations[s][id]
            new == operations'[s][id]
        IN  /\ new.binding = old.binding
            /\ new.reservation = old.reservation
            /\ new.actual = old.actual
            /\ new.state = "NONE" <=> old.state = "NONE"
            /\ new.state = "SETTLED" <=> old.state = "SETTLED"
NoBooks == \A s \in Scopes : SameBooks(s)

\* No effect gets smaller, nor gets tokens without being performed.
EffectsGrow ==
    \A b \in Bindings :
        /\ effects'[b].tokens >= effects[b].tokens
        /\ effects'[b].times >= effects[b].times
        /\ effects'[b] # effects[b] => effects'[b].times > 0

LEMMA FiniteOwners ==
    /\ IsFiniteSet(Owners) /\ IsFiniteSet(OperationIds)
    /\ \A W \in SUBSET Owners : IsFiniteSet(W)
    /\ \A R \in SUBSET OperationIds : IsFiniteSet(R)
<1>1. IsFiniteSet(Owners)
  BY PolicyAssumption, FS_AddElement DEF Owners
<1>2. IsFiniteSet(OperationIds)
  <2> DEFINE idOf == [b \in Bindings |-> b.id]
  <2>1. idOf \in Surjection(Bindings, OperationIds)
    BY DEF Surjection, OperationIds
  <2> HIDE DEF idOf
  <2> QED
    BY <2>1, BindingsAssumption, FS_Surjection
<1> QED
  BY <1>1, <1>2, FS_Subset

\* All amounts of a scope can be summed.
LEMMA AmountsCount ==
    ASSUME OperationsTyped, AmountsTyped, NEW s \in Scopes, NEW W \in SUBSET Owners,
           NEW R \in SUBSET OperationIds
    PROVE  /\ Counts(spent[s], W) /\ Counts(protected[s], W) /\ Counts(Closeout, W)
           /\ Counts(Held(s), R) /\ Counts(Charged(s), R) /\ Counts(Drawn(s), R)
<1>1. Counts(spent[s], W) /\ Counts(protected[s], W)
  BY FiniteOwners DEF AmountsTyped, Counts
<1>2. Counts(Closeout, W)
  BY FiniteOwners, PolicyAssumption DEF Counts
<1>3. \A id \in OperationIds : Held(s)[id] \in Nat /\ Charged(s)[id] \in Nat
  BY PolicyAssumption DEF OperationsTyped, OperationRecords, Held, Charged
<1>4. \A id \in OperationIds : Drawn(s)[id] \in Nat
  BY <1>3 DEF Drawn
<1>5. Counts(Held(s), R) /\ Counts(Charged(s), R) /\ Counts(Drawn(s), R)
  BY <1>3, <1>4, FiniteOwners DEF Counts
<1> QED
  BY <1>1, <1>2, <1>5

\* The balances of an opening can be summed.
LEMMA OpeningCounts ==
    ASSUME NEW o \in Openings, NEW W \in SUBSET Owners
    PROVE  Counts(o.spent, W)
BY FiniteOwners, OpeningsAssumption, PolicyAssumption DEF Counts

LEMMA SameBooksKept ==
    ASSUME NEW s \in Scopes, SameBooks(s), EffectsGrow, AmountsTyped, AmountsTyped', Books(s)
    PROVE  Books(s)'
<1>1. Held(s)' = Held(s) /\ Charged(s)' = Charged(s)
  BY DEF SameBooks, Held, Charged
<1>2. Drawn(s)' = Drawn(s)
  BY <1>1 DEF Drawn
<1>3. \A W : ReservationsOf(s, W)' = ReservationsOf(s, W)
  BY DEF SameBooks, ReservationsOf
<1>4. \A W : CloseoutOf(s, W)' = CloseoutOf(s, W)
  BY <1>3 DEF SameBooks, CloseoutOf, ReservationsOf
<1>5. EffectsWithin(s)' => EffectsWithin(s)
  <2> SUFFICES ASSUME EffectsWithin(s)', NEW b \in Bindings, b.scope = s
               PROVE  effects[b].tokens <= b.upper
    BY DEF EffectsWithin
  <2>1. effects'[b].tokens <= b.upper /\ effects[b].tokens <= effects'[b].tokens
    BY DEF EffectsWithin, EffectsGrow
  <2>2. effects[b].tokens \in Nat /\ effects'[b].tokens \in Nat /\ b.upper \in Nat
    BY BindingFacts DEF AmountsTyped
  <2> QED
    BY <2>1, <2>2
<1>6. spent'[s] = spent[s] /\ protected'[s] = protected[s] /\ opening'[s] = opening[s]
        /\ Opened(s)' = Opened(s)
  BY DEF SameBooks
<1>7. LedgerOf(s)'
  BY <1>1, <1>3, <1>6 DEF LedgerOf, Books
<1>8. ShareOf(s)'
  BY <1>2, <1>4, <1>5, <1>6 DEF ShareOf, Books
<1>9. \A W : Committed(s, W)' = Committed(s, W)
  BY <1>1, <1>3, <1>6 DEF Committed
<1>10. CapsOf(s)'
  BY <1>3, <1>5, <1>9 DEF CapsOf, Books
<1> QED
  BY <1>7, <1>8, <1>10 DEF Books

\* Opened as a state of the next step.
LEMMA OpenedNext == \A s \in Scopes : Opened(s)' <=> gate'[s] # "UNOPENED"
BY DEF Opened

LEMMA SameConflict ==
    ASSUME NEW scopes, Conflict(scopes)
    PROVE  NoBooks
BY DEF Conflict, NoBooks, SameBooks, Opened

LEMMA SameUntouched ==
    ASSUME UNCHANGED <<gate, opening, spent, protected, operations>>
    PROVE  NoBooks
BY DEF NoBooks, SameBooks, Opened

\* A step that stores an operation with the hold and the charge it had.
LEMMA SameStore ==
    ASSUME OperationsTyped, NEW b \in Bindings, NEW new, Store(b, new),
           UNCHANGED <<opening, spent, protected>>,
           \A s \in Scopes : Opened(s)' = Opened(s),
           new.binding = Operation(b).binding,
           new.reservation = Operation(b).reservation,
           new.actual = Operation(b).actual,
           new.state = "NONE" <=> Operation(b).state = "NONE",
           new.state = "SETTLED" <=> Operation(b).state = "SETTLED"
    PROVE  NoBooks
<1>1. \A s \in Scopes, id \in OperationIds :
        operations'[s][id] = IF s = b.scope /\ id = b.id THEN new ELSE operations[s][id]
  BY StoreEffect
<1> SUFFICES ASSUME NEW s \in Scopes PROVE SameBooks(s)
  BY DEF NoBooks
<1>2. ASSUME NEW id \in OperationIds
      PROVE  /\ operations'[s][id].binding = operations[s][id].binding
             /\ operations'[s][id].reservation = operations[s][id].reservation
             /\ operations'[s][id].actual = operations[s][id].actual
             /\ operations'[s][id].state = "NONE" <=> operations[s][id].state = "NONE"
             /\ operations'[s][id].state = "SETTLED" <=> operations[s][id].state = "SETTLED"
  <2>1. CASE s = b.scope /\ id = b.id
    BY <1>1, <2>1 DEF Operation
  <2>2. CASE ~(s = b.scope /\ id = b.id)
    BY <1>1, <2>2
  <2> QED
    BY <2>1, <2>2
<1> QED
  BY <1>2 DEF SameBooks

\* What is claimed is of an opened scope.
LEMMA ClaimedOpened ==
    ASSUME GateInv, NEW s \in Scopes, NEW id \in OperationIds, operations[s][id].claimed
    PROVE  gate[s] # "UNOPENED"
BY DEF GateInv, Unopened, NotReserved

LEMMA EffectsUntouched ==
    ASSUME AmountsTyped, UNCHANGED effects
    PROVE  EffectsGrow
<1>1. \A b \in Bindings : effects[b].tokens \in Nat /\ effects[b].times \in Nat
  BY DEF AmountsTyped
<1> QED
  BY <1>1 DEF EffectsGrow

\* The steps of a controller other than Reserve.
LEMMA SameOfStep ==
    ASSUME TypeInv, GateInv, NEW c \in Controllers, Step(c), ~Reserve(c)
    PROVE  NoBooks /\ EffectsGrow /\ UNCHANGED identities
<1>1. ASSUME NEW b \in Bindings, Qualify(c, b) PROVE NoBooks /\ EffectsGrow /\ UNCHANGED identities
  BY <1>1, SameUntouched, EffectsUntouched DEF Qualify, journal, scopeVars, TypeInv
<1>2. CASE ReserveChanged(c)
  BY <1>2, SameConflict, EffectsUntouched DEF ReserveChanged, ReserveConflict, Conflict, TypeInv
<1>3. CASE ReserveMismatch(c)
  BY <1>3, SameConflict, EffectsUntouched DEF ReserveMismatch, ReserveConflict, Conflict, TypeInv
<1>4. CASE ReserveRival(c)
  BY <1>4, SameConflict, EffectsUntouched DEF ReserveRival, ReserveConflict, Conflict, TypeInv
<1>5. CASE Claim(c)
  <2> DEFINE b == plan[c]
             new == [Operation(b) EXCEPT !.claimed = TRUE]
  <2>1. b \in Bindings
    BY <1>5, PlanOfCalled DEF Claim, TypeInv
  <2>2. Operation(b) \in OperationRecords
    BY <2>1, BindingFacts DEF TypeInv, OperationsTyped, Operation
  <2>3. Store(b, new) /\ UNCHANGED <<gate, opening, spent, protected, identities, effects>>
    BY <1>5 DEF Claim
  <2>4. /\ new.binding = Operation(b).binding /\ new.reservation = Operation(b).reservation
        /\ new.actual = Operation(b).actual /\ new.state = Operation(b).state
    BY <2>2 DEF OperationRecords
  <2> HIDE DEF b, new
  <2>5. NoBooks
    BY <2>1, <2>3, <2>4, SameStore DEF TypeInv, Opened
  <2> QED
    BY <2>3, <2>5, EffectsUntouched DEF TypeInv
<1>6. CASE Recheck(c)
  BY <1>6, SameUntouched, EffectsUntouched DEF Recheck, journal, scopeVars, TypeInv
<1>7. CASE NoteDispatch(c)
  <2> DEFINE b == plan[c]
             new == [Operation(b) EXCEPT !.state = "DISPATCHED"]
  <2>1. b \in Bindings
    BY <1>7, PlanOfCalled DEF NoteDispatch, TypeInv
  <2>2. Operation(b) \in OperationRecords
    BY <2>1, BindingFacts DEF TypeInv, OperationsTyped, Operation
  <2>3. /\ Store(b, new) /\ UNCHANGED <<gate, opening, spent, protected, identities, effects>>
        /\ Operation(b).state \in {"RESERVED", "UNAVAILABLE"}
    BY <1>7 DEF NoteDispatch, Notable
  <2>4. /\ new.binding = Operation(b).binding /\ new.reservation = Operation(b).reservation
        /\ new.actual = Operation(b).actual /\ new.state = "DISPATCHED"
    BY <2>2 DEF OperationRecords
  <2> HIDE DEF b, new
  <2>5. NoBooks
    BY <2>1, <2>3, <2>4, SameStore DEF TypeInv, Opened
  <2> QED
    BY <2>3, <2>5, EffectsUntouched DEF TypeInv
<1>8. ASSUME NEW tokens \in Amounts, Perform(c, tokens)
      PROVE  NoBooks /\ EffectsGrow /\ UNCHANGED identities
  <2>1. NoBooks /\ UNCHANGED identities
    BY <1>8, SameUntouched DEF Perform, journal, scopeVars
  <2>2. plan[c] \in Bindings
    BY <1>8, PlanOfCalled DEF Perform, TypeInv
  <2> SUFFICES ASSUME NEW b \in Bindings
               PROVE  /\ effects'[b].tokens >= effects[b].tokens
                      /\ effects'[b].times >= effects[b].times
                      /\ effects'[b] # effects[b] => effects'[b].times > 0
    BY <2>1 DEF EffectsGrow
  <2>3. effects[b].tokens \in Nat /\ effects[b].times \in Nat /\ tokens \in Nat
    BY PolicyAssumption DEF TypeInv, AmountsTyped
  <2>4. CASE b = plan[c]
    <3>1. /\ effects'[b].tokens = effects[b].tokens + tokens
          /\ effects'[b].times = effects[b].times + 1
      BY <1>8, <2>4 DEF Perform, TypeInv, AmountsTyped
    <3> QED
      BY <2>3, <3>1
  <2>5. CASE b # plan[c]
    <3>1. effects'[b] = effects[b]
      BY <1>8, <2>5 DEF Perform, TypeInv, AmountsTyped
    <3> QED
      BY <2>3, <3>1
  <2> QED
    BY <2>4, <2>5
<1>9. CASE NoteUnavailable(c)
  <2> DEFINE b == plan[c]
             new == [Operation(b) EXCEPT !.state = "UNAVAILABLE"]
  <2>1. b \in Bindings
    BY <1>9, PlanOfCalled DEF NoteUnavailable, TypeInv
  <2>2. Operation(b) \in OperationRecords
    BY <2>1, BindingFacts DEF TypeInv, OperationsTyped, Operation
  <2>3. /\ Store(b, new) /\ UNCHANGED <<opening, spent, protected, identities, effects>>
        /\ Operation(b).state \in {"RESERVED", "DISPATCHED"} /\ Operation(b).claimed
        /\ gate' = [gate EXCEPT ![b.scope] = Blocked(@)]
    BY <1>9 DEF NoteUnavailable, Notable
  <2>4. /\ new.binding = Operation(b).binding /\ new.reservation = Operation(b).reservation
        /\ new.actual = Operation(b).actual /\ new.state = "UNAVAILABLE"
    BY <2>2 DEF OperationRecords
  <2> HIDE DEF b, new
  <2>5. gate[b.scope] # "UNOPENED"
    BY <2>1, <2>3, BindingFacts, ClaimedOpened DEF Operation
  <2>6. \A s \in Scopes : Opened(s)' = Opened(s)
    BY <2>1, <2>3, <2>5, BindingFacts DEF Opened, TypeInv, GateTyped, Blocked
  <2>7. NoBooks
    BY <2>1, <2>3, <2>4, <2>6, SameStore DEF TypeInv
  <2> QED
    BY <2>3, <2>7, EffectsUntouched DEF TypeInv
<1>10. CASE Abandon(c)
  BY <1>10, SameUntouched, EffectsUntouched DEF Abandon, journal, scopeVars, TypeInv
<1> QED
  BY <1>1, <1>2, <1>3, <1>4, <1>5, <1>6, <1>7, <1>8, <1>9, <1>10 DEF Step

LEMMA SameOfRebuild ==
    ASSUME TypeInv, GateInv, NEW s \in Scopes, Rebuild(s)
    PROVE  NoBooks /\ EffectsGrow /\ UNCHANGED identities
<1>1. PICK id \in OperationIds : operations[s][id].claimed
  BY DEF Rebuild, Uncertain
<1>2. gate[s] # "UNOPENED"
  BY <1>1, ClaimedOpened
<1>3. \A r \in Scopes : Opened(r)' = Opened(r)
  BY <1>2 DEF Rebuild, Blocked, Opened, TypeInv, GateTyped
<1>4. ASSUME NEW r \in Scopes, NEW i \in OperationIds
      PROVE  /\ operations'[r][i].binding = operations[r][i].binding
             /\ operations'[r][i].reservation = operations[r][i].reservation
             /\ operations'[r][i].actual = operations[r][i].actual
             /\ operations'[r][i].state = "NONE" <=> operations[r][i].state = "NONE"
             /\ operations'[r][i].state = "SETTLED" <=> operations[r][i].state = "SETTLED"
  <2>1. operations[r][i] \in OperationRecords
    BY DEF TypeInv, OperationsTyped
  <2>2. CASE r = s /\ i \in Uncertain(s)
    <3>1. operations'[r][i] = [operations[r][i] EXCEPT !.state = "UNAVAILABLE"]
      BY <2>2 DEF Rebuild, TypeInv, OperationsTyped
    <3>2. operations[r][i].state \in {"RESERVED", "DISPATCHED"}
      BY <2>2 DEF Uncertain
    <3> QED
      BY <2>1, <3>1, <3>2 DEF OperationRecords
  <2>3. CASE ~(r = s /\ i \in Uncertain(s))
    <3>1. operations'[r][i] = operations[r][i]
      BY <2>3 DEF Rebuild, TypeInv, OperationsTyped
    <3> QED
      BY <3>1
  <2> QED
    BY <2>2, <2>3
<1>5. UNCHANGED <<opening, spent, protected, identities, effects>>
  BY DEF Rebuild
<1>6. NoBooks
  BY <1>3, <1>4, <1>5 DEF NoBooks, SameBooks
<1> QED
  BY <1>5, <1>6, EffectsUntouched DEF TypeInv

LEMMA SameOfOverflow ==
    ASSUME TypeInv, GateInv, NEW r \in Receipts, SettleOverflow(r)
    PROVE  NoBooks /\ EffectsGrow
<1> DEFINE b == r.binding
           new == [Operation(b) EXCEPT !.state = "UNAVAILABLE"]
<1>1. /\ b \in Bindings /\ Operation(b) \in OperationRecords
      /\ Operation(b).claimed /\ Operation(b).binding = b
      /\ Operation(b).state \in {"RESERVED", "DISPATCHED", "UNAVAILABLE"}
  BY ChargeableHeld DEF SettleOverflow
<1>2. /\ Store(b, new) /\ UNCHANGED <<opening, spent, protected, effects>>
      /\ gate' = [gate EXCEPT ![b.scope] = Broken(@)]
  BY DEF SettleOverflow
<1>3. /\ new.binding = Operation(b).binding /\ new.reservation = Operation(b).reservation
      /\ new.actual = Operation(b).actual /\ new.state = "UNAVAILABLE"
  BY <1>1 DEF OperationRecords
<1> HIDE DEF b, new
<1>4. gate[b.scope] # "UNOPENED"
  BY <1>1, ReservedOpened DEF GateInv
<1>5. \A s \in Scopes : Opened(s)' = Opened(s)
  BY <1>1, <1>2, <1>4, BindingFacts DEF Opened, TypeInv, GateTyped, Broken
<1>6. NoBooks
  BY <1>1, <1>2, <1>3, <1>5, SameStore DEF TypeInv
<1> QED
  BY <1>2, <1>6, EffectsUntouched DEF TypeInv

(***************************************************************************)
(* The records.                                                            *)
(***************************************************************************)
LEMMA RecordsSame ==
    ASSUME RecordsInv, AmountsTyped, RowsTyped, NoBooks, EffectsGrow, UNCHANGED identities
    PROVE  RecordsInv'
<1>1. Uncharged'
  BY DEF RecordsInv, Uncharged, NoBooks, SameBooks
<1>2. OpeningKept'
  BY DEF RecordsInv, OpeningKept, NoBooks, SameBooks
<1>3. RowsOpened'
  BY DEF RecordsInv, RowsOpened, RowsTyped, NoBooks, SameBooks
<1>4. SourceRows'
  BY DEF RecordsInv, SourceRows
<1>5. Unused'
  <2> SUFFICES ASSUME NEW b \in Bindings, effects'[b].times = 0 PROVE effects'[b].tokens = 0
    BY DEF Unused
  <2>1. effects'[b] = effects[b]
    BY DEF EffectsGrow
  <2> QED
    BY <2>1 DEF RecordsInv, Unused
<1> QED
  BY <1>1, <1>2, <1>3, <1>4, <1>5 DEF RecordsInv

\* New rows of an opened scope that are not settlement rows.
LEMMA PlainRows ==
    ASSUME RowsOpened, SourceRows, \A r \in Scopes : Opened(r) => Opened(r)', RowsTyped,
           NEW s \in Scopes, Opened(s)', NEW keys, NEW value, Take(keys, s, value),
           \A k \in keys : k[1] # "settlement"
    PROVE  RowsOpened' /\ SourceRows'
<1>1. RowsOpened'
  BY DEF RowsOpened, RowsTyped, Take
<1>2. SourceRows'
  <2> SUFFICES ASSUME NEW row \in identities', row.key[1] = "settlement"
               PROVE  [row EXCEPT !.key = SourceKey(row.value.event)] \in identities'
    BY DEF SourceRows, SourceKey
  <2>1. row \in identities /\ identities \subseteq identities'
    BY DEF Take
  <2> QED
    BY <2>1 DEF SourceRows, SourceKey
<1> QED
  BY <1>1, <1>2

\* The rows of a receipt.
LEMMA ReceiptRows ==
    ASSUME RowsOpened, SourceRows, \A r \in Scopes : Opened(r) => Opened(r)', RowsTyped,
           NEW r \in Receipts, r.binding.scope \in Scopes, Opened(r.binding.scope)', TakeReceipt(r)
    PROVE  RowsOpened' /\ SourceRows'
<1>1. RowsOpened'
  BY DEF RowsOpened, RowsTyped, Take, TakeReceipt
<1>2. SourceRows'
  <2> SUFFICES ASSUME NEW row \in identities', row.key[1] = "settlement"
               PROVE  [row EXCEPT !.key = SourceKey(row.value.event)] \in identities'
    BY DEF SourceRows, SourceKey
  <2>1. CASE row \in identities
    BY <2>1 DEF SourceRows, SourceKey, Take, TakeReceipt
  <2>2. CASE row \notin identities
    <3>1. PICK k \in {SettlementKey(r.binding), SourceKey(r.event)} :
            row = [key |-> k, scope |-> r.binding.scope, value |-> r]
      BY <2>2 DEF Take, TakeReceipt
    <3>2. [row EXCEPT !.key = SourceKey(row.value.event)]
            = [key |-> SourceKey(r.event), scope |-> r.binding.scope, value |-> r]
      BY <3>1
    <3> QED
      BY <3>2 DEF Take, TakeReceipt
  <2> QED
    BY <2>1, <2>2
<1> QED
  BY <1>1, <1>2

LEMMA RecordsInit == Init => RecordsInv
<1> SUFFICES ASSUME Init PROVE RecordsInv
  OBVIOUS
<1>1. Uncharged
  BY DEF Init, Uncharged, NotReserved
<1>2. OpeningKept /\ RowsOpened /\ SourceRows /\ Unused
  BY DEF Init, OpeningKept, RowsOpened, SourceRows, Unused, Opened
<1> QED
  BY <1>1, <1>2 DEF RecordsInv

LEMMA UnchargedStore ==
    ASSUME OperationsTyped, Uncharged, NEW b \in Bindings, NEW new, Store(b, new),
           new.state # "SETTLED" => new.actual = 0
    PROVE  Uncharged'
BY StoreEffect DEF Uncharged

\* What a reservation starts from.
LEMMA ReserveFacts ==
    ASSUME TypeInv, NEW c \in Controllers, Reserve(c)
    PROVE  /\ plan[c] \in Bindings
           /\ Operation(plan[c]) = NotReserved
           /\ Opened(plan[c].scope)
<1>1. plan[c] \in Bindings
  BY PlanOfCalled DEF Reserve, TypeInv
<1>2. Operation(plan[c]) = NotReserved
  BY <1>1, BindingFacts DEF Reserve, TypeInv, OperationsTyped, Reservation, Operation
<1>3. Opened(plan[c].scope)
  BY DEF Reserve, Opened
<1> QED
  BY <1>1, <1>2, <1>3

LEMMA RecordsOfReserve ==
    ASSUME TypeInv, RecordsInv, NEW c \in Controllers, Reserve(c)
    PROVE  RecordsInv'
<1>1. PICK b \in Bindings : b = plan[c] /\ Opened(b.scope)
  BY ReserveFacts
<1>2. /\ Store(b, [state |-> "RESERVED", binding |-> b, claimed |-> FALSE,
                   reservation |-> b.upper, actual |-> 0])
      /\ Take(ReservationKeys(b), b.scope, b)
      /\ UNCHANGED <<gate, opening, effects>>
  BY <1>1 DEF Reserve
<1>3. Uncharged'
  BY <1>1, <1>2, UnchargedStore DEF TypeInv, RecordsInv
<1>4. OpeningKept' /\ Unused'
  BY <1>2 DEF RecordsInv, OpeningKept, Unused, Opened
<1>5. \A k \in ReservationKeys(b) : k[1] # "settlement"
  BY DEF ReservationKeys, DispatchKey, PermitKey
<1>6. b.scope \in Scopes
  BY <1>1, BindingFacts
<1>7. Opened(b.scope)' /\ \A r \in Scopes : Opened(r) => Opened(r)'
  BY <1>1, <1>2 DEF Opened
<1>8. RowsOpened' /\ SourceRows'
  BY <1>2, <1>5, <1>6, <1>7, PlainRows DEF TypeInv, RecordsInv
<1> QED
  BY <1>3, <1>4, <1>8 DEF RecordsInv

\* The gates and the opening balances after OpenScope: only scopes that were
\* opened before are marked beside it.
LEMMA OpenedBy ==
    ASSUME TypeInv, RecordsInv, NEW s \in Scopes, NEW o \in Openings, OpenScope(s, o)
    PROVE  /\ ~Opened(s) /\ Opened(s)'
           /\ \A r \in Scopes \ {s} : Opened(r)' = Opened(r)
           /\ \A r \in Scopes : opening'[r] = IF r = s THEN o ELSE opening[r]
           /\ \A r \in Scopes : spent'[r] = IF r = s THEN o.spent ELSE spent[r]
           /\ \A r \in Scopes : protected'[r] = IF r = s THEN Closeout ELSE protected[r]
           /\ UNCHANGED <<operations, effects>>
           /\ UNCHANGED identities \/ Take({SourceKey(e) : e \in o.covered}, s, o)
<1> DEFINE rivals == Rivals({SourceKey(e) : e \in o.covered}, s, o)
<1>1. ~Opened(s) /\ OpenWith(s, o, rivals)
  BY DEF OpenScope
<1>2. \A rival \in rivals : rival.scope \in Scopes \ {s} /\ Opened(rival.scope)
  BY <1>1 DEF Rivals, RecordsInv, RowsOpened, TypeInv, RowsTyped
<1> HIDE DEF rivals
<1>3. /\ \A r \in Scopes : opening'[r] = IF r = s THEN o ELSE opening[r]
      /\ \A r \in Scopes : spent'[r] = IF r = s THEN o.spent ELSE spent[r]
      /\ \A r \in Scopes : protected'[r] = IF r = s THEN Closeout ELSE protected[r]
      /\ UNCHANGED <<operations, effects>>
  BY <1>1 DEF OpenWith, TypeInv, AmountsTyped
<1>4. CASE rivals = {}
  <2>1. gate' = [gate EXCEPT ![s] = IF o.known THEN "READY" ELSE "INCOMPLETE"]
    BY <1>1, <1>4 DEF OpenWith
  <2>2. Opened(s)' /\ \A r \in Scopes \ {s} : Opened(r)' = Opened(r)
    BY <2>1 DEF Opened, TypeInv, GateTyped
  <2> QED
    BY <1>1, <1>3, <1>4, <2>2 DEF OpenWith
<1>5. CASE rivals # {}
  <2>1. PICK rival \in rivals :
          /\ gate' = [gate EXCEPT ![s] = "CONFLICT", ![rival.scope] = "CONFLICT"]
          /\ UNCHANGED identities
    BY <1>1, <1>5 DEF OpenWith
  <2>2. Opened(s)' /\ \A r \in Scopes \ {s} : Opened(r)' = Opened(r)
    BY <1>2, <2>1 DEF Opened, TypeInv, GateTyped
  <2> QED
    BY <1>1, <1>3, <2>1, <2>2
<1> QED
  BY <1>4, <1>5

LEMMA RecordsOfOpen ==
    ASSUME TypeInv, RecordsInv, NEW s \in Scopes, NEW o \in Openings, OpenScope(s, o)
    PROVE  RecordsInv'
<1>1. /\ ~Opened(s) /\ Opened(s)'
      /\ \A r \in Scopes \ {s} : Opened(r)' = Opened(r)
      /\ \A r \in Scopes : opening'[r] = IF r = s THEN o ELSE opening[r]
      /\ UNCHANGED <<operations, effects>>
      /\ UNCHANGED identities \/ Take({SourceKey(e) : e \in o.covered}, s, o)
  BY OpenedBy
<1>2. Uncharged' /\ Unused' /\ OpeningKept'
  BY <1>1 DEF RecordsInv, Uncharged, Unused, OpeningKept, Opened
<1>3. \A r \in Scopes : Opened(r) => Opened(r)'
  BY <1>1 DEF Opened
<1>4. CASE UNCHANGED identities
  <2>1. RowsOpened'
    BY <1>3, <1>4 DEF RecordsInv, RowsOpened, TypeInv, RowsTyped
  <2>2. SourceRows'
    BY <1>4 DEF RecordsInv, SourceRows
  <2> QED
    BY <1>2, <2>1, <2>2 DEF RecordsInv
<1>5. CASE Take({SourceKey(e) : e \in o.covered}, s, o)
  <2> DEFINE keys == {SourceKey(e) : e \in o.covered}
  <2>1. \A k \in keys : k[1] # "settlement"
    BY DEF SourceKey
  <2> HIDE DEF keys
  <2>2. Take(keys, s, o)
    BY <1>5 DEF keys
  <2>3. RowsOpened' /\ SourceRows'
    BY <1>1, <1>3, <2>1, <2>2, PlainRows DEF RecordsInv, TypeInv
  <2> QED
    BY <1>2, <2>3 DEF RecordsInv
<1> QED
  BY <1>4, <1>5, OpenedBy

\* What a finished operation starts from and what it leaves.
FinishedFrom(b, state, tokens) ==
    /\ Operation(b) \in OperationRecords
    /\ Operation(b).binding = b
    /\ Operation(b).state \in {"RESERVED", "DISPATCHED", "UNAVAILABLE"}
    /\ Operation(b).reservation = b.upper
    /\ Operation(b).actual = 0
    /\ Store(b, [Operation(b) EXCEPT !.state = state, !.reservation = 0, !.actual = tokens])
    /\ protected' = Released(b, tokens)
    /\ \A s \in Scopes : Opened(s)' = Opened(s)
    /\ Opened(b.scope)
    /\ UNCHANGED <<opening, effects>>

LEMMA ResolvedOpened ==
    ASSUME TypeInv, GateInv, NEW b \in Bindings, NEW tokens, Operation(b).binding = b,
           gate' = [gate EXCEPT ![b.scope] = Resolved(b, tokens)]
    PROVE  Opened(b.scope) /\ \A s \in Scopes : Opened(s)' = Opened(s)
<1>1. gate[b.scope] # "UNOPENED"
  BY ReservedOpened DEF GateInv
<1>2. Resolved(b, tokens) # "UNOPENED"
  BY <1>1 DEF Resolved, Broken
<1> QED
  BY <1>1, <1>2, BindingFacts DEF Opened, TypeInv, GateTyped

LEMMA CancelFinishes ==
    ASSUME TypeInv, GateInv, RecordsInv, NEW b \in Bindings, CancelWithoutDispatch(b)
    PROVE  FinishedFrom(b, "CANCELLED_WITH_NO_DISPATCH_PROOF", 0) /\ UNCHANGED <<spent, identities>>
<1>1. /\ Operation(b).binding = b /\ Operation(b).state \in {"RESERVED", "UNAVAILABLE"}
      /\ Finished(b, "CANCELLED_WITH_NO_DISPATCH_PROOF", 0)
      /\ protected' = Released(b, 0) /\ gate' = [gate EXCEPT ![b.scope] = Resolved(b, 0)]
      /\ UNCHANGED <<opening, spent, identities, effects>>
  BY DEF CancelWithoutDispatch
<1>2. Operation(b) \in OperationRecords /\ Reservation(b.scope, b.id)
  BY BindingFacts DEF TypeInv, OperationsTyped, Operation
<1>3. Operation(b).reservation = b.upper
  BY <1>1, <1>2 DEF Reservation, Operation, NotReserved
<1>4. Operation(b).actual = 0
  BY <1>1, BindingFacts DEF RecordsInv, Uncharged, Operation
<1>5. Opened(b.scope) /\ \A s \in Scopes : Opened(s)' = Opened(s)
  BY <1>1, ResolvedOpened
<1> QED
  BY <1>1, <1>2, <1>3, <1>4, <1>5 DEF FinishedFrom, Finished

LEMMA SettleFinishes ==
    ASSUME TypeInv, GateInv, RecordsInv, NEW r \in Receipts, Settle(r)
    PROVE  /\ FinishedFrom(r.binding, "SETTLED", r.tokens) /\ TakeReceipt(r)
           /\ r.binding \in Bindings /\ r.tokens \in Nat /\ r.tokens = effects[r.binding].tokens
           /\ spent' = Amount(spent, r.binding, spent[r.binding.scope][r.binding.owner] + r.tokens)
<1> DEFINE b == r.binding
<1>1. /\ Finished(b, "SETTLED", r.tokens) /\ TakeReceipt(r) /\ Chargeable(r)
      /\ protected' = Released(b, r.tokens) /\ r.tokens = effects[b].tokens
      /\ gate' = [gate EXCEPT ![b.scope] = Resolved(b, r.tokens)]
      /\ spent' = Amount(spent, b, spent[b.scope][b.owner] + r.tokens)
      /\ UNCHANGED <<opening, effects>>
  BY DEF Settle, Authentic
<1>2. /\ b \in Bindings /\ r.tokens \in Nat /\ Operation(b) \in OperationRecords
      /\ Operation(b).binding = b /\ Operation(b).reservation = b.upper
      /\ Operation(b).state \in {"RESERVED", "DISPATCHED", "UNAVAILABLE"}
  BY <1>1, ChargeableHeld
<1> HIDE DEF b
<1>3. Operation(b).actual = 0
  BY <1>2, BindingFacts DEF RecordsInv, Uncharged, Operation
<1>4. Opened(b.scope) /\ \A s \in Scopes : Opened(s)' = Opened(s)
  BY <1>1, <1>2, ResolvedOpened
<1>5. FinishedFrom(b, "SETTLED", r.tokens)
  BY <1>1, <1>2, <1>3, <1>4 DEF FinishedFrom, Finished
<1> QED
  BY <1>1, <1>2, <1>5 DEF b

LEMMA RecordsOfFinish ==
    ASSUME TypeInv, RecordsInv, NEW b \in Bindings, NEW state, NEW tokens,
           FinishedFrom(b, state, tokens), state = "SETTLED" \/ tokens = 0
    PROVE  Uncharged' /\ OpeningKept' /\ Unused'
<1> DEFINE new == [Operation(b) EXCEPT !.state = state, !.reservation = 0, !.actual = tokens]
<1>1. new.state # "SETTLED" => new.actual = 0
  BY DEF FinishedFrom, OperationRecords
<1>2. Store(b, new)
  BY DEF FinishedFrom
<1> HIDE DEF new
<1>3. Uncharged'
  BY <1>1, <1>2, UnchargedStore DEF TypeInv, RecordsInv
<1> QED
  BY <1>3 DEF FinishedFrom, RecordsInv, OpeningKept, Unused

LEMMA RecordsOfResolution ==
    ASSUME TypeInv, GateInv, RecordsInv, Resolution
    PROVE  RecordsInv'
<1>1. ASSUME NEW b \in Bindings, CancelWithoutDispatch(b) PROVE RecordsInv'
  <2>1. FinishedFrom(b, "CANCELLED_WITH_NO_DISPATCH_PROOF", 0) /\ UNCHANGED identities
    BY <1>1, CancelFinishes
  <2>2. Uncharged' /\ OpeningKept' /\ Unused'
    BY <2>1, RecordsOfFinish
  <2>3. RowsOpened' /\ SourceRows'
    BY <2>1 DEF FinishedFrom, RecordsInv, RowsOpened, SourceRows, TypeInv, RowsTyped
  <2> QED
    BY <2>2, <2>3 DEF RecordsInv
<1>2. ASSUME NEW r \in Receipts, SettleConflict(r) PROVE RecordsInv'
  <2>1. PICK scopes : Conflict(scopes)
    BY <1>2 DEF SettleConflict
  <2>2. NoBooks /\ EffectsGrow /\ UNCHANGED identities
    BY <2>1, SameConflict, EffectsUntouched DEF Conflict, TypeInv
  <2> QED
    BY <2>2, RecordsSame DEF TypeInv
<1>3. ASSUME NEW r \in Receipts, SettleOverflow(r) PROVE RecordsInv'
  <2>1. NoBooks /\ EffectsGrow
    BY <1>3, SameOfOverflow
  <2>2. r.binding \in Bindings /\ Operation(r.binding).binding = r.binding /\ TakeReceipt(r)
    BY <1>3, ChargeableHeld DEF SettleOverflow
  <2>3. /\ r.binding.scope \in Scopes /\ Opened(r.binding.scope)'
        /\ \A s \in Scopes : Opened(s) => Opened(s)'
    BY <2>1, <2>2, BindingFacts, ReservedOpened DEF GateInv, NoBooks, SameBooks, Opened
  <2>4. RowsOpened' /\ SourceRows'
    BY <2>2, <2>3, ReceiptRows DEF RecordsInv, TypeInv
  <2>5. Uncharged' /\ OpeningKept' /\ Unused'
    <3>1. Uncharged' /\ OpeningKept'
      BY <2>1 DEF RecordsInv, Uncharged, OpeningKept, NoBooks, SameBooks
    <3>2. Unused'
      BY <1>3 DEF SettleOverflow, RecordsInv, Unused
    <3> QED
      BY <3>1, <3>2
  <2> QED
    BY <2>4, <2>5 DEF RecordsInv
<1>4. ASSUME NEW r \in Receipts, Settle(r) PROVE RecordsInv'
  <2>1. /\ FinishedFrom(r.binding, "SETTLED", r.tokens) /\ TakeReceipt(r)
        /\ r.binding \in Bindings /\ r.tokens \in Nat
    BY <1>4, SettleFinishes
  <2>2. Uncharged' /\ OpeningKept' /\ Unused'
    BY <2>1, RecordsOfFinish
  <2>3. /\ r.binding.scope \in Scopes /\ Opened(r.binding.scope)'
        /\ \A s \in Scopes : Opened(s) => Opened(s)'
    BY <2>1, BindingFacts DEF FinishedFrom
  <2>4. RowsOpened' /\ SourceRows'
    BY <2>1, <2>3, ReceiptRows DEF RecordsInv, TypeInv
  <2> QED
    BY <2>2, <2>4 DEF RecordsInv
<1> QED
  BY <1>1, <1>2, <1>3, <1>4 DEF Resolution

LEMMA RecordsStep == TypeInv /\ GateInv /\ RecordsInv /\ [Next]_vars => RecordsInv'
<1> SUFFICES ASSUME TypeInv, GateInv, RecordsInv, [Next]_vars PROVE RecordsInv'
  OBVIOUS
<1>1. ASSUME NEW c \in Controllers, Step(c) PROVE RecordsInv'
  <2>1. CASE Reserve(c)
    BY <2>1, RecordsOfReserve
  <2>2. CASE ~Reserve(c)
    BY <1>1, <2>2, SameOfStep, RecordsSame DEF TypeInv
  <2> QED
    BY <2>1, <2>2
<1>2. ASSUME NEW s \in Scopes, ScopeStep(s) PROVE RecordsInv'
  <2>1. ASSUME NEW o \in Openings, OpenScope(s, o) PROVE RecordsInv'
    BY <2>1, RecordsOfOpen
  <2>2. ASSUME NEW o \in Openings, OpenAgain(s, o) PROVE RecordsInv'
    <3>1. Conflict({s})
      BY <2>2 DEF OpenAgain
    <3>2. NoBooks /\ EffectsGrow /\ UNCHANGED identities
      BY <3>1, SameConflict, EffectsUntouched DEF Conflict, TypeInv
    <3> QED
      BY <3>2, RecordsSame DEF TypeInv
  <2>3. CASE Rebuild(s)
    BY <2>3, SameOfRebuild, RecordsSame DEF TypeInv
  <2> QED
    BY <1>2, <2>1, <2>2, <2>3 DEF ScopeStep
<1>3. CASE Resolution
  BY <1>3, RecordsOfResolution
<1>4. CASE UNCHANGED vars
  <2>1. NoBooks /\ EffectsGrow /\ UNCHANGED identities
    BY <1>4, SameUntouched, EffectsUntouched DEF vars, journal, scopeVars, TypeInv
  <2> QED
    BY <2>1, RecordsSame DEF TypeInv
<1> QED
  BY <1>1, <1>2, <1>3, <1>4 DEF Next

LEMMA GateInvariant == Spec => []GateInv
BY GateInit, GateStep, TypeInvariant, PTL DEF Spec

LEMMA RecordsInvariant == Spec => []RecordsInv
BY RecordsInit, RecordsStep, TypeInvariant, GateInvariant, PTL DEF Spec

(***************************************************************************)
(* A reservation.                                                          *)
(***************************************************************************)
Share(b, W) == IF b.closeout /\ b.owner \in W THEN b.upper ELSE 0
Bound(b, W) == IF b.owner \in W THEN b.upper ELSE 0

\* b is reserved in its opened scope.
Reserved(b) ==
    /\ Operation(b) = NotReserved
    /\ Opened(b.scope)
    /\ Store(b, [state |-> "RESERVED", binding |-> b, claimed |-> FALSE,
                 reservation |-> b.upper, actual |-> 0])
    /\ protected' = IF b.closeout
         THEN Amount(protected, b, protected[b.scope][b.owner] - b.upper)
         ELSE protected
    /\ ReservationFits(b)
    /\ UNCHANGED <<gate, opening, spent, effects>>

\* The sums after a reservation.
LEMMA ReservedSums ==
    ASSUME TypeInv, TypeInv', NEW b \in Bindings, Reserved(b), NEW W \in SUBSET Owners
    PROVE  LET s == b.scope IN
           /\ Total(Charged(s)', ReservationsOf(s, W)') = Total(Charged(s), ReservationsOf(s, W))
           /\ Total(Held(s)', ReservationsOf(s, W)') =
                Total(Held(s), ReservationsOf(s, W)) + Bound(b, W)
           /\ Total(Drawn(s)', CloseoutOf(s, W)') = Total(Drawn(s), CloseoutOf(s, W)) + Share(b, W)
           /\ b.owner \notin W => ReservationsOf(s, W)' = ReservationsOf(s, W)
<1> DEFINE s == b.scope
<1>1. s \in Scopes /\ b.id \in OperationIds /\ b.upper \in Nat /\ b.closeout \in BOOLEAN
  BY BindingFacts
<1>2. \A id \in OperationIds :
        operations'[s][id] = IF id = b.id
          THEN [state |-> "RESERVED", binding |-> b, claimed |-> FALSE,
                reservation |-> b.upper, actual |-> 0]
          ELSE operations[s][id]
  BY <1>1, StoreEffect DEF Reserved, TypeInv
<1>3. operations[s][b.id] = NotReserved
  BY DEF Reserved, Operation
<1> DEFINE R == ReservationsOf(s, W)
           C == CloseoutOf(s, W)
<1>4. R \in SUBSET OperationIds /\ C \in SUBSET OperationIds /\ b.id \notin R /\ b.id \notin C
  BY <1>3 DEF ReservationsOf, CloseoutOf, NotReserved
<1>5. ReservationsOf(s, W)' = IF b.owner \in W THEN R \union {b.id} ELSE R
  BY <1>1, <1>2, <1>3 DEF ReservationsOf, NotReserved
<1>6. CloseoutOf(s, W)' = IF b.closeout /\ b.owner \in W THEN C \union {b.id} ELSE C
  BY <1>1, <1>2, <1>3, <1>5 DEF CloseoutOf, ReservationsOf, NotReserved
<1>7. /\ Charged(s)' = Charged(s) /\ Charged(s)[b.id] = 0
      /\ Held(s)'[b.id] = b.upper /\ \A id \in OperationIds \ {b.id} : Held(s)'[id] = Held(s)[id]
  BY <1>1, <1>2, <1>3 DEF Charged, Held, NotReserved
<1>8. Drawn(s)'[b.id] = b.upper /\ \A id \in OperationIds \ {b.id} : Drawn(s)'[id] = Drawn(s)[id]
  BY <1>1, <1>7 DEF Drawn
<1>9. Counts(Held(s), R) /\ Counts(Charged(s), R) /\ Counts(Drawn(s), C)
  BY <1>1, <1>4, AmountsCount DEF TypeInv
<1>10. Total(Held(s), R) \in Nat /\ Total(Charged(s), R) \in Nat /\ Total(Drawn(s), C) \in Nat
  BY <1>9, TotalNat
<1> HIDE DEF s, R, C
<1>11. Total(Charged(s)', ReservationsOf(s, W)') = Total(Charged(s), R)
  <2>1. CASE b.owner \in W
    <3>1. Total(Charged(s), R \union {b.id}) = Total(Charged(s), R) + 0
      BY <1>4, <1>7, <1>9, TotalNew
    <3> QED
      BY <1>5, <1>7, <1>10, <2>1, <3>1
  <2>2. CASE b.owner \notin W
    BY <1>5, <1>7, <2>2
  <2> QED
    BY <2>1, <2>2
<1>12. Total(Held(s)', ReservationsOf(s, W)') = Total(Held(s), R) + Bound(b, W)
  <2>1. CASE b.owner \in W
    <3>1. \A y \in R : Held(s)'[y] = Held(s)[y]
      BY <1>4, <1>7
    <3>2. Total(Held(s)', R \union {b.id}) = Total(Held(s), R) + b.upper
      BY <1>1, <1>4, <1>7, <1>9, <3>1, TotalNew
    <3> QED
      BY <1>5, <2>1, <3>2 DEF Bound
  <2>2. CASE b.owner \notin W
    <3>1. \A y \in R : Held(s)'[y] = Held(s)[y]
      BY <1>4, <1>7
    <3>2. Total(Held(s)', R) = Total(Held(s), R)
      BY <1>9, <3>1, TotalSame
    <3> QED
      BY <1>5, <1>10, <2>2, <3>2 DEF Bound
  <2> QED
    BY <2>1, <2>2
<1>13. Total(Drawn(s)', CloseoutOf(s, W)') = Total(Drawn(s), C) + Share(b, W)
  <2>0. \A y \in C : Drawn(s)'[y] = Drawn(s)[y]
    BY <1>4, <1>8
  <2>1. CASE b.closeout /\ b.owner \in W
    <3>1. Total(Drawn(s)', C \union {b.id}) = Total(Drawn(s), C) + b.upper
      BY <1>1, <1>4, <1>8, <1>9, <2>0, TotalNew
    <3> QED
      BY <1>6, <2>1, <3>1 DEF Share
  <2>2. CASE ~(b.closeout /\ b.owner \in W)
    <3>1. Total(Drawn(s)', C) = Total(Drawn(s), C)
      BY <1>9, <2>0, TotalSame
    <3> QED
      BY <1>6, <1>10, <2>2, <3>1 DEF Share
  <2> QED
    BY <2>1, <2>2
<1> QED
  BY <1>5, <1>11, <1>12, <1>13 DEF s, R, C

LEMMA ReservedShare ==
    ASSUME TypeInv, TypeInv', NEW b \in Bindings, Reserved(b), NEW W \in SUBSET Owners
    PROVE  Total(protected'[b.scope], W) + Share(b, W) = Total(protected[b.scope], W)
<1> DEFINE s == b.scope
           f == protected[s]
           g == protected'[s]
<1>1. s \in Scopes /\ b.owner \in Owners /\ b.upper \in Nat /\ b.closeout \in BOOLEAN
  BY BindingFacts
<1>2. Counts(f, W) /\ Counts(g, W)
  BY <1>1, FiniteOwners DEF TypeInv, AmountsTyped, Counts
<1>3. f[b.owner] \in Nat /\ Total(f, W) \in Nat
  BY <1>1, <1>2, TotalNat DEF TypeInv, AmountsTyped
<1>4. CASE b.closeout
  <2>1. g = [f EXCEPT ![b.owner] = f[b.owner] - b.upper] /\ b.upper <= f[b.owner]
    BY <1>1, <1>4 DEF Reserved, Amount, ReservationFits, TypeInv, AmountsTyped
  <2>2. f[b.owner] = g[b.owner] + b.upper /\ \A y \in Owners \ {b.owner} : f[y] = g[y]
    BY <1>1, <1>3, <2>1 DEF TypeInv, AmountsTyped
  <2> HIDE DEF f, g
  <2>3. CASE b.owner \in W
    <3>1. \A y \in W \ {b.owner} : f[y] = g[y]
      BY <2>2
    <3>2. Total(f, W) = Total(g, W) + b.upper
      BY ONLY <1>1, <1>2, <2>2, <2>3, <3>1, TotalMore
    <3> QED
      BY <1>4, <2>3, <3>2 DEF Share, f, g, s
  <2>4. CASE b.owner \notin W
    <3>1. \A y \in W : f[y] = g[y]
      BY <2>2, <2>4
    <3>2. Total(f, W) = Total(g, W)
      BY <1>2, <3>1, TotalSame
    <3> QED
      BY <1>3, <1>4, <2>4, <3>2 DEF Share, f, g, s
  <2> QED
    BY <2>3, <2>4
<1>5. CASE ~b.closeout
  BY <1>3, <1>5 DEF Reserved, Share
<1> QED
  BY <1>1, <1>4, <1>5

\* What a scope and an owner have committed grows by what the reservation does
\* not take from the closeout share.
LEMMA ReservedCommits ==
    ASSUME TypeInv, TypeInv', NEW b \in Bindings, Reserved(b), NEW W \in SUBSET Owners
    PROVE  LET s == b.scope IN
           /\ Committed(s, W) \in Nat /\ Committed(s, W)' \in Nat
           /\ Committed(s, W)' + Share(b, W) = Committed(s, W) + Bound(b, W)
<1> DEFINE s == b.scope
           R == ReservationsOf(s, W)
<1>1. s \in Scopes /\ b.upper \in Nat
  BY BindingFacts
<1>2. R \in SUBSET OperationIds
  BY DEF ReservationsOf
<1>3. Counts(spent[s], W) /\ Counts(protected[s], W) /\ Counts(Held(s), R)
  BY <1>1, <1>2, AmountsCount DEF TypeInv
<1>4. Total(spent[s], W) \in Nat /\ Total(protected[s], W) \in Nat /\ Total(Held(s), R) \in Nat
  BY <1>3, TotalNat
<1>5. Total(Held(s)', ReservationsOf(s, W)') = Total(Held(s), R) + Bound(b, W)
  BY ReservedSums
<1>6. Total(protected'[s], W) + Share(b, W) = Total(protected[s], W)
  BY ReservedShare
<1>7. Counts(protected'[s], W)
  BY <1>1, FiniteOwners DEF TypeInv, AmountsTyped, Counts
<1>8. Total(protected'[s], W) \in Nat
  BY <1>7, TotalNat
<1>9. spent' = spent
  BY DEF Reserved
<1>10. Bound(b, W) \in Nat /\ Share(b, W) \in Nat
  BY <1>1 DEF Bound, Share
<1>11. Committed(s, W) = Total(spent[s], W) + Total(protected[s], W) + Total(Held(s), R)
  BY DEF Committed
<1>12. Committed(s, W)' =
         Total(spent[s], W) + Total(protected'[s], W) + Total(Held(s)', ReservationsOf(s, W)')
  BY <1>9 DEF Committed
<1> HIDE DEF s, R
<1>13. Committed(s, W) \in Nat /\ Committed(s, W)' \in Nat
  BY <1>4, <1>5, <1>8, <1>10, <1>11, <1>12
<1>14. Committed(s, W)' + Share(b, W) = Committed(s, W) + Bound(b, W)
  BY <1>4, <1>5, <1>6, <1>8, <1>10, <1>11, <1>12
<1> QED
  BY <1>13, <1>14 DEF s

LEMMA ReservedBooks ==
    ASSUME TypeInv, TypeInv', NEW b \in Bindings, Reserved(b), Books(b.scope)
    PROVE  Books(b.scope)'
<1> DEFINE s == b.scope
<1>1. s \in Scopes /\ b.owner \in Owners /\ b.upper \in Nat /\ b.closeout \in BOOLEAN
  BY BindingFacts
<1>2. Opened(s) /\ UNCHANGED <<gate, opening, spent, effects>>
  BY DEF Reserved
<1>3. EffectsWithin(s)' = EffectsWithin(s)
  BY <1>2 DEF EffectsWithin
<1>4. LedgerOf(s)'
  <2> SUFFICES ASSUME NEW W \in SUBSET Owners
               PROVE  Total(spent[s], W)
                        = Total(opening[s].spent, W) + Total(Charged(s)', ReservationsOf(s, W)')
    BY <1>2 DEF LedgerOf
  <2>1. Total(Charged(s)', ReservationsOf(s, W)') = Total(Charged(s), ReservationsOf(s, W))
    BY ReservedSums
  <2> QED
    BY <1>2, <2>1 DEF Books, LedgerOf
<1>5. ShareOf(s)'
  <2> SUFFICES ASSUME NEW W \in SUBSET Owners, EffectsWithin(s)
               PROVE  Total(protected'[s], W) + Total(Drawn(s)', CloseoutOf(s, W)')
                        = Total(Closeout, W)
    BY <1>3 DEF ShareOf
  <2>1. Total(Drawn(s)', CloseoutOf(s, W)') = Total(Drawn(s), CloseoutOf(s, W)) + Share(b, W)
    BY ReservedSums
  <2>2. Total(protected'[s], W) + Share(b, W) = Total(protected[s], W)
    BY ReservedShare
  <2>3. Total(protected[s], W) + Total(Drawn(s), CloseoutOf(s, W)) = Total(Closeout, W)
    BY <1>2 DEF Books, ShareOf
  <2>4. Counts(protected'[s], W)
    BY <1>1, FiniteOwners DEF TypeInv, AmountsTyped, Counts
  <2>5. CloseoutOf(s, W) \in SUBSET OperationIds
    BY DEF CloseoutOf, ReservationsOf
  <2>6. Counts(Drawn(s), CloseoutOf(s, W))
    BY <1>1, <2>5, AmountsCount DEF TypeInv
  <2>7. /\ Total(protected'[s], W) \in Nat /\ Total(Drawn(s), CloseoutOf(s, W)) \in Nat
        /\ Share(b, W) \in Nat
    BY <1>1, <2>4, <2>6, TotalNat DEF Share
  <2> HIDE DEF s
  <2> QED
    BY <2>1, <2>2, <2>3, <2>7
<1>6. CapsOf(s)'
  <2>1. Committed(s, Owners)' <= RunCap
    <3>1. Owners \in SUBSET Owners /\ Share(b, Owners) = (IF b.closeout THEN b.upper ELSE 0)
            /\ Bound(b, Owners) = b.upper
      BY <1>1 DEF Share, Bound
    <3>2. /\ Committed(s, Owners) \in Nat /\ Committed(s, Owners)' \in Nat
          /\ Committed(s, Owners)' + Share(b, Owners) = Committed(s, Owners) + Bound(b, Owners)
      BY <3>1, ReservedCommits
    <3>3. Committed(s, Owners) + b.upper - (IF b.closeout THEN b.upper ELSE 0) <= RunCap
      BY DEF Reserved, ReservationFits
    <3>4. RunCap \in Nat
      BY PolicyAssumption
    <3> HIDE DEF s
    <3> QED
      BY <1>1, <3>1, <3>2, <3>3, <3>4
  <2>2. ASSUME NEW t \in Tasks, ReservationsOf(s, {t})' # {}, EffectsWithin(s)
        PROVE  Committed(s, {t})' <= TaskCap[t]
    <3>1. {t} \in SUBSET Owners /\ TaskCap[t] \in Nat
      BY PolicyAssumption DEF Owners
    <3>2. /\ Committed(s, {t}) \in Nat /\ Committed(s, {t})' \in Nat
          /\ Committed(s, {t})' + Share(b, {t}) = Committed(s, {t}) + Bound(b, {t})
      BY <3>1, ReservedCommits
    <3>3. CASE t = b.owner
      <4>1. Committed(s, {t}) + b.upper - (IF b.closeout THEN b.upper ELSE 0) <= TaskCap[t]
        BY <3>3 DEF Reserved, ReservationFits
      <4>2. Share(b, {t}) = (IF b.closeout THEN b.upper ELSE 0) /\ Bound(b, {t}) = b.upper
        BY <3>3 DEF Share, Bound
      <4> HIDE DEF s
      <4> QED
        BY <1>1, <3>1, <3>2, <4>1, <4>2
    <3>4. CASE t # b.owner
      <4>1. b.owner \notin {t}
        BY <3>4
      <4>2. Share(b, {t}) = 0 /\ Bound(b, {t}) = 0
        BY <4>1 DEF Share, Bound
      <4>3. ReservationsOf(s, {t}) # {}
        BY <2>2, <3>1, <4>1, ReservedSums
      <4>4. Committed(s, {t}) <= TaskCap[t]
        BY <2>2, <4>3 DEF Books, CapsOf
      <4> HIDE DEF s
      <4> QED
        BY <3>1, <3>2, <4>2, <4>4
    <3> QED
      BY <3>3, <3>4
  <2> QED
    BY <1>3, <2>1, <2>2 DEF CapsOf
<1> QED
  BY <1>4, <1>5, <1>6 DEF Books

(***************************************************************************)
(* A cancellation or a receipt.                                            *)
(***************************************************************************)
PartOf(b, W, n) == IF b.owner \in W THEN n ELSE 0
ShareUsed(b, W, n) == IF b.closeout /\ b.owner \in W THEN n ELSE 0

\* b is finished and its owner charged.
ChargedFor(b, state, tokens) ==
    /\ FinishedFrom(b, state, tokens)
    /\ state \in Finality
    /\ tokens \in Nat
    /\ \A o \in Owners :
        spent'[b.scope][o] = spent[b.scope][o] + (IF o = b.owner THEN tokens ELSE 0)

LEMMA FinishedSums ==
    ASSUME TypeInv, TypeInv', NEW b \in Bindings, NEW state, NEW tokens,
           ChargedFor(b, state, tokens), NEW W \in SUBSET Owners
    PROVE  LET s == b.scope IN
           /\ ReservationsOf(s, W)' = ReservationsOf(s, W)
           /\ Total(Charged(s)', ReservationsOf(s, W)) =
                Total(Charged(s), ReservationsOf(s, W)) + PartOf(b, W, tokens)
           /\ Total(Held(s), ReservationsOf(s, W)) =
                Total(Held(s)', ReservationsOf(s, W)) + Bound(b, W)
           /\ Total(Drawn(s)', CloseoutOf(s, W)') + Share(b, W) =
                Total(Drawn(s), CloseoutOf(s, W)) + ShareUsed(b, W, tokens)
<1> DEFINE s == b.scope
<1>1. s \in Scopes /\ b.id \in OperationIds /\ b.upper \in Nat /\ b.closeout \in BOOLEAN /\ tokens \in Nat
  BY BindingFacts DEF ChargedFor
<1> DEFINE old == Operation(b)
           new == [old EXCEPT !.state = state, !.reservation = 0, !.actual = tokens]
<1>2. old = operations[s][b.id] /\ old \in OperationRecords /\ old.binding = b
        /\ old.state # "NONE" /\ old.reservation = b.upper /\ old.actual = 0
  BY DEF ChargedFor, FinishedFrom, Operation
<1>3. new.binding = b /\ new.state # "NONE" /\ new.reservation = 0 /\ new.actual = tokens
  BY <1>2 DEF OperationRecords, ChargedFor, Finality
<1>4. \A id \in OperationIds : operations'[s][id] = IF id = b.id THEN new ELSE operations[s][id]
  BY <1>1, StoreEffect DEF ChargedFor, FinishedFrom, TypeInv
<1> HIDE DEF new
<1> DEFINE R == ReservationsOf(s, W)
           C == CloseoutOf(s, W)
<1>5. R \in SUBSET OperationIds /\ C \in SUBSET OperationIds
  BY DEF ReservationsOf, CloseoutOf
<1>6. b.id \in R <=> b.owner \in W
  BY <1>1, <1>2 DEF ReservationsOf
<1>7. b.id \in C <=> b.closeout /\ b.owner \in W
  BY <1>1, <1>2 DEF CloseoutOf, ReservationsOf
<1>8. ReservationsOf(s, W)' = R
  BY <1>1, <1>2, <1>3, <1>4 DEF ReservationsOf
<1>9. CloseoutOf(s, W)' = C
  BY <1>1, <1>2, <1>3, <1>4, <1>8 DEF CloseoutOf, ReservationsOf
<1>10. /\ Charged(s)'[b.id] = tokens /\ Charged(s)[b.id] = 0
       /\ \A id \in OperationIds \ {b.id} : Charged(s)'[id] = Charged(s)[id]
  BY <1>1, <1>2, <1>3, <1>4 DEF Charged
<1>11. /\ Held(s)'[b.id] = 0 /\ Held(s)[b.id] = b.upper
       /\ \A id \in OperationIds \ {b.id} : Held(s)'[id] = Held(s)[id]
  BY <1>1, <1>2, <1>3, <1>4 DEF Held
<1>12. /\ Drawn(s)'[b.id] = tokens /\ Drawn(s)[b.id] = b.upper
       /\ \A id \in OperationIds \ {b.id} : Drawn(s)'[id] = Drawn(s)[id]
  <2>1. Drawn(s)[b.id] = Held(s)[b.id] + Charged(s)[b.id]
          /\ Drawn(s)'[b.id] = Held(s)'[b.id] + Charged(s)'[b.id]
    BY <1>1 DEF Drawn
  <2>2. \A id \in OperationIds \ {b.id} : Drawn(s)'[id] = Drawn(s)[id]
    BY <1>10, <1>11 DEF Drawn
  <2> QED
    BY <1>1, <1>10, <1>11, <2>1, <2>2
<1>13. Counts(Held(s), R) /\ Counts(Charged(s), R) /\ Counts(Drawn(s), C)
  BY <1>1, <1>5, AmountsCount DEF TypeInv
<1>14. Total(Held(s), R) \in Nat /\ Total(Charged(s), R) \in Nat /\ Total(Drawn(s), C) \in Nat
  BY <1>13, TotalNat
<1> HIDE DEF s, R, C, old
<1>15. Total(Charged(s)', R) = Total(Charged(s), R) + PartOf(b, W, tokens)
  <2>1. CASE b.owner \in W
    <3>1. \A y \in R \ {b.id} : Charged(s)'[y] = Charged(s)[y]
      BY <1>5, <1>10
    <3>2. b.id \in R /\ Charged(s)'[b.id] \in Nat
      BY <1>1, <1>6, <1>10, <2>1
    <3>3. /\ Counts(Charged(s)', R)
          /\ Total(Charged(s)', R) + Charged(s)[b.id] = Total(Charged(s), R) + Charged(s)'[b.id]
      BY ONLY <1>13, <3>1, <3>2, TotalChange
    <3>4. Total(Charged(s)', R) \in Nat
      BY <3>3, TotalNat
    <3> QED
      BY <1>1, <1>10, <1>14, <2>1, <3>3, <3>4 DEF PartOf
  <2>2. CASE b.owner \notin W
    <3>1. \A y \in R : Charged(s)'[y] = Charged(s)[y]
      BY <1>5, <1>6, <1>10, <2>2
    <3>2. Total(Charged(s)', R) = Total(Charged(s), R)
      BY <1>13, <3>1, TotalSame
    <3> QED
      BY <1>14, <2>2, <3>2 DEF PartOf
  <2> QED
    BY <2>1, <2>2
<1>16. Total(Held(s), R) = Total(Held(s)', R) + Bound(b, W)
  <2>1. CASE b.owner \in W
    <3>1. \A y \in R \ {b.id} : Held(s)'[y] = Held(s)[y]
      BY <1>5, <1>11
    <3>2. b.id \in R /\ Held(s)'[b.id] \in Nat
      BY <1>6, <1>11, <2>1
    <3>3. /\ Counts(Held(s)', R)
          /\ Total(Held(s)', R) + Held(s)[b.id] = Total(Held(s), R) + Held(s)'[b.id]
      BY ONLY <1>13, <3>1, <3>2, TotalChange
    <3>4. Total(Held(s)', R) \in Nat
      BY <3>3, TotalNat
    <3> QED
      BY <1>1, <1>11, <1>14, <2>1, <3>3, <3>4 DEF Bound
  <2>2. CASE b.owner \notin W
    <3>1. \A y \in R : Held(s)'[y] = Held(s)[y]
      BY <1>5, <1>6, <1>11, <2>2
    <3>2. Total(Held(s)', R) = Total(Held(s), R)
      BY <1>13, <3>1, TotalSame
    <3> QED
      BY <1>14, <2>2, <3>2 DEF Bound
  <2> QED
    BY <2>1, <2>2
<1>17. Total(Drawn(s)', C) + Share(b, W) = Total(Drawn(s), C) + ShareUsed(b, W, tokens)
  <2>1. CASE b.closeout /\ b.owner \in W
    <3>1. \A y \in C \ {b.id} : Drawn(s)'[y] = Drawn(s)[y]
      BY <1>5, <1>12
    <3>2. Total(Drawn(s)', C) + b.upper = Total(Drawn(s), C) + tokens
      BY <1>1, <1>7, <1>12, <1>13, <2>1, <3>1, TotalChange
    <3> QED
      BY <2>1, <3>2 DEF Share, ShareUsed
  <2>2. CASE ~(b.closeout /\ b.owner \in W)
    <3>1. \A y \in C : Drawn(s)'[y] = Drawn(s)[y]
      BY <1>5, <1>7, <1>12, <2>2
    <3>2. Total(Drawn(s)', C) = Total(Drawn(s), C)
      BY <1>13, <3>1, TotalSame
    <3> QED
      BY <1>14, <2>2, <3>2 DEF Share, ShareUsed
  <2> QED
    BY <2>1, <2>2
<1> QED
  BY <1>8, <1>9, <1>15, <1>16, <1>17 DEF s, R, C

LEMMA FinishedSpent ==
    ASSUME TypeInv, TypeInv', NEW b \in Bindings, NEW state, NEW tokens,
           ChargedFor(b, state, tokens), NEW W \in SUBSET Owners
    PROVE  Total(spent'[b.scope], W) = Total(spent[b.scope], W) + PartOf(b, W, tokens)
<1> DEFINE f == spent[b.scope]
           g == spent'[b.scope]
<1>1. b.scope \in Scopes /\ b.owner \in Owners /\ tokens \in Nat
  BY BindingFacts DEF ChargedFor
<1>2. Counts(f, W) /\ \A o \in Owners : f[o] \in Nat /\ g[o] \in Nat
  BY <1>1, FiniteOwners DEF TypeInv, AmountsTyped, Counts
<1>3. g[b.owner] = f[b.owner] + tokens /\ \A o \in Owners \ {b.owner} : g[o] = f[o]
  BY <1>1, <1>2 DEF ChargedFor
<1>4. Total(f, W) \in Nat
  BY <1>2, TotalNat
<1> HIDE DEF f, g
<1>5. CASE b.owner \in W
  <2>1. \A o \in W \ {b.owner} : g[o] = f[o]
    BY <1>3
  <2>2. g[b.owner] = f[b.owner] + tokens /\ tokens \in Nat
    BY <1>1, <1>3
  <2>3. Total(g, W) = Total(f, W) + tokens
    BY ONLY <1>2, <1>5, <2>1, <2>2, TotalMore
  <2> QED
    BY <1>5, <2>3 DEF PartOf, f, g
<1>6. CASE b.owner \notin W
  <2>1. \A o \in W : g[o] = f[o]
    BY <1>3, <1>6
  <2>2. Total(g, W) = Total(f, W)
    BY <1>2, <2>1, TotalSame
  <2> QED
    BY <1>4, <1>6, <2>2 DEF PartOf, f, g
<1> QED
  BY <1>5, <1>6

\* What the operation did not use of its closeout share goes back.
LEMMA FinishedShare ==
    ASSUME TypeInv, TypeInv', NEW b \in Bindings, NEW state, NEW tokens,
           ChargedFor(b, state, tokens), tokens <= b.upper, NEW W \in SUBSET Owners
    PROVE  Total(protected'[b.scope], W) + ShareUsed(b, W, tokens)
             = Total(protected[b.scope], W) + Share(b, W)
<1> DEFINE s == b.scope
           f == protected[s]
           g == protected'[s]
<1>1. s \in Scopes /\ b.owner \in Owners /\ b.upper \in Nat /\ b.closeout \in BOOLEAN /\ tokens \in Nat
  BY BindingFacts DEF ChargedFor
<1>2. Counts(f, W) /\ Counts(g, W) /\ \A o \in Owners : f[o] \in Nat /\ g[o] \in Nat
  BY <1>1, FiniteOwners DEF TypeInv, AmountsTyped, Counts
<1>3. Total(f, W) \in Nat /\ Total(g, W) \in Nat
  BY <1>2, TotalNat
<1>4. protected' = Released(b, tokens)
  BY DEF ChargedFor, FinishedFrom
<1>5. CASE b.closeout /\ b.owner \in W
  <2>1. g[b.owner] = f[b.owner] + (b.upper - tokens) /\ \A o \in Owners \ {b.owner} : g[o] = f[o]
    <3>1. CASE tokens < b.upper
      BY <1>1, <1>4, <1>5, <3>1 DEF Released, Amount, TypeInv, AmountsTyped
    <3>2. CASE tokens = b.upper
      BY <1>1, <1>2, <1>4, <3>2 DEF Released
    <3> QED
      BY <1>1, <3>1, <3>2
  <2>2. b.upper - tokens \in Nat
    BY <1>1
  <2> DEFINE n == b.upper - tokens
  <2> HIDE DEF f, g, n
  <2>3. \A o \in W \ {b.owner} : g[o] = f[o]
    BY <2>1
  <2>4. g[b.owner] = f[b.owner] + n /\ n \in Nat
    BY <2>1, <2>2 DEF n
  <2>5. Total(g, W) = Total(f, W) + n
    BY ONLY <1>2, <1>5, <2>3, <2>4, TotalMore
  <2>6. Total(g, W) + tokens = Total(f, W) + b.upper
    BY <1>1, <1>3, <2>4, <2>5 DEF n
  <2> QED
    BY <1>5, <2>6 DEF Share, ShareUsed, f, g, s
<1>6. CASE ~(b.closeout /\ b.owner \in W)
  <2>1. \A o \in W : g[o] = f[o]
    <3>1. CASE b.closeout /\ tokens < b.upper
      BY <1>1, <1>4, <1>6, <3>1 DEF Released, Amount, TypeInv, AmountsTyped
    <3>2. CASE ~(b.closeout /\ tokens < b.upper)
      BY <1>4, <3>2 DEF Released
    <3> QED
      BY <3>1, <3>2
  <2> HIDE DEF f, g
  <2>2. Total(g, W) = Total(f, W)
    BY <1>2, <2>1, TotalSame
  <2> QED
    BY <1>3, <1>6, <2>2 DEF Share, ShareUsed, f, g, s
<1> QED
  BY <1>5, <1>6

\* Within the bound of the operation nothing more is committed than before.
LEMMA FinishedCommits ==
    ASSUME TypeInv, TypeInv', NEW b \in Bindings, NEW state, NEW tokens,
           ChargedFor(b, state, tokens), tokens <= b.upper, NEW W \in SUBSET Owners
    PROVE  LET s == b.scope IN
           /\ Committed(s, W) \in Nat /\ Committed(s, W)' \in Nat
           /\ Committed(s, W)' <= Committed(s, W)
<1> DEFINE s == b.scope
           R == ReservationsOf(s, W)
<1>1. s \in Scopes /\ b.upper \in Nat /\ tokens \in Nat
  BY BindingFacts DEF ChargedFor
<1>2. R \in SUBSET OperationIds
  BY DEF ReservationsOf
<1>3. Counts(spent[s], W) /\ Counts(protected[s], W) /\ Counts(Held(s), R)
  BY <1>1, <1>2, AmountsCount DEF TypeInv
<1>4. Total(spent[s], W) \in Nat /\ Total(protected[s], W) \in Nat /\ Total(Held(s), R) \in Nat
  BY <1>3, TotalNat
<1>5. ReservationsOf(s, W)' = R /\ Total(Held(s), R) = Total(Held(s)', R) + Bound(b, W)
  BY FinishedSums
<1>6. Total(protected'[s], W) + ShareUsed(b, W, tokens) = Total(protected[s], W) + Share(b, W)
  BY FinishedShare
<1>7. Total(spent'[s], W) = Total(spent[s], W) + PartOf(b, W, tokens)
  BY FinishedSpent
<1>8. Counts(protected'[s], W) /\ Counts(Held(s)', R)
  <2>1. Counts(protected'[s], W)
    BY <1>1, FiniteOwners DEF TypeInv, AmountsTyped, Counts
  <2>2. \A id \in OperationIds : Held(s)'[id] \in Nat
    BY <1>1, PolicyAssumption DEF TypeInv, OperationsTyped, OperationRecords, Held
  <2>3. IsFiniteSet(R)
    BY <1>2, FiniteOwners
  <2> HIDE DEF R, s
  <2>4. Counts(Held(s)', R)
    BY <1>2, <2>2, <2>3 DEF Counts
  <2> QED
    BY <2>1, <2>4 DEF s
<1>9. Total(protected'[s], W) \in Nat /\ Total(Held(s)', R) \in Nat
  BY <1>8, TotalNat
<1>10. /\ PartOf(b, W, tokens) \in Nat /\ Bound(b, W) \in Nat
       /\ Share(b, W) \in Nat /\ ShareUsed(b, W, tokens) \in Nat
       /\ PartOf(b, W, tokens) + Share(b, W) <= Bound(b, W) + ShareUsed(b, W, tokens)
  <2>1. CASE b.owner \in W /\ b.closeout
    BY <1>1, <2>1 DEF PartOf, Bound, Share, ShareUsed
  <2>2. CASE b.owner \in W /\ ~b.closeout
    BY <1>1, <2>2 DEF PartOf, Bound, Share, ShareUsed
  <2>3. CASE b.owner \notin W
    BY <1>1, <2>3 DEF PartOf, Bound, Share, ShareUsed
  <2> QED
    BY <2>1, <2>2, <2>3
<1>11. Committed(s, W) = Total(spent[s], W) + Total(protected[s], W) + Total(Held(s), R)
  BY DEF Committed
<1>12. Committed(s, W)' = Total(spent'[s], W) + Total(protected'[s], W) + Total(Held(s)', R)
  BY <1>5 DEF Committed
<1> HIDE DEF s, R
<1>13. Committed(s, W) \in Nat /\ Committed(s, W)' \in Nat
  BY <1>4, <1>7, <1>9, <1>10, <1>11, <1>12
<1>14. Committed(s, W)' <= Committed(s, W)
  BY <1>4, <1>5, <1>6, <1>7, <1>9, <1>10, <1>11, <1>12
<1> QED
  BY <1>13, <1>14 DEF s

LEMMA FinishedBooks ==
    ASSUME TypeInv, TypeInv', NEW b \in Bindings, NEW state, NEW tokens,
           ChargedFor(b, state, tokens), EffectsWithin(b.scope) => tokens <= b.upper,
           OpeningKept, Books(b.scope)
    PROVE  Books(b.scope)'
<1> DEFINE s == b.scope
<1>1. s \in Scopes /\ b.upper \in Nat /\ tokens \in Nat
  BY BindingFacts DEF ChargedFor
<1>2. Opened(s) /\ UNCHANGED <<opening, effects>>
  BY DEF ChargedFor, FinishedFrom
<1>3. EffectsWithin(s)' = EffectsWithin(s)
  BY <1>2 DEF EffectsWithin
<1>4. LedgerOf(s)'
  <2> SUFFICES ASSUME NEW W \in SUBSET Owners
               PROVE  Total(spent'[s], W)
                        = Total(opening[s].spent, W) + Total(Charged(s)', ReservationsOf(s, W)')
    BY <1>2 DEF LedgerOf
  <2>1. /\ ReservationsOf(s, W)' = ReservationsOf(s, W)
        /\ Total(Charged(s)', ReservationsOf(s, W)) =
             Total(Charged(s), ReservationsOf(s, W)) + PartOf(b, W, tokens)
    BY FinishedSums
  <2>2. Total(spent'[s], W) = Total(spent[s], W) + PartOf(b, W, tokens)
    BY FinishedSpent
  <2>3. Total(spent[s], W) = Total(opening[s].spent, W) + Total(Charged(s), ReservationsOf(s, W))
    BY <1>2 DEF Books, LedgerOf
  <2>4. opening[s] \in Openings
    BY <1>1, <1>2 DEF OpeningKept
  <2>5. Counts(opening[s].spent, W)
    BY <2>4, OpeningCounts
  <2>6. ReservationsOf(s, W) \in SUBSET OperationIds
    BY DEF ReservationsOf
  <2>7. Counts(Charged(s), ReservationsOf(s, W))
    BY <1>1, <2>6, AmountsCount DEF TypeInv
  <2>8. /\ Total(opening[s].spent, W) \in Nat /\ Total(Charged(s), ReservationsOf(s, W)) \in Nat
        /\ PartOf(b, W, tokens) \in Nat
    BY <1>1, <2>5, <2>7, TotalNat DEF PartOf
  <2> HIDE DEF s
  <2> QED
    BY <2>1, <2>2, <2>3, <2>8
<1>5. ShareOf(s)'
  <2> SUFFICES ASSUME NEW W \in SUBSET Owners, EffectsWithin(s)
               PROVE  Total(protected'[s], W) + Total(Drawn(s)', CloseoutOf(s, W)')
                        = Total(Closeout, W)
    BY <1>3 DEF ShareOf
  <2>1. Total(Drawn(s)', CloseoutOf(s, W)') + Share(b, W) =
          Total(Drawn(s), CloseoutOf(s, W)) + ShareUsed(b, W, tokens)
    BY FinishedSums
  <2>2. Total(protected'[s], W) + ShareUsed(b, W, tokens) = Total(protected[s], W) + Share(b, W)
    BY FinishedShare
  <2>3. Total(protected[s], W) + Total(Drawn(s), CloseoutOf(s, W)) = Total(Closeout, W)
    BY <1>2 DEF Books, ShareOf
  <2>4. Counts(protected[s], W) /\ Counts(protected'[s], W)
    BY <1>1, FiniteOwners DEF TypeInv, AmountsTyped, Counts
  <2>5. CloseoutOf(s, W) \in SUBSET OperationIds
    BY DEF CloseoutOf, ReservationsOf
  <2>6. Counts(Drawn(s), CloseoutOf(s, W))
    BY <1>1, <2>5, AmountsCount DEF TypeInv
  <2>7. CloseoutOf(s, W)' \in SUBSET OperationIds
    BY DEF CloseoutOf, ReservationsOf
  <2>8. Counts(Drawn(s)', CloseoutOf(s, W)')
    <3>1. \A id \in OperationIds : Held(s)'[id] \in Nat /\ Charged(s)'[id] \in Nat
      BY <1>1, PolicyAssumption DEF TypeInv, OperationsTyped, OperationRecords, Held, Charged
    <3>2. \A id \in OperationIds : Drawn(s)'[id] \in Nat
      BY <3>1 DEF Drawn
    <3>3. IsFiniteSet(CloseoutOf(s, W)')
      BY <2>7, FiniteOwners
    <3> QED
      BY <2>7, <3>2, <3>3 DEF Counts
  <2>9. /\ Total(protected[s], W) \in Nat /\ Total(protected'[s], W) \in Nat
        /\ Total(Drawn(s), CloseoutOf(s, W)) \in Nat
        /\ Total(Drawn(s)', CloseoutOf(s, W)') \in Nat
        /\ Share(b, W) \in Nat /\ ShareUsed(b, W, tokens) \in Nat
    BY <1>1, <2>4, <2>6, <2>8, TotalNat DEF Share, ShareUsed
  <2> HIDE DEF s
  <2> QED
    BY <2>1, <2>2, <2>3, <2>9
<1>6. CapsOf(s)'
  <2> SUFFICES ASSUME EffectsWithin(s)
               PROVE  /\ ReservationsOf(s, Owners)' # {} => Committed(s, Owners)' <= RunCap
                      /\ \A t \in Tasks :
                           ReservationsOf(s, {t})' # {} => Committed(s, {t})' <= TaskCap[t]
    BY <1>3 DEF CapsOf
  <2>1. ASSUME NEW W \in SUBSET Owners, NEW cap \in Nat,
               ReservationsOf(s, W) # {} => Committed(s, W) <= cap
        PROVE  ReservationsOf(s, W)' # {} => Committed(s, W)' <= cap
    <3>1. /\ Committed(s, W) \in Nat /\ Committed(s, W)' \in Nat
          /\ Committed(s, W)' <= Committed(s, W)
      BY FinishedCommits
    <3>2. ReservationsOf(s, W)' = ReservationsOf(s, W)
      BY FinishedSums
    <3> HIDE DEF s
    <3> QED
      BY <2>1, <3>1, <3>2
  <2>2. ReservationsOf(s, Owners) # {} => Committed(s, Owners) <= RunCap
    BY DEF Books, CapsOf
  <2>3. RunCap \in Nat /\ Owners \in SUBSET Owners
    BY PolicyAssumption
  <2>4. ReservationsOf(s, Owners)' # {} => Committed(s, Owners)' <= RunCap
    BY <2>1, <2>2, <2>3
  <2>5. ASSUME NEW t \in Tasks
        PROVE  ReservationsOf(s, {t})' # {} => Committed(s, {t})' <= TaskCap[t]
    <3>1. ReservationsOf(s, {t}) # {} => Committed(s, {t}) <= TaskCap[t]
      BY DEF Books, CapsOf
    <3>2. {t} \in SUBSET Owners /\ TaskCap[t] \in Nat
      BY PolicyAssumption DEF Owners
    <3> QED
      BY <2>1, <3>1, <3>2
  <2> QED
    BY <2>4, <2>5
<1> QED
  BY <1>4, <1>5, <1>6 DEF Books

(***************************************************************************)
(* An opening.                                                             *)
(***************************************************************************)
LEMMA OpenedBooks ==
    ASSUME TypeInv, GateInv, NEW s \in Scopes, NEW o \in Openings, ~Opened(s),
           opening'[s] = o, spent'[s] = o.spent, protected'[s] = Closeout, UNCHANGED operations
    PROVE  Books(s)'
<1>1. \A W \in SUBSET Owners : ReservationsOf(s, W)' = {} /\ CloseoutOf(s, W)' = {}
  BY DEF GateInv, Unopened, Opened, ReservationsOf, CloseoutOf, NotReserved
<1>2. LedgerOf(s)'
  <2> SUFFICES ASSUME NEW W \in SUBSET Owners
               PROVE  Total(o.spent, W) = Total(o.spent, W) + Total(Charged(s)', {})
    BY <1>1 DEF LedgerOf
  <2>1. Total(o.spent, W) \in Nat /\ Total(Charged(s)', {}) = 0
    BY OpeningCounts, TotalNat, TotalEmpty
  <2> QED
    BY <2>1
<1>3. ShareOf(s)'
  <2> SUFFICES ASSUME NEW W \in SUBSET Owners
               PROVE  Total(Closeout, W) + Total(Drawn(s)', {}) = Total(Closeout, W)
    BY <1>1 DEF ShareOf
  <2>1. Counts(Closeout, W)
    BY FiniteOwners, PolicyAssumption DEF Counts
  <2>2. Total(Closeout, W) \in Nat /\ Total(Drawn(s)', {}) = 0
    BY <2>1, TotalNat, TotalEmpty
  <2> QED
    BY <2>2
<1>4. CapsOf(s)'
  <2>1. \A t \in Tasks : {t} \in SUBSET Owners
    BY DEF Owners
  <2> QED
    BY <1>1, <2>1 DEF CapsOf
<1> QED
  BY <1>2, <1>3, <1>4 DEF Books

LEMMA LedgerInit == Init => LedgerInv
<1> SUFFICES ASSUME Init, NEW s \in Scopes PROVE Books(s)
  BY DEF LedgerInv
<1>1. ~Opened(s) /\ \A W : ReservationsOf(s, W) = {}
  BY DEF Init, Opened, ReservationsOf, NotReserved
<1> QED
  BY <1>1 DEF Books, LedgerOf, ShareOf, CapsOf

\* A scope the step does not store anything of.
LEMMA OtherBooks ==
    ASSUME OperationsTyped, NEW b \in Bindings, NEW new, Store(b, new), NEW s \in Scopes,
           s # b.scope, Opened(s)' = Opened(s), opening'[s] = opening[s],
           spent'[s] = spent[s], protected'[s] = protected[s]
    PROVE  SameBooks(s)
<1>1. \A id \in OperationIds : operations'[s][id] = operations[s][id]
  BY StoreEffect
<1> QED
  BY <1>1 DEF SameBooks

LEMMA LedgerSame ==
    ASSUME TypeInv, TypeInv', LedgerInv, NoBooks, EffectsGrow
    PROVE  LedgerInv'
<1> SUFFICES ASSUME NEW s \in Scopes PROVE Books(s)'
  BY DEF LedgerInv
<1>1. SameBooks(s) /\ Books(s) /\ AmountsTyped /\ AmountsTyped'
  BY DEF NoBooks, LedgerInv, TypeInv
<1> QED
  BY <1>1, SameBooksKept

LEMMA LedgerOfReserve ==
    ASSUME TypeInv, TypeInv', LedgerInv, NEW c \in Controllers, Reserve(c)
    PROVE  LedgerInv'
<1>1. PICK b \in Bindings : b = plan[c] /\ Operation(b) = NotReserved /\ Opened(b.scope)
  BY ReserveFacts
<1>2. Reserved(b)
  BY <1>1 DEF Reserve, Reserved
<1> SUFFICES ASSUME NEW s \in Scopes PROVE Books(s)'
  BY DEF LedgerInv
<1>3. CASE s = b.scope
  BY <1>2, <1>3, ReservedBooks DEF LedgerInv
<1>4. CASE s # b.scope
  <2>1. PICK new : Store(b, new)
    BY <1>2 DEF Reserved
  <2>2. protected'[s] = protected[s]
    BY <1>2, <1>4 DEF Reserved, Amount, TypeInv, AmountsTyped
  <2>3. Opened(s)' = Opened(s) /\ opening'[s] = opening[s] /\ spent'[s] = spent[s]
    BY <1>2 DEF Reserved, Opened
  <2>4. SameBooks(s)
    BY <1>4, <2>1, <2>2, <2>3, OtherBooks DEF TypeInv
  <2>5. EffectsGrow
    BY <1>2, EffectsUntouched DEF Reserved, TypeInv
  <2> QED
    BY <2>4, <2>5, SameBooksKept DEF LedgerInv, TypeInv
<1> QED
  BY <1>3, <1>4

LEMMA LedgerOfFinish ==
    ASSUME TypeInv, TypeInv', RecordsInv, LedgerInv, NEW b \in Bindings, NEW state, NEW tokens,
           ChargedFor(b, state, tokens), EffectsWithin(b.scope) => tokens <= b.upper,
           \A s \in Scopes \ {b.scope} : spent'[s] = spent[s]
    PROVE  LedgerInv'
<1> SUFFICES ASSUME NEW s \in Scopes PROVE Books(s)'
  BY DEF LedgerInv
<1>1. CASE s = b.scope
  BY <1>1, FinishedBooks DEF LedgerInv, RecordsInv
<1>2. CASE s # b.scope
  <2>1. PICK new : Store(b, new)
    BY DEF ChargedFor, FinishedFrom
  <2>2. protected'[s] = protected[s]
    BY <1>2 DEF ChargedFor, FinishedFrom, Released, Amount, TypeInv, AmountsTyped
  <2>3. Opened(s)' = Opened(s) /\ opening'[s] = opening[s] /\ spent'[s] = spent[s]
    BY <1>2 DEF ChargedFor, FinishedFrom
  <2>4. SameBooks(s)
    BY <1>2, <2>1, <2>2, <2>3, OtherBooks DEF TypeInv
  <2>5. EffectsGrow
    BY EffectsUntouched DEF ChargedFor, FinishedFrom, TypeInv
  <2> QED
    BY <2>4, <2>5, SameBooksKept DEF LedgerInv, TypeInv
<1> QED
  BY <1>1, <1>2

LEMMA LedgerOfResolution ==
    ASSUME TypeInv, TypeInv', GateInv, RecordsInv, LedgerInv, Resolution
    PROVE  LedgerInv'
<1>1. ASSUME NEW b \in Bindings, CancelWithoutDispatch(b) PROVE LedgerInv'
  <2>1. FinishedFrom(b, "CANCELLED_WITH_NO_DISPATCH_PROOF", 0) /\ UNCHANGED spent
    BY <1>1, CancelFinishes
  <2>2. \A o \in Owners : spent[b.scope][o] \in Nat
    BY BindingFacts DEF TypeInv, AmountsTyped
  <2>3. ChargedFor(b, "CANCELLED_WITH_NO_DISPATCH_PROOF", 0)
    BY <2>1, <2>2 DEF ChargedFor, Finality
  <2>4. 0 <= b.upper /\ \A s \in Scopes \ {b.scope} : spent'[s] = spent[s]
    BY <2>1, BindingFacts
  <2> QED
    BY <2>3, <2>4, LedgerOfFinish
<1>2. ASSUME NEW r \in Receipts, SettleConflict(r) PROVE LedgerInv'
  <2>1. PICK scopes : Conflict(scopes)
    BY <1>2 DEF SettleConflict
  <2>2. NoBooks /\ EffectsGrow
    BY <2>1, SameConflict, EffectsUntouched DEF Conflict, TypeInv
  <2> QED
    BY <2>2, LedgerSame
<1>3. ASSUME NEW r \in Receipts, SettleOverflow(r) PROVE LedgerInv'
  BY <1>3, SameOfOverflow, LedgerSame
<1>4. ASSUME NEW r \in Receipts, Settle(r) PROVE LedgerInv'
  <2> DEFINE b == r.binding
  <2>1. /\ FinishedFrom(b, "SETTLED", r.tokens) /\ b \in Bindings
        /\ r.tokens \in Nat /\ r.tokens = effects[b].tokens
        /\ spent' = Amount(spent, b, spent[b.scope][b.owner] + r.tokens)
    BY <1>4, SettleFinishes
  <2>2. b.scope \in Scopes /\ b.owner \in Owners
    BY <2>1, BindingFacts
  <2>3. \A o \in Owners : spent[b.scope][o] \in Nat
    BY <2>2 DEF TypeInv, AmountsTyped
  <2>4. \A s \in Scopes \ {b.scope} : spent'[s] = spent[s]
    BY <2>1, <2>2 DEF Amount, TypeInv, AmountsTyped
  <2>5. \A o \in Owners :
          spent'[b.scope][o] = spent[b.scope][o] + (IF o = b.owner THEN r.tokens ELSE 0)
    BY <2>1, <2>2, <2>3 DEF Amount, TypeInv, AmountsTyped
  <2>6. EffectsWithin(b.scope) => r.tokens <= b.upper
    BY <2>1 DEF EffectsWithin
  <2> HIDE DEF b
  <2>7. ChargedFor(b, "SETTLED", r.tokens)
    BY <2>1, <2>5 DEF ChargedFor, Finality
  <2> QED
    BY <2>1, <2>4, <2>6, <2>7, LedgerOfFinish
<1> QED
  BY <1>1, <1>2, <1>3, <1>4 DEF Resolution

LEMMA LedgerOfOpen ==
    ASSUME TypeInv, TypeInv', GateInv, RecordsInv, LedgerInv,
           NEW r \in Scopes, NEW o \in Openings, OpenScope(r, o)
    PROVE  LedgerInv'
<1> SUFFICES ASSUME NEW s \in Scopes PROVE Books(s)'
  BY DEF LedgerInv
<1>1. /\ ~Opened(r)
      /\ \A q \in Scopes \ {r} : Opened(q)' = Opened(q)
      /\ \A q \in Scopes : opening'[q] = IF q = r THEN o ELSE opening[q]
      /\ \A q \in Scopes : spent'[q] = IF q = r THEN o.spent ELSE spent[q]
      /\ \A q \in Scopes : protected'[q] = IF q = r THEN Closeout ELSE protected[q]
      /\ UNCHANGED <<operations, effects>>
  BY OpenedBy
<1>2. CASE s = r
  BY <1>1, <1>2, OpenedBooks
<1>3. CASE s # r
  <2>1. SameBooks(s)
    BY <1>1, <1>3 DEF SameBooks
  <2>2. EffectsGrow
    BY <1>1, EffectsUntouched DEF TypeInv
  <2> QED
    BY <2>1, <2>2, SameBooksKept DEF LedgerInv, TypeInv
<1> QED
  BY <1>2, <1>3

LEMMA LedgerStep ==
    TypeInv /\ TypeInv' /\ GateInv /\ RecordsInv /\ LedgerInv /\ [Next]_vars => LedgerInv'
<1> SUFFICES ASSUME TypeInv, TypeInv', GateInv, RecordsInv, LedgerInv, [Next]_vars PROVE LedgerInv'
  OBVIOUS
<1>1. ASSUME NEW c \in Controllers, Step(c) PROVE LedgerInv'
  <2>1. CASE Reserve(c)
    BY <2>1, LedgerOfReserve
  <2>2. CASE ~Reserve(c)
    BY <1>1, <2>2, SameOfStep, LedgerSame
  <2> QED
    BY <2>1, <2>2
<1>2. ASSUME NEW s \in Scopes, ScopeStep(s) PROVE LedgerInv'
  <2>1. ASSUME NEW o \in Openings, OpenScope(s, o) PROVE LedgerInv'
    BY <2>1, LedgerOfOpen
  <2>2. ASSUME NEW o \in Openings, OpenAgain(s, o) PROVE LedgerInv'
    <3>1. Conflict({s})
      BY <2>2 DEF OpenAgain
    <3>2. NoBooks /\ EffectsGrow
      BY <3>1, SameConflict, EffectsUntouched DEF Conflict, TypeInv
    <3> QED
      BY <3>2, LedgerSame
  <2>3. CASE Rebuild(s)
    BY <2>3, SameOfRebuild, LedgerSame
  <2> QED
    BY <1>2, <2>1, <2>2, <2>3 DEF ScopeStep
<1>3. CASE Resolution
  BY <1>3, LedgerOfResolution
<1>4. CASE UNCHANGED vars
  <2>1. NoBooks /\ EffectsGrow
    BY <1>4, SameUntouched, EffectsUntouched DEF vars, journal, scopeVars, TypeInv
  <2> QED
    BY <2>1, LedgerSame
<1> QED
  BY <1>1, <1>2, <1>3, <1>4 DEF Next

LEMMA LedgerInvariant == Spec => []LedgerInv
<1>1. Spec => [](TypeInv /\ GateInv /\ RecordsInv)
  BY TypeInvariant, GateInvariant, RecordsInvariant, PTL
<1> QED
  BY <1>1, LedgerInit, LedgerStep, PTL DEF Spec

\* The ledger adds up (_apply, record_settlement): each owner's known spending
\* is the opening plus what its settled operations used, and the source event
\* of every settlement has a row that no other operation or opening has.
THEOREM LedgerAddsUp == Spec => []ChargedOnce
<1>1. TypeInv /\ DispatchInv /\ RecordsInv /\ LedgerInv => ChargedOnce
  <2> SUFFICES ASSUME TypeInv, DispatchInv, RecordsInv, LedgerInv PROVE ChargedOnce
    OBVIOUS
  <2>1. ASSUME NEW s \in Scopes, NEW o \in Owners, Opened(s)
        PROVE  spent[s][o] =
                 opening[s].spent[o] + Total(Charged(s), ReservationsOf(s, {o}))
    <3>1. {o} \in SUBSET Owners
      OBVIOUS
    <3>2. Total(spent[s], {o}) =
            Total(opening[s].spent, {o}) + Total(Charged(s), ReservationsOf(s, {o}))
      BY <2>1, <3>1 DEF LedgerInv, Books, LedgerOf
    <3>3. spent[s][o] \in Nat /\ opening[s].spent[o] \in Nat
      BY <2>1, OpeningsAssumption, PolicyAssumption DEF TypeInv, AmountsTyped, RecordsInv, OpeningKept
    <3>4. Total(spent[s], {o}) = spent[s][o]
      BY <3>3, TotalOne
    <3>5. Total(opening[s].spent, {o}) = opening[s].spent[o]
      BY <3>3, TotalOne
    <3> QED
      BY <3>2, <3>4, <3>5
  <2>2. ASSUME NEW row \in identities, row.key[1] = "settlement"
        PROVE  \E source \in identities :
                 /\ source = [row EXCEPT !.key = SourceKey(row.value.event)]
                 /\ \A other \in identities : other.key = source.key => other = source
    <3>1. PICK source \in identities : source = [row EXCEPT !.key = SourceKey(row.value.event)]
      BY <2>2 DEF RecordsInv, SourceRows
    <3>2. \A other \in identities : other.key = source.key => other = source
      BY DEF DispatchInv, UniqueRows
    <3> QED
      BY <3>1, <3>2
  <2> QED
    BY <2>1, <2>2 DEF ChargedOnce
<1> QED
  BY <1>1, TypeInvariant, DispatchInvariant, RecordsInvariant, LedgerInvariant, PTL

\* What the operations of a kind really used is part of what is drawn for them.
LEMMA UseDrawn ==
    ASSUME TypeInv, DispatchInv, RecordsInv, NEW s \in Scopes, EffectsWithin(s),
           NEW W \in SUBSET Owners, NEW closeout \in BOOLEAN
    PROVE  LET T == {id \in ReservationsOf(s, W) : operations[s][id].binding.closeout = closeout}
           IN  /\ UseOf(s, W, closeout) \in Nat
               /\ UseOf(s, W, closeout) <= Total(Drawn(s), T)
<1> DEFINE T == {id \in ReservationsOf(s, W) : operations[s][id].binding.closeout = closeout}
           P == {b \in Bindings : b.scope = s /\ b.owner \in W /\ b.closeout = closeout}
           f == [b \in Bindings |-> effects[b].tokens]
           idOf == [b \in Bindings |-> b.id]
<1>1. T \in SUBSET OperationIds
  BY DEF ReservationsOf
<1>2. Counts(Drawn(s), T)
  BY <1>1, AmountsCount DEF TypeInv
<1>3. Counts(f, P)
  <2>1. IsFiniteSet(P)
    BY BindingsAssumption, FS_Subset
  <2>2. \A b \in P : f[b] \in Nat
    BY DEF TypeInv, AmountsTyped
  <2> HIDE DEF f, P
  <2> QED
    BY <2>1, <2>2 DEF Counts
<1>4. ASSUME NEW b \in P, f[b] > 0
      PROVE  Operation(b).binding = b /\ idOf[b] \in T /\ f[b] <= Drawn(s)[idOf[b]]
  <2>1. b \in Bindings /\ b.scope = s /\ b.owner \in W /\ b.closeout = closeout
    OBVIOUS
  <2>2. f[b] = effects[b].tokens /\ idOf[b] = b.id /\ b.upper \in Nat /\ b.id \in OperationIds
    BY <2>1, BindingFacts
  <2>3. effects[b].tokens \in Nat /\ effects[b].times \in Nat
    BY <2>1 DEF TypeInv, AmountsTyped
  <2>4. effects[b].times > 0
    BY <1>4, <2>1, <2>2, <2>3 DEF RecordsInv, Unused
  <2>5. /\ Operation(b).binding = b
        /\ \/ Operation(b).state \in Outstanding
           \/ Operation(b).state = "SETTLED" /\ Operation(b).actual = effects[b].tokens
    BY <2>1, <2>4 DEF DispatchInv, Uses
  <2>6. Operation(b) = operations[s][b.id] /\ Operation(b) \in OperationRecords
          /\ Reservation(s, b.id)
    BY <2>1, <2>2 DEF Operation, TypeInv, OperationsTyped
  <2>7. Operation(b).reservation \in Nat /\ Operation(b).actual \in Nat
    BY <2>6, PolicyAssumption DEF OperationRecords
  <2>8. Operation(b).state # "NONE"
    BY <2>5 DEF Outstanding
  <2>9. idOf[b] \in T
    BY <2>1, <2>2, <2>5, <2>6, <2>8 DEF ReservationsOf
  <2>10. Drawn(s)[b.id] = Operation(b).reservation + Operation(b).actual
    BY <2>2, <2>6 DEF Drawn, Held, Charged
  <2>11. effects[b].tokens <= b.upper
    BY <2>1 DEF EffectsWithin
  <2>12. \/ Operation(b).reservation = b.upper
         \/ Operation(b).actual = effects[b].tokens
    BY <2>5, <2>6 DEF Reservation, Outstanding, NotReserved
  <2>13. effects[b].tokens <= Drawn(s)[b.id]
    BY <2>2, <2>3, <2>7, <2>10, <2>11, <2>12
  <2> QED
    BY <2>2, <2>5, <2>9, <2>13
<1>5. ASSUME NEW a \in P, NEW b \in P, f[a] > 0, f[b] > 0, idOf[a] = idOf[b]
      PROVE  a = b
  <2>1. Operation(a).binding = a /\ Operation(b).binding = b
    BY <1>4, <1>5
  <2>2. Operation(a) = Operation(b)
    BY <1>5 DEF Operation
  <2> QED
    BY <2>1, <2>2
<1>6. UseOf(s, W, closeout) = Total(f, P)
  BY DEF UseOf
<1> HIDE DEF T, P, f, idOf
<1>7. Total(f, P) <= Total(Drawn(s), T)
  <2>1. \A x \in P : f[x] > 0 => idOf[x] \in T /\ f[x] <= Drawn(s)[idOf[x]]
    BY <1>4
  <2>2. \A x, y \in P : f[x] > 0 /\ f[y] > 0 /\ idOf[x] = idOf[y] => x = y
    BY <1>5
  <2> QED
    BY <1>2, <1>3, <2>1, <2>2, TotalInto
<1> QED
  BY <1>3, <1>6, <1>7, TotalNat DEF T

\* Within the bounds of the effects, what is drawn of closeout shares and what
\* is drawn otherwise fit the cap of the run or the task beside the shares left.
LEMMA DrawnFits ==
    ASSUME TypeInv, RecordsInv, LedgerInv, NEW s \in Scopes, Opened(s), EffectsWithin(s),
           NEW W \in SUBSET Owners, NEW cap \in Nat, Committed(s, W) <= cap
    PROVE  LET T == {id \in ReservationsOf(s, W) : operations[s][id].binding.closeout = FALSE}
           IN  /\ Total(Drawn(s), T) \in Nat /\ Total(Closeout, W) \in Nat
               /\ Total(Drawn(s), T) + Total(Closeout, W) <= cap
<1> DEFINE R == ReservationsOf(s, W)
           C == CloseoutOf(s, W)
           T == {id \in ReservationsOf(s, W) : operations[s][id].binding.closeout = FALSE}
<1>1. /\ R \in SUBSET OperationIds /\ C \in SUBSET OperationIds /\ T \in SUBSET OperationIds
      /\ T \intersect C = {}
  BY DEF ReservationsOf, CloseoutOf
<1>2. R = T \union C
  <2>1. \A id \in R : operations[s][id].binding.closeout \in BOOLEAN
    <3> SUFFICES ASSUME NEW id \in R PROVE operations[s][id].binding.closeout \in BOOLEAN
      OBVIOUS
    <3>1. id \in OperationIds /\ operations[s][id].state # "NONE"
      BY DEF ReservationsOf
    <3>2. operations[s][id].binding \in Bindings
      BY <3>1 DEF TypeInv, OperationsTyped, Reservation, NotReserved
    <3> QED
      BY <3>2, BindingFacts
  <2> QED
    BY <2>1 DEF CloseoutOf
<1>3. /\ Counts(spent[s], W) /\ Counts(protected[s], W) /\ Counts(Closeout, W)
      /\ Counts(Held(s), R) /\ Counts(Charged(s), R) /\ Counts(Drawn(s), T) /\ Counts(Drawn(s), C)
  BY <1>1, AmountsCount DEF TypeInv
<1>4. Counts(opening[s].spent, W)
  BY OpeningCounts DEF RecordsInv, OpeningKept
<1>5. Total(Drawn(s), R) = Total(Held(s), R) + Total(Charged(s), R)
  <2>1. \A id \in R : Drawn(s)[id] = Held(s)[id] + Charged(s)[id]
    BY <1>1 DEF Drawn
  <2> HIDE DEF R
  <2> QED
    BY <1>3, <2>1, TotalBoth
<1>6. Total(Drawn(s), R) = Total(Drawn(s), T) + Total(Drawn(s), C)
  <2> HIDE DEF R, T, C
  <2> QED
    BY <1>1, <1>2, <1>3, TotalSplit
<1>7. Total(spent[s], W) = Total(opening[s].spent, W) + Total(Charged(s), R)
  BY DEF LedgerInv, Books, LedgerOf
<1>8. Total(protected[s], W) + Total(Drawn(s), C) = Total(Closeout, W)
  BY DEF LedgerInv, Books, ShareOf
<1>9. Committed(s, W) = Total(spent[s], W) + Total(protected[s], W) + Total(Held(s), R)
  BY DEF Committed
<1>10. /\ Total(spent[s], W) \in Nat /\ Total(protected[s], W) \in Nat /\ Total(Closeout, W) \in Nat
       /\ Total(Held(s), R) \in Nat /\ Total(Charged(s), R) \in Nat
       /\ Total(Drawn(s), T) \in Nat /\ Total(Drawn(s), C) \in Nat
       /\ Total(opening[s].spent, W) \in Nat
  BY <1>3, <1>4, TotalNat
<1> HIDE DEF R, C, T
<1>11. Total(Drawn(s), T) + Total(Closeout, W) <= cap
  <2>1. Total(Drawn(s), T) + Total(Closeout, W)
          = Total(protected[s], W) + Total(Held(s), R) + Total(Charged(s), R)
    BY <1>5, <1>6, <1>8, <1>10
  <2>2. Total(Charged(s), R) <= Total(spent[s], W)
    BY <1>7, <1>10
  <2> QED
    BY <1>9, <1>10, <2>1, <2>2
<1> QED
  BY <1>10, <1>11 DEF T

\* As long as every effect stays within its own bound, what a run and each of
\* its tasks really used stays within the caps with the closeout shares left
\* over, and closeout work within its share (_reservation_fits, _apply).
THEOREM CapsAreKept == Spec => []CapsHold
<1>1. TypeInv /\ GateInv /\ DispatchInv /\ RecordsInv /\ LedgerInv => CapsHold
  <2> SUFFICES ASSUME TypeInv, GateInv, DispatchInv, RecordsInv, LedgerInv,
                      NEW s \in Scopes, EffectsWithin(s)
               PROVE  /\ UseOf(s, Owners, FALSE) > 0 =>
                           UseOf(s, Owners, FALSE) + Total(Closeout, Owners) <= RunCap
                      /\ \A t \in Tasks : UseOf(s, {t}, FALSE) > 0 =>
                           UseOf(s, {t}, FALSE) + Closeout[t] <= TaskCap[t]
                      /\ \A o \in Owners : UseOf(s, {o}, TRUE) <= Closeout[o]
    BY DEF CapsHold
  <2> DEFINE Ordinary(W) ==
        {id \in ReservationsOf(s, W) : operations[s][id].binding.closeout = FALSE}
  <2>1. ASSUME NEW W \in SUBSET Owners PROVE ReservationsOf(s, W) # {} => Opened(s)
    BY DEF GateInv, Unopened, Opened, ReservationsOf, NotReserved
  <2>2. ASSUME NEW W \in SUBSET Owners, NEW cap \in Nat,
               ReservationsOf(s, W) # {} => Committed(s, W) <= cap,
               UseOf(s, W, FALSE) > 0
        PROVE  UseOf(s, W, FALSE) + Total(Closeout, W) <= cap
    <3>1. PICK used \in Nat : used = UseOf(s, W, FALSE) /\ used <= Total(Drawn(s), Ordinary(W))
      BY UseDrawn
    <3>0. used <= Total(Drawn(s), Ordinary(W))
      BY <3>1
    <3>2. Ordinary(W) # {}
      <4>1. Total(Drawn(s), {}) = 0
        BY TotalEmpty
      <4>2. used > 0
        BY <2>2, <3>1
      <4> HIDE DEF Ordinary
      <4> QED
        BY <3>0, <4>1, <4>2
    <3>3. ReservationsOf(s, W) # {}
      BY <3>2
    <3>4. Opened(s) /\ Committed(s, W) <= cap
      BY <2>1, <2>2, <3>3
    <3>5. /\ Total(Drawn(s), Ordinary(W)) \in Nat /\ Total(Closeout, W) \in Nat
          /\ Total(Drawn(s), Ordinary(W)) + Total(Closeout, W) <= cap
      BY <3>4, DrawnFits
    <3> HIDE DEF Ordinary
    <3>6. used + Total(Closeout, W) <= cap
      BY <3>0, <3>5
    <3> QED
      BY <3>1, <3>6
  <2>3. UseOf(s, Owners, FALSE) > 0 => UseOf(s, Owners, FALSE) + Total(Closeout, Owners) <= RunCap
    <3>1. RunCap \in Nat /\ Owners \in SUBSET Owners
      BY PolicyAssumption
    <3>2. ReservationsOf(s, Owners) # {} => Committed(s, Owners) <= RunCap
      BY DEF LedgerInv, Books, CapsOf
    <3> QED
      BY <2>2, <3>1, <3>2
  <2>4. ASSUME NEW t \in Tasks, UseOf(s, {t}, FALSE) > 0
        PROVE  UseOf(s, {t}, FALSE) + Closeout[t] <= TaskCap[t]
    <3>1. TaskCap[t] \in Nat /\ {t} \in SUBSET Owners /\ Closeout[t] \in Nat
      BY PolicyAssumption DEF Owners
    <3>2. ReservationsOf(s, {t}) # {} => Committed(s, {t}) <= TaskCap[t]
      BY DEF LedgerInv, Books, CapsOf
    <3>3. UseOf(s, {t}, FALSE) + Total(Closeout, {t}) <= TaskCap[t]
      BY <2>2, <2>4, <3>1, <3>2
    <3>4. Total(Closeout, {t}) = Closeout[t]
      BY <3>1, TotalOne
    <3> QED
      BY <3>3, <3>4
  <2>5. ASSUME NEW o \in Owners PROVE UseOf(s, {o}, TRUE) <= Closeout[o]
    <3> DEFINE T == {id \in ReservationsOf(s, {o}) : operations[s][id].binding.closeout = TRUE}
    <3>1. {o} \in SUBSET Owners /\ Closeout[o] \in Nat
      BY PolicyAssumption
    <3>2. PICK used \in Nat : used = UseOf(s, {o}, TRUE) /\ used <= Total(Drawn(s), T)
      BY <3>1, UseDrawn
    <3> SUFFICES used <= Closeout[o]
      BY <3>2
    <3>0. used <= Total(Drawn(s), T)
      BY <3>2
    <3>3. CASE ~Opened(s)
      <4>1. T = {}
        BY <2>1, <3>1, <3>3
      <4>2. Total(Drawn(s), {}) = 0
        BY TotalEmpty
      <4> HIDE DEF T
      <4> QED
        BY <3>0, <3>1, <4>1, <4>2
    <3>4. CASE Opened(s)
      <4>1. T = CloseoutOf(s, {o})
        <5>1. \A id \in ReservationsOf(s, {o}) : operations[s][id].binding.closeout \in BOOLEAN
          BY BindingFacts DEF ReservationsOf, TypeInv, OperationsTyped, Reservation, NotReserved
        <5> QED
          BY <5>1 DEF CloseoutOf
      <4>2. Total(protected[s], {o}) + Total(Drawn(s), CloseoutOf(s, {o})) = Total(Closeout, {o})
        BY <3>1, <3>4 DEF LedgerInv, Books, ShareOf
      <4>3. Total(Closeout, {o}) = Closeout[o]
        BY <3>1, TotalOne
      <4>4. CloseoutOf(s, {o}) \in SUBSET OperationIds
        BY DEF CloseoutOf, ReservationsOf
      <4>5. Counts(protected[s], {o}) /\ Counts(Drawn(s), CloseoutOf(s, {o}))
        BY <3>1, <4>4, AmountsCount DEF TypeInv
      <4>6. Total(protected[s], {o}) \in Nat /\ Total(Drawn(s), CloseoutOf(s, {o})) \in Nat
        BY <4>5, TotalNat
      <4> HIDE DEF T
      <4>7. Total(Drawn(s), CloseoutOf(s, {o})) <= Closeout[o]
        BY <4>2, <4>3, <4>6
      <4> QED
        BY <3>0, <3>1, <4>1, <4>6, <4>7
    <3> QED
      BY <3>3, <3>4
  <2> QED
    BY <2>3, <2>4, <2>5
<1> QED
  BY <1>1, TypeInvariant, GateInvariant, DispatchInvariant, RecordsInvariant, LedgerInvariant, PTL
=============================================================================
