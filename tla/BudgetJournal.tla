--------------------------- MODULE BudgetJournal ---------------------------
(***************************************************************************)
(* The accounting journal of token budgets (accounting/) and the           *)
(* controllers that admit a paid effect through it                         *)
(* (adapter_sessions/process_admission.py).                                *)
(*                                                                         *)
(* A scope has a policy: a cap for the run, a cap for each task and a      *)
(* protected closeout share for each owner.  A controller qualifies an     *)
(* operation on a snapshot, reserves its upper bound, claims the permit,   *)
(* checks again, notes the dispatch and only then performs the effect;     *)
(* each of these is one SQLite transaction, and between two of them the    *)
(* other controllers, recovery and settlement run.  A controller that      *)
(* dies, loses an answer or is refused leaves whatever it has committed.   *)
(*                                                                         *)
(* The journal revision is modelled by what it is compared for: a          *)
(* qualified controller is "stale" once an event of its scope is recorded. *)
(* Scopes of storage mode COVERAGE_V2 and the closing of runs are outside. *)
(***************************************************************************)
EXTENDS Naturals, FiniteSetsExt

CONSTANTS
    Scopes,         \* budget scope ids
    Tasks,          \* task ids with a cap
    RunOwner,       \* the owner of work attributed to no task
    Controllers,    \* processes inside JournalPreparationAdmission.invoke
    Bindings,       \* the operations asked for, see BindingsAssumption
    Openings,       \* the opening balances offered, see OpeningsAssumption
    Events,         \* source event ids of receipts and openings
    Amounts,        \* tokens an effect may use
    RunCap,         \* run_cap of the policy
    TaskCap,        \* task_caps of the policy
    Closeout,       \* protected_closeout of the policy, by owner
    MaxInteger,     \* MAX_INTEGER: the largest supported token count
    AnyScope,       \* marks a key that is unique over all scopes
    NoBinding,
    NoOpening

Owners == Tasks \union {RunOwner}
OperationIds == {b.id : b \in Bindings}

ASSUME PolicyAssumption ==
    /\ IsFiniteSet(Tasks) /\ RunOwner \notin Tasks
    /\ MaxInteger \in Nat
    /\ Amounts \subseteq Nat
    /\ RunCap \in 0..MaxInteger
    /\ TaskCap \in [Tasks -> 0..MaxInteger]
    /\ Closeout \in [Owners -> 0..MaxInteger]

\* Operation (contracts.py).  matches: run, unit, policy and task are those of
\* the scope.  closeout: operation_class is CLOSEOUT, drawn on its own owner.
ASSUME BindingsAssumption ==
    /\ IsFiniteSet(Bindings) /\ NoBinding \notin Bindings
    /\ \A b \in Bindings :
        /\ b.scope \in Scopes
        /\ b.owner \in Owners
        /\ b.upper \in 0..MaxInteger
        /\ b.closeout \in BOOLEAN
        /\ b.matches \in BOOLEAN

\* OpeningBalance: known tells whether every amount is stated and no pending
\* operation is unknown; covered are the source events it already includes.
ASSUME OpeningsAssumption ==
    /\ NoOpening \notin Openings
    /\ \A o \in Openings :
        /\ o.spent \in [Owners -> 0..MaxInteger]
        /\ o.known \in BOOLEAN
        /\ o.covered \subseteq Events

VARIABLES
    gate,           \* gate[s]: "UNOPENED" or the scope's gate
    qualified,      \* qualified[s]: are all amounts of the scope known
    opening,        \* opening[s]: the opening balance it was opened with
    spent,          \* spent[s][owner]: known tokens, opening included
    protected,      \* protected[s][owner]: closeout share not yet reserved
    operations,     \* operations[s][id]: the reservation of that operation
    identities,     \* rows [key, scope, value] of global immutable keys
    pc,             \* pc[c]: where controller c is in invoke
    plan,           \* plan[c]: the operation it was called for
    effects         \* effects[b]: how often b was performed, tokens it used

scopeVars == <<gate, qualified, opening, spent, protected, operations>>
journal == <<scopeVars, identities>>
vars == <<journal, pc, plan, effects>>

OperationStates ==
    {"NONE", "RESERVED", "DISPATCHED", "UNAVAILABLE", "SETTLED",
     "CANCELLED_WITH_NO_DISPATCH_PROOF"}
NotReserved ==
    [state |-> "NONE", binding |-> NoBinding, claimed |-> FALSE,
     reservation |-> 0, actual |-> 0]

Operation(b) == operations[b.scope][b.id]
Opened(s) == gate[s] # "UNOPENED"
Receipts == [binding : Bindings, event : Events, tokens : Amounts]
-----------------------------------------------------------------------------
(* Projections.                                                            *)

ReservationsOf(s, owners) ==
    {id \in OperationIds :
        /\ operations[s][id].state # "NONE"
        /\ operations[s][id].binding.owner \in owners}

\* sum of the amounts of S.
Total(f, S) == MapThenSumSet(LAMBDA x : f[x], S)

\* The hold and the charge of every operation of a scope.
Held(s) == [id \in OperationIds |-> operations[s][id].reservation]
Charged(s) == [id \in OperationIds |-> operations[s][id].actual]

\* spent + protected closeout + active reservations of some owners.
Committed(s, owners) ==
    Total(spent[s], owners) + Total(protected[s], owners)
      + Total(Held(s), ReservationsOf(s, owners))

\* _projection: the known spending of the scope.
KnownSpent(s) == Total(spent[s], Owners)

\* Mutant: the closeout share is not held back from ordinary work.
FitsIgnoringCloseout(b) ==
    Committed(b.scope, Owners) + b.upper - protected[b.scope][b.owner]
        <= RunCap

\* _reservation_fits: a closeout operation moves its bound out of the
\* protected share, any other one must leave the share untouched.
ReservationFits(b) ==
    LET transfer == IF b.closeout THEN b.upper ELSE 0
    IN  /\ transfer <= protected[b.scope][b.owner]
        /\ Committed(b.scope, Owners) + b.upper - transfer <= RunCap
        /\ b.owner \in Tasks =>
             Committed(b.scope, {b.owner}) + b.upper - transfer
                 <= TaskCap[b.owner]
-----------------------------------------------------------------------------
(* Keys.                                                                   *)

DispatchKey(b) == <<"dispatch", b.scope, b.dispatch>>
PermitKey(b) == <<"permit", AnyScope, b.permit>>
SettlementKey(b) == <<"settlement", b.scope, b.id>>
SourceKey(e) == <<"source", AnyScope, e>>

\* Mutant: one permit may be used in several scopes.
ScopedKeys(b) == {DispatchKey(b), <<"permit", b.scope, b.permit>>}

\* The rows of an operation key and of a claim follow the operation's state and
\* its permit row, so they never have a rival of their own.
ReservationKeys(b) == {DispatchKey(b), PermitKey(b)}

\* _key: the rows that already give a key to another scope or content.
Rivals(keys, s, value) ==
    {row \in identities : row.key \in keys /\ ~(row.scope = s /\ row.value = value)}

Take(keys, s, value) ==
    identities' = identities
        \union {[key |-> k, scope |-> s, value |-> value] : k \in keys}

\* The dispatch key is tried before the permit; the first rival is reported.
RivalScopes(b) ==
    LET rivals == Rivals(ReservationKeys(b), b.scope, b)
        first == {r \in rivals : r.key = DispatchKey(b)}
    IN  {r.scope : r \in IF first # {} THEN first ELSE rivals}
-----------------------------------------------------------------------------
(* Recording.                                                              *)

\* _record: an event of a scope makes every snapshot of the scope stale.
Snapshots(scopes) ==
    [c \in Controllers |->
        IF pc[c] = "qualified" /\ plan[c].scope \in scopes THEN "stale" ELSE pc[c]]

Recorded(scopes) == pc' = Snapshots(scopes) /\ UNCHANGED plan
RecordedBy(c, scopes, next) ==
    pc' = [Snapshots(scopes) EXCEPT ![c] = next] /\ UNCHANGED plan

\* A refused or failed call raises: the controller is free for another call.
Raise(c) ==
    /\ pc' = [pc EXCEPT ![c] = "idle"]
    /\ plan' = [plan EXCEPT ![c] = NoBinding]
RaiseAfter(c, scopes) ==
    /\ pc' = [Snapshots(scopes) EXCEPT ![c] = "idle"]
    /\ plan' = [plan EXCEPT ![c] = NoBinding]

Store(b, op) == operations' = [operations EXCEPT ![b.scope] = [@ EXCEPT ![b.id] = op]]

\* _conflict: every opened scope involved is marked, for good.
Conflict(scopes) ==
    /\ gate' = [s \in Scopes |->
                 IF s \in scopes /\ Opened(s) THEN "CONFLICT" ELSE gate[s]]
    /\ qualified' = [s \in Scopes |->
                 qualified[s] /\ ~(s \in scopes /\ Opened(s))]
    /\ UNCHANGED <<opening, spent, protected, operations, identities, effects>>

\* The gate after an operation became uncertain.
Blocked(g) == IF g \in {"BOUND_BROKEN", "CONFLICT"} THEN g ELSE "INCOMPLETE"
Broken(g) == IF g = "CONFLICT" THEN g ELSE "BOUND_BROKEN"

\* The gate after b is finished with a charge: only an ordinary INCOMPLETE
\* clears, and only when no other operation is uncertain.
Resolved(b, tokens) ==
    LET g == gate[b.scope]
        uncertain == {id \in OperationIds \ {b.id} :
                        operations[b.scope][id].state = "UNAVAILABLE"}
    IN  IF tokens > b.upper THEN Broken(g)
        ELSE IF g = "INCOMPLETE" /\ qualified[b.scope] /\ uncertain = {} THEN "READY"
        ELSE g

Finished(b, state, tokens) ==
    Store(b, [Operation(b) EXCEPT !.state = state, !.reservation = 0, !.actual = tokens])

\* The amount of b's owner in b's scope.
Amount(amounts, b, n) ==
    [amounts EXCEPT ![b.scope] = [amounts[b.scope] EXCEPT ![b.owner] = n]]

\* SETTLE and CANCEL give back what b did not use of a closeout share.
Released(b, tokens) ==
    IF b.closeout /\ tokens < b.upper
    THEN Amount(protected, b, protected[b.scope][b.owner] + (b.upper - tokens))
    ELSE protected
-----------------------------------------------------------------------------
Init ==
    /\ gate = [s \in Scopes |-> "UNOPENED"]
    /\ qualified = [s \in Scopes |-> FALSE]
    /\ opening = [s \in Scopes |-> NoOpening]
    /\ spent = [s \in Scopes |-> [o \in Owners |-> 0]]
    /\ protected = [s \in Scopes |-> [o \in Owners |-> 0]]
    /\ operations = [s \in Scopes |-> [id \in OperationIds |-> NotReserved]]
    /\ identities = {}
    /\ pc = [c \in Controllers |-> "idle"]
    /\ plan = [c \in Controllers |-> NoBinding]
    /\ effects = [b \in Bindings |-> [times |-> 0, tokens |-> 0]]
-----------------------------------------------------------------------------
(* Scopes.                                                                 *)

\* The scope as _initial makes it; with a rival for a covered source event it
\* is opened in conflict and none of its keys is kept.
OpenWith(s, o, rivals) ==
    /\ opening' = [opening EXCEPT ![s] = o]
    /\ spent' = [spent EXCEPT ![s] = o.spent]
    /\ protected' = [protected EXCEPT ![s] = Closeout]
    /\ IF rivals = {}
       THEN /\ gate' = [gate EXCEPT ![s] = IF o.known THEN "READY" ELSE "INCOMPLETE"]
            /\ qualified' = [qualified EXCEPT ![s] = o.known]
            /\ Take({SourceKey(e) : e \in o.covered}, s, o)
            /\ Recorded({s})
       ELSE \E rival \in rivals :
            /\ gate' = [gate EXCEPT ![s] = "CONFLICT", ![rival.scope] = "CONFLICT"]
            /\ qualified' = [qualified EXCEPT ![s] = FALSE, ![rival.scope] = FALSE]
            /\ Recorded({s, rival.scope})
            /\ UNCHANGED identities
    /\ UNCHANGED <<operations, effects>>

OpenScope(s, o) ==
    /\ ~Opened(s)
    /\ OpenWith(s, o, Rivals({SourceKey(e) : e \in o.covered}, s, o))

\* The same scope is opened again with another content.
OpenAgain(s, o) ==
    /\ Opened(s)
    /\ opening[s] # o
    /\ Conflict({s})
    /\ Recorded({s})

\* Recovery cannot infer that a durable claim was never sent.
Uncertain(s) ==
    {id \in OperationIds :
        /\ operations[s][id].claimed
        /\ operations[s][id].state \in {"RESERVED", "DISPATCHED"}}

Rebuild(s) ==
    /\ Uncertain(s) # {}
    /\ gate' = [gate EXCEPT ![s] = Blocked(@)]
    /\ operations' = [operations EXCEPT ![s] =
         [id \in OperationIds |->
            IF id \in Uncertain(s) THEN [operations[s][id] EXCEPT !.state = "UNAVAILABLE"]
            ELSE operations[s][id]]]
    /\ Recorded({s})
    /\ UNCHANGED <<qualified, opening, spent, protected, identities, effects>>
-----------------------------------------------------------------------------
(* The steps of invoke.                                                    *)

\* _prefix, qualify and _usage: ready and qualified, a history that starts
\* from nothing, and no other content under this operation id.
Ready(b) ==
    /\ gate[b.scope] = "READY"
    /\ qualified[b.scope]
    /\ \A o \in Owners : opening[b.scope].spent[o] = 0
    /\ Operation(b).binding \in {NoBinding, b}

Qualify(c, b) ==
    /\ pc[c] = "idle"
    /\ Ready(b)
    /\ pc' = [pc EXCEPT ![c] = "qualified"]
    /\ plan' = [plan EXCEPT ![c] = b]
    /\ UNCHANGED <<journal, effects>>

Reserve(c) ==
    LET b == plan[c]
    IN  /\ pc[c] = "qualified"
        /\ Operation(b).state = "NONE"
        /\ gate[b.scope] = "READY"
        /\ b.matches
        /\ ReservationFits(b)
        /\ Rivals(ReservationKeys(b), b.scope, b) = {}
        /\ Take(ReservationKeys(b), b.scope, b)
        /\ Store(b, [state |-> "RESERVED", binding |-> b, claimed |-> FALSE,
                     reservation |-> b.upper, actual |-> 0])
        /\ protected' = IF b.closeout
             THEN Amount(protected, b, protected[b.scope][b.owner] - b.upper)
             ELSE protected
        /\ RecordedBy(c, {b.scope}, "reserved")
        /\ UNCHANGED <<gate, qualified, opening, spent, effects>>

\* Refusals of reserve that mark scopes: the operation id has another content
\* (found even on a stale snapshot), the binding is of another policy, or a
\* key belongs to another operation.
ReserveConflict(c, scopes) ==
    /\ Conflict(scopes)
    /\ RaiseAfter(c, scopes)

ReserveChanged(c) ==
    LET b == plan[c]
    IN  /\ pc[c] \in {"qualified", "stale"}
        /\ Operation(b).binding \notin {NoBinding, b}
        /\ ReserveConflict(c, {b.scope})

ReserveMismatch(c) ==
    LET b == plan[c]
    IN  /\ pc[c] = "qualified"
        /\ Operation(b).state = "NONE"
        /\ gate[b.scope] = "READY"
        /\ ~b.matches
        /\ ReserveConflict(c, {b.scope})

ReserveRival(c) ==
    LET b == plan[c]
    IN  /\ pc[c] = "qualified"
        /\ Operation(b).state = "NONE"
        /\ gate[b.scope] = "READY"
        /\ b.matches
        /\ ReservationFits(b)
        /\ Rivals(ReservationKeys(b), b.scope, b) # {}
        /\ ReserveConflict(c, {b.scope} \union RivalScopes(b))

Claim(c) ==
    LET b == plan[c]
    IN  /\ pc[c] = "reserved"
        /\ gate[b.scope] = "READY"
        /\ Operation(b).state = "RESERVED"
        /\ ~Operation(b).claimed
        /\ Store(b, [Operation(b) EXCEPT !.claimed = TRUE])
        /\ RecordedBy(c, {b.scope}, "claimed")
        /\ UNCHANGED <<gate, qualified, opening, spent, protected, identities, effects>>

\* check: readiness once more, just before the dispatch is noted.
Recheck(c) ==
    /\ pc[c] = "claimed"
    /\ Ready(plan[c])
    /\ pc' = [pc EXCEPT ![c] = "checked"]
    /\ UNCHANGED <<journal, plan, effects>>

\* Mutant: a finished operation is not refused.
NotableAlways(b, target) == Operation(b).claimed /\ Operation(b).state # target

\* _note accepts what is claimed and not finished, and only a change.
Notable(b, target) ==
    /\ Operation(b).claimed
    /\ Operation(b).state \in {"RESERVED", "DISPATCHED", "UNAVAILABLE"} \ {target}

NoteDispatch(c) ==
    LET b == plan[c]
    IN  /\ pc[c] = "checked"
        /\ Notable(b, "DISPATCHED")
        /\ Store(b, [Operation(b) EXCEPT !.state = "DISPATCHED"])
        /\ RecordedBy(c, {b.scope}, "dispatching")
        /\ UNCHANGED <<gate, qualified, opening, spent, protected, identities, effects>>

\* effect(): the provider performs the operation.
Perform(c, tokens) ==
    /\ pc[c] = "dispatching"
    /\ effects' = [effects EXCEPT ![plan[c]] =
         [times |-> @.times + 1, tokens |-> @.tokens + tokens]]
    /\ pc' = [pc EXCEPT ![c] = "performed"]
    /\ UNCHANGED <<journal, plan>>

\* effect() raises, before or after the provider performed the operation.
NoteUnavailable(c) ==
    LET b == plan[c]
    IN  /\ pc[c] \in {"dispatching", "performed"}
        /\ Notable(b, "UNAVAILABLE")
        /\ Store(b, [Operation(b) EXCEPT !.state = "UNAVAILABLE"])
        /\ gate' = [gate EXCEPT ![b.scope] = Blocked(@)]
        /\ RaiseAfter(c, {b.scope})
        /\ UNCHANGED <<qualified, opening, spent, protected, identities, effects>>

\* The controller returns, is refused without an event, loses the answer of
\* a committed transaction, or dies.
Abandon(c) ==
    /\ pc[c] # "idle"
    /\ Raise(c)
    /\ UNCHANGED <<journal, effects>>
-----------------------------------------------------------------------------
(* Resolution.                                                             *)

\* A definitive no-dispatch proof: b was not performed, and nobody who noted
\* its dispatch may still perform it.
NotDispatched(b) ==
    /\ effects[b].times = 0
    /\ \A c \in Controllers : plan[c] = b => pc[c] # "dispatching"

CancelWithoutDispatch(b) ==
    /\ Operation(b).binding = b
    /\ Operation(b).state \in {"RESERVED", "UNAVAILABLE"}
    /\ NotDispatched(b)
    /\ Finished(b, "CANCELLED_WITH_NO_DISPATCH_PROOF", 0)
    /\ protected' = Released(b, 0)
    /\ gate' = [gate EXCEPT ![b.scope] = Resolved(b, 0)]
    /\ Recorded({b.scope})
    /\ UNCHANGED <<qualified, opening, spent, identities, effects>>

\* The receipt the provider issues for what it performed.
Authentic(r) ==
    /\ effects[r.binding].times > 0
    /\ r.tokens = effects[r.binding].tokens

\* Mutant: the source event of a receipt is not looked up.
NoSourceRivals(r) == Rivals({}, r.binding.scope, r)

SourceRivals(r) == Rivals({SourceKey(r.event)}, r.binding.scope, r)
SettlementRivals(r) == Rivals({SettlementKey(r.binding)}, r.binding.scope, r)

\* The receipt contradicts the dispatch history of the operation it names.
Contradicts(r) ==
    LET op == Operation(r.binding)
    IN  /\ op.state # "NONE"
        /\ \/ op.binding # r.binding
           \/ ~op.claimed
           \/ op.state = "CANCELLED_WITH_NO_DISPATCH_PROOF"

\* record_settlement of a receipt that cannot be right beside what is recorded.
SettleConflict(r) ==
    /\ SourceRivals(r) # {} \/ Contradicts(r)
         \/ (SettlementRivals(r) # {} /\ Operation(r.binding).state # "NONE")
    /\ LET scopes == {r.binding.scope} \union {row.scope : row \in SourceRivals(r)}
       IN  Conflict(scopes) /\ Recorded(scopes)

\* A first receipt for a claimed operation that is not cancelled.
Chargeable(r) ==
    /\ Operation(r.binding).binding = r.binding
    /\ ~Contradicts(r)
    /\ SourceRivals(r) = {}
    /\ ~\E row \in identities : row.key = SettlementKey(r.binding)

TakeReceipt(r) ==
    Take({SettlementKey(r.binding), SourceKey(r.event)}, r.binding.scope, r)

Overflows(r) == KnownSpent(r.binding.scope) + r.tokens > MaxInteger

SettleOverflow(r) ==
    LET b == r.binding
    IN  /\ Authentic(r)
        /\ Chargeable(r)
        /\ Overflows(r)
        /\ TakeReceipt(r)
        /\ qualified' = [qualified EXCEPT ![b.scope] = FALSE]
        /\ gate' = [gate EXCEPT ![b.scope] = Broken(@)]
        /\ Store(b, [Operation(b) EXCEPT !.state = "UNAVAILABLE"])
        /\ Recorded({b.scope})
        /\ UNCHANGED <<opening, spent, protected, effects>>

Settle(r) ==
    LET b == r.binding
    IN  /\ Authentic(r)
        /\ Chargeable(r)
        /\ ~Overflows(r)
        /\ TakeReceipt(r)
        /\ spent' = Amount(spent, b, spent[b.scope][b.owner] + r.tokens)
        /\ Finished(b, "SETTLED", r.tokens)
        /\ protected' = Released(b, r.tokens)
        /\ gate' = [gate EXCEPT ![b.scope] = Resolved(b, r.tokens)]
        /\ Recorded({b.scope})
        /\ UNCHANGED <<qualified, opening, effects>>
-----------------------------------------------------------------------------
Step(c) ==
    \/ \E b \in Bindings : Qualify(c, b)
    \/ Reserve(c)
    \/ ReserveChanged(c)
    \/ ReserveMismatch(c)
    \/ ReserveRival(c)
    \/ Claim(c)
    \/ Recheck(c)
    \/ NoteDispatch(c)
    \/ \E tokens \in Amounts : Perform(c, tokens)
    \/ NoteUnavailable(c)
    \/ Abandon(c)

ScopeStep(s) ==
    \/ \E o \in Openings : OpenScope(s, o)
    \/ \E o \in Openings : OpenAgain(s, o)
    \/ Rebuild(s)

Resolution ==
    \/ \E b \in Bindings : CancelWithoutDispatch(b)
    \/ \E r \in Receipts : SettleConflict(r)
    \/ \E r \in Receipts : SettleOverflow(r)
    \/ \E r \in Receipts : Settle(r)

Next ==
    \/ \E c \in Controllers : Step(c)
    \/ \E s \in Scopes : ScopeStep(s)
    \/ Resolution

Spec == Init /\ [][Next]_vars
-----------------------------------------------------------------------------
(* Properties.                                                             *)

OperationRecords ==
    [state : OperationStates, binding : Bindings \union {NoBinding},
     claimed : BOOLEAN, reservation : 0..MaxInteger, actual : Nat]

\* A reservation is held in full until its operation is finished, then not
\* at all, and stands under its own scope and id.
Reservation(s, id) ==
    LET op == operations[s][id]
    IN  \/ op = NotReserved
        \/ /\ op.binding \in Bindings
           /\ op.binding.scope = s
           /\ op.binding.id = id
           /\ op.state # "NONE"
           /\ op.reservation =
                IF op.state \in {"SETTLED", "CANCELLED_WITH_NO_DISPATCH_PROOF"} THEN 0
                ELSE op.binding.upper

\* The journal, the identity rows and the controllers are well-formed, and
\* every stored operation has the hold its state calls for.
TypeOK ==
    /\ gate \in [Scopes ->
         {"UNOPENED", "READY", "INCOMPLETE", "BOUND_BROKEN", "CONFLICT"}]
    /\ qualified \in [Scopes -> BOOLEAN]
    /\ opening \in [Scopes -> Openings \union {NoOpening}]
    /\ spent \in [Scopes -> [Owners -> Nat]]
    /\ protected \in [Scopes -> [Owners -> Nat]]
    /\ operations \in [Scopes -> [OperationIds -> OperationRecords]]
    /\ \A s \in Scopes, id \in OperationIds : Reservation(s, id)
    /\ \A row \in identities : row.scope \in Scopes
    /\ pc \in [Controllers ->
         {"idle", "qualified", "stale", "reserved", "claimed", "checked",
          "dispatching", "performed"}]
    /\ plan \in [Controllers -> Bindings \union {NoBinding}]
    /\ effects \in [Bindings -> [times : Nat, tokens : Nat]]

\* No operation is performed twice, and no two operations that share an
\* operation id or a dispatch key within a scope, or a permit in any scope,
\* are both performed, whichever controllers are called for them and wherever
\* they die (reserve, claim and note_dispatch in invoke).
EffectAtMostOnce ==
    \A a, b \in Bindings :
        effects[a].times > 0 /\ effects[b].times > 0 =>
            IF a = b THEN effects[a].times = 1
            ELSE /\ a.permit # b.permit
                 /\ a.scope = b.scope => a.id # b.id /\ a.dispatch # b.dispatch

\* What was performed is charged or still held in full: its operation is never
\* cancelled, and until a receipt settles it the whole bound stays reserved,
\* through recovery, failures and every order of notes.
UseIsHeld ==
    \A b \in Bindings : effects[b].times > 0 =>
        /\ Operation(b).binding = b
        /\ \/ /\ Operation(b).state \in {"DISPATCHED", "UNAVAILABLE"}
              /\ Operation(b).reservation = b.upper
           \/ /\ Operation(b).state = "SETTLED"
              /\ Operation(b).actual = effects[b].tokens

UseOf(s, owners, closeout) ==
    Total([b \in Bindings |-> effects[b].tokens],
        {b \in Bindings :
            b.scope = s /\ b.owner \in owners /\ b.closeout = closeout})

EffectsWithin(s) == \A b \in Bindings : b.scope = s => effects[b].tokens <= b.upper

\* As long as every effect stays within its own bound, what a run and each of
\* its tasks really used stays within the caps with the closeout shares left
\* over, and closeout work stays within its share.
CapsHold ==
    \A s \in Scopes :
        EffectsWithin(s) =>
            /\ UseOf(s, Owners, FALSE) > 0 =>
                 UseOf(s, Owners, FALSE) + Total(Closeout, Owners) <= RunCap
            /\ \A t \in Tasks : UseOf(s, {t}, FALSE) > 0 =>
                 UseOf(s, {t}, FALSE) + Closeout[t] <= TaskCap[t]
            /\ \A o \in Owners : UseOf(s, {o}, TRUE) <= Closeout[o]

\* A scope that admits work knows all its amounts and has no operation whose
\* outcome is unknown.
ReadyIsClear ==
    \A s \in Scopes : gate[s] = "READY" =>
        /\ qualified[s]
        /\ \A id \in OperationIds : operations[s][id].state # "UNAVAILABLE"

\* The ledger adds up: each owner's known spending is the opening plus what
\* its settled operations used, and no source event is charged twice, by two
\* operations of any scopes or by an operation and an opening.
ChargedOnce ==
    /\ \A s \in Scopes, o \in Owners : Opened(s) =>
         spent[s][o] = opening[s].spent[o]
             + Total(Charged(s), ReservationsOf(s, {o}))
    /\ \A row \in identities : row.key[1] = "settlement" =>
         \E source \in identities :
            /\ source = [row EXCEPT !.key = SourceKey(row.value.event)]
            /\ \A other \in identities : other.key = source.key => other = source

\* A scope in conflict stays so, a broken bound can only become a conflict,
\* and from either on no operation of the scope is reserved or claimed.
StaysClosed ==
    [][\A s \in Scopes :
        /\ gate[s] = "CONFLICT" => gate'[s] = "CONFLICT"
        /\ gate[s] = "BOUND_BROKEN" => gate'[s] \in {"BOUND_BROKEN", "CONFLICT"}
        /\ gate[s] \in {"BOUND_BROKEN", "CONFLICT"} =>
             \A id \in OperationIds :
                /\ operations[s][id].state = "NONE" =>
                     operations'[s][id].state = "NONE"
                /\ operations'[s][id].claimed = operations[s][id].claimed]_vars
=============================================================================
