---------------------------- MODULE PromptLaunch ----------------------------
(***************************************************************************)
(* Launching a model call exactly once (adapter_sessions/): a launcher     *)
(* reconciles what earlier launches left behind, seals the staged request, *)
(* prepares and reserves the attempt, claims its start, runs the child and *)
(* publishes the outcome.  The whole state is files: one evidence          *)
(* directory per model operation, written exclusively, and synced to disk  *)
(* only at the barriers of attempt_authority.                              *)
(*                                                                         *)
(* Launchers interleave file by file, can be killed or fail anywhere, and  *)
(* the machine may lose power once: every directory entry that was not     *)
(* synced then keeps any one of the versions it had since the last sync.   *)
(* The content of a file is synced before its entry is used, and the entry *)
(* of a directory is taken to last from its first sync on.                 *)
(***************************************************************************)
EXTENDS Naturals, Sequences, TLC

CONSTANTS
    Operations,     \* model operations (operationId) of the run
    Launchers,      \* calls of the exact managed launch, each with a request
    NoOperation

ASSUME NamesAssumption ==
    /\ Operations \intersect Launchers = {}
    /\ NoOperation \notin Operations

VARIABLES
    files,      \* what a look at each directory shows
    disk,       \* the versions of each entry that a power loss may leave
    power,      \* whether the machine has lost power, and is back
    launcher,   \* where each launcher is, and what it knows
    starts,     \* how many children ran for each operation
    exit,       \* what the runner reported of the operation's child
    told,       \* the verdicts that anyone accepted as the operation's outcome
    answered    \* the outcome that the operation's own launcher returned

vars == <<files, disk, power, launcher, starts, exit, told, answered>>
storage == <<files, disk>>
child == <<starts, exit>>
verdicts == <<told, answered>>

\* The evidence directory of an operation, with its sealed request; the
\* staging directory of a launcher, with its prestart evidence.
Directories == Operations \union Launchers

\* request: input-request.json; marker: raw-cleanup-pending.json; start and
\* input: process-start.json and process-input.json; intent: prelaunch-intent.json;
\* reservation, dispatch, pending, terminal: attempt-result-*.json; nostart:
\* proven-no-start.json; held: start-uncertain.json or orphan-private-input.json.
Preparation == <<"marker", "start", "input", "intent", "reservation">>
Names == {Preparation[i] : i \in DOMAIN Preparation}
         \union {"request", "dispatch", "pending", "terminal", "nostart", "held"}
Versions == {"none", "empty", "full", "PENDING", "DONE", "PASS", "FAIL"}
Verdicts == {"PASS", "FAIL"}

Reconciling == {"listing", "requests", "intents", "first look", "first read",
                "second look", "second read", "no start", "markers"}
Preparing == {"fresh", "sealed", "preparing", "reserving"}
Launching == {"prepared", "verified", "claimed", "dispatched", "running"}
Publishing == {"exited", "pending", "pending synced", "linked", "linked synced",
               "published", "doubt", "doubt recorded"}
Leaving == {"unwinding", "clearing", "clearing proven", "marking",
            "marking proven", "no start proven", "refused", "ended"}
Places == {"idle", "staged"} \union Reconciling \union Preparing
          \union Launching \union Publishing \union Leaving

Idle == [pc |-> "idle", op |-> NoOperation, todo |-> {}, found |-> {},
         item |-> NoOperation, before |-> {}, rivals |-> {}, made |-> 0, undone |-> 0,
         result |-> "none"]

Init ==
    /\ files = [d \in Directories |-> [n \in Names |-> "none"]]
    /\ disk = [d \in Directories |-> [n \in Names |-> {"none"}]]
    /\ power = "on"
    /\ launcher = [p \in Launchers |-> Idle]
    /\ starts = [o \in Operations |-> 0]
    /\ exit = [o \in Operations |-> "none"]
    /\ told = [o \in Operations |-> {}]
    /\ answered = [o \in Operations |-> "none"]

-----------------------------------------------------------------------------
(***************************************************************************)
(* Files.                                                                  *)
(***************************************************************************)
Has(d, n, v) == files[d][n] = v

\* O_EXCL, and link without replacing.
Free(d, n) == Has(d, n, "none")

Put(d, n, v) ==
    /\ files' = [files EXCEPT ![d][n] = v]
    /\ disk' = [disk EXCEPT ![d][n] = @ \union {v}]

\* _write_exclusive.
Create(d, n, v) == Free(d, n) /\ Put(d, n, v)

Unlink(d, n) == Put(d, n, "none")

\* _sync_directory of an evidence directory; the sealed request lies elsewhere.
Sync(o) ==
    /\ disk' = [disk EXCEPT ![o] = [n \in Names |->
                  IF n = "request" THEN @[n] ELSE {files[o][n]}]]
    /\ UNCHANGED files

-----------------------------------------------------------------------------
(***************************************************************************)
(* One launcher.                                                           *)
(***************************************************************************)
At(p, place) == power # "off" /\ launcher[p].pc = place
Goto(p, place) == launcher' = [launcher EXCEPT ![p].pc = place]
Op(p) == launcher[p].op
Item(p) == launcher[p].item

Ended == [Idle EXCEPT !.pc = "ended"]
End(p) == launcher' = [launcher EXCEPT ![p] = Ended]

Tell(o, verdict) ==
    /\ told' = [told EXCEPT ![o] = @ \union {verdict}]
    /\ UNCHANGED answered

\* The step of a launcher that ends in a sync of its directory.
Barrier(p, place, next) ==
    /\ At(p, place)
    /\ Sync(Op(p))
    /\ Goto(p, next)
    /\ UNCHANGED <<power, child, verdicts>>

\* stage_input_request, by the caller of the launch.
Stage(p) ==
    /\ At(p, "idle")
    /\ Create(p, "request", "full")
    /\ Goto(p, "staged")
    /\ UNCHANGED <<power, child, verdicts>>

\* Where a launcher's sealed request is in place and its attempt without an outcome.
Sealed == {"sealed", "preparing", "reserving"} \union Launching

\* The launches under way that can still come to a child: not those that have sealed
\* an operation whose marker was there before them, and must fail on it.
Rivals == {q \in Launchers :
              /\ launcher[q].pc \in Sealed
              /\ launcher[q].made = 0 => Free(Op(q), "marker")}

\* The sticky markers are looked for before anything else.  They are never taken
\* away, so one look at all of them says what the walk over them does.  before and
\* rivals record what this launch must not pass over; the code knows neither.
Call(p) ==
    /\ At(p, "staged")
    /\ \E o \in Operations :
         launcher' = [launcher EXCEPT ![p] = [@ EXCEPT
            !.op = o,
            !.pc = IF \E d \in Directories : ~Free(d, "held")
                   THEN "refused" ELSE "listing",
            !.todo = Directories \ {p},
            !.before = {a \in Operations : starts[a] > 0},
            !.rivals = Rivals]]
    /\ UNCHANGED <<storage, power, child, verdicts>>

\* rglob visits one directory after another, in the file system's order; sorted
\* waits for the last of them before the loop sees the first request.
ListRequest(p) ==
    /\ At(p, "listing")
    /\ \E d \in launcher[p].todo :
         launcher' = [launcher EXCEPT ![p] = [@ EXCEPT
            !.todo = launcher[p].todo \ {d},
            !.found = launcher[p].found \union {e \in {d} : ~Free(e, "request")}]]
    /\ UNCHANGED <<storage, power, child, verdicts>>

EndListing(p) ==
    /\ At(p, "listing")
    /\ launcher[p].todo = {}
    /\ launcher' = [launcher EXCEPT ![p] = [@ EXCEPT
          !.pc = "requests", !.todo = launcher[p].found, !.found = {}]]
    /\ UNCHANGED <<storage, power, child, verdicts>>

\* Mutant: a sealed request is taken for one that has its intent.
OrphanStaged(d) == d \in Launchers

\* A request in staging, or a sealed one without an intent, is an orphan.
Orphan(d) == d \in Launchers \/ Free(d, "intent")

\* _record_orphan_private_input and the start-uncertain marker.
Hold(p, d) ==
    /\ Put(d, "held", "full")
    /\ Goto(p, "refused")

\* The listed requests in turn.  A sealed one is read again, and may have vanished;
\* a staged one is held against its launch without another look.
ScanRequest(p) ==
    /\ At(p, "requests")
    /\ \E d \in launcher[p].todo :
         IF d \in Operations /\ Free(d, "request")
         THEN Goto(p, "refused") /\ UNCHANGED storage
         ELSE IF Orphan(d)
         THEN Hold(p, d)
         ELSE /\ launcher' = [launcher EXCEPT ![p].todo = @ \ {d}]
              /\ UNCHANGED storage
    /\ UNCHANGED <<power, child, verdicts>>

EndScanRequests(p) ==
    /\ At(p, "requests")
    /\ launcher[p].todo = {}
    /\ launcher' = [launcher EXCEPT ![p].pc = "intents", ![p].todo = Operations]
    /\ UNCHANGED <<storage, power, child, verdicts>>

\* The next intent on the walk, if it is there.
ScanIntent(p) ==
    /\ At(p, "intents")
    /\ \E o \in launcher[p].todo :
         launcher' = [launcher EXCEPT ![p] = [@ EXCEPT
            !.todo = launcher[p].todo \ {o},
            !.item = o,
            !.pc = IF Free(o, "intent") THEN "intents" ELSE "first look"]]
    /\ UNCHANGED <<storage, power, child, verdicts>>

EndScanIntents(p) ==
    /\ At(p, "intents")
    /\ launcher[p].todo = {}
    /\ launcher' = [launcher EXCEPT ![p] = [@ EXCEPT
          !.pc = "markers", !.todo = Operations, !.item = NoOperation]]
    /\ UNCHANGED <<storage, power, child, verdicts>>

-----------------------------------------------------------------------------
(***************************************************************************)
(* read_attempt_result, by whoever reconciles and by the launcher itself:  *)
(* one look for the pending marker, and then a read of the terminal.       *)
(***************************************************************************)
Receipts(o) == Has(o, "start", "full") /\ Has(o, "input", "full")

\* Mutant: complete receipts stand for a terminal that passed.
TerminalByReceipts(o) == IF Receipts(o) THEN "PASS" ELSE files[o].terminal

\* What the read makes of the terminal; "none" is every error.
Terminal(o) ==
    IF /\ ~Free(o, "intent")
       /\ ~Free(o, "reservation")
       /\ Has(o, "terminal", "PASS") => Receipts(o)
    THEN files[o].terminal ELSE "none"

Look(p, place, next, otherwise) ==
    /\ At(p, place)
    /\ Goto(p, IF Free(Item(p), "pending") THEN next ELSE otherwise)
    /\ UNCHANGED <<storage, power, child, verdicts>>

FirstLook(p)  == Look(p, "first look", "first read", "second look")
SecondLook(p) == Look(p, "second look", "second read", "no start")

\* A failed attempt wants a retry decision of its own.
FirstRead(p) ==
    /\ At(p, "first read")
    /\ IF Terminal(Item(p)) = "FAIL"
       THEN Tell(Item(p), "FAIL") /\ Goto(p, "refused")
       ELSE Goto(p, "second look") /\ UNCHANGED verdicts
    /\ UNCHANGED <<storage, power, child>>

\* _complete_started_input: PASS resolves the attempt, if sources, lock and
\* plan are still those of the intent.
SecondRead(p) ==
    /\ At(p, "second read")
    /\ \/ /\ Terminal(Item(p)) = "PASS"
          /\ Tell(Item(p), "PASS")
          /\ Goto(p, "intents")
       \/ Goto(p, "no start") /\ UNCHANGED verdicts
    /\ UNCHANGED <<storage, power, child>>

\* The last resort is the record that nothing was started.
NoStart(o) ==
    /\ Has(o, "nostart", "full")
    /\ Has(o, "start", "empty")
    /\ files[o].input \in {"none", "empty"}

Resolve(p) ==
    /\ At(p, "no start")
    /\ IF NoStart(Item(p))
       THEN Goto(p, "intents") /\ UNCHANGED storage
       ELSE Hold(p, Item(p))
    /\ UNCHANGED <<power, child, verdicts>>

\* _assert_no_cleanup_blockers, which looks and reads in one step here.
CleanupBlocks(o) ==
    /\ ~Free(o, "marker")
    /\ ~Has(o, "marker", "DONE")
    /\ ~(Has(o, "start", "full") /\ Free(o, "pending") /\ Terminal(o) = "PASS")

ScanMarker(p) ==
    /\ At(p, "markers")
    /\ \E o \in launcher[p].todo :
         \/ /\ ~CleanupBlocks(o)
            /\ launcher' = [launcher EXCEPT ![p].todo = @ \ {o}]
         \/ /\ Has(o, "marker", "PENDING")
            /\ Goto(p, "refused")
    /\ UNCHANGED <<storage, power, child, verdicts>>

EndScanMarkers(p) ==
    /\ At(p, "markers")
    /\ launcher[p].todo = {}
    /\ Goto(p, IF Free(Op(p), "intent") THEN "fresh" ELSE "refused")
    /\ UNCHANGED <<storage, power, child, verdicts>>

-----------------------------------------------------------------------------
(***************************************************************************)
(* Preparation, up to the durable reservation.                             *)
(***************************************************************************)

\* _seal_request; another launcher of the same operation may have been faster.
Seal(p) ==
    /\ At(p, "fresh")
    /\ \/ Create(Op(p), "request", "full") /\ Goto(p, "sealed")
       \/ ~Free(Op(p), "request") /\ Goto(p, "refused") /\ UNCHANGED storage
    /\ UNCHANGED <<power, child, verdicts>>

DropSource(p) ==
    /\ At(p, "sealed")
    /\ Unlink(p, "request")
    /\ Goto(p, "preparing")
    /\ UNCHANGED <<power, child, verdicts>>

\* The staged request or its directory cannot be removed: _cleanup_sealed_no_start
\* takes the sealed one back, unless a child was seen to start.
SealingFails(p) ==
    /\ At(p, "sealed") \/ (At(p, "preparing") /\ launcher[p].made = 0)
    /\ IF Has(Op(p), "start", "full") THEN UNCHANGED storage ELSE Unlink(Op(p), "request")
    /\ Goto(p, "refused")
    /\ UNCHANGED <<power, child, verdicts>>

\* The raw inventory's obligation, the two receipts, the intent, the reservation.
Contents(n) == CASE n = "marker" -> "PENDING"
                 [] n \in {"start", "input"} -> "empty"
                 [] OTHER -> "full"

PrepareNext(p) ==
    /\ At(p, "preparing")
    /\ LET made == launcher[p].made + 1
           n    == Preparation[made]
       IN  /\ Create(Op(p), n, Contents(n))
           /\ launcher' = [launcher EXCEPT ![p] = [@ EXCEPT
                 !.made = made,
                 !.pc = IF n = "reservation" THEN "reserving" ELSE "preparing"]]
    /\ UNCHANGED <<power, child, verdicts>>

\* reserve_attempt_result ends with the sync.
Reserve(p) == Barrier(p, "reserving", "prepared")

\* Any step may fail: receipts and intent, as far as they were made, are unlinked
\* in the order of their making.
Undoable == {i \in DOMAIN Preparation : Preparation[i] \in {"start", "input", "intent"}}

PreparationFails(p) ==
    /\ At(p, "preparing") \/ At(p, "reserving")
    /\ launcher' = [launcher EXCEPT ![p] = [@ EXCEPT !.pc = "unwinding", !.undone = 1]]
    /\ UNCHANGED <<storage, power, child, verdicts>>

Unwind(p) ==
    /\ At(p, "unwinding")
    /\ LET next == launcher[p].undone + 1 IN
         IF next \in Undoable /\ next <= launcher[p].made
         THEN /\ Unlink(Op(p), Preparation[next])
              /\ launcher' = [launcher EXCEPT ![p].undone = next]
         ELSE Goto(p, "clearing") /\ UNCHANGED storage
    /\ UNCHANGED <<power, child, verdicts>>

\* cleanup_no_start: a refused launch takes its staged request away.
DropRefused(p) ==
    /\ At(p, "refused")
    /\ Unlink(p, "request")
    /\ End(p)
    /\ UNCHANGED <<power, child, verdicts>>

-----------------------------------------------------------------------------
(***************************************************************************)
(* cleanup_prestart_raw, and record_proven_no_start where a prepared       *)
(* attempt is known not to have started.                                   *)
(***************************************************************************)
Unresolved(o) == ~Free(o, "terminal") \/ ~Free(o, "pending")

Clear(p) ==
    \E proven \in BOOLEAN :
        /\ At(p, IF proven THEN "clearing proven" ELSE "clearing")
        /\ IF Unresolved(Op(p)) \/ Has(Op(p), "start", "full")
           THEN End(p) /\ UNCHANGED storage
           ELSE /\ Unlink(Op(p), "request")
                /\ Goto(p, IF proven THEN "marking proven" ELSE "marking")
        /\ UNCHANGED <<power, child, verdicts>>

\* The marker is replaced, whoever made it.
Mark(p) ==
    /\ \/ At(p, "marking") /\ End(p)
       \/ At(p, "marking proven") /\ Goto(p, "no start proven")
    /\ Put(Op(p), "marker", "DONE")
    /\ UNCHANGED <<power, child, verdicts>>

RecordNoStart(p) ==
    /\ At(p, "no start proven")
    /\ IF ~Unresolved(Op(p)) /\ Has(Op(p), "start", "empty") /\ Free(Op(p), "nostart")
       THEN Create(Op(p), "nostart", "full")
       ELSE UNCHANGED storage
    /\ End(p)
    /\ UNCHANGED <<power, child, verdicts>>

-----------------------------------------------------------------------------
(***************************************************************************)
(* The start and the child.                                                *)
(***************************************************************************)

\* A context that went stale, a gate that says no, a claim that fails: without
\* a dispatch record this is no start, with one nobody knows.
Refuse(p) ==
    /\ \E place \in {"prepared", "verified", "claimed"} : At(p, place)
    /\ IF Free(Op(p), "dispatch") THEN Goto(p, "clearing proven") ELSE End(p)
    /\ UNCHANGED <<storage, power, child, verdicts>>

\* verifyBeforeStart and verify_attempt_reservation.
Intact(o) ==
    /\ \A n \in {"request", "intent", "reservation"} : Has(o, n, "full")
    /\ Has(o, "marker", "PENDING")
    /\ Has(o, "start", "empty") /\ Has(o, "input", "empty")
    /\ \A n \in {"terminal", "pending", "dispatch"} : Free(o, n)

Verify(p) ==
    /\ At(p, "prepared")
    /\ Intact(Op(p))
    /\ Goto(p, "verified")
    /\ UNCHANGED <<storage, power, child, verdicts>>

\* claim_attempt_start.
Claim(p) ==
    /\ At(p, "verified")
    /\ Create(Op(p), "dispatch", "full")
    /\ Goto(p, "claimed")
    /\ UNCHANGED <<power, child, verdicts>>

SyncClaim(p) == Barrier(p, "claimed", "dispatched")

\* Popen returns a child.
Start(p) ==
    /\ At(p, "dispatched")
    /\ starts' = [starts EXCEPT ![Op(p)] = @ + 1]
    /\ Goto(p, "running")
    /\ UNCHANGED <<storage, power, exit, verdicts>>

\* The runner reports processStarted = False.
NotStarted(p) ==
    /\ At(p, "dispatched")
    /\ Goto(p, "clearing proven")
    /\ UNCHANGED <<storage, power, child, verdicts>>

\* Mutant: an exception counts as no start.
RunnerFailsEarly(p) ==
    /\ At(p, "dispatched") \/ At(p, "running")
    /\ Goto(p, "clearing proven")
    /\ UNCHANGED <<storage, power, child, verdicts>>

\* The runner raises: perhaps there is a child.
RunnerFails(p) ==
    /\ At(p, "dispatched") \/ At(p, "running")
    /\ Goto(p, "doubt")
    /\ UNCHANGED <<storage, power, child, verdicts>>

\* on_started and on_input replace the reserved receipts.
Observe(p) ==
    /\ At(p, "running")
    /\ \/ Has(Op(p), "start", "empty") /\ Put(Op(p), "start", "full")
       \/ /\ Has(Op(p), "start", "full")
          /\ Has(Op(p), "input", "empty")
          /\ Put(Op(p), "input", "full")
    /\ UNCHANGED <<power, launcher, child, verdicts>>

\* Mutant: the receipts decide, not the exit.
ExitByReceipts(p) ==
    /\ At(p, "running")
    /\ \E verdict \in Verdicts :
         /\ exit' = [exit EXCEPT ![Op(p)] = verdict]
         /\ launcher' = [launcher EXCEPT ![p] = [@ EXCEPT
               !.pc = "exited",
               !.result = IF Receipts(Op(p)) THEN "PASS" ELSE "FAIL"]]
    /\ UNCHANGED <<storage, power, starts, verdicts>>

\* A child whose receipts are missing has failed, whatever it says.
Exit(p) ==
    /\ At(p, "running")
    /\ \E verdict \in Verdicts :
         /\ exit' = [exit EXCEPT ![Op(p)] = verdict]
         /\ launcher' = [launcher EXCEPT ![p] = [@ EXCEPT
               !.pc = "exited",
               !.result = IF Receipts(Op(p)) THEN verdict ELSE "FAIL"]]
    /\ UNCHANGED <<storage, power, starts, verdicts>>

-----------------------------------------------------------------------------
(***************************************************************************)
(* publish_attempt_result: pending, sync, link, sync, unlink.              *)
(***************************************************************************)
PutPending(p) ==
    /\ At(p, "exited")
    /\ Free(Op(p), "terminal")
    /\ Create(Op(p), "pending", "full")
    /\ Goto(p, "pending")
    /\ UNCHANGED <<power, child, verdicts>>

SyncPending(p) == Barrier(p, "pending", "pending synced")

LinkTerminal(p) ==
    /\ At(p, "pending synced")
    /\ Create(Op(p), "terminal", launcher[p].result)
    /\ Goto(p, "linked")
    /\ UNCHANGED <<power, child, verdicts>>

\* Mutant: the marker goes as soon as the terminal is linked.
LeaveTerminal(p) ==
    /\ At(p, "linked")
    /\ Goto(p, "linked synced")
    /\ UNCHANGED <<storage, power, child, verdicts>>

SyncTerminal(p) == Barrier(p, "linked", "linked synced")

DropPending(p) ==
    /\ At(p, "linked synced")
    /\ Unlink(Op(p), "pending")
    /\ Goto(p, "published")
    /\ UNCHANGED <<power, child, verdicts>>

\* A PASS is read back first.
Answer(p) ==
    /\ At(p, "published")
    /\ LET verdict == launcher[p].result IN
         /\ verdict = "PASS" => Free(Op(p), "pending") /\ Terminal(Op(p)) = "PASS"
         /\ told' = [told EXCEPT ![Op(p)] = @ \union {verdict}]
         /\ answered' = [answered EXCEPT ![Op(p)] = verdict]
    /\ End(p)
    /\ UNCHANGED <<storage, power, child>>

\* Any step of the publication may fail, or the read find the authority stale.
PublicationFails(p) ==
    /\ \/ \E place \in {"exited", "pending", "pending synced", "linked", "linked synced"} :
             At(p, place)
       \/ At(p, "published") /\ launcher[p].result = "PASS"
    /\ Goto(p, "doubt")
    /\ UNCHANGED <<storage, power, child, verdicts>>

\* record_uncertain_attempt.
RecordUncertain(p) ==
    /\ At(p, "doubt")
    /\ IF Free(Op(p), "pending")
       THEN Create(Op(p), "pending", "full")
       ELSE UNCHANGED storage
    /\ Goto(p, "doubt recorded")
    /\ UNCHANGED <<power, child, verdicts>>

SyncUncertain(p) ==
    /\ At(p, "doubt recorded")
    /\ Sync(Op(p))
    /\ End(p)
    /\ UNCHANGED <<power, child, verdicts>>

-----------------------------------------------------------------------------
(***************************************************************************)
(* Faults.                                                                 *)
(***************************************************************************)

\* The launcher is killed, or an error leaves it with nothing more it can do.
Kill(p) ==
    /\ power # "off"
    /\ launcher[p].pc \notin {"idle", "ended"}
    /\ End(p)
    /\ UNCHANGED <<storage, power, child, verdicts>>

PowerLoss ==
    /\ power = "on"
    /\ power' = "off"
    /\ launcher' = [p \in Launchers |->
          IF launcher[p].pc = "idle" THEN Idle ELSE Ended]
    /\ UNCHANGED <<storage, child, verdicts>>

Unsettled == {e \in Directories \X Names : disk[e[1]][e[2]] # {files[e[1]][e[2]]}}

\* What the next start finds is settled entry by entry.
Settle ==
    /\ power = "off"
    /\ Unsettled # {}
    /\ LET e == CHOOSE e \in Unsettled : TRUE IN
         \E v \in disk[e[1]][e[2]] :
            /\ files' = [files EXCEPT ![e[1]][e[2]] = v]
            /\ disk' = [disk EXCEPT ![e[1]][e[2]] = {v}]
    /\ UNCHANGED <<power, launcher, child, verdicts>>

PowerBack ==
    /\ power = "off"
    /\ Unsettled = {}
    /\ power' = "back"
    /\ UNCHANGED <<storage, launcher, child, verdicts>>

Reconcile(p) ==
    \/ Call(p) \/ ListRequest(p) \/ EndListing(p)
    \/ ScanRequest(p) \/ EndScanRequests(p)
    \/ ScanIntent(p) \/ EndScanIntents(p)
    \/ FirstLook(p) \/ FirstRead(p) \/ SecondLook(p) \/ SecondRead(p) \/ Resolve(p)
    \/ ScanMarker(p) \/ EndScanMarkers(p)

Prepare(p) ==
    \/ Seal(p) \/ DropSource(p) \/ SealingFails(p) \/ PrepareNext(p) \/ Reserve(p)
    \/ PreparationFails(p) \/ Unwind(p) \/ DropRefused(p)

Cleanup(p) == Clear(p) \/ Mark(p) \/ RecordNoStart(p)

Run(p) ==
    \/ Refuse(p) \/ Verify(p) \/ Claim(p) \/ SyncClaim(p)
    \/ Start(p) \/ NotStarted(p) \/ RunnerFails(p) \/ Observe(p) \/ Exit(p)

Publish(p) ==
    \/ PutPending(p) \/ SyncPending(p) \/ LinkTerminal(p) \/ SyncTerminal(p)
    \/ DropPending(p) \/ Answer(p)
    \/ PublicationFails(p) \/ RecordUncertain(p) \/ SyncUncertain(p)

Next ==
    \/ \E p \in Launchers :
          Stage(p) \/ Reconcile(p) \/ Prepare(p) \/ Cleanup(p) \/ Run(p)
          \/ Publish(p) \/ Kill(p)
    \/ PowerLoss \/ Settle \/ PowerBack

Spec == Init /\ [][Next]_vars

-----------------------------------------------------------------------------
TypeOK ==
    /\ files \in [Directories -> [Names -> Versions]]
    /\ disk \in [Directories -> [Names -> SUBSET Versions]]
    /\ power \in {"on", "off", "back"}
    /\ launcher \in [Launchers ->
          [pc : Places, op : Operations \union {NoOperation},
           todo : SUBSET Directories, found : SUBSET Directories,
           item : Operations \union {NoOperation}, before : SUBSET Operations,
           rivals : SUBSET Launchers, made : 0..Len(Preparation), undone : 0..Len(Preparation),
           result : Verdicts \union {"none"}]]
    /\ starts \in [Operations -> Nat]
    /\ exit \in [Operations -> Verdicts \union {"none"}]
    /\ told \in [Operations -> SUBSET Verdicts]
    /\ answered \in [Operations -> Verdicts \union {"none"}]

\* No operation starts two children, however its launchers die and the power goes
\* (claim_attempt_start: "Consume the reservation once").
StartedOnce == \A o \in Operations : starts[o] <= 1

\* Nobody is told that an operation passed unless its child passed, and nobody
\* else is ever told that it failed.
PassIsProven ==
    \A o \in Operations : "PASS" \in told[o] => exit[o] = "PASS" /\ "FAIL" \notin told[o]

\* An outcome that a launcher returned outlives every later power loss.
AnswersEndure ==
    \A o \in Operations :
        answered[o] # "none" => disk[o].terminal = {answered[o]}

\* The record of no start is true, so a later launch may build on it.
NoStartIsTrue ==
    \A o \in Operations : Has(o, "nostart", "full") => starts[o] = 0

PastReconciliation == Preparing \union Launching \union Publishing

\* A launch gets past reconciliation only if every child that had been started
\* when it began has passed: never over a failed or an uncertain one.
NothingOverUncertainty ==
    \A p \in Launchers : launcher[p].pc \in PastReconciliation =>
        \A o \in launcher[p].before : exit[o] = "PASS"

\* Launchers take no lock, and one that moves its request from staging while another
\* lists the directories can be missed.  But no launch gets past reconciliation beside
\* one whose request was sealed when this one began, be it of another operation
\* (reconcile_prelaunch_intents: "before a new child can start").
NothingBesideSealed ==
    \A p \in Launchers : launcher[p].pc \in PastReconciliation =>
        \A q \in launcher[p].rivals : launcher[q].pc \notin Sealed
=============================================================================
