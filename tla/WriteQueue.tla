----------------------------- MODULE WriteQueue -----------------------------
(***************************************************************************)
(* The write-admission queue of an accounting database                     *)
(* (accounting/workflow_store.py, _Lease and _WriteQueue), around every    *)
(* SQLite transaction of the journal.                                      *)
(*                                                                         *)
(* A directory beside the database holds a guard file and one ticket file  *)
(* for each writer that waits.  A ticket is live while an advisory lock is *)
(* held on it; the kernel of the operating system drops the lock when the  *)
(* last descriptor of the open file is closed, by its process, by that     *)
(* process's death or by a forked child that inherited it.  Whoever holds  *)
(* the guard may add a ticket or remove those that are not live.           *)
(*                                                                         *)
(* Each step is one system call another process can observe.  Writers are  *)
(* processes with one thread; a new process may take a dead one's place.   *)
(* Foreign files in the directory, a replaced directory and hard links     *)
(* (each refused by an identity check) are outside.                        *)
(***************************************************************************)
EXTENDS Naturals, FiniteSets

CONSTANTS
    Writers,            \* processes that write to the database
    MaxQueue,           \* 64: tickets the directory may hold
    MaxTicket,          \* 10^20 - 1: the largest ticket number
    Guard,              \* the guard file
    NoTicket

Tickets == [num : 0..MaxTicket, by : Writers]

ASSUME QueueAssumption ==
    /\ MaxQueue \in Nat \ {0}
    /\ MaxTicket \in Nat
    /\ Guard \notin Tickets
    /\ NoTicket \notin Tickets

VARIABLES
    files,              \* the ticket files in the directory
    locks,              \* locks[w]: files w itself has open and locked
    inherited,          \* locked files a forked child has still open
    phase,              \* where w is in slot
    ticket,             \* the ticket file w has created
    todo, live          \* w's scan: files to probe, files found locked

scan == <<todo, live>>
vars == <<files, locks, inherited, phase, ticket, scan>>

Locked(f) == f \in inherited \/ \E w \in Writers : f \in locks[w]

\* Those of a set of tickets with the least number: files are named by number.
First(S) == {t \in S : \A u \in S : t.num <= u.num}

Init ==
    /\ files = {}
    /\ locks = [w \in Writers |-> {}]
    /\ inherited = {}
    /\ phase = [w \in Writers |-> "idle"]
    /\ ticket = [w \in Writers |-> NoTicket]
    /\ todo = [w \in Writers |-> {}]
    /\ live = [w \in Writers |-> {}]

Go(w, p) == phase' = [phase EXCEPT ![w] = p]
Hold(w, S) == locks' = [locks EXCEPT ![w] = S]
EndScan(w) ==
    /\ todo' = [todo EXCEPT ![w] = {}]
    /\ live' = [live EXCEPT ![w] = {}]

\* The name is gone; who still has the file open locks nothing others can see.
Unlink(t) ==
    /\ files' = files \ {t}
    /\ inherited' = inherited \ {t}
-----------------------------------------------------------------------------
(* slot: enter the line.                                                   *)

Call(w) ==
    /\ phase[w] = "idle"
    /\ Go(w, "enrolling")
    /\ UNCHANGED <<files, locks, inherited, ticket, scan>>

\* _guard, then _live lists the directory.  Its refusal of more than MaxQueue
\* files cannot happen, see QueueFits.
TakeGuard(w) ==
    /\ phase[w] \in {"enrolling", "queued"}
    /\ ~Locked(Guard)
    /\ Hold(w, locks[w] \union {Guard})
    /\ Go(w, "scanning")
    /\ todo' = [todo EXCEPT ![w] = files]
    /\ UNCHANGED <<files, inherited, ticket, live>>

\* One round of the loop of _live: what can be locked is stale and is removed.
Probe(w) ==
    /\ phase[w] = "scanning"
    /\ \E t \in First(todo[w]) :
        /\ todo' = [todo EXCEPT ![w] = @ \ {t}]
        /\ IF Locked(t)
           THEN /\ live' = [live EXCEPT ![w] = @ \union {t}]
                /\ UNCHANGED <<files, inherited>>
           ELSE Unlink(t) /\ UNCHANGED live
    /\ UNCHANGED <<locks, phase, ticket>>

ScanDone(w) == phase[w] = "scanning" /\ todo[w] = {}

\* Mutant: the number of live tickets is taken for the next number.
CountOf(S) == {Cardinality(S)}

\* Behind the last live ticket.
NextNumbers(S) ==
    IF S = {} THEN {0}
    ELSE {t.num + 1 : t \in {u \in S : \A v \in S : v.num <= u.num}}

Fits(S) == Cardinality(S) < MaxQueue

InDigits(n) == n <= MaxTicket

\* A newcomer creates its ticket file, numbered behind the last live one.
Create(w) ==
    /\ ScanDone(w)
    /\ ticket[w] = NoTicket
    /\ Fits(live[w])
    /\ \E n \in NextNumbers(live[w]) :
        /\ InDigits(n)
        /\ ticket' = [ticket EXCEPT ![w] = [num |-> n, by |-> w]]
        /\ files' = files \union {[num |-> n, by |-> w]}
    /\ Go(w, "creating")
    /\ UNCHANGED <<locks, inherited, scan>>

\* ... locks it and gives up the guard; alone, it is first already.
LockTicket(w) ==
    /\ phase[w] = "creating"
    /\ Hold(w, {ticket[w]})
    /\ Go(w, IF live[w] = {} THEN "first" ELSE "queued")
    /\ EndScan(w)
    /\ UNCHANGED <<files, inherited, ticket>>

\* Mutant: a waiting writer looks at the last of the live tickets.
PollLast(w) ==
    /\ ScanDone(w)
    /\ ticket[w] # NoTicket
    /\ Hold(w, {ticket[w]})
    /\ Go(w, IF \A t \in live[w] : t.num <= ticket[w].num
             THEN "first" ELSE "queued")
    /\ EndScan(w)
    /\ UNCHANGED <<files, inherited, ticket>>

\* A writer in line looks whether it has come to the front.  That its own
\* ticket has disappeared cannot happen, see LiveTicketKept.
Poll(w) ==
    /\ ScanDone(w)
    /\ ticket[w] # NoTicket
    /\ Hold(w, {ticket[w]})
    /\ Go(w, IF ticket[w] \in First(live[w]) THEN "first" ELSE "queued")
    /\ EndScan(w)
    /\ UNCHANGED <<files, inherited, ticket>>
-----------------------------------------------------------------------------
(* The transaction, and the way out.                                       *)

\* ADMITTED: BEGIN IMMEDIATE.
Begin(w) ==
    /\ phase[w] = "first"
    /\ Go(w, "writing")
    /\ UNCHANGED <<files, locks, inherited, ticket, scan>>

\* slot's finally: all descriptors are closed.
Leave(w) ==
    /\ Hold(w, {})
    /\ Go(w, IF ticket[w] = NoTicket THEN "idle" ELSE "leaving")
    /\ EndScan(w)
    /\ UNCHANGED <<files, inherited, ticket>>

\* COMMIT, ROLLBACK or an exception.
EndTransaction(w) == phase[w] = "writing" /\ Leave(w)

\* Mutant: nobody watches the clock once it is in line.
ExpireEnrolling(w) == phase[w] \in {"enrolling", "first"} /\ Leave(w)

\* The deadline of the call has passed: waiting for the guard, between two
\* polls, or just before the transaction.
Expire(w) == phase[w] \in {"enrolling", "queued", "first"} /\ Leave(w)

\* The directory is full, the numbers are used up, or a system call failed.
Refuse(w) == phase[w] \in {"scanning", "creating"} /\ Leave(w)

\* The ticket file is removed under the guard ...
TakeCleanupGuard(w) ==
    /\ phase[w] = "leaving"
    /\ ~Locked(Guard)
    /\ Hold(w, {Guard})
    /\ Go(w, "cleaning")
    /\ UNCHANGED <<files, inherited, ticket, scan>>

RemoveTicket(w) ==
    /\ phase[w] = "cleaning"
    /\ Unlink(ticket[w])
    /\ Hold(w, {})
    /\ Go(w, "idle")
    /\ ticket' = [ticket EXCEPT ![w] = NoTicket]
    /\ UNCHANGED scan

\* ... or left to the next scan: DEFERRED_STALE_LEASE, or a failure.
DeferRemoval(w) ==
    /\ phase[w] \in {"leaving", "cleaning"}
    /\ Hold(w, {})
    /\ Go(w, "idle")
    /\ ticket' = [ticket EXCEPT ![w] = NoTicket]
    /\ UNCHANGED <<files, inherited, scan>>
-----------------------------------------------------------------------------
(* Processes die and fork at any point.                                    *)

Die(w) ==
    /\ phase[w] # "idle"
    /\ Hold(w, {})
    /\ Go(w, "idle")
    /\ ticket' = [ticket EXCEPT ![w] = NoTicket]
    /\ EndScan(w)
    /\ UNCHANGED <<files, inherited>>

\* A child has copies of the descriptors and so keeps their locks alive.  One
\* forked between the opening of a file and its locking keeps the lock, too:
\* the state is that of a fork after the locking.
Fork(w) ==
    /\ inherited' = inherited \union locks[w]
    /\ UNCHANGED <<files, locks, phase, ticket, scan>>

\* Mutant: the child unlocks what it inherited, and with it the parent's lock.
ChildUnlocks(f) ==
    /\ f \in inherited
    /\ inherited' = inherited \ {f}
    /\ locks' = [w \in Writers |-> locks[w] \ {f}]
    /\ UNCHANGED <<files, phase, ticket, scan>>

\* _fork_child_leases: it closes them, one by one, and never unlocks.
ChildCloses(f) ==
    /\ f \in inherited
    /\ inherited' = inherited \ {f}
    /\ UNCHANGED <<files, locks, phase, ticket, scan>>
-----------------------------------------------------------------------------
Step(w) ==
    \/ TakeGuard(w) \/ Probe(w) \/ Create(w) \/ LockTicket(w) \/ Poll(w)
    \/ Begin(w) \/ EndTransaction(w) \/ Refuse(w)
    \/ TakeCleanupGuard(w) \/ RemoveTicket(w) \/ DeferRemoval(w)

Next ==
    \/ \E w \in Writers : Call(w) \/ Step(w) \/ Expire(w) \/ Die(w) \/ Fork(w)
    \/ \E f \in inherited : ChildCloses(f)

Spec == Init /\ [][Next]_vars

\* A process that can take a step takes one.  The deadline is a point in time:
\* a writer that comes back to compare the clock with it finds it passed.
Fairness == \A w \in Writers : WF_vars(Step(w)) /\ SF_vars(Expire(w))

FairSpec == Spec /\ Fairness
-----------------------------------------------------------------------------
(* Properties.                                                             *)

InLine == {"queued", "first", "writing"}
Phases == InLine \union
    {"idle", "enrolling", "scanning", "creating", "leaving", "cleaning"}

TypeOK ==
    /\ files \subseteq Tickets
    /\ locks \in [Writers -> SUBSET (Tickets \union {Guard})]
    /\ inherited \subseteq files \union {Guard}
    /\ phase \in [Writers -> Phases]
    /\ ticket \in [Writers -> Tickets \union {NoTicket}]
    /\ todo \in [Writers -> SUBSET Tickets]
    /\ live \in [Writers -> SUBSET Tickets]

\* At most one writer is past the queue, whoever died, was refused or forked
\* in between: no transaction finds the database busy by another one
\* (workflow_store.py slot; BEGIN IMMEDIATE in journal.py _transaction).
OneWriter ==
    \A v, w \in Writers :
        phase[v] \in {"first", "writing"} /\ phase[w] \in {"first", "writing"}
            => v = w

\* The ticket of a writer in line stays in the directory and stays locked
\* until that writer gives it up, so "Live write lease disappeared" is never
\* raised (workflow_store.py _live, slot).
LiveTicketKept ==
    \A w \in Writers :
        phase[w] \in InLine \/ (phase[w] = "scanning" /\ ticket[w] # NoTicket)
            => ticket[w] \in files \intersect locks[w]

\* Ticket numbers in the directory are distinct and there are never more files
\* than _live accepts, however many were left behind: the inventory check can
\* not close the queue for good (workflow_store.py _live).
QueueFits ==
    /\ \A t, u \in files : t.num = u.num => t = u
    /\ Cardinality(files) <= MaxQueue

\* The line that others can see and the writers being served implement a first
\* come, first served line (class _WriteQueue: "FIFO after registration").
LiveTickets == {t \in files : Locked(t)}
Serving == {ticket[w] : w \in {v \in Writers : phase[v] = "writing"}}
Line == INSTANCE WaitingLine WITH line <- LiveTickets, served <- Serving
ImplementsLine == Line!Spec

\* Every call ends: with the transaction, by its deadline or by a refusal,
\* whatever the others and their children do (workflow_store.py slot).
EveryCallEnds == \A w \in Writers : phase[w] # "idle" ~> phase[w] = "idle"
=============================================================================
