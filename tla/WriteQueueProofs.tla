-------------------------- MODULE WriteQueueProofs --------------------------
(***************************************************************************)
(* Proofs about WriteQueue for every number of writers and every bound.    *)
(***************************************************************************)
EXTENDS WriteQueue, FiniteSetTheorems, TLAPS

(* The inductive invariant.                                                *)

GuardHolders == {"scanning", "creating", "cleaning"}

\* The guard is held where it is needed, by one writer at a time.
GuardedInv ==
    /\ \A w \in Writers : Guard \in locks[w] <=> phase[w] \in GuardHolders
    /\ \A v, w \in Writers :
        Guard \in locks[v] /\ Guard \in locks[w] => v = w

Enrolled(w) ==
    phase[w] \in InLine \/ (phase[w] = "scanning" /\ ticket[w] # NoTicket)

\* Who has which ticket, and who has it locked.
OwnedInv ==
    \A w \in Writers :
        /\ ticket[w] # NoTicket => ticket[w].by = w
        /\ \A t \in Tickets : t \in locks[w] <=> Enrolled(w) /\ t = ticket[w]
        /\ Enrolled(w) => ticket[w] \in files
        /\ phase[w] \in {"idle", "enrolling"} => ticket[w] = NoTicket
        /\ phase[w] \in InLine \union {"creating", "leaving", "cleaning"}
             => ticket[w] # NoTicket

\* What a scan has seen and has still to see is what there is.
ScannedInv ==
    \A w \in Writers :
        /\ phase[w] \notin {"scanning", "creating"} => live[w] = {}
        /\ phase[w] = "scanning" =>
             /\ files = live[w] \union todo[w]
             /\ live[w] \intersect todo[w] = {}
        /\ phase[w] = "creating" =>
             /\ files = live[w] \union {ticket[w]}
             /\ \A t \in live[w] : t.num < ticket[w].num
             /\ ticket[w] \notin inherited

\* Whoever is past the queue has the least of the live tickets.
FirstIsLeast ==
    \A w \in Writers : phase[w] \in {"first", "writing"} =>
        \A t \in files : Locked(t) => ticket[w].num <= t.num

DistinctNumbers == \A t, u \in files : t.num = u.num => t = u
BoundedFiles == IsFiniteSet(files) /\ Cardinality(files) <= MaxQueue

IInv ==
    /\ TypeOK
    /\ GuardedInv
    /\ OwnedInv
    /\ ScannedInv
    /\ FirstIsLeast
    /\ DistinctNumbers
    /\ BoundedFiles
-----------------------------------------------------------------------------
(* The invariant is inductive.                                             *)

\* Initially nobody is in line and the directory is empty.
LEMMA InitInv == Init => IInv
<1> SUFFICES ASSUME Init PROVE IInv
  OBVIOUS
<1> USE QueueAssumption DEF Init
<1>1. TypeOK
  BY DEF TypeOK, Phases, InLine
<1>2. GuardedInv /\ OwnedInv /\ ScannedInv
  BY DEF GuardedInv, OwnedInv, ScannedInv, GuardHolders, Enrolled, InLine
<1>3. FirstIsLeast /\ DistinctNumbers /\ BoundedFiles
  BY FS_EmptySet DEF FirstIsLeast, DistinctNumbers, BoundedFiles
<1> QED
  BY <1>1, <1>2, <1>3 DEF IInv

\* A new number is larger than those of all live tickets.
LEMMA NumbersAreNew ==
  ASSUME NEW S \in SUBSET Tickets, NEW n \in NextNumbers(S)
  PROVE  n \in Nat /\ \A t \in S : t.num < n
<1> USE QueueAssumption DEF Tickets
<1>1. CASE S = {}
  BY <1>1 DEF NextNumbers
<1>2. CASE S # {}
  <2>1. PICK u \in S : n = u.num + 1 /\ \A v \in S : v.num <= u.num
    BY <1>2 DEF NextNumbers
  <2>2. u.num \in Nat /\ \A v \in S : v.num \in Nat
    OBVIOUS
  <2> QED
    BY <2>1, <2>2
<1> QED
  BY <1>1, <1>2

\* Each step keeps the types.
LEMMA TypeStep == IInv /\ [Next]_vars => TypeOK'
<1> SUFFICES ASSUME IInv, [Next]_vars PROVE TypeOK'
  OBVIOUS
<1> USE QueueAssumption DEF TypeOK, Phases, InLine, scan
<1>0. TypeOK
  BY DEF IInv
<1>1. ASSUME NEW w \in Writers, Call(w) PROVE TypeOK'
  BY <1>0, <1>1 DEF Call, Go
<1>2. ASSUME NEW w \in Writers, TakeGuard(w) PROVE TypeOK'
  BY <1>0, <1>2 DEF TakeGuard, Go, Hold
<1>3. ASSUME NEW w \in Writers, Probe(w) PROVE TypeOK'
  BY <1>0, <1>3 DEF Probe, First, Unlink
<1>4. ASSUME NEW w \in Writers, Create(w) PROVE TypeOK'
  <2>1. PICK n \in NextNumbers(live[w]) :
            /\ InDigits(n)
            /\ ticket' = [ticket EXCEPT ![w] = [num |-> n, by |-> w]]
            /\ files' = files \union {[num |-> n, by |-> w]}
    BY <1>4 DEF Create
  <2>2. n \in 0..MaxTicket
    BY <1>0, <2>1, NumbersAreNew DEF InDigits
  <2>3. [num |-> n, by |-> w] \in Tickets
    BY <2>2 DEF Tickets
  <2> QED
    BY <1>0, <1>4, <2>1, <2>3 DEF Create, Go
<1>5. ASSUME NEW w \in Writers, LockTicket(w) PROVE TypeOK'
  <2>1. ticket[w] \in Tickets
    BY <1>0, <1>5 DEF IInv, OwnedInv, LockTicket
  <2> QED
    BY <1>0, <1>5, <2>1 DEF LockTicket, Go, Hold, EndScan
<1>6. ASSUME NEW w \in Writers, Poll(w) PROVE TypeOK'
  <2>1. ticket[w] \in Tickets
    BY <1>0, <1>6 DEF Poll
  <2> QED
    BY <1>0, <1>6, <2>1 DEF Poll, ScanDone, Go, Hold, EndScan
<1>7. ASSUME NEW w \in Writers, Begin(w) PROVE TypeOK'
  BY <1>0, <1>7 DEF Begin, Go
<1>8. ASSUME NEW w \in Writers, EndTransaction(w) PROVE TypeOK'
  BY <1>0, <1>8 DEF EndTransaction, Leave, Go, Hold, EndScan
<1>9. ASSUME NEW w \in Writers, Expire(w) PROVE TypeOK'
  BY <1>0, <1>9 DEF Expire, Leave, Go, Hold, EndScan
<1>10. ASSUME NEW w \in Writers, Refuse(w) PROVE TypeOK'
  BY <1>0, <1>10 DEF Refuse, Leave, Go, Hold, EndScan
<1>11. ASSUME NEW w \in Writers, TakeCleanupGuard(w) PROVE TypeOK'
  BY <1>0, <1>11 DEF TakeCleanupGuard, Go, Hold
<1>12. ASSUME NEW w \in Writers, RemoveTicket(w) PROVE TypeOK'
  BY <1>0, <1>12 DEF RemoveTicket, Unlink, Go, Hold
<1>13. ASSUME NEW w \in Writers, DeferRemoval(w) PROVE TypeOK'
  BY <1>0, <1>13 DEF DeferRemoval, Go, Hold
<1>14. ASSUME NEW w \in Writers, Die(w) PROVE TypeOK'
  BY <1>0, <1>14 DEF Die, Go, Hold, EndScan
<1>15. ASSUME NEW w \in Writers, Fork(w) PROVE TypeOK'
  <2>1. locks[w] \subseteq files \union {Guard}
    BY <1>0 DEF IInv, OwnedInv
  <2> QED
    BY <1>0, <1>15, <2>1 DEF Fork
<1>16. ASSUME NEW f \in inherited, ChildCloses(f) PROVE TypeOK'
  BY <1>0, <1>16 DEF ChildCloses
<1>17. CASE UNCHANGED vars
  BY <1>0, <1>17 DEF vars, scan
<1> QED
  BY <1>1, <1>2, <1>3, <1>4, <1>5, <1>6, <1>7, <1>8, <1>9, <1>10, <1>11,
     <1>12, <1>13, <1>14, <1>15, <1>16, <1>17 DEF Next, Step

\* The guard is passed on only by whoever has given it up.
LEMMA GuardedStep == IInv /\ [Next]_vars => GuardedInv'
<1> SUFFICES ASSUME IInv, [Next]_vars PROVE GuardedInv'
  OBVIOUS
<1> USE QueueAssumption DEF GuardedInv, GuardHolders, TypeOK, scan
<1>0. TypeOK /\ GuardedInv /\ OwnedInv
  BY DEF IInv
<1>1. ASSUME NEW w \in Writers, Call(w) PROVE GuardedInv'
  BY <1>0, <1>1 DEF Call, Go
<1>2. ASSUME NEW w \in Writers, TakeGuard(w) PROVE GuardedInv'
  BY <1>0, <1>2 DEF TakeGuard, Go, Hold, Locked
<1>3. ASSUME NEW w \in Writers, Probe(w) PROVE GuardedInv'
  BY <1>0, <1>3 DEF Probe, First, Unlink
<1>4. ASSUME NEW w \in Writers, Create(w) PROVE GuardedInv'
  BY <1>0, <1>4 DEF Create, ScanDone, Go
<1>5. ASSUME NEW w \in Writers, LockTicket(w) PROVE GuardedInv'
  <2>1. ticket[w] # Guard
    BY <1>0, <1>5 DEF OwnedInv, LockTicket
  <2> QED
    BY <1>0, <1>5, <2>1 DEF LockTicket, Go, Hold, EndScan
<1>6. ASSUME NEW w \in Writers, Poll(w) PROVE GuardedInv'
  <2>1. ticket[w] # Guard
    BY <1>0, <1>6 DEF Poll
  <2> QED
    BY <1>0, <1>6, <2>1 DEF Poll, ScanDone, Go, Hold, EndScan
<1>7. ASSUME NEW w \in Writers, Begin(w) PROVE GuardedInv'
  BY <1>0, <1>7 DEF Begin, Go
<1>8. ASSUME NEW w \in Writers, EndTransaction(w) PROVE GuardedInv'
  BY <1>0, <1>8 DEF EndTransaction, Leave, Go, Hold, EndScan
<1>9. ASSUME NEW w \in Writers, Expire(w) PROVE GuardedInv'
  BY <1>0, <1>9 DEF Expire, Leave, Go, Hold, EndScan
<1>10. ASSUME NEW w \in Writers, Refuse(w) PROVE GuardedInv'
  BY <1>0, <1>10 DEF Refuse, Leave, Go, Hold, EndScan
<1>11. ASSUME NEW w \in Writers, TakeCleanupGuard(w) PROVE GuardedInv'
  BY <1>0, <1>11 DEF TakeCleanupGuard, Go, Hold, Locked
<1>12. ASSUME NEW w \in Writers, RemoveTicket(w) PROVE GuardedInv'
  BY <1>0, <1>12 DEF RemoveTicket, Unlink, Go, Hold
<1>13. ASSUME NEW w \in Writers, DeferRemoval(w) PROVE GuardedInv'
  BY <1>0, <1>13 DEF DeferRemoval, Go, Hold
<1>14. ASSUME NEW w \in Writers, Die(w) PROVE GuardedInv'
  BY <1>0, <1>14 DEF Die, Go, Hold, EndScan
<1>15. ASSUME NEW w \in Writers, Fork(w) PROVE GuardedInv'
  BY <1>0, <1>15 DEF Fork
<1>16. ASSUME NEW f \in inherited, ChildCloses(f) PROVE GuardedInv'
  BY <1>0, <1>16 DEF ChildCloses
<1>17. CASE UNCHANGED vars
  BY <1>0, <1>17 DEF vars, scan
<1> QED
  BY <1>1, <1>2, <1>3, <1>4, <1>5, <1>6, <1>7, <1>8, <1>9, <1>10, <1>11,
     <1>12, <1>13, <1>14, <1>15, <1>16, <1>17 DEF Next, Step

\* Nobody locks, unlocks or removes the ticket of a writer in line.
LEMMA OwnedStep == IInv /\ [Next]_vars => OwnedInv'
<1> SUFFICES ASSUME IInv, [Next]_vars PROVE OwnedInv'
  OBVIOUS
<1> USE QueueAssumption DEF TypeOK, OwnedInv, Enrolled, InLine, scan
<1>0. TypeOK /\ GuardedInv /\ OwnedInv /\ ScannedInv
  BY DEF IInv
<1>1. ASSUME NEW w \in Writers, Call(w) PROVE OwnedInv'
  BY <1>0, <1>1 DEF Call, Go
<1>2. ASSUME NEW w \in Writers, TakeGuard(w) PROVE OwnedInv'
  BY <1>0, <1>2 DEF TakeGuard, Go, Hold
<1>3. ASSUME NEW w \in Writers, Probe(w) PROVE OwnedInv'
  <2>1. PICK t \in First(todo[w]) :
            IF Locked(t) THEN UNCHANGED <<files, inherited>> ELSE Unlink(t)
    BY <1>3 DEF Probe
  <2>2. \A v \in Writers : Enrolled(v) => Locked(ticket[v])
    BY <1>0 DEF Locked
  <2>3. \A v \in Writers : Enrolled(v) => ticket[v] \in files'
    <3>1. CASE Locked(t)
      BY <1>0, <2>1, <3>1
    <3>2. CASE ~Locked(t)
      BY <1>0, <2>1, <2>2, <3>2 DEF Unlink
    <3> QED
      BY <3>1, <3>2
  <2>4. phase' = phase /\ ticket' = ticket /\ locks' = locks
    BY <1>3 DEF Probe
  <2> QED
    BY <1>0, <2>3, <2>4
<1>4. ASSUME NEW w \in Writers, Create(w) PROVE OwnedInv'
  <2>1. PICK n \in NextNumbers(live[w]) :
            /\ InDigits(n)
            /\ ticket' = [ticket EXCEPT ![w] = [num |-> n, by |-> w]]
            /\ files' = files \union {[num |-> n, by |-> w]}
    BY <1>4 DEF Create
  <2> DEFINE new == [num |-> n, by |-> w]
  <2>2. \A t \in live[w] : t.num < n
    BY <1>0, <2>1, NumbersAreNew DEF TypeOK
  <2>n. n \in 0..MaxTicket
    BY <1>0, <2>1, NumbersAreNew DEF TypeOK, InDigits
  <2>3. new.num = n /\ new.by = w /\ new # NoTicket /\ new \in Tickets
    BY <2>n DEF Tickets
  <2>4. phase'[w] = "creating" /\ ticket'[w] = new /\ phase[w] = "scanning"
        /\ ~Enrolled(w) /\ locks' = locks
    BY <1>0, <1>4, <2>1 DEF Create, ScanDone, Go
  <2>5. \A v \in Writers \ {w} : phase'[v] = phase[v] /\ ticket'[v] = ticket[v]
    BY <1>0, <1>4, <2>1 DEF Create, Go
  <2>6. files \subseteq files'
    BY <2>1
  <2> HIDE DEF new
  <2> QED
    BY <1>0, <2>3, <2>4, <2>5, <2>6
<1>5. ASSUME NEW w \in Writers, LockTicket(w) PROVE OwnedInv'
  <2>1. ticket[w] \in Tickets /\ ticket[w] \in files /\ phase[w] = "creating"
    BY <1>0, <1>5 DEF LockTicket, ScannedInv
  <2>2. ticket' = ticket /\ files' = files
    BY <1>5 DEF LockTicket
  <2>3. phase'[w] \in {"first", "queued"} /\ locks'[w] = {ticket[w]}
    BY <1>0, <1>5 DEF LockTicket, Go, Hold
  <2>4. \A v \in Writers \ {w} : phase'[v] = phase[v] /\ locks'[v] = locks[v]
    BY <1>0, <1>5 DEF LockTicket, Go, Hold
  <2> QED
    BY <1>0, <2>1, <2>2, <2>3, <2>4
<1>6. ASSUME NEW w \in Writers, Poll(w) PROVE OwnedInv'
  BY <1>0, <1>6 DEF Poll, ScanDone, First, Go, Hold, EndScan
<1>7. ASSUME NEW w \in Writers, Begin(w) PROVE OwnedInv'
  BY <1>0, <1>7 DEF Begin, Go
<1>8. ASSUME NEW w \in Writers, EndTransaction(w) PROVE OwnedInv'
  BY <1>0, <1>8 DEF EndTransaction, Leave, Go, Hold, EndScan
<1>9. ASSUME NEW w \in Writers, Expire(w) PROVE OwnedInv'
  BY <1>0, <1>9 DEF Expire, Leave, Go, Hold, EndScan
<1>10. ASSUME NEW w \in Writers, Refuse(w) PROVE OwnedInv'
  BY <1>0, <1>10 DEF Refuse, Leave, Go, Hold, EndScan
<1>11. ASSUME NEW w \in Writers, TakeCleanupGuard(w) PROVE OwnedInv'
  BY <1>0, <1>11 DEF TakeCleanupGuard, Go, Hold
<1>12. ASSUME NEW w \in Writers, RemoveTicket(w) PROVE OwnedInv'
  BY <1>0, <1>12 DEF RemoveTicket, Unlink, Go, Hold
<1>13. ASSUME NEW w \in Writers, DeferRemoval(w) PROVE OwnedInv'
  BY <1>0, <1>13 DEF DeferRemoval, Go, Hold
<1>14. ASSUME NEW w \in Writers, Die(w) PROVE OwnedInv'
  BY <1>0, <1>14 DEF Die, Go, Hold, EndScan
<1>15. ASSUME NEW w \in Writers, Fork(w) PROVE OwnedInv'
  BY <1>0, <1>15 DEF Fork
<1>16. ASSUME NEW f \in inherited, ChildCloses(f) PROVE OwnedInv'
  BY <1>0, <1>16 DEF ChildCloses
<1>17. CASE UNCHANGED vars
  BY <1>0, <1>17 DEF vars, scan
<1> QED
  BY <1>1, <1>2, <1>3, <1>4, <1>5, <1>6, <1>7, <1>8, <1>9, <1>10, <1>11,
     <1>12, <1>13, <1>14, <1>15, <1>16, <1>17 DEF Next, Step

\* While one scans under the guard nobody else adds or removes a file.
LEMMA ScannedStep == IInv /\ [Next]_vars => ScannedInv'
<1> SUFFICES ASSUME IInv, [Next]_vars PROVE ScannedInv'
  OBVIOUS
<1> USE QueueAssumption DEF TypeOK, GuardedInv, GuardHolders, ScannedInv, scan
<1>0. TypeOK /\ GuardedInv /\ OwnedInv /\ ScannedInv
  BY DEF IInv
<1>1. ASSUME NEW w \in Writers, Call(w) PROVE ScannedInv'
  BY <1>0, <1>1 DEF Call, Go, OwnedInv
<1>2. ASSUME NEW w \in Writers, TakeGuard(w) PROVE ScannedInv'
  BY <1>0, <1>2 DEF TakeGuard, Go, Hold
<1>3. ASSUME NEW w \in Writers, Probe(w) PROVE ScannedInv'
  BY <1>0, <1>3 DEF Probe, First, Unlink
<1>4. ASSUME NEW w \in Writers, Create(w) PROVE ScannedInv'
  <2>1. PICK n \in NextNumbers(live[w]) :
            /\ InDigits(n)
            /\ ticket' = [ticket EXCEPT ![w] = [num |-> n, by |-> w]]
            /\ files' = files \union {[num |-> n, by |-> w]}
    BY <1>4 DEF Create
  <2> DEFINE new == [num |-> n, by |-> w]
  <2>2. \A t \in live[w] : t.num < n
    BY <1>0, <2>1, NumbersAreNew DEF TypeOK
  <2>n. n \in 0..MaxTicket
    BY <1>0, <2>1, NumbersAreNew DEF TypeOK, InDigits
  <2>3. new.num = n /\ new.by = w /\ new # NoTicket /\ new \in Tickets
    BY <2>n DEF Tickets
  <2>a. phase[w] = "scanning" /\ todo[w] = {}
    BY <1>4 DEF Create, ScanDone
  <2>b. files = live[w] /\ Guard \in locks[w]
    BY <1>0, <2>a
  <2>c. live' = live /\ todo' = todo /\ inherited' = inherited
    BY <1>4 DEF Create
  <2>d. phase'[w] = "creating" /\ ticket'[w] = new
    BY <1>0, <1>4, <2>1 DEF Create, Go
  <2>4. phase'[w] = "creating" /\ ticket'[w] = new /\ phase[w] = "scanning"
        /\ Guard \in locks[w] /\ files = live[w] /\ files' = files \union {new}
        /\ live' = live /\ todo' = todo /\ inherited' = inherited
    BY <2>1, <2>a, <2>b, <2>c, <2>d
  <2>5. \A v \in Writers \ {w} : phase'[v] = phase[v] /\ ticket'[v] = ticket[v]
    BY <1>0, <1>4, <2>1 DEF Create, Go
  <2>6. \A v \in Writers \ {w} : phase[v] \notin {"scanning", "creating"}
    BY <1>0, <2>4
  <2>7. new \notin files /\ new \notin inherited
    <3>1. n \in Nat
      BY <2>n
    <3>2. new \notin files
      BY <2>2, <2>3, <2>4, <3>1
    <3> QED
      BY <1>0, <2>3, <3>2
  <2> HIDE DEF new
  <2> QED
    BY <1>0, <2>2, <2>3, <2>4, <2>5, <2>6, <2>7
<1>5. ASSUME NEW w \in Writers, LockTicket(w) PROVE ScannedInv'
  BY <1>0, <1>5 DEF LockTicket, Go, Hold, EndScan
<1>6. ASSUME NEW w \in Writers, Poll(w) PROVE ScannedInv'
  BY <1>0, <1>6 DEF Poll, ScanDone, First, Go, Hold, EndScan
<1>7. ASSUME NEW w \in Writers, Begin(w) PROVE ScannedInv'
  BY <1>0, <1>7 DEF Begin, Go
<1>8. ASSUME NEW w \in Writers, EndTransaction(w) PROVE ScannedInv'
  BY <1>0, <1>8 DEF EndTransaction, Leave, Go, Hold, EndScan
<1>9. ASSUME NEW w \in Writers, Expire(w) PROVE ScannedInv'
  BY <1>0, <1>9 DEF Expire, Leave, Go, Hold, EndScan
<1>10. ASSUME NEW w \in Writers, Refuse(w) PROVE ScannedInv'
  BY <1>0, <1>10 DEF Refuse, Leave, Go, Hold, EndScan
<1>11. ASSUME NEW w \in Writers, TakeCleanupGuard(w) PROVE ScannedInv'
  BY <1>0, <1>11 DEF TakeCleanupGuard, Go, Hold
<1>12. ASSUME NEW w \in Writers, RemoveTicket(w) PROVE ScannedInv'
  BY <1>0, <1>12 DEF RemoveTicket, Unlink, Go, Hold
<1>13. ASSUME NEW w \in Writers, DeferRemoval(w) PROVE ScannedInv'
  BY <1>0, <1>13 DEF DeferRemoval, Go, Hold
<1>14. ASSUME NEW w \in Writers, Die(w) PROVE ScannedInv'
  BY <1>0, <1>14 DEF Die, Go, Hold, EndScan
<1>15. ASSUME NEW w \in Writers, Fork(w) PROVE ScannedInv'
  BY <1>0, <1>15 DEF Fork, OwnedInv, Enrolled, InLine
<1>16. ASSUME NEW f \in inherited, ChildCloses(f) PROVE ScannedInv'
  BY <1>0, <1>16 DEF ChildCloses
<1>17. CASE UNCHANGED vars
  BY <1>0, <1>17 DEF vars, scan
<1> QED
  BY <1>1, <1>2, <1>3, <1>4, <1>5, <1>6, <1>7, <1>8, <1>9, <1>10, <1>11,
     <1>12, <1>13, <1>14, <1>15, <1>16, <1>17 DEF Next, Step

\* A new ticket is numbered behind all files that are left.
LEMMA DistinctStep == IInv /\ [Next]_vars => DistinctNumbers'
<1> SUFFICES ASSUME IInv, [Next]_vars PROVE DistinctNumbers'
  OBVIOUS
<1> USE QueueAssumption DEF DistinctNumbers
<1>0. TypeOK /\ ScannedInv /\ DistinctNumbers
  BY DEF IInv
<1>1. ASSUME NEW w \in Writers, Call(w) PROVE DistinctNumbers'
  BY <1>0, <1>1 DEF Call, Go
<1>2. ASSUME NEW w \in Writers, TakeGuard(w) PROVE DistinctNumbers'
  BY <1>0, <1>2 DEF TakeGuard, Go, Hold
<1>3. ASSUME NEW w \in Writers, Probe(w) PROVE DistinctNumbers'
  BY <1>0, <1>3 DEF Probe, First, Unlink, TypeOK
<1>4. ASSUME NEW w \in Writers, Create(w) PROVE DistinctNumbers'
  <2>1. PICK n \in NextNumbers(live[w]) :
            /\ InDigits(n)
            /\ ticket' = [ticket EXCEPT ![w] = [num |-> n, by |-> w]]
            /\ files' = files \union {[num |-> n, by |-> w]}
    BY <1>4 DEF Create
  <2> DEFINE new == [num |-> n, by |-> w]
  <2>2. \A t \in live[w] : t.num < n
    BY <1>0, <2>1, NumbersAreNew DEF TypeOK
  <2>n. n \in 0..MaxTicket
    BY <1>0, <2>1, NumbersAreNew DEF TypeOK, InDigits
  <2>3. new.num = n /\ new.by = w /\ new # NoTicket /\ new \in Tickets
    BY <2>n DEF Tickets
  <2>a. phase[w] = "scanning" /\ todo[w] = {}
    BY <1>4 DEF Create, ScanDone
  <2>b. files = live[w]
    <3>1. files = live[w] \union todo[w]
      BY <1>0, <2>a DEF ScannedInv
    <3> QED
      BY <2>a, <3>1
  <2>4. files = live[w] /\ files' = files \union {new} /\ n \in Nat
    BY <2>1, <2>b, <2>n
  <2>5. \A t \in files : t.num < n /\ t.num \in Nat
    BY <1>0, <2>2, <2>4 DEF TypeOK, Tickets
  <2> HIDE DEF new
  <2> QED
    BY <1>0, <2>3, <2>4, <2>5
<1>5. ASSUME NEW w \in Writers, LockTicket(w) PROVE DistinctNumbers'
  BY <1>0, <1>5 DEF LockTicket, Go, Hold, EndScan
<1>6. ASSUME NEW w \in Writers, Poll(w) PROVE DistinctNumbers'
  BY <1>0, <1>6 DEF Poll, ScanDone, First, Go, Hold, EndScan
<1>7. ASSUME NEW w \in Writers, Begin(w) PROVE DistinctNumbers'
  BY <1>0, <1>7 DEF Begin, Go
<1>8. ASSUME NEW w \in Writers, EndTransaction(w) PROVE DistinctNumbers'
  BY <1>0, <1>8 DEF EndTransaction, Leave, Go, Hold, EndScan
<1>9. ASSUME NEW w \in Writers, Expire(w) PROVE DistinctNumbers'
  BY <1>0, <1>9 DEF Expire, Leave, Go, Hold, EndScan
<1>10. ASSUME NEW w \in Writers, Refuse(w) PROVE DistinctNumbers'
  BY <1>0, <1>10 DEF Refuse, Leave, Go, Hold, EndScan
<1>11. ASSUME NEW w \in Writers, TakeCleanupGuard(w) PROVE DistinctNumbers'
  BY <1>0, <1>11 DEF TakeCleanupGuard, Go, Hold
<1>12. ASSUME NEW w \in Writers, RemoveTicket(w) PROVE DistinctNumbers'
  BY <1>0, <1>12 DEF RemoveTicket, Unlink, Go, Hold
<1>13. ASSUME NEW w \in Writers, DeferRemoval(w) PROVE DistinctNumbers'
  BY <1>0, <1>13 DEF DeferRemoval, Go, Hold
<1>14. ASSUME NEW w \in Writers, Die(w) PROVE DistinctNumbers'
  BY <1>0, <1>14 DEF Die, Go, Hold, EndScan
<1>15. ASSUME NEW w \in Writers, Fork(w) PROVE DistinctNumbers'
  BY <1>0, <1>15 DEF Fork
<1>16. ASSUME NEW f \in inherited, ChildCloses(f) PROVE DistinctNumbers'
  BY <1>0, <1>16 DEF ChildCloses
<1>17. CASE UNCHANGED vars
  BY <1>0, <1>17 DEF vars, scan
<1> QED
  BY <1>1, <1>2, <1>3, <1>4, <1>5, <1>6, <1>7, <1>8, <1>9, <1>10, <1>11,
     <1>12, <1>13, <1>14, <1>15, <1>16, <1>17 DEF Next, Step

\* A ticket is created only when there is room for it.
LEMMA BoundedStep == IInv /\ [Next]_vars => BoundedFiles'
<1> SUFFICES ASSUME IInv, [Next]_vars PROVE BoundedFiles'
  OBVIOUS
<1> USE QueueAssumption DEF BoundedFiles
<1>0. TypeOK /\ ScannedInv /\ BoundedFiles
  BY DEF IInv
<1>1. ASSUME NEW w \in Writers, Call(w) PROVE BoundedFiles'
  BY <1>0, <1>1 DEF Call, Go
<1>2. ASSUME NEW w \in Writers, TakeGuard(w) PROVE BoundedFiles'
  BY <1>0, <1>2 DEF TakeGuard, Go, Hold
<1>3. ASSUME NEW w \in Writers, Probe(w) PROVE BoundedFiles'
  <2>1. files' \subseteq files
    BY <1>3 DEF Probe, Unlink
  <2>2. IsFiniteSet(files') /\ Cardinality(files') <= Cardinality(files)
    BY <1>0, <2>1, FS_Subset
  <2>3. Cardinality(files) \in Nat /\ Cardinality(files') \in Nat
    BY <1>0, <2>2, FS_CardinalityType
  <2> QED
    BY <1>0, <2>2, <2>3
<1>4. ASSUME NEW w \in Writers, Create(w) PROVE BoundedFiles'
  <2>1. PICK t : files' = files \union {t}
    BY <1>4 DEF Create
  <2>2. files = live[w] /\ Cardinality(files) < MaxQueue
    BY <1>0, <1>4 DEF Create, ScanDone, ScannedInv, Fits
  <2>3. IsFiniteSet(files') /\ Cardinality(files') <= Cardinality(files) + 1
    <3>1. IsFiniteSet(files) /\ Cardinality(files) \in Nat
      BY <1>0, FS_CardinalityType
    <3>2. /\ IsFiniteSet(files \union {t})
          /\ Cardinality(files \union {t}) = IF t \in files THEN Cardinality(files)
                                             ELSE Cardinality(files) + 1
      BY <3>1, FS_AddElement
    <3> QED
      BY <2>1, <3>1, <3>2
  <2>4. Cardinality(files) \in Nat /\ Cardinality(files') \in Nat
    BY <1>0, <2>3, FS_CardinalityType
  <2> QED
    BY <2>2, <2>3, <2>4
<1>5. ASSUME NEW w \in Writers, LockTicket(w) PROVE BoundedFiles'
  BY <1>0, <1>5 DEF LockTicket, Go, Hold, EndScan
<1>6. ASSUME NEW w \in Writers, Poll(w) PROVE BoundedFiles'
  BY <1>0, <1>6 DEF Poll, ScanDone, First, Go, Hold, EndScan
<1>7. ASSUME NEW w \in Writers, Begin(w) PROVE BoundedFiles'
  BY <1>0, <1>7 DEF Begin, Go
<1>8. ASSUME NEW w \in Writers, EndTransaction(w) PROVE BoundedFiles'
  BY <1>0, <1>8 DEF EndTransaction, Leave, Go, Hold, EndScan
<1>9. ASSUME NEW w \in Writers, Expire(w) PROVE BoundedFiles'
  BY <1>0, <1>9 DEF Expire, Leave, Go, Hold, EndScan
<1>10. ASSUME NEW w \in Writers, Refuse(w) PROVE BoundedFiles'
  BY <1>0, <1>10 DEF Refuse, Leave, Go, Hold, EndScan
<1>11. ASSUME NEW w \in Writers, TakeCleanupGuard(w) PROVE BoundedFiles'
  BY <1>0, <1>11 DEF TakeCleanupGuard, Go, Hold
<1>12. ASSUME NEW w \in Writers, RemoveTicket(w) PROVE BoundedFiles'
  <2>1. files' \subseteq files
    BY <1>12 DEF RemoveTicket, Unlink
  <2>2. IsFiniteSet(files') /\ Cardinality(files') <= Cardinality(files)
    BY <1>0, <2>1, FS_Subset
  <2>3. Cardinality(files) \in Nat /\ Cardinality(files') \in Nat
    BY <1>0, <2>2, FS_CardinalityType
  <2> QED
    BY <1>0, <2>2, <2>3
<1>13. ASSUME NEW w \in Writers, DeferRemoval(w) PROVE BoundedFiles'
  BY <1>0, <1>13 DEF DeferRemoval, Go, Hold
<1>14. ASSUME NEW w \in Writers, Die(w) PROVE BoundedFiles'
  BY <1>0, <1>14 DEF Die, Go, Hold, EndScan
<1>15. ASSUME NEW w \in Writers, Fork(w) PROVE BoundedFiles'
  BY <1>0, <1>15 DEF Fork
<1>16. ASSUME NEW f \in inherited, ChildCloses(f) PROVE BoundedFiles'
  BY <1>0, <1>16 DEF ChildCloses
<1>17. CASE UNCHANGED vars
  BY <1>0, <1>17 DEF vars, scan
<1> QED
  BY <1>1, <1>2, <1>3, <1>4, <1>5, <1>6, <1>7, <1>8, <1>9, <1>10, <1>11,
     <1>12, <1>13, <1>14, <1>15, <1>16, <1>17 DEF Next, Step

\* Nobody comes in line before one who is past the queue.
LEMMA FirstStep == IInv /\ [Next]_vars => FirstIsLeast'
<1> SUFFICES ASSUME IInv, [Next]_vars PROVE FirstIsLeast'
  OBVIOUS
<1> USE QueueAssumption DEF TypeOK, OwnedInv, Enrolled, InLine, FirstIsLeast, scan, Locked
<1>0. TypeOK /\ GuardedInv /\ OwnedInv /\ ScannedInv /\ FirstIsLeast /\ DistinctNumbers
  BY DEF IInv
<1>1. ASSUME NEW w \in Writers, Call(w) PROVE FirstIsLeast'
  BY <1>0, <1>1 DEF Call, Go
<1>2. ASSUME NEW w \in Writers, TakeGuard(w) PROVE FirstIsLeast'
  BY <1>0, <1>2 DEF TakeGuard, Go, Hold
<1>3. ASSUME NEW w \in Writers, Probe(w) PROVE FirstIsLeast'
  BY <1>0, <1>3 DEF Probe, First, Unlink
<1>4. ASSUME NEW w \in Writers, Create(w) PROVE FirstIsLeast'
  <2>1. PICK n \in NextNumbers(live[w]) :
            /\ InDigits(n)
            /\ ticket' = [ticket EXCEPT ![w] = [num |-> n, by |-> w]]
            /\ files' = files \union {[num |-> n, by |-> w]}
    BY <1>4 DEF Create
  <2> DEFINE new == [num |-> n, by |-> w]
  <2>2. \A t \in live[w] : t.num < n
    BY <1>0, <2>1, NumbersAreNew DEF TypeOK
  <2>n. n \in 0..MaxTicket
    BY <1>0, <2>1, NumbersAreNew DEF TypeOK, InDigits
  <2>3. new.num = n /\ new.by = w /\ new # NoTicket /\ new \in Tickets
    BY <2>n DEF Tickets
  <2>a. phase[w] = "scanning" /\ todo[w] = {}
    BY <1>4 DEF Create, ScanDone
  <2>b. files = live[w]
    <3>1. files = live[w] \union todo[w]
      BY <1>0, <2>a DEF ScannedInv
    <3> QED
      BY <2>a, <3>1
  <2>c. locks' = locks /\ inherited' = inherited
    BY <1>4 DEF Create
  <2>4. files = live[w] /\ files' = files \union {new} /\ n \in Nat
        /\ phase[w] = "scanning" /\ locks' = locks /\ inherited' = inherited
    BY <2>1, <2>a, <2>b, <2>c, <2>n
  <2>5. \A t \in files : t.num < n /\ t.num \in Nat
    BY <1>0, <2>2, <2>4 DEF Tickets
  <2>6. phase'[w] = "creating"
        /\ \A v \in Writers \ {w} : phase'[v] = phase[v] /\ ticket'[v] = ticket[v]
    BY <1>0, <1>4, <2>1 DEF Create, Go
  <2> HIDE DEF new
  <2>7. ASSUME NEW v \in Writers, phase'[v] \in {"first", "writing"},
               NEW t \in files', Locked(t)'
        PROVE  ticket'[v].num <= t.num
    <3>1. v # w /\ ticket[v] \in files /\ ticket'[v] = ticket[v]
          /\ phase[v] \in {"first", "writing"}
      BY <1>0, <2>6, <2>7
    <3>2. CASE t = new
      BY <2>3, <2>4, <2>5, <3>1, <3>2
    <3>3. CASE t \in files
      BY <1>0, <2>4, <2>7, <3>1, <3>3
    <3> QED
      BY <2>4, <3>2, <3>3
  <2> QED
    BY <2>7
<1>5. ASSUME NEW w \in Writers, LockTicket(w) PROVE FirstIsLeast'
  <2>1. phase[w] = "creating" /\ ticket[w] \in Tickets /\ ticket[w].by = w
        /\ files = live[w] \union {ticket[w]}
        /\ \A t \in live[w] : t.num < ticket[w].num
    BY <1>0, <1>5 DEF LockTicket, ScannedInv
  <2>2. files' = files /\ ticket' = ticket /\ inherited' = inherited
    BY <1>5 DEF LockTicket
  <2>3. locks'[w] = {ticket[w]}
        /\ \A v \in Writers \ {w} : locks'[v] = locks[v] /\ phase'[v] = phase[v]
    BY <1>0, <1>5 DEF LockTicket, Hold, Go
  <2>4. \A t : Locked(t)' => Locked(t) \/ t = ticket[w]
    BY <2>2, <2>3
  <2>5. phase'[w] = "first" => live[w] = {}
    BY <1>0, <1>5 DEF LockTicket, Go
  <2>t. \A t \in files : t.num \in Nat
    BY <1>0 DEF Tickets
  <2>6. ASSUME NEW v \in Writers, phase'[v] \in {"first", "writing"},
               NEW t \in files', Locked(t)'
        PROVE  ticket'[v].num <= t.num
    <3>1. CASE v = w
      <4>1. t = ticket[w]
        BY <1>0, <1>5, <2>1, <2>2, <2>5, <2>6, <3>1 DEF LockTicket, Go
      <4> QED
        BY <2>1, <2>2, <2>t, <3>1, <4>1
    <3>2. CASE v # w
      <4>1. ticket[v] \in files /\ ticket[v].by = v
            /\ phase[v] \in {"first", "writing"}
        BY <1>0, <2>3, <2>6, <3>2
      <4>2. ticket[v] \in live[w]
        BY <2>1, <3>2, <4>1
      <4>3. CASE t = ticket[w]
        BY <2>1, <2>2, <2>t, <4>1, <4>2, <4>3
      <4>4. CASE Locked(t)
        BY <1>0, <2>2, <2>6, <4>1, <4>4
      <4> QED
        BY <2>4, <2>6, <4>3, <4>4
    <3> QED
      BY <3>1, <3>2
  <2> QED
    BY <2>6
<1>6. ASSUME NEW w \in Writers, Poll(w) PROVE FirstIsLeast'
  <2>a. phase[w] = "scanning" /\ ticket[w] # NoTicket /\ todo[w] = {}
        /\ ticket[w] \in Tickets
    BY <1>0, <1>6 DEF Poll, ScanDone
  <2>b. files = live[w] \union todo[w]
    BY <1>0, <2>a DEF ScannedInv
  <2>1. phase[w] = "scanning" /\ ticket[w] # NoTicket /\ files = live[w]
        /\ ticket[w] \in Tickets
    BY <2>a, <2>b
  <2>2. files' = files /\ ticket' = ticket /\ inherited' = inherited
    BY <1>6 DEF Poll
  <2>3. locks'[w] = {ticket[w]} /\ ticket[w] \in locks[w]
        /\ \A v \in Writers \ {w} : locks'[v] = locks[v] /\ phase'[v] = phase[v]
    BY <1>0, <1>6, <2>1 DEF Poll, Hold, Go
  <2>4. \A t : Locked(t)' => Locked(t)
    BY <2>2, <2>3
  <2>5. phase'[w] \in {"first", "writing"} => \A t \in files : ticket[w].num <= t.num
    BY <1>0, <1>6, <2>1 DEF Poll, Go, First
  <2>6. \A v \in Writers \ {w} : phase'[v] \in {"first", "writing"} =>
          \A t \in files : Locked(t)' => ticket[v].num <= t.num
    BY <1>0, <2>3, <2>4
  <2> QED
    BY <2>2, <2>5, <2>6
<1>7. ASSUME NEW w \in Writers, Begin(w) PROVE FirstIsLeast'
  BY <1>0, <1>7 DEF Begin, Go
<1>8. ASSUME NEW w \in Writers, EndTransaction(w) PROVE FirstIsLeast'
  BY <1>0, <1>8 DEF EndTransaction, Leave, Go, Hold, EndScan
<1>9. ASSUME NEW w \in Writers, Expire(w) PROVE FirstIsLeast'
  BY <1>0, <1>9 DEF Expire, Leave, Go, Hold, EndScan
<1>10. ASSUME NEW w \in Writers, Refuse(w) PROVE FirstIsLeast'
  BY <1>0, <1>10 DEF Refuse, Leave, Go, Hold, EndScan
<1>11. ASSUME NEW w \in Writers, TakeCleanupGuard(w) PROVE FirstIsLeast'
  BY <1>0, <1>11 DEF TakeCleanupGuard, Go, Hold
<1>12. ASSUME NEW w \in Writers, RemoveTicket(w) PROVE FirstIsLeast'
  BY <1>0, <1>12 DEF RemoveTicket, Unlink, Go, Hold
<1>13. ASSUME NEW w \in Writers, DeferRemoval(w) PROVE FirstIsLeast'
  BY <1>0, <1>13 DEF DeferRemoval, Go, Hold
<1>14. ASSUME NEW w \in Writers, Die(w) PROVE FirstIsLeast'
  BY <1>0, <1>14 DEF Die, Go, Hold, EndScan
<1>15. ASSUME NEW w \in Writers, Fork(w) PROVE FirstIsLeast'
  BY <1>0, <1>15 DEF Fork
<1>16. ASSUME NEW f \in inherited, ChildCloses(f) PROVE FirstIsLeast'
  BY <1>0, <1>16 DEF ChildCloses
<1>17. CASE UNCHANGED vars
  BY <1>0, <1>17 DEF vars, scan
<1> QED
  BY <1>1, <1>2, <1>3, <1>4, <1>5, <1>6, <1>7, <1>8, <1>9, <1>10, <1>11,
     <1>12, <1>13, <1>14, <1>15, <1>16, <1>17 DEF Next, Step

-----------------------------------------------------------------------------
(* The invariants.                                                         *)

\* The inductive invariant holds in every behaviour.
LEMMA Invariance == Spec => []IInv
<1>1. IInv /\ [Next]_vars => IInv'
  BY TypeStep, GuardedStep, OwnedStep, ScannedStep, FirstStep, DistinctStep,
     BoundedStep DEF IInv
<1> QED
  BY InitInv, <1>1, PTL DEF Spec

\* Every state of the queue is well formed.
THEOREM Typed == Spec => []TypeOK
<1>1. IInv => TypeOK
  BY DEF IInv
<1> QED
  BY Invariance, <1>1, PTL

\* However many writers there are and whoever dies or forks, at most one of
\* them is past the queue (workflow_store.py slot).
THEOREM AtMostOneWriter == Spec => []OneWriter
<1>1. IInv => OneWriter
  <2> SUFFICES ASSUME IInv, NEW v \in Writers, NEW w \in Writers,
                      phase[v] \in {"first", "writing"},
                      phase[w] \in {"first", "writing"}
               PROVE  v = w
    BY DEF OneWriter
  <2>1. /\ ticket[v] \in files /\ Locked(ticket[v]) /\ ticket[v].by = v
        /\ ticket[w] \in files /\ Locked(ticket[w]) /\ ticket[w].by = w
    BY QueueAssumption DEF IInv, TypeOK, OwnedInv, Enrolled, InLine, Locked
  <2>2. ticket[v].num <= ticket[w].num /\ ticket[w].num <= ticket[v].num
    BY <2>1 DEF IInv, FirstIsLeast
  <2>3. ticket[v].num \in Nat /\ ticket[w].num \in Nat
    BY <2>1 DEF IInv, TypeOK, Tickets
  <2>4. ticket[v] = ticket[w]
    BY <2>1, <2>2, <2>3 DEF IInv, DistinctNumbers
  <2> QED
    BY <2>1, <2>4
<1> QED
  BY Invariance, <1>1, PTL

\* No writer in line ever finds its own ticket gone or taken for a stale one
\* (workflow_store.py slot).
THEOREM TicketsAreKept == Spec => []LiveTicketKept
<1>1. IInv => LiveTicketKept
  BY QueueAssumption
     DEF IInv, TypeOK, OwnedInv, Enrolled, InLine, LiveTicketKept
<1> QED
  BY Invariance, <1>1, PTL

\* The directory never holds two tickets of one number nor more of them than
\* the scan accepts (workflow_store.py _live).
THEOREM InventoryFits == Spec => []QueueFits
<1>1. IInv => QueueFits
  BY DEF IInv, DistinctNumbers, BoundedFiles, QueueFits
<1> QED
  BY Invariance, <1>1, PTL
-----------------------------------------------------------------------------
(* The refinement: what others can see of the queue is a waiting line.     *)

Alive(t) == t \in inherited \/ (Enrolled(t.by) /\ t = ticket[t.by])
InService(t) == phase[t.by] = "writing" /\ t = ticket[t.by]

\* The line and who is served, by the tickets' owners.
LineForms ==
    /\ \A t : t \in LiveTickets <=> t \in files /\ Alive(t)
    /\ \A t : t \in Serving <=> t \in files /\ InService(t)

\* Live tickets and tickets being served, told from their owners' states.
LEMMA Forms == IInv => LineForms
<1> SUFFICES ASSUME IInv PROVE LineForms
  OBVIOUS
<1> USE QueueAssumption DEF IInv, TypeOK, OwnedInv
<1>1. \A t \in files : t.by \in Writers
  BY DEF Tickets
<1>2. \A t \in files : Locked(t) <=> Alive(t)
  BY <1>1 DEF Locked, Alive
<1>3. \A w \in Writers : phase[w] = "writing" =>
        ticket[w] \in files /\ ticket[w].by = w
  BY DEF Enrolled, InLine
<1> QED
  BY <1>1, <1>2, <1>3 DEF LineForms, LiveTickets, Serving, InService

\* The same of the next state.
LEMMA FormsNext == IInv' => LineForms'
BY Forms, PTL

\* What a step does to the line.
LineStep == [Line!Next]_<<LiveTickets, Serving>>

\* A step that changes neither who is alive nor who is served.
LEMMA Stays ==
  ASSUME IInv, IInv',
         \A t \in files \union files' :
           /\ (t \in files' /\ Alive(t)') <=> (t \in files /\ Alive(t))
           /\ (t \in files' /\ InService(t)') <=> (t \in files /\ InService(t))
  PROVE  LineStep
BY Forms, FormsNext DEF LineForms, LineStep

\* A step by which one writer gives its place up.
LEMMA Departs ==
  ASSUME IInv, IInv', NEW w \in Writers,
         files' = files, inherited' = inherited, ~Enrolled(w)',
         \A v \in Writers \ {w} : phase'[v] = phase[v] /\ ticket'[v] = ticket[v]
  PROVE  LineStep
<1> DEFINE p == ticket[w]
<1> USE QueueAssumption DEF Alive, InService, Enrolled
<1>1. \A t \in files : t.by \in Writers /\ t \in Tickets
  BY DEF IInv, TypeOK, Tickets
<1>2. \A t \in files : t.by # w =>
        (Alive(t)' <=> Alive(t)) /\ (InService(t)' <=> InService(t))
  BY <1>1
<1>3. phase'[w] # "writing"
  BY DEF InLine
<1>4. \A t \in files : t.by = w =>
        (Alive(t)' <=> t \in inherited) /\ ~InService(t)'
  BY <1>3
<1>5. CASE ~Enrolled(w)
  <2>1. phase[w] # "writing"
    BY <1>5 DEF InLine
  <2> QED
    BY <1>1, <1>2, <1>4, <1>5, <2>1, Stays
<1>6. CASE Enrolled(w)
  <2>1. p \in files /\ p.by = w /\ p \in Tickets
    BY <1>1, <1>6 DEF IInv, OwnedInv
  <2>2. Alive(p) /\ (InService(p) <=> phase[w] = "writing")
    BY <1>6, <2>1
  <2>3. LiveTickets' = LiveTickets \/ LiveTickets' = LiveTickets \ {p}
    <3>1. CASE p \in inherited
      <4>1. \A t \in files : Alive(t)' <=> Alive(t)
        BY <1>1, <1>2, <1>4, <3>1
      <4> QED
        BY <4>1, Forms, FormsNext DEF LineForms
    <3>2. CASE p \notin inherited
      <4>1. \A t \in files : Alive(t)' <=> Alive(t) /\ t # p
        BY <1>1, <1>2, <1>4, <2>1, <3>2
      <4> QED
        BY <4>1, Forms, FormsNext DEF LineForms
    <3> QED
      BY <3>1, <3>2
  <2>4. CASE phase[w] = "writing"
    <3>1. p \in Serving /\ Serving' = Serving \ {p}
      BY <1>1, <1>2, <1>4, <2>1, <2>2, <2>4, Forms, FormsNext DEF LineForms
    <3>2. Line!EndService(p)
      BY <2>3, <3>1 DEF Line!EndService
    <3> QED
      BY <2>1, <3>2 DEF LineStep, Line!Next
  <2>5. CASE phase[w] # "writing"
    <3>0. \A t \in files : InService(t)' <=> InService(t)
      BY <1>1, <1>2, <1>4, <2>5
    <3>1. p \in LiveTickets \ Serving /\ Serving' = Serving
      BY <2>1, <2>2, <2>5, <3>0, Forms, FormsNext DEF LineForms
    <3>2. CASE LiveTickets' = LiveTickets \ {p}
      <4>1. Line!Leave(p)
        BY <3>1, <3>2 DEF Line!Leave
      <4> QED
        BY <2>1, <4>1 DEF LineStep, Line!Next
    <3>3. CASE LiveTickets' = LiveTickets
      BY <3>1, <3>3 DEF LineStep
    <3> QED
      BY <2>3, <3>2, <3>3
  <2> QED
    BY <2>4, <2>5
<1> QED
  BY <1>5, <1>6

\* Every step of the queue is a step of the line or leaves it alone.
LEMMA LineSteps == IInv /\ IInv' /\ [Next]_vars => LineStep
<1> SUFFICES ASSUME IInv, IInv', [Next]_vars PROVE LineStep
  OBVIOUS
<1> USE QueueAssumption DEF Alive, InService, Enrolled, InLine
<1>0. TypeOK /\ GuardedInv /\ OwnedInv /\ ScannedInv
  BY DEF IInv
<1>t. \A t \in files : t.by \in Writers /\ t \in Tickets /\ t.num \in Nat
  BY <1>0 DEF TypeOK, Tickets
<1>1. ASSUME NEW w \in Writers, Call(w) PROVE LineStep
  BY <1>0, <1>1, Departs DEF Call, Go, TypeOK
<1>2. ASSUME NEW w \in Writers, TakeGuard(w) PROVE LineStep
  <2>1. files' = files /\ inherited' = inherited /\ ticket' = ticket
    BY <1>2 DEF TakeGuard
  <2>2. phase'[w] = "scanning" /\ phase[w] \in {"enrolling", "queued"}
        /\ (phase[w] = "queued" <=> ticket[w] # NoTicket)
    BY <1>0, <1>2 DEF TakeGuard, Go, TypeOK, OwnedInv
  <2>3. \A v \in Writers \ {w} : phase'[v] = phase[v]
    BY <1>0, <1>2 DEF TakeGuard, Go, TypeOK
  <2> QED
    BY <1>t, <2>1, <2>2, <2>3, Stays DEF TypeOK, IInv
<1>3. ASSUME NEW w \in Writers, Probe(w) PROVE LineStep
  <2>1. phase' = phase /\ ticket' = ticket
    BY <1>3 DEF Probe
  <2>2. PICK t \in First(todo[w]) :
            IF Locked(t) THEN UNCHANGED <<files, inherited>> ELSE Unlink(t)
    BY <1>3 DEF Probe
  <2>3. CASE Locked(t)
    BY <1>t, <2>1, <2>2, <2>3, Stays
  <2>4. CASE ~Locked(t)
    <3>1. t \notin inherited /\ \A v \in Writers : ~(Enrolled(v) /\ t = ticket[v])
      BY <1>0, <2>4 DEF Locked, TypeOK, OwnedInv
    <3>2. files' = files \ {t} /\ inherited' = inherited
      BY <2>2, <2>4, <3>1 DEF Unlink
    <3> QED
      BY <1>t, <2>1, <3>1, <3>2, Stays
  <2> QED
    BY <2>3, <2>4
<1>4. ASSUME NEW w \in Writers, Create(w) PROVE LineStep
  <2>1. PICK n \in NextNumbers(live[w]) :
            /\ ticket' = [ticket EXCEPT ![w] = [num |-> n, by |-> w]]
            /\ files' = files \union {[num |-> n, by |-> w]}
    BY <1>4 DEF Create
  <2> DEFINE new == [num |-> n, by |-> w]
  <2>2. new.by = w /\ ticket'[w] = new /\ files' = files \union {new}
    BY <1>0, <2>1 DEF TypeOK
  <2>3. phase[w] = "scanning" /\ phase'[w] = "creating" /\ ticket[w] = NoTicket
        /\ inherited' = inherited
    BY <1>0, <1>4 DEF Create, ScanDone, Go, TypeOK
  <2>4. \A v \in Writers \ {w} : phase'[v] = phase[v] /\ ticket'[v] = ticket[v]
    BY <1>0, <1>4, <2>1 DEF Create, Go, TypeOK
  <2>5. new \notin inherited
    BY <2>2, <2>3 DEF IInv, ScannedInv
  <2> HIDE DEF new
  <2> QED
    BY <1>t, <2>2, <2>3, <2>4, <2>5, Stays
<1>5. ASSUME NEW w \in Writers, LockTicket(w) PROVE LineStep
  <2> DEFINE p == ticket[w]
  <2>1. phase[w] = "creating" /\ phase'[w] \in {"first", "queued"}
    BY <1>0, <1>5 DEF LockTicket, Go, TypeOK
  <2>2. files' = files /\ ticket' = ticket /\ inherited' = inherited
    BY <1>5 DEF LockTicket
  <2>3. p \in files /\ p.by = w /\ p \in Tickets /\ p \notin inherited
        /\ files = live[w] \union {p} /\ \A t \in live[w] : t.num < p.num
    BY <1>0, <1>t, <2>1 DEF OwnedInv, ScannedInv
  <2>4. \A v \in Writers \ {w} : phase'[v] = phase[v]
    BY <1>0, <1>5 DEF LockTicket, Go, TypeOK
  <2>s. \A t \in files : InService(t)' <=> InService(t)
    BY <1>t, <2>1, <2>2, <2>4
  <2>5. Serving' = Serving
    BY <2>2, <2>s, Forms, FormsNext DEF LineForms
  <2>6. LiveTickets' = LiveTickets \union {p} /\ p \notin LiveTickets
    <3>1. \A t \in files : t # p => (Alive(t)' <=> Alive(t))
      BY <1>t, <2>1, <2>2, <2>4
    <3>2. Alive(p)' /\ ~Alive(p)
      BY <2>1, <2>2, <2>3
    <3> QED
      BY <2>2, <2>3, <3>1, <3>2, Forms, FormsNext DEF LineForms
  <2>7. \A u \in LiveTickets : u.num < p.num
    BY <2>3, <2>6 DEF LiveTickets
  <2>8. Line!Join(p)
    BY <2>5, <2>6, <2>7 DEF Line!Join
  <2> QED
    BY <2>3, <2>8 DEF LineStep, Line!Next
<1>6. ASSUME NEW w \in Writers, Poll(w) PROVE LineStep
  <2>1. files' = files /\ inherited' = inherited /\ ticket' = ticket
    BY <1>6 DEF Poll
  <2>2. phase[w] = "scanning" /\ phase'[w] \in {"first", "queued"}
        /\ ticket[w] # NoTicket
    BY <1>0, <1>6 DEF Poll, ScanDone, Go, TypeOK
  <2>3. \A v \in Writers \ {w} : phase'[v] = phase[v]
    BY <1>0, <1>6 DEF Poll, Go, TypeOK
  <2> QED
    BY <1>t, <2>1, <2>2, <2>3, Stays
<1>7. ASSUME NEW w \in Writers, Begin(w) PROVE LineStep
  <2> DEFINE p == ticket[w]
  <2>1. files' = files /\ inherited' = inherited /\ ticket' = ticket
    BY <1>7 DEF Begin
  <2>2. phase[w] = "first" /\ phase'[w] = "writing"
    BY <1>0, <1>7 DEF Begin, Go, TypeOK
  <2>3. \A v \in Writers \ {w} : phase'[v] = phase[v]
    BY <1>0, <1>7 DEF Begin, Go, TypeOK
  <2>4. p \in files /\ p.by = w /\ p \in Tickets
    BY <1>0, <1>t, <2>2 DEF OwnedInv
  <2>a. \A t \in files : Alive(t)' <=> Alive(t)
    BY <1>t, <2>1, <2>2, <2>3
  <2>5. LiveTickets' = LiveTickets
    BY <2>1, <2>a, Forms, FormsNext DEF LineForms
  <2>6. Serving' = Serving \union {p}
    <3>1. \A t \in files : t # p => (InService(t)' <=> InService(t))
      BY <1>t, <2>1, <2>2, <2>3
    <3>2. InService(p)'
      BY <2>1, <2>2, <2>4
    <3> QED
      BY <2>1, <2>4, <3>1, <3>2, Forms, FormsNext DEF LineForms
  <2>7. p \in LiveTickets
    BY <2>2, <2>4, Forms DEF LineForms
  <2>8. \A u \in LiveTickets : p.num <= u.num
    BY <2>2 DEF IInv, FirstIsLeast, LiveTickets
  <2>9. Line!Serve(p)
    BY <2>5, <2>6, <2>7, <2>8 DEF Line!Serve, Line!Front
  <2> QED
    BY <2>4, <2>9 DEF LineStep, Line!Next
<1>8. ASSUME NEW w \in Writers, EndTransaction(w) PROVE LineStep
  BY <1>0, <1>8, Departs DEF EndTransaction, Leave, Go, TypeOK
<1>9. ASSUME NEW w \in Writers, Expire(w) PROVE LineStep
  BY <1>0, <1>9, Departs DEF Expire, Leave, Go, TypeOK
<1>10. ASSUME NEW w \in Writers, Refuse(w) PROVE LineStep
  BY <1>0, <1>10, Departs DEF Refuse, Leave, Go, TypeOK
<1>11. ASSUME NEW w \in Writers, TakeCleanupGuard(w) PROVE LineStep
  BY <1>0, <1>11, Departs DEF TakeCleanupGuard, Go, TypeOK
<1>12. ASSUME NEW w \in Writers, RemoveTicket(w) PROVE LineStep
  <2> DEFINE p == ticket[w]
  <2>1. phase[w] = "cleaning" /\ phase'[w] = "idle" /\ ticket'[w] = NoTicket
        /\ files' = files \ {p} /\ inherited' = inherited \ {p}
    BY <1>0, <1>12 DEF RemoveTicket, Unlink, Go, TypeOK
  <2>2. \A v \in Writers \ {w} : phase'[v] = phase[v] /\ ticket'[v] = ticket[v]
    BY <1>0, <1>12 DEF RemoveTicket, Go, TypeOK
  <2>3. p # NoTicket /\ p.by = w
    BY <1>0, <2>1 DEF OwnedInv
  <2>4. \A t \in files : t # p =>
          (Alive(t)' <=> Alive(t)) /\ (InService(t)' <=> InService(t))
    BY <1>t, <2>1, <2>2
  <2>5. ~InService(p) /\ (Alive(p) => p \in inherited)
    BY <2>1, <2>3
  <2>6. CASE p \in inherited
    <3>1. p \in files /\ p \in Tickets
      BY <1>0, <2>3, <2>6 DEF TypeOK
    <3>2. p \in LiveTickets \ Serving
      BY <2>5, <2>6, <3>1, Forms DEF LineForms
    <3>3. LiveTickets' = LiveTickets \ {p} /\ Serving' = Serving
      <4> HIDE DEF p, Alive, InService
      <4> QED
        BY <2>1, <2>4, <2>5, Forms, FormsNext DEF LineForms
    <3>4. Line!Leave(p)
      BY <3>2, <3>3 DEF Line!Leave
    <3> QED
      BY <3>1, <3>4 DEF LineStep, Line!Next
  <2>7. CASE p \notin inherited
    BY <2>1, <2>4, <2>5, <2>7, Stays
  <2> QED
    BY <2>6, <2>7
<1>13. ASSUME NEW w \in Writers, DeferRemoval(w) PROVE LineStep
  BY <1>0, <1>13, Departs DEF DeferRemoval, Go, TypeOK
<1>14. ASSUME NEW w \in Writers, Die(w) PROVE LineStep
  BY <1>0, <1>14, Departs DEF Die, Go, TypeOK
<1>15. ASSUME NEW w \in Writers, Fork(w) PROVE LineStep
  <2>1. files' = files /\ phase' = phase /\ ticket' = ticket
        /\ inherited' = inherited \union locks[w]
    BY <1>15 DEF Fork
  <2>2. \A t \in files : t \in locks[w] => Enrolled(w) /\ t = ticket[w] /\ t.by = w
    BY <1>0, <1>t DEF OwnedInv
  <2> QED
    BY <1>t, <2>1, <2>2, Stays
<1>16. ASSUME NEW f \in inherited, ChildCloses(f) PROVE LineStep
  <2>1. files' = files /\ phase' = phase /\ ticket' = ticket
        /\ inherited' = inherited \ {f}
    BY <1>16 DEF ChildCloses
  <2>2. \A t \in files : t # f => (Alive(t)' <=> Alive(t))
    BY <1>t, <2>1
  <2>3. Serving' = Serving
    BY <2>1, Forms, FormsNext DEF LineForms
  <2>4. CASE f \in files /\ ~Alive(f)'
    <3>1. f \in LiveTickets /\ LiveTickets' = LiveTickets \ {f} /\ f \notin Serving
      BY <2>1, <2>2, <2>4, Forms, FormsNext DEF LineForms
    <3>2. Line!Leave(f)
      BY <2>3, <3>1 DEF Line!Leave
    <3> QED
      BY <1>t, <2>4, <3>2 DEF LineStep, Line!Next
  <2>5. CASE f \notin files \/ Alive(f)'
    <3>0. \A t \in files : Alive(t)' <=> Alive(t)
      BY <2>1, <2>2, <2>5
    <3>1. LiveTickets' = LiveTickets
      BY <2>1, <3>0, Forms, FormsNext DEF LineForms
    <3> QED
      BY <2>3, <3>1 DEF LineStep
  <2> QED
    BY <2>4, <2>5
<1>17. CASE UNCHANGED vars
  BY <1>17 DEF vars, LineStep, LiveTickets, Serving, Locked
<1> QED
  BY <1>1, <1>2, <1>3, <1>4, <1>5, <1>6, <1>7, <1>8, <1>9, <1>10, <1>11, <1>12,
     <1>13, <1>14, <1>15, <1>16, <1>17 DEF Next, Step

\* What other processes can see of the queue is a first come, first served
\* line (class _WriteQueue), for any number of writers.
THEOREM QueueIsALine == Spec => ImplementsLine
<1>1. Init => Line!Init
  BY DEF Init, Line!Init, LiveTickets, Serving
<1>2. IInv /\ IInv' /\ [Next]_vars => [Line!Next]_<<LiveTickets, Serving>>
  BY LineSteps DEF LineStep
<1> QED
  BY Invariance, <1>1, <1>2, PTL DEF Spec, ImplementsLine, Line!Spec
=============================================================================
