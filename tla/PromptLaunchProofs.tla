------------------------- MODULE PromptLaunchProofs -------------------------
(***************************************************************************)
(* Proofs about PromptLaunch, for every set of operations and launchers.   *)
(*                                                                         *)
(* Everything rests on the cleanup marker.  It is created exclusively and  *)
(* never removed, so one launcher at most holds an operation, and once the *)
(* reservation was synced no power loss makes room for a second holder.    *)
(* That no launch is made beside one that was sealed before it rests on    *)
(* the sealed requests, and has an invariant of its own (BesideInv).       *)
(***************************************************************************)
EXTENDS PromptLaunch, TLAPS

-----------------------------------------------------------------------------
(***************************************************************************)
(* The invariant.                                                          *)
(***************************************************************************)
\* Places a launcher reaches only with the whole preparation on disk.
Reserved == Launching \union Publishing
            \union {"clearing proven", "marking proven", "no start proven"}

Looking == {"first look", "first read", "second look", "second read", "no start"}

\* What a launcher is, with its operation and its item where it needs them.
Record == [pc : Places, op : Operations \union {NoOperation},
           todo : SUBSET Directories, found : SUBSET Directories,
           item : Operations \union {NoOperation}, before : SUBSET Operations,
           rivals : SUBSET Launchers, made : 0..5, undone : 0..5,
           result : Verdicts \union {"none"}]

RecordOK(r) ==
    /\ r \in Record
    /\ r.pc \notin {"idle", "staged", "ended"} => r.op \in Operations
    /\ r.pc \in Looking => r.item \in Operations
    /\ r.pc \in {"intents"} \union Looking => r.todo \subseteq Operations

StorageTypeOK ==
    /\ files \in [Directories -> [Names -> Versions]]
    /\ disk \in [Directories -> [Names -> SUBSET Versions]]

RestTypeOK ==
    /\ power \in {"on", "off", "back"}
    /\ starts \in [Operations -> Nat]
    /\ exit \in [Operations -> Verdicts \union {"none"}]
    /\ told \in [Operations -> SUBSET Verdicts]
    /\ answered \in [Operations -> Verdicts \union {"none"}]

Shown == \A d \in Directories, n \in Names : files[d][n] \in disk[d][n]

OneHolder ==
    \A p, q \in Launchers :
        launcher[p].made > 0 /\ launcher[q].made > 0 /\ Op(p) = Op(q) => p = q

\* The traces of the preparation that every power loss leaves.
Durable(o) == "none" \notin disk[o].marker /\ disk[o].intent = {"full"}

\* No verdict yet, anywhere.
Fresh(o) == disk[o].terminal = {"none"} /\ told[o] = {} /\ answered[o] = "none"

Seen(o) == told[o] \union disk[o].terminal

OperationInv(o) ==
    /\ starts[o] <= 1
    /\ starts[o] > 0 => Durable(o)
    /\ starts[o] = 0 => Fresh(o) /\ exit[o] = "none"
    /\ disk[o].terminal \subseteq {"none", "PASS", "FAIL"}
    /\ "PASS" \in Seen(o) => exit[o] = "PASS" /\ "FAIL" \notin Seen(o)
    /\ answered[o] # "none" => disk[o].terminal = {answered[o]}
    /\ "full" \in disk[o].nostart => starts[o] = 0 /\ "none" \notin disk[o].marker

\* What holds of the operation while a launcher has its cleanup marker made.
HolderInv(r) ==
    /\ r.pc \in {"preparing", "reserving", "unwinding", "clearing", "marking"} \union Reserved
    /\ ~Free(r.op, "marker")
    /\ "full" \notin disk[r.op].nostart
    /\ r.pc \in {"preparing", "reserving"} /\ r.made >= 4 => Has(r.op, "intent", "full")
    /\ r.pc \notin {"running"} \union Publishing => starts[r.op] = 0

VerdictInv(r) ==
    /\ r.pc = "running" => exit[r.op] = "none"
    /\ r.pc \in {"running", "exited", "pending", "pending synced"} =>
          Fresh(r.op) /\ starts[r.op] > 0
    /\ r.pc \in Publishing \ {"doubt", "doubt recorded"} =>
          /\ r.result \in Verdicts
          /\ r.result = "PASS" => exit[r.op] = "PASS"
    /\ r.pc = "linked" => Has(r.op, "terminal", r.result)
    /\ r.pc \in {"linked synced", "published"} => disk[r.op].terminal = {r.result}

\* Where the walk over the intents has an operation that had started before it.
BeforeAt(place, todo, item, o) ==
    /\ starts[o] > 0
    /\ place \in {"intents"} \union Looking =>
          \/ o \in todo
          \/ o = item /\ place # "intents"
          \/ exit[o] = "PASS"
    /\ place \in {"markers"} \union PastReconciliation => exit[o] = "PASS"

BeforeInv(r, o) == BeforeAt(r.pc, r.todo, r.item, o)

RecordInv(r) ==
    /\ RecordOK(r)
    /\ r.pc \in Reserved \union {"reserving"} => r.made = 5
    /\ r.pc = "preparing" => r.made < 5
    /\ r.pc \in Reserved => Durable(r.op)
    /\ r.made > 0 => HolderInv(r)
    /\ VerdictInv(r)
    /\ \A o \in r.before : BeforeInv(r, o)

IInv ==
    /\ StorageTypeOK
    /\ RestTypeOK
    /\ launcher \in [Launchers -> Record]
    /\ Shown
    /\ OneHolder
    /\ \A o \in Operations : OperationInv(o)
    /\ \A p \in Launchers : RecordInv(launcher[p])

-----------------------------------------------------------------------------
(***************************************************************************)
(* What the building blocks of the actions do.                             *)
(***************************************************************************)
LEMMA PreparationFacts ==
    /\ Len(Preparation) = 5 /\ DOMAIN Preparation = 1..5
    /\ Preparation[1] = "marker" /\ Preparation[2] = "start"
    /\ Preparation[3] = "input" /\ Preparation[4] = "intent"
    /\ Preparation[5] = "reservation"
    /\ Undoable = {2, 3, 4}
<1>1. /\ Len(Preparation) = 5 /\ DOMAIN Preparation = 1..5
      /\ Preparation[1] = "marker" /\ Preparation[2] = "start"
      /\ Preparation[3] = "input" /\ Preparation[4] = "intent"
      /\ Preparation[5] = "reservation"
  BY DEF Preparation
<1>2. Undoable = {2, 3, 4}
  BY <1>1 DEF Undoable
<1> QED
  BY <1>1, <1>2

LEMMA NameFacts ==
    Names = {"marker", "start", "input", "intent", "reservation", "request",
             "dispatch", "pending", "terminal", "nostart", "held"}
BY PreparationFacts DEF Names

\* The entries of an operation that the invariant speaks of.
Telling == {"marker", "intent", "terminal", "nostart"}

\* Only the entry (d, n) changes, to v.
Sets(d, n, v) ==
    \A e \in Directories, m \in Names :
        /\ files'[e][m] = IF e = d /\ m = n THEN v ELSE files[e][m]
        /\ disk'[e][m] = IF e = d /\ m = n THEN disk[e][m] \union {v} ELSE disk[e][m]

LEMMA PutReads ==
    ASSUME StorageTypeOK, Shown,
           NEW d \in Directories, NEW n \in Names, NEW v \in Versions, Put(d, n, v)
    PROVE  StorageTypeOK' /\ Sets(d, n, v) /\ Shown'
<1>1. StorageTypeOK' /\ Sets(d, n, v)
  BY DEF StorageTypeOK, Put, Sets
<1>2. ASSUME NEW e \in Directories, NEW m \in Names
      PROVE  files'[e][m] \in disk'[e][m]
  <2>1. files[e][m] \in disk[e][m]
    BY DEF Shown
  <2> QED
    BY <1>1, <2>1 DEF Sets
<1> QED
  BY <1>1, <1>2 DEF Shown

LEMMA SyncReads ==
    ASSUME StorageTypeOK, Shown, NEW o \in Operations, Sync(o)
    PROVE  /\ StorageTypeOK' /\ Shown'
           /\ files' = files
           /\ \A e \in Directories, m \in Names :
                 disk'[e][m] = IF e = o /\ m # "request" THEN {files[e][m]} ELSE disk[e][m]
<1> DEFINE entry == [n \in Names |-> IF n = "request" THEN disk[o][n] ELSE {files[o][n]}]
<1>1. o \in Directories
  BY DEF Directories
<1>2. entry \in [Names -> SUBSET Versions]
  BY <1>1 DEF StorageTypeOK
<1>3. disk' = [disk EXCEPT ![o] = entry] /\ files' = files
  BY DEF Sync
<1> HIDE DEF entry
<1>4. StorageTypeOK'
  BY <1>1, <1>2, <1>3 DEF StorageTypeOK
<1>5. ASSUME NEW e \in Directories, NEW m \in Names
      PROVE  disk'[e][m] = IF e = o /\ m # "request" THEN {files[e][m]} ELSE disk[e][m]
  <2>1. disk'[e] = IF e = o THEN entry ELSE disk[e]
    BY <1>1, <1>3 DEF StorageTypeOK
  <2>2. entry[m] = IF m = "request" THEN disk[o][m] ELSE {files[o][m]}
    BY DEF entry
  <2> QED
    BY <2>1, <2>2
<1>6. ASSUME NEW e \in Directories, NEW m \in Names
      PROVE  files'[e][m] \in disk'[e][m]
  <2>1. files[e][m] \in disk[e][m]
    BY DEF Shown
  <2>2. files' = files
    BY <1>3
  <2>3. disk'[e][m] = {files[e][m]} \/ disk'[e][m] = disk[e][m]
    BY <1>5
  <2> QED
    BY <2>1, <2>2, <2>3
<1> QED
  BY <1>3, <1>4, <1>5, <1>6 DEF Shown

\* Launcher p becomes r, and no other moves.
Moves(p, r) == launcher' = [launcher EXCEPT ![p] = r]

LEMMA GotoMoves ==
    ASSUME launcher \in [Launchers -> Record], NEW p \in Launchers, NEW place, Goto(p, place)
    PROVE  Moves(p, [launcher[p] EXCEPT !.pc = place])
BY DEF Goto, Moves

LEMMA EndMoves ==
    ASSUME NEW p \in Launchers, End(p)
    PROVE  Moves(p, Ended) /\ RecordInv(Ended)
<1>1. Moves(p, Ended)
  BY DEF End, Moves
<1>2. "ended" \in Places
  BY DEF Places, Leaving
<1>3. /\ Ended.pc = "ended" /\ Ended.made = 0 /\ Ended.before = {}
      /\ Ended \in Record
  BY <1>2 DEF Ended, Idle, Record
<1> QED
  BY <1>1, <1>3 DEF RecordInv, RecordOK, VerdictInv, Looking, Reserved, Launching, Publishing

-----------------------------------------------------------------------------
(***************************************************************************)
(* What a step leaves alone.  An entry that is synced loses versions, and  *)
(* every part of the invariant survives that.                              *)
(***************************************************************************)
Still(o, n) ==
    /\ files'[o][n] = files[o][n]
    /\ disk'[o][n] = disk[o][n] \/ disk'[o][n] = {files[o][n]}

\* A marker that is written anew, or an intent that is made, does no harm.
CalmStorage(o) ==
    /\ \A n \in {"terminal", "nostart"} : Still(o, n)
    /\ \/ Still(o, "marker")
       \/ \E v \in Versions \ {"none"} :
             files'[o].marker = v /\ disk'[o].marker = disk[o].marker \union {v}
    /\ \/ Still(o, "intent")
       \/ files'[o].intent = "full" /\ disk'[o].intent = disk[o].intent \union {"full"}

\* Nobody is told more than what a look at the terminal says.
CalmTold(o) ==
    \/ told'[o] = told[o]
    \/ files[o].terminal \in Verdicts /\ told'[o] = told[o] \union {files[o].terminal}

Calm(o) ==
    /\ CalmStorage(o)
    /\ CalmTold(o)
    /\ starts'[o] = starts[o] /\ exit'[o] = exit[o] /\ answered'[o] = answered[o]

LEMMA CalmReads ==
    ASSUME Shown, NEW o \in Operations, Calm(o)
    PROVE  /\ disk'[o].terminal \subseteq disk[o].terminal /\ disk'[o].terminal # {}
           /\ disk'[o].nostart \subseteq disk[o].nostart
           /\ "none" \notin disk[o].marker => "none" \notin disk'[o].marker
           /\ ~Free(o, "marker") => ~Free(o, "marker")'
           /\ Has(o, "intent", "full") => Has(o, "intent", "full")'
           /\ files'[o].terminal = files[o].terminal
           /\ Durable(o) => Durable(o)'
           /\ Fresh(o) => Fresh(o)'
           /\ Seen(o)' \subseteq Seen(o)
           /\ starts'[o] = starts[o] /\ exit'[o] = exit[o]
<1>1. \A n \in Telling : files[o][n] \in disk[o][n]
  BY NameFacts DEF Shown, Telling, Directories
<1>2. \A n \in {"terminal", "nostart"} :
         /\ disk'[o][n] \subseteq disk[o][n] /\ disk'[o][n] # {}
         /\ files'[o][n] = files[o][n]
  BY <1>1 DEF Calm, CalmStorage, Still, Telling
<1>3. /\ disk'[o].terminal \subseteq disk[o].terminal /\ disk'[o].terminal # {}
      /\ disk'[o].nostart \subseteq disk[o].nostart
      /\ files'[o].terminal = files[o].terminal
  BY <1>2
<1>4. /\ "none" \notin disk[o].marker => "none" \notin disk'[o].marker
      /\ ~Free(o, "marker") => ~Free(o, "marker")'
  <2>1. files[o].marker \in disk[o].marker
    BY <1>1 DEF Telling
  <2>2. CASE Still(o, "marker")
    BY <2>1, <2>2 DEF Still, Free, Has
  <2>3. CASE \E v \in Versions \ {"none"} :
             files'[o].marker = v /\ disk'[o].marker = disk[o].marker \union {v}
    BY <2>3 DEF Free, Has
  <2> QED
    BY <2>2, <2>3 DEF Calm, CalmStorage
<1>5. /\ disk[o].intent = {"full"} => disk'[o].intent = {"full"}
      /\ Has(o, "intent", "full") => Has(o, "intent", "full")'
  <2>1. files[o].intent \in disk[o].intent
    BY <1>1 DEF Telling
  <2>2. CASE Still(o, "intent")
    BY <2>1, <2>2 DEF Still, Free, Has
  <2>3. CASE files'[o].intent = "full" /\ disk'[o].intent = disk[o].intent \union {"full"}
    BY <2>3 DEF Free, Has
  <2> QED
    BY <2>2, <2>3 DEF Calm, CalmStorage
<1>6. Durable(o) => Durable(o)'
  BY <1>4, <1>5 DEF Durable
<1>7. files[o].terminal \in disk[o].terminal
  BY <1>1 DEF Telling
<1>8. ASSUME Fresh(o) PROVE Fresh(o)'
  <2>1. files[o].terminal = "none"
    BY <1>7, <1>8 DEF Fresh
  <2>2. told'[o] = told[o]
    BY <2>1 DEF Calm, CalmTold, Verdicts
  <2> QED
    BY <1>3, <1>8, <2>2 DEF Fresh, Calm
<1>9. Seen(o)' \subseteq Seen(o)
  <2>1. told'[o] \subseteq told[o] \union {files[o].terminal}
    BY DEF Calm, CalmTold
  <2> QED
    BY <1>3, <1>7, <2>1 DEF Seen
<1> QED
  BY <1>3, <1>6, <1>8, <1>9, <1>4, <1>5 DEF Calm

LEMMA CalmOperation ==
    ASSUME Shown, NEW o \in Operations, OperationInv(o), Calm(o)
    PROVE  OperationInv(o)'
<1>1. Seen(o)' \subseteq Seen(o)
  BY CalmReads
<1>2. answered[o] # "none" => disk'[o].terminal = {answered[o]}
  BY CalmReads DEF OperationInv
<1> QED
  BY <1>1, <1>2, CalmReads DEF OperationInv, Calm

\* A launcher's part of the invariant survives every step that is calm for the
\* operation it holds, and takes no start and no PASS back.
LEMMA CalmRecord ==
    ASSUME Shown, NEW r, RecordInv(r),
           r.made > 0 => Calm(r.op),
           \A o \in Operations : starts[o] > 0 => starts'[o] > 0,
           \A o \in Operations : exit[o] = "PASS" => exit'[o] = "PASS"
    PROVE  RecordInv(r)'
<1>1. \A o \in r.before : BeforeInv(r, o)'
  <2>1. \A o \in r.before : o \in Operations /\ BeforeInv(r, o)
    BY DEF RecordInv, RecordOK, Record
  <2> QED
    BY <2>1 DEF BeforeInv, BeforeAt
<1>2. RecordOK(r)'
  BY DEF RecordInv, RecordOK
<1>3. r.made \in 0..5
  BY DEF RecordInv, RecordOK, Record
<1>4. CASE ~(r.made > 0)
  <2>1. r.pc \notin Reserved \union {"reserving"}
    BY <1>3, <1>4 DEF RecordInv
  <2>2. r.pc \notin {"running"} \union Publishing
    BY <2>1 DEF Reserved, Launching
  <2>3. VerdictInv(r)'
    BY <2>2 DEF VerdictInv, Publishing
  <2> QED
    BY <1>1, <1>2, <1>4, <2>1, <2>3 DEF RecordInv
<1>5. CASE r.made > 0
  <2>1. HolderInv(r) /\ VerdictInv(r)
    BY <1>5 DEF RecordInv
  <2>2. r.pc \notin {"idle", "staged", "ended"}
    BY <2>1 DEF HolderInv, Reserved, Launching, Publishing
  <2>3. r.op \in Operations
    BY <2>2 DEF RecordInv, RecordOK
  <2>4. Calm(r.op)
    BY <1>5
  <2>5. HolderInv(r)'
    BY <2>1, <2>3, <2>4, CalmReads DEF HolderInv, Free, Has
  <2>6. VerdictInv(r)'
    <3>1. disk[r.op].terminal = {r.result} => disk'[r.op].terminal = {r.result}
      BY <2>3, <2>4, CalmReads
    <3>2. Fresh(r.op) => Fresh(r.op)'
      BY <2>3, <2>4, CalmReads
    <3>3. /\ exit'[r.op] = exit[r.op] /\ starts'[r.op] = starts[r.op]
          /\ files'[r.op].terminal = files[r.op].terminal
      BY <2>3, <2>4, CalmReads
    <3> QED
      BY <2>1, <3>1, <3>2, <3>3 DEF VerdictInv, Has
  <2> QED
    BY <1>1, <1>2, <1>5, <2>3, <2>4, <2>5, <2>6, CalmReads DEF RecordInv
<1> QED
  BY <1>4, <1>5

-----------------------------------------------------------------------------
(***************************************************************************)
(* Steps that tell the invariant nothing about any operation.              *)
(***************************************************************************)
CalmFiles == StorageTypeOK' /\ Shown' /\ \A o \in Operations : CalmStorage(o)

LEMMA StillCalm ==
    ASSUME NEW o, \A n \in Telling : Still(o, n)
    PROVE  CalmStorage(o)
BY DEF Telling, CalmStorage

LEMMA CalmUnchanged ==
    ASSUME StorageTypeOK, Shown, UNCHANGED storage
    PROVE  CalmFiles
<1>1. \A o \in Operations, n \in Telling : Still(o, n)
  BY DEF storage, Still
<1> QED
  BY <1>1, StillCalm DEF StorageTypeOK, Shown, storage, CalmFiles

\* What is written where the invariant does not look, a marker that is not taken
\* away, and an intent that is made, is calm.
Harmless(d, n, v) ==
    \/ d \in Launchers \/ n \notin Telling
    \/ n = "marker" /\ v # "none"
    \/ n = "intent" /\ v = "full"

LEMMA CalmPut ==
    ASSUME StorageTypeOK, Shown, NamesAssumption,
           NEW d \in Directories, NEW n \in Names, NEW v \in Versions, Put(d, n, v),
           Harmless(d, n, v)
    PROVE  CalmFiles
<1>1. StorageTypeOK' /\ Sets(d, n, v) /\ Shown'
  BY PutReads
<1>2. ASSUME NEW o \in Operations
      PROVE  CalmStorage(o)
  <2>1. ASSUME NEW m \in Telling, ~(o = d /\ m = n)
        PROVE  Still(o, m)
    <3>1. o \in Directories /\ m \in Names
      BY NameFacts DEF Directories, Telling
    <3> QED
      BY <1>1, <2>1, <3>1 DEF Sets, Still
  <2>2. CASE o # d \/ n \notin Telling
    BY <2>1, <2>2, StillCalm
  <2>3. CASE o = d /\ n = "marker" /\ v # "none"
    <3>1. files'[o].marker = v /\ disk'[o].marker = disk[o].marker \union {v}
      BY <1>1, <2>3 DEF Sets
    <3> QED
      BY <2>1, <2>3, <3>1 DEF CalmStorage, Telling
  <2>4. CASE o = d /\ n = "intent" /\ v = "full"
    <3>1. files'[o].intent = v /\ disk'[o].intent = disk[o].intent \union {v}
      BY <1>1, <2>4 DEF Sets
    <3> QED
      BY <2>1, <2>4, <3>1 DEF CalmStorage, Telling
  <2> QED
    BY <2>2, <2>3, <2>4 DEF Harmless, NamesAssumption
<1> QED
  BY <1>1, <1>2 DEF CalmFiles

LEMMA CalmSync ==
    ASSUME StorageTypeOK, Shown, NEW o \in Operations, Sync(o)
    PROVE  CalmFiles
<1>1. /\ StorageTypeOK' /\ Shown' /\ files' = files
      /\ \A e \in Directories, m \in Names :
            disk'[e][m] = IF e = o /\ m # "request" THEN {files[e][m]} ELSE disk[e][m]
  BY SyncReads
<1>2. ASSUME NEW e \in Operations, NEW m \in Telling
      PROVE  Still(e, m)
  <2>1. e \in Directories /\ m \in Names
    BY NameFacts DEF Directories, Telling
  <2>2. disk'[e][m] = {files[e][m]} \/ disk'[e][m] = disk[e][m]
    BY <1>1, <2>1
  <2>3. files' = files
    BY <1>1
  <2> QED
    BY <2>2, <2>3 DEF Still
<1> QED
  BY <1>1, <1>2, StillCalm DEF CalmFiles

LEMMA RecordThen ==
    ASSUME NEW q \in Launchers, NEW r, launcher'[q] = r, RecordInv(r)'
    PROVE  RecordInv(launcher[q])'
<1>1. RecordOK(launcher[q])'
  BY DEF RecordInv, RecordOK
<1>2. Durable(r.op)' => Durable(launcher[q].op)'
  BY DEF Durable
<1>3. HolderInv(r)' => HolderInv(launcher[q])'
  BY DEF HolderInv, Free, Has
<1>4. Fresh(r.op)' => Fresh(launcher[q].op)'
  BY DEF Fresh
<1>5. VerdictInv(r)' => VerdictInv(launcher[q])'
  BY <1>4 DEF VerdictInv, Has, Fresh
<1>6. ASSUME NEW o, BeforeInv(r, o)'
      PROVE  BeforeInv(launcher[q], o)'
  BY <1>6 DEF BeforeInv, BeforeAt
<1> QED
  BY <1>1, <1>2, <1>3, <1>5, <1>6 DEF RecordInv

\* The launchers' part, whatever the step does to the operation that p holds.
LEMMA OthersKeep ==
    ASSUME IInv, NEW p \in Launchers, NEW r, Moves(p, r), RecordInv(r)',
           \A q \in Launchers : q # p /\ launcher[q].made > 0 =>
              Calm(Op(q)) /\ (r.made > 0 => r.op # Op(q)),
           \A o \in Operations : starts[o] > 0 => starts'[o] > 0,
           \A o \in Operations : exit[o] = "PASS" => exit'[o] = "PASS"
    PROVE  /\ launcher' \in [Launchers -> Record]
           /\ OneHolder'
           /\ \A q \in Launchers : RecordInv(launcher[q])'
<1>1. r \in Record
  BY DEF RecordInv, RecordOK
<1>2. /\ launcher' \in [Launchers -> Record]
      /\ launcher'[p] = r
      /\ \A q \in Launchers : q # p => launcher'[q] = launcher[q]
  BY <1>1 DEF IInv, Moves
<1>3. OneHolder'
  BY <1>2 DEF IInv, OneHolder, Op
<1>4. ASSUME NEW q \in Launchers
      PROVE  RecordInv(launcher[q])'
  <2>1. CASE q = p
    <3>1. launcher'[q] = r
      BY <1>2, <2>1
    <3> QED
      BY <3>1, RecordThen
  <2>2. CASE q # p
    <3>1. PICK s : s = launcher[q] /\ s = launcher'[q]
      BY <1>2, <2>2
    <3>2. s.made > 0 => Calm(s.op)
      BY <2>2, <3>1 DEF Op
    <3>3. Shown /\ RecordInv(s)
      BY <3>1 DEF IInv
    <3>4. RecordInv(s)'
      BY <3>2, <3>3, CalmRecord
    <3> QED
      BY <3>1, <3>4, RecordThen
  <2> QED
    BY <2>1, <2>2
<1> QED
  BY <1>2, <1>3, <1>4

Quiet ==
    /\ RestTypeOK'
    /\ UNCHANGED child
    /\ \A o \in Operations : CalmTold(o) /\ answered'[o] = answered[o]

LEMMA QuietUnchanged ==
    ASSUME IInv, UNCHANGED <<power, child, verdicts>>
    PROVE  Quiet
BY DEF IInv, RestTypeOK, Quiet, CalmTold, child, verdicts

LEMMA CalmThen ==
    ASSUME IInv, NEW p \in Launchers, NEW r, Moves(p, r), RecordInv(r)',
           \A q \in Launchers : q # p /\ launcher[q].made > 0 /\ r.made > 0 => r.op # Op(q),
           CalmFiles, Quiet
    PROVE  IInv'
<1>1. \A o \in Operations : Calm(o)
  BY DEF CalmFiles, Calm, Quiet, child
<1>2. ASSUME NEW q \in Launchers, launcher[q].made > 0
      PROVE  Calm(Op(q))
  <2>1. RecordInv(launcher[q])
    BY DEF IInv
  <2>2. RecordOK(launcher[q]) /\ HolderInv(launcher[q])
    BY <1>2, <2>1 DEF RecordInv
  <2>3. launcher[q].pc \notin {"idle", "staged", "ended"}
    BY <2>2 DEF HolderInv, Reserved, Launching, Publishing
  <2>4. Op(q) \in Operations
    BY <2>2, <2>3 DEF RecordOK, Op
  <2> QED
    BY <1>1, <2>4
<1>3. starts' = starts /\ exit' = exit
  BY DEF Quiet, child
<1>4. /\ launcher' \in [Launchers -> Record] /\ OneHolder'
      /\ \A q \in Launchers : RecordInv(launcher[q])'
  BY <1>2, <1>3, OthersKeep
<1>5. \A o \in Operations : OperationInv(o)'
  BY <1>1, CalmOperation DEF IInv
<1> QED
  BY <1>4, <1>5 DEF IInv, CalmFiles, Quiet

LEMMA CalmStep ==
    ASSUME IInv, NEW p \in Launchers, NEW r, Moves(p, r), RecordInv(r),
           r.made > 0 => launcher[p].made > 0 /\ r.op = Op(p),
           CalmFiles, Quiet
    PROVE  IInv'
<1>1. \A o \in Operations : Calm(o)
  BY DEF CalmFiles, Calm, Quiet, child
<1>2. r.made > 0 => Calm(r.op)
  <2>1. ASSUME r.made > 0 PROVE r.op \in Operations
    <3>1. r.pc \notin {"idle", "staged", "ended"} /\ RecordOK(r)
      BY <2>1 DEF RecordInv, HolderInv, Reserved, Launching, Publishing
    <3> QED
      BY <3>1 DEF RecordOK
  <2> QED
    BY <1>1, <2>1
<1>3. starts' = starts /\ exit' = exit /\ Shown /\ OneHolder
  BY DEF Quiet, child, IInv
<1>4. RecordInv(r)'
  BY <1>2, <1>3, CalmRecord
<1>5. \A q \in Launchers : q # p /\ launcher[q].made > 0 /\ r.made > 0 => r.op # Op(q)
  BY <1>3 DEF OneHolder
<1> QED
  BY <1>4, <1>5, CalmThen

-----------------------------------------------------------------------------
(***************************************************************************)
(* Reconciliation.                                                         *)
(***************************************************************************)

LEMMA EmptyHanded ==
    ASSUME NEW s, RecordOK(s), s.made = 0, s.pc \notin Reserved \union {"reserving"},
           \A o \in s.before : BeforeInv(s, o)
    PROVE  RecordInv(s)
<1>1. s.pc \notin {"running"} \union Publishing
  BY DEF Reserved, Launching
<1>2. VerdictInv(s)
  BY <1>1 DEF VerdictInv, Publishing
<1>3. s.pc # "preparing" \/ s.made < 5
  OBVIOUS
<1>4. ~(s.made > 0)
  OBVIOUS
<1> QED
  BY <1>2, <1>3, <1>4 DEF RecordInv

LEMMA NothingHeld ==
    ASSUME IInv, NEW p \in Launchers,
           launcher[p].pc \in {"idle", "staged", "refused", "fresh", "sealed"} \union Reconciling
    PROVE  /\ RecordOK(launcher[p]) /\ launcher[p].made = 0
           /\ \A o \in launcher[p].before : o \in Operations /\ BeforeInv(launcher[p], o)
<1>1. RecordInv(launcher[p])
  BY DEF IInv
<1>2. ~(launcher[p].made > 0)
  BY <1>1 DEF RecordInv, HolderInv, Reserved, Launching, Publishing, Reconciling
<1> QED
  BY <1>1, <1>2 DEF RecordInv, RecordOK, Record

\* What a launcher becomes that goes to a place.
LEMMA PlaceReads ==
    ASSUME NEW r \in Record, NEW place \in Places, NEW s, s = [r EXCEPT !.pc = place]
    PROVE  /\ s \in Record /\ s.pc = place
           /\ s.op = r.op /\ s.todo = r.todo /\ s.item = r.item /\ s.before = r.before
           /\ s.made = r.made /\ s.undone = r.undone /\ s.result = r.result
BY DEF Record

LEMMA EmptyStep ==
    ASSUME IInv, NEW p \in Launchers, NEW s, Moves(p, s),
           RecordOK(s), s.made = 0, s.pc \notin Reserved \union {"reserving"},
           \A o \in s.before : BeforeInv(s, o),
           CalmFiles, Quiet
    PROVE  IInv'
<1>1. RecordInv(s) /\ ~(s.made > 0)
  BY EmptyHanded
<1> QED
  BY <1>1, CalmStep

\* A launcher that holds nothing goes to a place where it is told nothing.
LEMMA EmptyGoto ==
    ASSUME IInv, NEW p \in Launchers, NEW place \in Places, Goto(p, place),
           launcher[p].pc \in {"idle", "staged", "refused", "fresh", "sealed"} \union Reconciling,
           place \notin Reserved \union {"reserving"},
           place \notin {"idle", "staged", "ended"} => Op(p) \in Operations,
           place \in Looking => Item(p) \in Operations,
           place \in {"intents"} \union Looking => launcher[p].todo \subseteq Operations,
           \A o \in launcher[p].before : BeforeAt(place, launcher[p].todo, Item(p), o),
           CalmFiles, Quiet
    PROVE  IInv'
<1>1. PICK s : s = [launcher[p] EXCEPT !.pc = place]
  OBVIOUS
<1>2. launcher \in [Launchers -> Record] /\ launcher[p] \in Record
  BY DEF IInv
<1>3. launcher[p].made = 0
  BY NothingHeld
<1>4. Moves(p, s)
  BY <1>1, <1>2, GotoMoves
<1>5. /\ s \in Record /\ s.pc = place /\ s.op = Op(p) /\ s.item = Item(p)
      /\ s.made = 0 /\ s.before = launcher[p].before /\ s.todo = launcher[p].todo
  BY <1>1, <1>2, <1>3, PlaceReads DEF Op, Item
<1>6. RecordOK(s)
  BY <1>5 DEF RecordOK
<1> QED
  BY <1>1, <1>4, <1>5, <1>6, EmptyStep DEF BeforeInv

LEMMA StageKeeps ==
    ASSUME IInv, NEW p \in Launchers, Stage(p)
    PROVE  IInv'
<1>1. launcher[p].pc = "idle" /\ "staged" \in Places /\ Goto(p, "staged")
  BY DEF Stage, At, Places
<1>2. \A o \in launcher[p].before : BeforeAt("staged", launcher[p].todo, Item(p), o)
  BY <1>1, NothingHeld
     DEF BeforeInv, BeforeAt, PastReconciliation, Preparing, Launching, Publishing, Looking
<1>3. CalmFiles
  BY NamesAssumption, CalmPut, NameFacts DEF Stage, Create, IInv, Directories, Versions, Harmless
<1> QED
  BY <1>1, <1>2, <1>3, EmptyGoto, QuietUnchanged DEF Stage, Reserved, Launching, Publishing, Looking

\* What an intent, a terminal or a record of no start says of its operation.
LEMMA Telltale ==
    ASSUME IInv, NEW o \in Operations
    PROVE  /\ OperationInv(o)
           /\ starts[o] > 0 => ~Free(o, "intent") /\ ~Free(o, "marker")
           /\ Has(o, "nostart", "full") => starts[o] = 0
           /\ Has(o, "terminal", "PASS") => exit[o] = "PASS"
<1>1. OperationInv(o)
  BY DEF IInv
<1>2. \A n \in {"intent", "marker", "nostart", "terminal"} : files[o][n] \in disk[o][n]
  BY NameFacts DEF IInv, Shown, Directories
<1> QED
  BY <1>1, <1>2 DEF OperationInv, Durable, Seen, Free, Has

LEMMA CallKeeps ==
    ASSUME IInv, NEW p \in Launchers, Call(p)
    PROVE  IInv'
<1>1. PICK o, s :
         /\ o \in Operations
         /\ launcher' = [launcher EXCEPT ![p] = s]
         /\ s = [launcher[p] EXCEPT
              !.op = o,
              !.pc = IF \E d \in Directories : ~Free(d, "held") THEN "refused" ELSE "listing",
              !.todo = Directories \ {p},
              !.before = {a \in Operations : starts[a] > 0},
              !.rivals = Rivals]
  BY DEF Call
<1>2. Moves(p, s)
  BY <1>1 DEF Moves
<1>3. launcher[p] \in Record /\ launcher[p].made = 0
  BY NothingHeld DEF Call, At, IInv
<1>4. {"refused", "listing"} \subseteq Places /\ Rivals \subseteq Launchers
  BY DEF Places, Leaving, Reconciling, Rivals
<1>5. s.pc \in {"refused", "listing"} /\ s.op \in Operations
  BY <1>1, <1>3 DEF Record
<1>6. s \in Record /\ s.before = {a \in Operations : starts[a] > 0} /\ s.made = 0
  BY <1>1, <1>3, <1>4 DEF Record
<1>7. RecordOK(s) /\ s.pc \notin Reserved \union {"reserving"}
  BY <1>5, <1>6 DEF RecordOK, Looking, Reserved, Launching, Publishing
<1>8. \A a \in s.before : BeforeInv(s, a)
  BY <1>5, <1>6 DEF BeforeInv, BeforeAt, Looking, PastReconciliation, Preparing, Launching, Publishing
<1>9. CalmFiles
  BY CalmUnchanged DEF Call, IInv
<1> QED
  BY <1>2, <1>6, <1>7, <1>8, <1>9, EmptyStep, QuietUnchanged DEF Call

\* Listing the directories changes what is still to be done, and nothing else.
LEMMA ListingKeeps ==
    ASSUME IInv, NEW p \in Launchers, ListRequest(p) \/ EndListing(p)
    PROVE  IInv'
<1>1. launcher[p].pc = "listing" /\ launcher[p] \in Record
      /\ launcher \in [Launchers -> Record]
  BY DEF ListRequest, EndListing, At, IInv
<1>2. launcher[p].pc \in Reconciling /\ "requests" \in Places
  BY <1>1 DEF Reconciling, Places
<1>3. PICK s :
         /\ Moves(p, s) /\ s \in Record /\ s.pc \in {"listing", "requests"}
         /\ s.op = Op(p) /\ s.made = launcher[p].made /\ s.before = launcher[p].before
  <2>1. CASE ListRequest(p)
    <3>1. PICK d, s :
             /\ launcher' = [launcher EXCEPT ![p] = s]
             /\ s = [launcher[p] EXCEPT
                  !.todo = launcher[p].todo \ {d},
                  !.found = launcher[p].found \union {e \in {d} : ~Free(e, "request")}]
             /\ d \in Directories
      BY <1>1, <2>1 DEF ListRequest, Record
    <3>2. /\ s \in Record /\ s.pc = "listing"
          /\ s.op = Op(p) /\ s.made = launcher[p].made /\ s.before = launcher[p].before
      BY <1>1, <3>1 DEF Record, Op
    <3> QED
      BY <3>1, <3>2 DEF Moves
  <2>2. CASE EndListing(p)
    <3>1. PICK s :
             /\ launcher' = [launcher EXCEPT ![p] = s]
             /\ s = [launcher[p] EXCEPT
                  !.pc = "requests", !.todo = launcher[p].found, !.found = {}]
      BY <2>2 DEF EndListing
    <3>2. /\ s \in Record /\ s.pc = "requests"
          /\ s.op = Op(p) /\ s.made = launcher[p].made /\ s.before = launcher[p].before
      BY <1>1, <1>2, <3>1 DEF Record, Op
    <3> QED
      BY <3>1, <3>2 DEF Moves
  <2> QED
    BY <2>1, <2>2
<1>4. /\ RecordOK(launcher[p]) /\ launcher[p].made = 0
      /\ \A o \in launcher[p].before : o \in Operations /\ BeforeInv(launcher[p], o)
  BY <1>2, NothingHeld
<1>5. RecordOK(s) /\ s.pc \notin Reserved \union {"reserving"}
  BY <1>1, <1>3, <1>4 DEF RecordOK, Op, Looking, Reserved, Launching, Publishing
<1>6. \A o \in s.before : BeforeInv(s, o)
  BY <1>3, <1>4 DEF BeforeInv, BeforeAt, Looking, PastReconciliation, Preparing, Launching, Publishing
<1>7. CalmFiles /\ Quiet
  BY CalmUnchanged, QuietUnchanged DEF ListRequest, EndListing, IInv
<1> QED
  BY <1>3, <1>4, <1>5, <1>6, <1>7, EmptyStep

LEMMA HoldCalm ==
    ASSUME IInv, NEW p, NEW d \in Directories, Hold(p, d)
    PROVE  CalmFiles /\ Goto(p, "refused")
<1>1. "held" \in Names /\ "held" \notin Telling /\ "full" \in Versions
  BY NameFacts DEF Telling, Versions
<1> QED
  BY <1>1, NamesAssumption, CalmPut DEF Hold, IInv, Harmless

\* A launcher that reconciles has an operation, and gives up without having anything.
LEMMA Refused ==
    ASSUME IInv, NEW p \in Launchers, Goto(p, "refused"),
           launcher[p].pc \in {"fresh"} \union Reconciling,
           CalmFiles, Quiet
    PROVE  IInv'
<1>1. /\ RecordOK(launcher[p])
      /\ \A o \in launcher[p].before : BeforeInv(launcher[p], o)
  BY NothingHeld
<1>2. Op(p) \in Operations
  BY <1>1 DEF RecordOK, Op, Reconciling
<1>3. \A o \in launcher[p].before : BeforeAt("refused", launcher[p].todo, Item(p), o)
  BY <1>1 DEF BeforeInv, BeforeAt, Looking, PastReconciliation, Preparing, Launching, Publishing
<1>4. "refused" \in Places
  BY DEF Places, Leaving
<1> QED
  BY <1>2, <1>3, <1>4, EmptyGoto DEF Reserved, Launching, Publishing, Looking

LEMMA ScanRequestKeeps ==
    ASSUME IInv, NEW p \in Launchers, ScanRequest(p)
    PROVE  IInv'
<1>1. launcher[p].pc = "requests" /\ launcher[p] \in Record
  BY DEF ScanRequest, At, IInv
<1>2. launcher[p].pc \in Reconciling
  BY <1>1 DEF Reconciling
<1>3. PICK d \in launcher[p].todo :
         IF d \in Operations /\ Free(d, "request")
         THEN Goto(p, "refused") /\ UNCHANGED storage
         ELSE IF Orphan(d)
         THEN Hold(p, d)
         ELSE /\ launcher' = [launcher EXCEPT ![p].todo = @ \ {d}]
              /\ UNCHANGED storage
  BY DEF ScanRequest
<1>4. d \in Directories
  BY <1>1 DEF Record
<1>5. Quiet
  BY QuietUnchanged DEF ScanRequest
<1>6. CASE Goto(p, "refused") /\ UNCHANGED storage
  BY <1>2, <1>5, <1>6, CalmUnchanged, Refused DEF IInv
<1>7. CASE Hold(p, d)
  BY <1>2, <1>4, <1>5, <1>7, HoldCalm, Refused
<1>8. CASE launcher' = [launcher EXCEPT ![p].todo = @ \ {d}] /\ UNCHANGED storage
  <2>1. PICK s : s = [launcher[p] EXCEPT !.todo = @ \ {d}]
    OBVIOUS
  <2>2. Moves(p, s)
    BY <1>8, <2>1 DEF Moves
  <2>3. /\ RecordOK(launcher[p]) /\ launcher[p].made = 0
        /\ \A o \in launcher[p].before : o \in Operations /\ BeforeInv(launcher[p], o)
    BY <1>2, NothingHeld
  <2>4. /\ s \in Record /\ s.pc = "requests" /\ s.op = Op(p)
        /\ s.made = 0 /\ s.before = launcher[p].before
    BY <1>1, <2>1, <2>3 DEF Record, Op
  <2>5. RecordOK(s) /\ s.pc \notin Reserved \union {"reserving"}
    BY <1>1, <2>3, <2>4 DEF RecordOK, Op, Looking, Reserved, Launching, Publishing
  <2>6. \A o \in s.before : BeforeInv(s, o)
    BY <2>3, <2>4 DEF BeforeInv, BeforeAt, Looking, PastReconciliation, Preparing, Launching, Publishing
  <2>7. CalmFiles
    BY <1>8, CalmUnchanged DEF IInv
  <2> QED
    BY <1>5, <2>2, <2>4, <2>5, <2>6, <2>7, EmptyStep
<1> QED
  BY <1>3, <1>6, <1>7, <1>8

LEMMA EndScanRequestsKeeps ==
    ASSUME IInv, NEW p \in Launchers, EndScanRequests(p)
    PROVE  IInv'
<1>1. /\ launcher[p].pc = "requests" /\ launcher[p] \in Record
      /\ launcher' = [launcher EXCEPT ![p].pc = "intents", ![p].todo = Operations]
  BY DEF EndScanRequests, At, IInv
<1>2. launcher[p].pc \in Reconciling /\ "intents" \in Places
  BY <1>1 DEF Reconciling, Places
<1>3. PICK s : s = [launcher[p] EXCEPT !.pc = "intents", !.todo = Operations]
  OBVIOUS
<1>4. Moves(p, s)
  BY <1>1, <1>3 DEF Moves, IInv
<1>5. /\ RecordOK(launcher[p]) /\ launcher[p].made = 0
      /\ \A o \in launcher[p].before : o \in Operations /\ BeforeInv(launcher[p], o)
  BY <1>2, NothingHeld
<1>6. /\ s \in Record /\ s.pc = "intents" /\ s.op = Op(p) /\ s.todo = Operations
      /\ s.made = 0 /\ s.before = launcher[p].before
  BY <1>1, <1>2, <1>3, <1>5 DEF Record, Op, Directories
<1>7. RecordOK(s) /\ s.pc \notin Reserved \union {"reserving"}
  BY <1>1, <1>5, <1>6 DEF RecordOK, Op, Looking, Reserved, Launching, Publishing
<1>8. \A o \in s.before : BeforeInv(s, o)
  BY <1>5, <1>6 DEF BeforeInv, BeforeAt, Looking, PastReconciliation, Preparing, Launching, Publishing
<1>9. CalmFiles
  BY CalmUnchanged DEF EndScanRequests, IInv
<1> QED
  BY <1>4, <1>6, <1>7, <1>8, <1>9, EmptyStep, QuietUnchanged DEF EndScanRequests

LEMMA ScanIntentKeeps ==
    ASSUME IInv, NEW p \in Launchers, ScanIntent(p)
    PROVE  IInv'
<1>1. PICK o \in launcher[p].todo :
         launcher' = [launcher EXCEPT ![p] = [@ EXCEPT
            !.todo = launcher[p].todo \ {o},
            !.item = o,
            !.pc = IF Free(o, "intent") THEN "intents" ELSE "first look"]]
  BY DEF ScanIntent
<1>2. PICK s : s = [launcher[p] EXCEPT
            !.todo = launcher[p].todo \ {o},
            !.item = o,
            !.pc = IF Free(o, "intent") THEN "intents" ELSE "first look"]
  OBVIOUS
<1>3. /\ launcher[p].pc = "intents" /\ launcher[p] \in Record
      /\ launcher \in [Launchers -> Record]
  BY DEF ScanIntent, At, IInv
<1>4. Moves(p, s)
  BY <1>1, <1>2 DEF Moves
<1>5. {"intents", "first look"} \subseteq Reconciling /\ Reconciling \subseteq Places
  BY DEF Reconciling, Places
<1>6. /\ RecordOK(launcher[p]) /\ launcher[p].made = 0
      /\ \A a \in launcher[p].before : a \in Operations /\ BeforeInv(launcher[p], a)
  BY <1>3, <1>5, NothingHeld
<1>7. o \in Operations
  BY <1>3, <1>6 DEF RecordOK
<1>8. /\ s \in Record /\ s.op = Op(p) /\ s.todo = launcher[p].todo \ {o} /\ s.item = o
      /\ s.pc = IF Free(o, "intent") THEN "intents" ELSE "first look"
      /\ s.made = 0 /\ s.before = launcher[p].before
  BY <1>2, <1>3, <1>5, <1>6, <1>7 DEF Record, Op
<1>9. s.pc \notin {"markers"} \union PastReconciliation
  BY <1>8 DEF PastReconciliation, Preparing, Launching, Publishing
<1>10. RecordOK(s) /\ s.pc \notin Reserved \union {"reserving"}
  BY <1>3, <1>6, <1>7, <1>8 DEF RecordOK, Op, Looking, Reserved, Launching, Publishing
<1>11. ASSUME NEW a \in s.before
       PROVE  BeforeInv(s, a)
  <2>1. a \in Operations /\ BeforeInv(launcher[p], a)
    BY <1>6, <1>8
  <2>2. starts[a] > 0 /\ (a \in launcher[p].todo \/ exit[a] = "PASS")
    BY <1>3, <2>1 DEF BeforeInv, BeforeAt, Looking
  <2>3. ~Free(a, "intent")
    BY <2>1, <2>2, Telltale
  <2>4. a \in s.todo \/ (a = s.item /\ s.pc # "intents") \/ exit[a] = "PASS"
    BY <1>8, <2>2, <2>3
  <2> QED
    BY <1>9, <2>2, <2>4 DEF BeforeInv, BeforeAt
<1>12. CalmFiles
  BY CalmUnchanged DEF ScanIntent, IInv
<1> QED
  BY <1>4, <1>8, <1>10, <1>11, <1>12, EmptyStep, QuietUnchanged DEF ScanIntent

LEMMA EndScanIntentsKeeps ==
    ASSUME IInv, NEW p \in Launchers, EndScanIntents(p)
    PROVE  IInv'
<1>1. /\ launcher[p].pc = "intents" /\ launcher[p].todo = {} /\ launcher[p] \in Record
      /\ launcher' = [launcher EXCEPT ![p] = [@ EXCEPT
            !.pc = "markers", !.todo = Operations, !.item = NoOperation]]
  BY DEF EndScanIntents, At, IInv
<1>2. launcher[p].pc \in Reconciling /\ "markers" \in Places
  BY <1>1 DEF Reconciling, Places
<1>3. PICK s : s = [launcher[p] EXCEPT !.pc = "markers", !.todo = Operations, !.item = NoOperation]
  OBVIOUS
<1>4. Moves(p, s)
  BY <1>1, <1>3 DEF Moves
<1>5. /\ RecordOK(launcher[p]) /\ launcher[p].made = 0
      /\ \A o \in launcher[p].before : o \in Operations /\ BeforeInv(launcher[p], o)
  BY <1>2, NothingHeld
<1>6. /\ s \in Record /\ s.pc = "markers" /\ s.op = Op(p)
      /\ s.made = 0 /\ s.before = launcher[p].before
  BY <1>1, <1>2, <1>3, <1>5 DEF Record, Op, Directories
<1>7. RecordOK(s) /\ s.pc \notin Reserved \union {"reserving"}
  BY <1>1, <1>5, <1>6 DEF RecordOK, Op, Looking, Reserved, Launching, Publishing
<1>8. \A o \in s.before : BeforeInv(s, o)
  BY <1>1, <1>5, <1>6 DEF BeforeInv, BeforeAt, Looking, PastReconciliation, Preparing, Launching, Publishing
<1>9. CalmFiles
  BY CalmUnchanged DEF EndScanIntents, IInv
<1> QED
  BY <1>4, <1>6, <1>7, <1>8, <1>9, EmptyStep, QuietUnchanged DEF EndScanIntents

LEMMA LookKeeps ==
    ASSUME IInv, NEW p \in Launchers, FirstLook(p) \/ SecondLook(p)
    PROVE  IInv'
<1> DEFINE next == IF launcher[p].pc = "first look"
                   THEN {"first read", "second look"} ELSE {"second read", "no start"}
<1>1. /\ launcher[p].pc \in {"first look", "second look"}
      /\ UNCHANGED <<storage, power, child, verdicts>>
  BY DEF FirstLook, SecondLook, Look, At
<1>2. PICK place : place \in next /\ Goto(p, place)
  BY DEF FirstLook, SecondLook, Look, At
<1>3. place \in Looking /\ launcher[p].pc \in Looking /\ Looking \subseteq Reconciling /\ Reconciling \subseteq Places
  BY <1>1, <1>2 DEF Looking, Reconciling, Places
<1>4. /\ RecordOK(launcher[p])
      /\ \A o \in launcher[p].before : BeforeInv(launcher[p], o)
  BY <1>3, NothingHeld
<1>5. /\ Op(p) \in Operations /\ Item(p) \in Operations
      /\ launcher[p].todo \subseteq Operations
  BY <1>1, <1>3, <1>4 DEF RecordOK, Op, Item
<1>6. place \notin {"markers"} \union PastReconciliation /\ place # "intents"
  BY <1>2 DEF PastReconciliation, Preparing, Launching, Publishing
<1>7. \A o \in launcher[p].before : BeforeAt(place, launcher[p].todo, Item(p), o)
  BY <1>1, <1>3, <1>4, <1>6 DEF BeforeInv, BeforeAt, Item
<1>8. place \notin Reserved \union {"reserving"}
  BY <1>2 DEF Reserved, Launching, Publishing
<1>9. CalmFiles /\ Quiet
  BY <1>1, CalmUnchanged, QuietUnchanged DEF IInv
<1> QED
  BY <1>2, <1>3, <1>5, <1>7, <1>8, <1>9, EmptyGoto

LEMMA TellQuiet ==
    ASSUME IInv, NEW o \in Operations, Terminal(o) \in Verdicts, Tell(o, Terminal(o)),
           UNCHANGED <<power, child>>
    PROVE  Quiet
<1>1. files[o].terminal = Terminal(o)
  BY DEF Terminal, Verdicts
<1> QED
  BY <1>1 DEF IInv, RestTypeOK, Quiet, CalmTold, Tell, child

LEMMA FirstReadKeeps ==
    ASSUME IInv, NEW p \in Launchers, FirstRead(p)
    PROVE  IInv'
<1>1. launcher[p].pc = "first read" /\ UNCHANGED <<storage, power, child>>
  BY DEF FirstRead, At
<1>2. {"first read", "second look"} \subseteq Looking /\ Looking \subseteq Reconciling /\ Reconciling \subseteq Places
  BY DEF Looking, Reconciling, Places
<1>3. /\ RecordOK(launcher[p])
      /\ \A o \in launcher[p].before : BeforeInv(launcher[p], o)
  BY <1>1, <1>2, NothingHeld
<1>4. /\ Op(p) \in Operations /\ Item(p) \in Operations
      /\ launcher[p].todo \subseteq Operations
  BY <1>1, <1>2, <1>3 DEF RecordOK, Op, Item
<1>5. CalmFiles
  BY <1>1, CalmUnchanged DEF IInv
<1>6. CASE Terminal(Item(p)) = "FAIL"
  <2>1. Goto(p, "refused") /\ Tell(Item(p), "FAIL")
    BY <1>6 DEF FirstRead
  <2>2. Quiet
    BY <1>1, <1>4, <1>6, <2>1, TellQuiet DEF Verdicts
  <2> QED
    BY <1>1, <1>2, <1>5, <2>1, <2>2, Refused
<1>7. CASE Terminal(Item(p)) # "FAIL"
  <2>1. Goto(p, "second look") /\ Quiet
    BY <1>1, <1>7, QuietUnchanged DEF FirstRead
  <2>2. \A o \in launcher[p].before : BeforeAt("second look", launcher[p].todo, Item(p), o)
    BY <1>1, <1>2, <1>3 DEF BeforeInv, BeforeAt, Item, PastReconciliation, Preparing, Launching, Publishing
  <2>3. "second look" \notin Reserved \union {"reserving"}
    BY DEF Reserved, Launching, Publishing
  <2> QED
    BY <1>1, <1>2, <1>4, <1>5, <2>1, <2>2, <2>3, EmptyGoto
<1> QED
  BY <1>6, <1>7

LEMMA SecondReadKeeps ==
    ASSUME IInv, NEW p \in Launchers, SecondRead(p)
    PROVE  IInv'
<1>1. launcher[p].pc = "second read" /\ UNCHANGED <<storage, power, child>>
  BY DEF SecondRead, At
<1>2. {"second read", "no start"} \subseteq Looking /\ "intents" \in Reconciling
      /\ Looking \subseteq Reconciling /\ Reconciling \subseteq Places
  BY DEF Looking, Reconciling, Places
<1>3. /\ RecordOK(launcher[p])
      /\ \A o \in launcher[p].before : BeforeInv(launcher[p], o)
  BY <1>1, <1>2, NothingHeld
<1>4. /\ Op(p) \in Operations /\ Item(p) \in Operations
      /\ launcher[p].todo \subseteq Operations
  BY <1>1, <1>2, <1>3 DEF RecordOK, Op, Item
<1>5. CalmFiles
  BY <1>1, CalmUnchanged DEF IInv
<1>6. {"intents", "no start"} \intersect (Reserved \union {"reserving"}) = {}
  BY DEF Reserved, Launching, Publishing
<1>7. CASE Terminal(Item(p)) = "PASS" /\ Tell(Item(p), "PASS") /\ Goto(p, "intents")
  <2>1. Quiet
    BY <1>1, <1>4, <1>7, TellQuiet DEF Verdicts
  <2>2. exit[Item(p)] = "PASS"
    BY <1>4, <1>7, Telltale DEF Terminal, Has
  <2>3. \A o \in launcher[p].before : BeforeAt("intents", launcher[p].todo, Item(p), o)
    BY <1>1, <1>2, <1>3, <2>2 DEF BeforeInv, BeforeAt, Item, PastReconciliation, Preparing, Launching, Publishing
  <2> QED
    BY <1>1, <1>2, <1>4, <1>5, <1>6, <1>7, <2>1, <2>3, EmptyGoto DEF Looking
<1>8. CASE Goto(p, "no start") /\ UNCHANGED verdicts
  <2>1. Quiet
    BY <1>1, <1>8, QuietUnchanged
  <2>2. \A o \in launcher[p].before : BeforeAt("no start", launcher[p].todo, Item(p), o)
    BY <1>1, <1>2, <1>3 DEF BeforeInv, BeforeAt, Item, PastReconciliation, Preparing, Launching, Publishing
  <2> QED
    BY <1>1, <1>2, <1>4, <1>5, <1>6, <1>8, <2>1, <2>2, EmptyGoto
<1> QED
  BY <1>7, <1>8 DEF SecondRead

LEMMA ResolveKeeps ==
    ASSUME IInv, NEW p \in Launchers, Resolve(p)
    PROVE  IInv'
<1>1. launcher[p].pc = "no start" /\ Quiet
  BY QuietUnchanged DEF Resolve, At
<1>2. "no start" \in Looking /\ "no start" \in Reconciling /\ "intents" \in Places
  BY DEF Looking, Reconciling, Places
<1>3. /\ RecordOK(launcher[p])
      /\ \A o \in launcher[p].before : BeforeInv(launcher[p], o)
  BY <1>1, <1>2, NothingHeld
<1>4. /\ Op(p) \in Operations /\ Item(p) \in Operations /\ Item(p) \in Directories
      /\ launcher[p].todo \subseteq Operations
  BY <1>1, <1>2, <1>3 DEF RecordOK, Op, Item, Directories
<1>5. CASE NoStart(Item(p)) /\ Goto(p, "intents") /\ UNCHANGED storage
  <2>1. CalmFiles
    BY <1>5, CalmUnchanged DEF IInv
  <2>2. starts[Item(p)] = 0
    <3>1. Has(Item(p), "nostart", "full")
      BY <1>5 DEF NoStart
    <3>2. PICK o \in Operations : o = Item(p)
      BY <1>4
    <3>3. Has(o, "nostart", "full")
      BY <3>1, <3>2
    <3> QED
      BY <3>2, <3>3, Telltale
  <2>3. ASSUME NEW o \in launcher[p].before
        PROVE  BeforeAt("intents", launcher[p].todo, Item(p), o)
    <3>1. /\ starts[o] > 0
          /\ o \in launcher[p].todo \/ o = Item(p) \/ exit[o] = "PASS"
      BY <1>1, <1>2, <1>3 DEF BeforeInv, BeforeAt, Item
    <3>2. o # Item(p)
      BY <2>2, <3>1
    <3> QED
      BY <3>1, <3>2 DEF BeforeAt, PastReconciliation, Preparing, Launching, Publishing
  <2> QED
    BY <1>1, <1>2, <1>4, <1>5, <2>1, <2>3, EmptyGoto DEF Looking, Reserved, Launching, Publishing
<1>6. CASE Hold(p, Item(p))
  BY <1>1, <1>2, <1>4, <1>6, HoldCalm, Refused
<1> QED
  BY <1>5, <1>6 DEF Resolve

LEMMA ScanMarkerKeeps ==
    ASSUME IInv, NEW p \in Launchers, ScanMarker(p)
    PROVE  IInv'
<1>1. /\ launcher[p].pc = "markers" /\ launcher[p] \in Record
      /\ launcher \in [Launchers -> Record]
  BY DEF ScanMarker, At, IInv
<1>2. launcher[p].pc \in Reconciling
  BY <1>1 DEF Reconciling
<1>3. CalmFiles /\ Quiet
  BY CalmUnchanged, QuietUnchanged DEF ScanMarker, IInv
<1>4. CASE Goto(p, "refused")
  BY <1>2, <1>3, <1>4, Refused
<1>5. ASSUME NEW d \in launcher[p].todo, launcher' = [launcher EXCEPT ![p].todo = @ \ {d}]
      PROVE  IInv'
  <2>1. PICK s : s = [launcher[p] EXCEPT !.todo = @ \ {d}]
    OBVIOUS
  <2>2. Moves(p, s)
    BY <1>5, <2>1 DEF Moves
  <2>3. /\ RecordOK(launcher[p]) /\ launcher[p].made = 0
        /\ \A o \in launcher[p].before : BeforeInv(launcher[p], o)
    BY <1>2, NothingHeld
  <2>4. /\ s \in Record /\ s.pc = "markers" /\ s.op = Op(p)
        /\ s.made = 0 /\ s.before = launcher[p].before
    BY <1>1, <2>1, <2>3 DEF Record, Op
  <2>5. RecordOK(s) /\ s.pc \notin Reserved \union {"reserving"}
    BY <1>1, <2>3, <2>4 DEF RecordOK, Op, Looking, Reserved, Launching, Publishing
  <2>6. \A o \in s.before : BeforeInv(s, o)
    BY <1>1, <2>3, <2>4 DEF BeforeInv, BeforeAt, Looking
  <2> QED
    BY <1>3, <2>2, <2>4, <2>5, <2>6, EmptyStep
<1> QED
  BY <1>4, <1>5 DEF ScanMarker

LEMMA EndScanMarkersKeeps ==
    ASSUME IInv, NEW p \in Launchers, EndScanMarkers(p)
    PROVE  IInv'
<1>1. launcher[p].pc = "markers"
  BY DEF EndScanMarkers, At
<1>2. launcher[p].pc \in Reconciling /\ "fresh" \in Places
  BY <1>1 DEF Reconciling, Places, Preparing
<1>3. CalmFiles /\ Quiet
  BY CalmUnchanged, QuietUnchanged DEF EndScanMarkers, IInv
<1>4. /\ RecordOK(launcher[p])
      /\ \A o \in launcher[p].before : BeforeInv(launcher[p], o)
  BY <1>2, NothingHeld
<1>5. CASE Goto(p, "refused")
  BY <1>2, <1>3, <1>5, Refused
<1>6. CASE Goto(p, "fresh")
  <2>1. Op(p) \in Operations
    BY <1>1, <1>4 DEF RecordOK, Op
  <2>2. \A o \in launcher[p].before : BeforeAt("fresh", launcher[p].todo, Item(p), o)
    BY <1>1, <1>4 DEF BeforeInv, BeforeAt, Looking
  <2> QED
    BY <1>2, <1>3, <1>6, <2>1, <2>2, EmptyGoto DEF Looking, Reserved, Launching, Publishing
<1> QED
  BY <1>5, <1>6 DEF EndScanMarkers

-----------------------------------------------------------------------------
(***************************************************************************)
(* Preparation.                                                            *)
(***************************************************************************)
LEMMA SealKeeps ==
    ASSUME IInv, NEW p \in Launchers, Seal(p)
    PROVE  IInv'
<1>1. launcher[p].pc = "fresh" /\ Quiet
  BY QuietUnchanged DEF Seal, At
<1>2. /\ RecordOK(launcher[p])
      /\ \A o \in launcher[p].before : BeforeInv(launcher[p], o)
  BY <1>1, NothingHeld
<1>3. Op(p) \in Operations /\ Op(p) \in Directories
  BY <1>1, <1>2 DEF RecordOK, Op, Directories
<1>4. CASE Create(Op(p), "request", "full") /\ Goto(p, "sealed")
  <2>1. CalmFiles
    BY <1>3, <1>4, NamesAssumption, CalmPut, NameFacts DEF Create, IInv, Versions, Telling, Harmless
  <2>2. \A o \in launcher[p].before : BeforeAt("sealed", launcher[p].todo, Item(p), o)
    BY <1>1, <1>2 DEF BeforeInv, BeforeAt, Looking, PastReconciliation, Preparing
  <2>3. "sealed" \in Places
    BY DEF Places, Preparing
  <2> QED
    BY <1>1, <1>3, <1>4, <2>1, <2>2, <2>3, EmptyGoto DEF Looking, Reserved, Launching, Publishing
<1>5. CASE Goto(p, "refused") /\ UNCHANGED storage
  BY <1>1, <1>5, CalmUnchanged, Refused DEF IInv
<1> QED
  BY <1>4, <1>5 DEF Seal

LEMMA DropSourceKeeps ==
    ASSUME IInv, NEW p \in Launchers, DropSource(p)
    PROVE  IInv'
<1>1. launcher[p].pc = "sealed" /\ Quiet /\ Goto(p, "preparing")
  BY QuietUnchanged DEF DropSource, At
<1>2. /\ RecordOK(launcher[p])
      /\ \A o \in launcher[p].before : BeforeInv(launcher[p], o)
  BY <1>1, NothingHeld
<1>3. Op(p) \in Operations
  BY <1>1, <1>2 DEF RecordOK, Op
<1>4. CalmFiles
  BY NamesAssumption, CalmPut, NameFacts DEF DropSource, Unlink, IInv, Versions, Telling, Harmless, Directories
<1>5. \A o \in launcher[p].before : BeforeAt("preparing", launcher[p].todo, Item(p), o)
  BY <1>1, <1>2 DEF BeforeInv, BeforeAt, Looking, PastReconciliation, Preparing
<1>6. "preparing" \in Places
  BY DEF Places, Preparing
<1> QED
  BY <1>1, <1>3, <1>4, <1>5, <1>6, EmptyGoto DEF Looking, Reserved, Launching, Publishing

\* An action that ends a launcher and changes nothing that tells.
LEMMA EndStep ==
    ASSUME IInv, NEW p \in Launchers, End(p), CalmFiles, Quiet
    PROVE  IInv'
<1>1. Moves(p, Ended) /\ RecordInv(Ended)
  BY EndMoves
<1>2. ~(Ended.made > 0)
  BY DEF Ended, Idle
<1> QED
  BY <1>1, <1>2, CalmStep

LEMMA DropRefusedKeeps ==
    ASSUME IInv, NEW p \in Launchers, DropRefused(p)
    PROVE  IInv'
<1>1. CalmFiles
  BY NamesAssumption, CalmPut, NameFacts DEF DropRefused, Unlink, IInv, Versions, Telling, Harmless, Directories
<1> QED
  BY <1>1, EndStep, QuietUnchanged DEF DropRefused

LEMMA KillKeeps ==
    ASSUME IInv, NEW p \in Launchers, Kill(p)
    PROVE  IInv'
BY EndStep, QuietUnchanged, CalmUnchanged DEF Kill, IInv

LEMMA AtWork ==
    ASSUME IInv, NEW p \in Launchers
    PROVE  /\ launcher \in [Launchers -> Record]
           /\ RecordInv(launcher[p]) /\ launcher[p] \in Record
           /\ launcher[p].made > 0 \/ launcher[p].made = 0
           /\ launcher[p].pc \notin {"idle", "staged", "ended"} =>
                 Op(p) \in Operations /\ Op(p) \in Directories
           /\ \A o \in launcher[p].before : o \in Operations /\ BeforeInv(launcher[p], o)
BY DEF IInv, RecordInv, RecordOK, Record, Op, Directories

\* A launch that cannot take its source away is refused, and its seal with it.
LEMMA SealingFailsKeeps ==
    ASSUME IInv, NEW p \in Launchers, SealingFails(p)
    PROVE  IInv'
<1>1. launcher[p].pc \in {"sealed", "preparing"} /\ Goto(p, "refused") /\ Quiet
  BY QuietUnchanged DEF SealingFails, At
<1>2. /\ launcher[p] \in Record /\ launcher \in [Launchers -> Record]
      /\ Op(p) \in Operations /\ Op(p) \in Directories
      /\ \A o \in launcher[p].before : o \in Operations /\ BeforeInv(launcher[p], o)
  BY <1>1, AtWork
<1>3. launcher[p].made = 0
  BY <1>1, NothingHeld DEF SealingFails, At
<1>4. CalmFiles
  <2>1. CASE UNCHANGED storage
    BY <2>1, CalmUnchanged DEF IInv
  <2>2. CASE Unlink(Op(p), "request")
    BY <1>2, <2>2, NamesAssumption, CalmPut, NameFacts DEF Unlink, IInv, Versions, Telling, Harmless
  <2> QED
    BY <2>1, <2>2 DEF SealingFails
<1>5. PICK s : s = [launcher[p] EXCEPT !.pc = "refused"]
  OBVIOUS
<1>6. Moves(p, s)
  BY <1>1, <1>2, <1>5, GotoMoves
<1>7. "refused" \in Places
  BY DEF Places, Leaving
<1>8. /\ s \in Record /\ s.pc = "refused" /\ s.op = Op(p) /\ s.made = 0
      /\ s.before = launcher[p].before
  BY <1>2, <1>3, <1>5, <1>7, PlaceReads DEF Op
<1>9. RecordOK(s) /\ s.pc \notin Reserved \union {"reserving"}
  BY <1>2, <1>8 DEF RecordOK, Looking, Reserved, Launching, Publishing
<1>10. \A o \in s.before : BeforeInv(s, o)
  BY <1>2, <1>8 DEF BeforeInv, BeforeAt, Looking, PastReconciliation, Preparing, Launching, Publishing
<1> QED
  BY <1>1, <1>4, <1>6, <1>8, <1>9, <1>10, EmptyStep

\* A launcher goes to a place where the old state already allows it.
LEMMA GoStep ==
    ASSUME IInv, NEW p \in Launchers, NEW place \in Places, Goto(p, place),
           NEW s, s = [launcher[p] EXCEPT !.pc = place], RecordInv(s),
           CalmFiles, Quiet
    PROVE  IInv'
<1>1. launcher \in [Launchers -> Record] /\ launcher[p] \in Record
  BY DEF IInv
<1>2. Moves(p, s)
  BY <1>1, GotoMoves
<1>3. s.op = Op(p) /\ s.made = launcher[p].made
  BY <1>1, PlaceReads DEF Op
<1> QED
  BY <1>2, <1>3, CalmStep

\* Reserved, but with no child and no doubt about it.
Waiting == {"prepared", "verified", "claimed", "dispatched",
            "clearing proven", "marking proven", "no start proven"}

LEMMA WaitingGoto ==
    ASSUME IInv, NEW p \in Launchers, launcher[p].pc \in Waiting,
           NEW place \in Waiting, place \in Launching => launcher[p].pc \in Launching,
           Goto(p, place), CalmFiles, Quiet
    PROVE  IInv'
<1>1. PICK s : s = [launcher[p] EXCEPT !.pc = place]
  OBVIOUS
<1>2. Waiting \subseteq Reserved /\ Waiting \subseteq Places
      /\ Waiting \intersect ({"running", "reserving", "preparing", "idle", "staged", "ended",
                              "intents", "markers"} \union Looking \union Publishing) = {}
  BY DEF Waiting, Reserved, Launching, Places, Leaving, Looking, Publishing
<1>3. /\ RecordInv(launcher[p]) /\ launcher[p] \in Record
      /\ Op(p) \in Operations
  BY <1>2, AtWork
<1>4. /\ s \in Record /\ s.pc = place /\ s.op = Op(p) /\ s.item = Item(p) /\ s.todo = launcher[p].todo
      /\ s.made = launcher[p].made /\ s.before = launcher[p].before
  BY <1>1, <1>2, <1>3, PlaceReads DEF Op, Item
<1>5. s.made = 5 /\ Durable(s.op) /\ HolderInv(launcher[p])
  BY <1>2, <1>3, <1>4 DEF RecordInv, Op
<1>6. RecordOK(s)
  BY <1>2, <1>3, <1>4 DEF RecordOK
<1>7. HolderInv(s)
  BY <1>2, <1>4, <1>5 DEF HolderInv, Op
<1>8. VerdictInv(s)
  BY <1>2, <1>4 DEF VerdictInv, Publishing
<1>9. \A o \in s.before : BeforeInv(s, o)
  <2>1. place \in PastReconciliation => launcher[p].pc \in PastReconciliation
    BY <1>2 DEF PastReconciliation, Waiting, Preparing
  <2> QED
    BY <1>2, <1>3, <1>4, <2>1 DEF RecordInv, BeforeInv, BeforeAt
<1>10. RecordInv(s)
  BY <1>2, <1>4, <1>5, <1>6, <1>7, <1>8, <1>9 DEF RecordInv
<1> QED
  BY <1>1, <1>2, <1>10, GoStep

LEMMA VerifyKeeps ==
    ASSUME IInv, NEW p \in Launchers, Verify(p)
    PROVE  IInv'
BY WaitingGoto, CalmUnchanged, QuietUnchanged DEF Verify, At, Waiting, Launching, IInv

LEMMA NotStartedKeeps ==
    ASSUME IInv, NEW p \in Launchers, NotStarted(p)
    PROVE  IInv'
BY WaitingGoto, CalmUnchanged, QuietUnchanged DEF NotStarted, At, Waiting, Launching, IInv

LEMMA RefuseKeeps ==
    ASSUME IInv, NEW p \in Launchers, Refuse(p)
    PROVE  IInv'
<1>1. CalmFiles /\ Quiet
  BY CalmUnchanged, QuietUnchanged DEF Refuse, IInv
<1>2. CASE Goto(p, "clearing proven")
  <2>1. launcher[p].pc \in Waiting /\ "clearing proven" \in Waiting
    BY DEF Refuse, At, Waiting
  <2> QED
    BY <1>1, <1>2, <2>1, WaitingGoto DEF Launching
<1>3. CASE End(p)
  BY <1>1, <1>3, EndStep
<1> QED
  BY <1>2, <1>3 DEF Refuse

LEMMA ClaimKeeps ==
    ASSUME IInv, NEW p \in Launchers, Claim(p)
    PROVE  IInv'
<1>1. launcher[p].pc = "verified" /\ Quiet /\ Goto(p, "claimed")
  BY QuietUnchanged DEF Claim, At
<1>2. Op(p) \in Directories
  BY <1>1, AtWork
<1>3. CalmFiles
  BY <1>2, NamesAssumption, CalmPut, NameFacts DEF Claim, Create, IInv, Versions, Telling, Harmless
<1> QED
  BY <1>1, <1>3, WaitingGoto DEF Waiting, Launching

LEMMA SyncClaimKeeps ==
    ASSUME IInv, NEW p \in Launchers, SyncClaim(p)
    PROVE  IInv'
<1>1. launcher[p].pc = "claimed" /\ Quiet /\ Goto(p, "dispatched") /\ Sync(Op(p))
  BY QuietUnchanged DEF SyncClaim, Barrier, At
<1>2. Op(p) \in Operations
  BY <1>1, AtWork
<1>3. CalmFiles
  BY <1>1, <1>2, CalmSync DEF IInv
<1> QED
  BY <1>1, <1>3, WaitingGoto DEF Waiting, Launching

\* A launcher that does not know whether there is a child records that.
Doubting == {"doubt", "doubt recorded"}

LEMMA DoubtGoto ==
    ASSUME IInv, NEW p \in Launchers, launcher[p].pc \in Launching \union Publishing,
           NEW place \in Doubting, Goto(p, place), CalmFiles, Quiet
    PROVE  IInv'
<1>1. PICK s : s = [launcher[p] EXCEPT !.pc = place]
  OBVIOUS
<1>2. /\ launcher[p].pc \in Reserved /\ launcher[p].pc \notin {"idle", "staged", "ended"}
      /\ launcher[p].pc \in PastReconciliation
      /\ place \in Publishing /\ place \in Reserved /\ place \in Places
      /\ place \notin {"intents", "markers", "preparing", "reserving", "running"} \union Looking
      /\ place \in PastReconciliation
  BY DEF Doubting, Reserved, Launching, Publishing, Places, Looking, PastReconciliation
<1>3. /\ RecordInv(launcher[p]) /\ launcher[p] \in Record
      /\ Op(p) \in Operations
  BY <1>2, AtWork
<1>4. place \in Places
  BY <1>2
<1>5. launcher[p] \in Record
  BY <1>3
<1>6. /\ s \in Record /\ s.pc = place /\ s.op = Op(p) /\ s.item = Item(p) /\ s.todo = launcher[p].todo
      /\ s.made = launcher[p].made /\ s.before = launcher[p].before
  BY <1>1, <1>4, <1>5, PlaceReads DEF Op, Item
<1>7. launcher[p].pc \in Reserved /\ RecordInv(launcher[p])
  BY <1>2, <1>3
<1>8. launcher[p].made = 5 /\ Durable(launcher[p].op) /\ HolderInv(launcher[p])
  BY <1>7 DEF RecordInv
<1>9. s.made = 5 /\ Durable(s.op)
  BY <1>6, <1>8 DEF Op
<1>10. RecordOK(s)
  BY <1>2, <1>3, <1>6 DEF RecordOK
<1>11. HolderInv(s)
  BY <1>2, <1>6, <1>8 DEF HolderInv, Op
<1>12. VerdictInv(s)
  BY <1>6 DEF VerdictInv, Doubting
<1>13. \A o \in s.before : BeforeInv(s, o)
  BY <1>2, <1>3, <1>6 DEF RecordInv, BeforeInv, BeforeAt
<1>14. RecordInv(s)
  BY <1>2, <1>6, <1>9, <1>10, <1>11, <1>12, <1>13 DEF RecordInv
<1> QED
  BY <1>1, <1>2, <1>14, GoStep

LEMMA RunnerFailsKeeps ==
    ASSUME IInv, NEW p \in Launchers, RunnerFails(p)
    PROVE  IInv'
BY DoubtGoto, CalmUnchanged, QuietUnchanged DEF Doubting, RunnerFails, At, Launching, IInv

LEMMA PublicationFailsKeeps ==
    ASSUME IInv, NEW p \in Launchers, PublicationFails(p)
    PROVE  IInv'
<1>1. launcher[p].pc \in Publishing /\ Goto(p, "doubt")
  BY DEF PublicationFails, At, Publishing
<1> QED
  BY <1>1, DoubtGoto, CalmUnchanged, QuietUnchanged DEF Doubting, PublicationFails, IInv

LEMMA RecordUncertainKeeps ==
    ASSUME IInv, NEW p \in Launchers, RecordUncertain(p)
    PROVE  IInv'
<1>1. launcher[p].pc = "doubt" /\ Goto(p, "doubt recorded") /\ Quiet
  BY QuietUnchanged DEF RecordUncertain, At
<1>2. Op(p) \in Directories
  BY <1>1, AtWork
<1>3. CASE Create(Op(p), "pending", "full")
  <2>1. CalmFiles
    BY <1>2, <1>3, NamesAssumption, CalmPut, NameFacts DEF Create, IInv, Versions, Telling, Harmless
  <2> QED
    BY <1>1, <2>1, DoubtGoto DEF Doubting, Publishing
<1>4. CASE UNCHANGED storage
  BY <1>1, <1>4, CalmUnchanged, DoubtGoto DEF Doubting, IInv, Publishing
<1> QED
  BY <1>3, <1>4 DEF RecordUncertain

LEMMA SyncUncertainKeeps ==
    ASSUME IInv, NEW p \in Launchers, SyncUncertain(p)
    PROVE  IInv'
<1>1. launcher[p].pc = "doubt recorded" /\ End(p) /\ Quiet /\ Sync(Op(p))
  BY QuietUnchanged DEF SyncUncertain, At
<1>2. Op(p) \in Operations
  BY <1>1, AtWork
<1>3. CalmFiles
  BY <1>1, <1>2, CalmSync DEF IInv
<1> QED
  BY <1>1, <1>3, EndStep

LEMMA ObserveKeeps ==
    ASSUME IInv, NEW p \in Launchers, Observe(p)
    PROVE  IInv'
<1>1. launcher[p].pc = "running" /\ launcher' = launcher /\ Quiet
  BY QuietUnchanged DEF Observe, At
<1>2. Op(p) \in Directories /\ launcher \in [Launchers -> Record] /\ RecordInv(launcher[p])
  BY <1>1, AtWork
<1>3. CalmFiles
  BY <1>2, NamesAssumption, CalmPut, NameFacts DEF Observe, IInv, Versions, Telling, Harmless
<1>4. PICK s : s = launcher[p]
  OBVIOUS
<1>5. Moves(p, s)
  BY <1>1, <1>2, <1>4 DEF Moves
<1>6. RecordInv(s) /\ (s.made > 0 => launcher[p].made > 0 /\ s.op = Op(p))
  BY <1>2, <1>4 DEF Op
<1> QED
  BY <1>3, <1>5, <1>6, <1>1, CalmStep

\* One step of the preparation: the first makes the marker, which nobody else has.
LEMMA PrepareNextKeeps ==
    ASSUME IInv, NEW p \in Launchers, PrepareNext(p)
    PROVE  IInv'
<1>1. launcher[p].pc = "preparing" /\ Quiet
  BY QuietUnchanged DEF PrepareNext, At
<1>2. PICK made : made = launcher[p].made + 1
  OBVIOUS
<1>3. PICK n : n = Preparation[made]
  OBVIOUS
<1>4. PICK place : place = IF n = "reservation" THEN "reserving" ELSE "preparing"
  OBVIOUS
<1>5. /\ Create(Op(p), n, Contents(n))
      /\ launcher' = [launcher EXCEPT ![p] = [@ EXCEPT !.made = made, !.pc = place]]
  BY <1>2, <1>3, <1>4 DEF PrepareNext
<1>6. /\ RecordInv(launcher[p]) /\ launcher[p] \in Record
      /\ Op(p) \in Operations /\ Op(p) \in Directories
      /\ \A o \in launcher[p].before : BeforeInv(launcher[p], o)
  BY <1>1, AtWork
<1>7. launcher[p].made \in 0..4 /\ made \in 1..5
  BY <1>1, <1>2, <1>6 DEF RecordInv, Record
<1>8. /\ n \in {"marker", "start", "input", "intent", "reservation"}
      /\ n = "marker" <=> made = 1
      /\ n = "intent" <=> made = 4
      /\ n = "reservation" <=> made = 5
  BY <1>3, <1>7, PreparationFacts
<1>9. /\ n \in Names /\ Contents(n) \in Versions
      /\ n = "marker" => Contents(n) = "PENDING"
      /\ n = "intent" => Contents(n) = "full"
  BY <1>8, NameFacts DEF Contents, Versions
<1>10. Put(Op(p), n, Contents(n)) /\ Free(Op(p), n)
  BY <1>5 DEF Create
<1>11. Harmless(Op(p), n, Contents(n))
  BY <1>8, <1>9 DEF Harmless, Telling
<1>12. CalmFiles /\ Sets(Op(p), n, Contents(n))
  BY <1>6, <1>9, <1>10, <1>11, NamesAssumption, CalmPut, PutReads DEF IInv
<1>13. \A o \in Operations : Calm(o)
  BY <1>1, <1>12 DEF CalmFiles, Calm, Quiet, child
<1>14. PICK s : s = [launcher[p] EXCEPT !.made = made, !.pc = place]
  OBVIOUS
<1>15. Moves(p, s)
  BY <1>5, <1>14 DEF Moves
<1>16. {"preparing", "reserving"} \subseteq Places
  BY DEF Places, Preparing
<1>17. /\ s \in Record /\ s.made = made /\ s.pc = place /\ s.op = Op(p)
       /\ s.before = launcher[p].before
  <2>1. launcher[p] \in Record /\ place \in Places /\ made \in 0..5
    BY <1>4, <1>6, <1>7, <1>16
  <2> QED
    BY <1>14, <2>1 DEF Record, Op
<1>18. /\ place \in {"preparing", "reserving"}
       /\ place = "preparing" => made < 5
       /\ place = "reserving" => made = 5
  BY <1>4, <1>7, <1>8
<1>19. RecordOK(s)
  BY <1>6, <1>17, <1>18 DEF RecordOK, Looking
<1>20. starts[Op(p)] = 0 /\ "full" \notin disk[Op(p)].nostart
  <2>1. CASE launcher[p].made = 0
    <3>1. "none" \in disk[Op(p)].marker
      BY <1>2, <1>6, <1>8, <1>10, <2>1, NameFacts DEF IInv, Shown, Free, Has
    <3>2. OperationInv(Op(p)) /\ starts[Op(p)] \in Nat
      BY <1>6 DEF IInv, RestTypeOK
    <3> QED
      BY <3>1, <3>2 DEF OperationInv, Durable
  <2>2. CASE launcher[p].made > 0
    BY <1>1, <1>6, <2>2 DEF RecordInv, HolderInv, Op, Publishing
  <2> QED
    BY <1>7, <2>1, <2>2
<1>21. ASSUME NEW q \in Launchers, q # p, launcher[q].made > 0
       PROVE  Op(q) # Op(p)
  <2>1. CASE launcher[p].made = 0
    <3>1. ~Free(Op(q), "marker")
      BY <1>21, AtWork DEF RecordInv, HolderInv, Op
    <3>2. Free(Op(p), "marker")
      BY <1>2, <1>8, <1>10, <2>1
    <3> QED
      BY <3>1, <3>2
  <2>2. CASE launcher[p].made > 0
    BY <1>21, <2>2 DEF IInv, OneHolder
  <2> QED
    BY <1>7, <2>1, <2>2
<1>22. HolderInv(s)'
  <2>1. PICK o \in Operations : o = Op(p) /\ s.op = o /\ launcher[p].op = o
    BY <1>6, <1>17 DEF Op
  <2>2. /\ files'[o][n] = Contents(n)
        /\ o \in Directories /\ {"marker", "intent"} \subseteq Names
    BY <1>6, <1>9, <1>12, <2>1, NameFacts DEF Sets
  <2>3. ~Free(o, "marker")'
    <3>1. CASE made = 1
      BY <1>8, <1>9, <2>2, <3>1 DEF Free, Has
    <3>2. CASE made # 1
      <4>1. launcher[p].made > 0
        BY <1>2, <1>7, <3>2
      <4>2. ~Free(o, "marker")
        BY <1>6, <2>1, <4>1 DEF RecordInv, HolderInv
      <4> QED
        BY <1>13, <4>2, CalmReads DEF IInv
    <3> QED
      BY <3>1, <3>2
  <2>4. made >= 4 => Has(o, "intent", "full")'
    <3>1. CASE made = 4
      BY <1>8, <1>9, <2>2, <3>1 DEF Has
    <3>2. CASE made = 5
      <4>1. launcher[p].made > 0 /\ launcher[p].made >= 4
        BY <1>2, <1>7, <3>2
      <4>2. Has(o, "intent", "full")
        BY <1>1, <1>6, <2>1, <4>1 DEF RecordInv, HolderInv
      <4> QED
        BY <1>13, <4>2, CalmReads DEF IInv
    <3> QED
      BY <1>7, <3>1, <3>2
  <2>5. "full" \notin disk'[o].nostart /\ starts'[o] = 0
    BY <1>13, <1>20, <2>1, CalmReads DEF IInv
  <2>6. s.pc \in {"preparing", "reserving"} /\ s.made = made
    BY <1>17, <1>18
  <2> QED
    BY <2>1, <2>3, <2>4, <2>5, <2>6 DEF HolderInv
<1>23. /\ place \notin {"running", "markers", "intents"} \union Publishing \union Looking \union Reserved
       /\ place \in PastReconciliation /\ "preparing" \in PastReconciliation
  BY <1>18 DEF Publishing, Looking, Reserved, Launching, PastReconciliation, Preparing
<1>24. VerdictInv(s)'
  BY <1>17, <1>23 DEF VerdictInv, Publishing
<1>25. \A o \in s.before : BeforeInv(s, o)'
  <2>1. \A o \in s.before : o \in Operations /\ starts[o] > 0 /\ exit[o] = "PASS"
    BY <1>1, <1>17, <1>23, AtWork DEF BeforeInv, BeforeAt
  <2>2. starts' = starts /\ exit' = exit
    BY <1>1 DEF Quiet, child
  <2> QED
    BY <1>17, <1>23, <2>1, <2>2 DEF BeforeInv, BeforeAt
<1>26. RecordOK(s)'
  BY <1>19 DEF RecordOK
<1>27. RecordInv(s)'
  BY <1>17, <1>18, <1>22, <1>23, <1>24, <1>25, <1>26 DEF RecordInv
<1> QED
  BY <1>1, <1>12, <1>15, <1>17, <1>21, <1>27, CalmThen

LEMMA ReserveKeeps ==
    ASSUME IInv, NEW p \in Launchers, Reserve(p)
    PROVE  IInv'
<1>1. launcher[p].pc = "reserving" /\ Quiet /\ Goto(p, "prepared") /\ Sync(Op(p))
  BY QuietUnchanged DEF Reserve, Barrier, At
<1>2. /\ RecordInv(launcher[p]) /\ launcher[p] \in Record /\ launcher \in [Launchers -> Record]
      /\ Op(p) \in Operations /\ Op(p) \in Directories
      /\ \A o \in launcher[p].before : o \in Operations /\ BeforeInv(launcher[p], o)
  BY <1>1, AtWork
<1>3. PICK s : s = [launcher[p] EXCEPT !.pc = "prepared"]
  OBVIOUS
<1>4. PICK o \in Operations : o = Op(p)
  BY <1>2
<1>5. Moves(p, s)
  BY <1>1, <1>2, <1>3, GotoMoves
<1>6. "prepared" \in Places
  BY DEF Places, Launching
<1>7. /\ s \in Record /\ s.pc = "prepared" /\ s.op = o /\ s.made = launcher[p].made
      /\ s.before = launcher[p].before
  BY <1>2, <1>3, <1>4, <1>6, PlaceReads DEF Op
<1>8. launcher[p].made = 5 /\ HolderInv(launcher[p])
  BY <1>1, <1>2 DEF RecordInv
<1>9. CalmFiles
  BY <1>1, <1>2, CalmSync DEF IInv
<1>10. Calm(o)
  BY <1>1, <1>9 DEF CalmFiles, Calm, Quiet, child
<1>11. /\ ~Free(o, "marker") /\ Has(o, "intent", "full")
       /\ "full" \notin disk[o].nostart /\ starts[o] = 0
  BY <1>1, <1>4, <1>8 DEF HolderInv, Op, Publishing
<1>12. disk'[o].marker = {files[o].marker} /\ disk'[o].intent = {files[o].intent}
  BY <1>1, <1>2, <1>4, SyncReads, NameFacts DEF IInv
<1>13. Durable(o)'
  BY <1>11, <1>12 DEF Durable, Free, Has
<1>14. /\ ~Free(o, "marker")' /\ "full" \notin disk'[o].nostart /\ starts'[o] = 0
  BY <1>10, <1>11, CalmReads DEF IInv
<1>15. /\ "prepared" \in Reserved
       /\ "prepared" \notin {"running", "markers", "intents"} \union Publishing \union Looking
       /\ {"prepared", "reserving"} \subseteq PastReconciliation
  BY DEF Reserved, Publishing, Looking, Launching, PastReconciliation, Preparing
<1>16. HolderInv(s)'
  BY <1>7, <1>14, <1>15 DEF HolderInv
<1>17. VerdictInv(s)'
  BY <1>7, <1>15 DEF VerdictInv, Publishing
<1>18. \A a \in s.before : BeforeInv(s, a)'
  <2>1. \A a \in s.before : a \in Operations /\ starts[a] > 0 /\ exit[a] = "PASS"
    BY <1>1, <1>2, <1>7, <1>15 DEF BeforeInv, BeforeAt
  <2>2. starts' = starts /\ exit' = exit
    BY <1>1 DEF Quiet, child
  <2> QED
    BY <1>7, <1>15, <2>1, <2>2 DEF BeforeInv, BeforeAt
<1>19. RecordOK(s)'
  BY <1>7, <1>15 DEF RecordOK
<1>20. RecordInv(s)'
  BY <1>7, <1>8, <1>13, <1>15, <1>16, <1>17, <1>18, <1>19 DEF RecordInv
<1>21. \A q \in Launchers : q # p /\ launcher[q].made > 0 /\ s.made > 0 => s.op # Op(q)
  BY <1>4, <1>7, <1>8 DEF IInv, OneHolder
<1> QED
  BY <1>1, <1>5, <1>9, <1>20, <1>21, CalmThen

LEMMA PreparationFailsKeeps ==
    ASSUME IInv, NEW p \in Launchers, PreparationFails(p)
    PROVE  IInv'
<1>1. /\ launcher[p].pc \in {"preparing", "reserving"}
      /\ launcher' = [launcher EXCEPT ![p] = [@ EXCEPT !.pc = "unwinding", !.undone = 1]]
      /\ CalmFiles /\ Quiet
  BY CalmUnchanged, QuietUnchanged DEF PreparationFails, At, IInv
<1>2. /\ RecordInv(launcher[p]) /\ launcher[p] \in Record
      /\ Op(p) \in Operations
      /\ \A o \in launcher[p].before : o \in Operations /\ BeforeInv(launcher[p], o)
  BY <1>1, AtWork
<1>3. PICK s : s = [launcher[p] EXCEPT !.pc = "unwinding", !.undone = 1]
  OBVIOUS
<1>4. Moves(p, s)
  BY <1>1, <1>3 DEF Moves
<1>5. "unwinding" \in Places
  BY DEF Places, Leaving
<1>6. /\ s \in Record /\ s.pc = "unwinding" /\ s.op = Op(p) /\ s.made = launcher[p].made
      /\ s.before = launcher[p].before
  <2>1. launcher[p] \in Record /\ 1 \in 0..5
    BY <1>2
  <2> QED
    BY <1>3, <1>5, <2>1 DEF Record, Op
<1>7. "unwinding" \notin {"running", "markers", "intents", "reserving"} \union Publishing
                         \union Looking \union Reserved \union PastReconciliation
  BY DEF Reserved, Publishing, Looking, Launching, PastReconciliation, Preparing
<1>8. RecordOK(s)
  BY <1>2, <1>6, <1>7 DEF RecordOK
<1>9. launcher[p].made > 0 => HolderInv(s)
  BY <1>1, <1>2, <1>6, <1>7 DEF RecordInv, HolderInv, Op, Publishing
<1>10. VerdictInv(s)
  BY <1>6, <1>7 DEF VerdictInv, Publishing
<1>11. \A o \in s.before : BeforeInv(s, o)
  BY <1>2, <1>6, <1>7 DEF BeforeInv, BeforeAt
<1>12. RecordInv(s)
  BY <1>6, <1>7, <1>8, <1>9, <1>10, <1>11 DEF RecordInv
<1> QED
  BY <1>1, <1>4, <1>6, <1>12, CalmStep

-----------------------------------------------------------------------------
(***************************************************************************)
(* Cleanup.                                                                *)
(***************************************************************************)
LEMMA ClearKeeps ==
    ASSUME IInv, NEW p \in Launchers, Clear(p)
    PROVE  IInv'
<1>1. PICK proven \in BOOLEAN :
         /\ At(p, IF proven THEN "clearing proven" ELSE "clearing")
         /\ IF Unresolved(Op(p)) \/ Has(Op(p), "start", "full")
            THEN End(p) /\ UNCHANGED storage
            ELSE /\ Unlink(Op(p), "request")
                 /\ Goto(p, IF proven THEN "marking proven" ELSE "marking")
         /\ Quiet
  BY QuietUnchanged DEF Clear
<1>2. launcher[p].pc = (IF proven THEN "clearing proven" ELSE "clearing")
  BY <1>1 DEF At
<1>3. /\ RecordInv(launcher[p]) /\ launcher[p] \in Record
      /\ Op(p) \in Operations /\ Op(p) \in Directories
      /\ \A o \in launcher[p].before : o \in Operations /\ BeforeInv(launcher[p], o)
  BY <1>2, AtWork
<1>4. CASE End(p) /\ UNCHANGED storage
  BY <1>1, <1>4, CalmUnchanged, EndStep DEF IInv
<1>5. CASE Unlink(Op(p), "request") /\ Goto(p, IF proven THEN "marking proven" ELSE "marking")
  <2>1. CalmFiles
    BY <1>3, <1>5, NamesAssumption, CalmPut, NameFacts DEF Unlink, IInv, Versions, Telling, Harmless
  <2>2. CASE proven
    <3>1. Goto(p, "marking proven") /\ launcher[p].pc = "clearing proven"
      BY <1>2, <1>5, <2>2
    <3> QED
      BY <1>1, <2>1, <3>1, WaitingGoto DEF Waiting, Launching
  <2>3. CASE ~proven
    <3>1. Goto(p, "marking") /\ launcher[p].pc = "clearing"
      BY <1>2, <1>5, <2>3
    <3>2. PICK s : s = [launcher[p] EXCEPT !.pc = "marking"]
      OBVIOUS
    <3>3. "marking" \in Places
      BY DEF Places, Leaving
    <3>4. launcher[p] \in Record
      BY <1>3
    <3>5. /\ s \in Record /\ s.pc = "marking" /\ s.op = Op(p) /\ s.made = launcher[p].made
          /\ s.before = launcher[p].before
      BY <3>2, <3>3, <3>4, PlaceReads DEF Op
    <3>6. {"marking", "clearing"} \intersect
             ({"running", "markers", "intents", "reserving", "preparing"} \union Publishing
              \union Looking \union Reserved \union PastReconciliation) = {}
      BY DEF Reserved, Publishing, Looking, Launching, PastReconciliation, Preparing
    <3>7. RecordOK(s)
      BY <1>3, <3>5, <3>6 DEF RecordOK
    <3>8. launcher[p].made > 0 => HolderInv(s)
      BY <1>3, <3>1, <3>5, <3>6 DEF RecordInv, HolderInv, Op
    <3>9. VerdictInv(s)
      BY <3>5, <3>6 DEF VerdictInv, Publishing
    <3>10. \A o \in s.before : BeforeInv(s, o)
      BY <1>3, <3>5, <3>6 DEF BeforeInv, BeforeAt
    <3>11. RecordInv(s)
      BY <3>5, <3>6, <3>7, <3>8, <3>9, <3>10 DEF RecordInv
    <3> QED
      BY <1>1, <2>1, <3>1, <3>2, <3>3, <3>11, GoStep
  <2> QED
    BY <2>2, <2>3
<1> QED
  BY <1>1, <1>4, <1>5

LEMMA MarkKeeps ==
    ASSUME IInv, NEW p \in Launchers, Mark(p)
    PROVE  IInv'
<1>1. launcher[p].pc \in {"marking", "marking proven"} /\ Quiet
  BY QuietUnchanged DEF Mark, At
<1>2. Op(p) \in Directories
  BY <1>1, AtWork
<1>3. CalmFiles
  BY <1>2, NamesAssumption, CalmPut, NameFacts DEF Mark, IInv, Versions, Harmless
<1>4. CASE End(p)
  BY <1>1, <1>3, <1>4, EndStep
<1>5. CASE At(p, "marking proven") /\ Goto(p, "no start proven")
  BY <1>1, <1>3, <1>5, WaitingGoto DEF At, Waiting, Launching
<1> QED
  BY <1>4, <1>5 DEF Mark

-----------------------------------------------------------------------------
(***************************************************************************)
(* Publication.                                                            *)
(***************************************************************************)
LEMMA PublishGoto ==
    ASSUME IInv, NEW p \in Launchers, launcher[p].pc \in Publishing,
           NEW place \in Publishing, Goto(p, place),
           NEW s, s = [launcher[p] EXCEPT !.pc = place], VerdictInv(s)',
           CalmFiles, Quiet
    PROVE  IInv'
<1>1. /\ launcher[p].pc \in Reserved /\ launcher[p].pc \notin {"idle", "staged", "ended"}
      /\ launcher[p].pc \in PastReconciliation
      /\ place \in Reserved /\ place \in Places /\ place \in PastReconciliation
      /\ place \notin {"intents", "markers", "preparing", "running"} \union Looking
  BY DEF Reserved, Launching, Publishing, Places, Looking, PastReconciliation
<1>2. /\ RecordInv(launcher[p]) /\ launcher[p] \in Record /\ launcher \in [Launchers -> Record]
      /\ Op(p) \in Operations
      /\ \A o \in launcher[p].before : o \in Operations /\ BeforeInv(launcher[p], o)
  BY <1>1, AtWork
<1>3. place \in Places /\ launcher[p] \in Record
  BY <1>1, <1>2
<1>4. /\ s \in Record /\ s.pc = place /\ s.op = Op(p)
      /\ s.made = launcher[p].made /\ s.before = launcher[p].before
  BY <1>3, PlaceReads DEF Op
<1>5. PICK o \in Operations : o = Op(p)
  BY <1>2
<1>6. launcher[p].made = 5 /\ Durable(o) /\ HolderInv(launcher[p])
  BY <1>1, <1>2, <1>5 DEF RecordInv, Op
<1>7. Calm(o)
  BY DEF CalmFiles, Calm, Quiet, child
<1>8. /\ Durable(o)' /\ ~Free(o, "marker")' /\ "full" \notin disk'[o].nostart
  BY <1>5, <1>6, <1>7, CalmReads DEF IInv, HolderInv, Op
<1>9. HolderInv(s)'
  BY <1>1, <1>4, <1>5, <1>8 DEF HolderInv, Publishing
<1>10. \A a \in s.before : BeforeInv(s, a)'
  <2>1. \A a \in s.before : a \in Operations /\ starts[a] > 0 /\ exit[a] = "PASS"
    BY <1>1, <1>2, <1>4 DEF BeforeInv, BeforeAt
  <2>2. starts' = starts /\ exit' = exit
    BY DEF Quiet, child
  <2> QED
    BY <1>1, <1>4, <2>1, <2>2 DEF BeforeInv, BeforeAt
<1>11. RecordOK(s)'
  BY <1>1, <1>2, <1>4 DEF RecordOK
<1>12. RecordInv(s)'
  BY <1>1, <1>4, <1>5, <1>6, <1>8, <1>9, <1>10, <1>11 DEF RecordInv
<1>13. \A q \in Launchers : q # p /\ launcher[q].made > 0 /\ s.made > 0 => s.op # Op(q)
  BY <1>4, <1>6 DEF IInv, OneHolder
<1>14. Moves(p, s)
  BY <1>2, GotoMoves
<1> QED
  BY <1>12, <1>13, <1>14, CalmThen

Unlinked == {"pending", "pending synced"}
Linked == {"linked synced", "published"}

\* What a launcher knows of its verdict until the terminal is linked.
LEMMA UnlinkedVerdict ==
    ASSUME IInv, NEW p \in Launchers, launcher[p].pc \in {"exited", "pending"},
           NEW place \in Unlinked,
           NEW s, s = [launcher[p] EXCEPT !.pc = place], CalmFiles, Quiet
    PROVE  VerdictInv(s)'
<1>1. /\ launcher[p].pc \notin {"idle", "staged", "ended"} /\ place \in Places
      /\ launcher[p].pc \in Publishing \ {"doubt", "doubt recorded"}
  BY DEF Unlinked, Places, Publishing
<1>2. RecordInv(launcher[p]) /\ launcher[p] \in Record /\ Op(p) \in Operations
  BY <1>1, AtWork
<1>3. place \in Places /\ launcher[p] \in Record
  BY <1>1, <1>2
<1>4. s.pc = place /\ s.op = Op(p) /\ s.result = launcher[p].result
  BY <1>3, PlaceReads DEF Op
<1>5. PICK o \in Operations : o = Op(p)
  BY <1>2
<1>6. /\ Fresh(o) /\ starts[o] > 0 /\ s.result \in Verdicts
      /\ s.result = "PASS" => exit[o] = "PASS"
  BY <1>1, <1>2, <1>4, <1>5 DEF RecordInv, VerdictInv, Op
<1>7. Calm(o)
  BY DEF CalmFiles, Calm, Quiet, child
<1>8. Fresh(o)' /\ exit'[o] = exit[o] /\ starts'[o] = starts[o]
  BY <1>6, <1>7, CalmReads DEF IInv
<1> QED
  BY <1>4, <1>5, <1>6, <1>8 DEF VerdictInv, Unlinked

LEMMA PutPendingKeeps ==
    ASSUME IInv, NEW p \in Launchers, PutPending(p)
    PROVE  IInv'
<1>1. launcher[p].pc = "exited" /\ Quiet /\ Goto(p, "pending")
  BY QuietUnchanged DEF PutPending, At
<1>2. Op(p) \in Directories
  BY <1>1, AtWork
<1>3. CalmFiles
  BY <1>2, NamesAssumption, CalmPut, NameFacts DEF PutPending, Create, IInv, Versions, Telling, Harmless
<1>4. PICK s : s = [launcher[p] EXCEPT !.pc = "pending"]
  OBVIOUS
<1>5. VerdictInv(s)'
  BY <1>1, <1>3, <1>4, UnlinkedVerdict DEF Unlinked
<1> QED
  BY <1>1, <1>3, <1>4, <1>5, PublishGoto DEF Publishing

LEMMA SyncPendingKeeps ==
    ASSUME IInv, NEW p \in Launchers, SyncPending(p)
    PROVE  IInv'
<1>1. launcher[p].pc = "pending" /\ Quiet /\ Goto(p, "pending synced") /\ Sync(Op(p))
  BY QuietUnchanged DEF SyncPending, Barrier, At
<1>2. Op(p) \in Operations
  BY <1>1, AtWork
<1>3. CalmFiles
  BY <1>1, <1>2, CalmSync DEF IInv
<1>4. PICK s : s = [launcher[p] EXCEPT !.pc = "pending synced"]
  OBVIOUS
<1>5. VerdictInv(s)'
  BY <1>1, <1>3, <1>4, UnlinkedVerdict DEF Unlinked
<1> QED
  BY <1>1, <1>3, <1>4, <1>5, PublishGoto DEF Publishing

\* The terminal is on disk once its directory is.
LEMMA LinkedVerdict ==
    ASSUME IInv, NEW p \in Launchers,
           NEW place \in Linked,
           launcher[p].pc = "linked" \/ launcher[p].pc = "linked synced",
           NEW s, s.pc = place, s.op = Op(p), s.result = launcher[p].result,
           disk'[Op(p)].terminal = {launcher[p].result}, UNCHANGED child
    PROVE  VerdictInv(s)'
<1>1. /\ launcher[p].pc \notin {"idle", "staged", "ended"}
      /\ launcher[p].pc \in Publishing \ {"doubt", "doubt recorded"}
  BY DEF Publishing
<1>2. RecordInv(launcher[p]) /\ launcher[p] \in Record
  BY <1>1, AtWork
<1>3. PICK o : o = Op(p)
  OBVIOUS
<1>4. /\ s.result \in Verdicts
      /\ s.result = "PASS" => exit[o] = "PASS"
  BY <1>1, <1>2, <1>3 DEF RecordInv, VerdictInv, Op
<1>5. disk'[o].terminal = {s.result} /\ exit'[o] = exit[o]
  BY <1>3 DEF child
<1> QED
  BY <1>3, <1>4, <1>5 DEF VerdictInv, Linked

LEMMA SyncTerminalKeeps ==
    ASSUME IInv, NEW p \in Launchers, SyncTerminal(p)
    PROVE  IInv'
<1>1. launcher[p].pc = "linked" /\ Quiet /\ Goto(p, "linked synced") /\ Sync(Op(p))
  BY QuietUnchanged DEF SyncTerminal, Barrier, At
<1>2. RecordInv(launcher[p]) /\ Op(p) \in Operations /\ Op(p) \in Directories
  BY <1>1, AtWork
<1>3. CalmFiles
  BY <1>1, <1>2, CalmSync DEF IInv
<1>4. PICK place \in Places : place = "linked synced"
  BY DEF Places, Publishing
<1>5. PICK s : s = [launcher[p] EXCEPT !.pc = place]
  OBVIOUS
<1>6. files[Op(p)].terminal = launcher[p].result
  BY <1>1, <1>2 DEF RecordInv, VerdictInv, Has, Op
<1>7. disk'[Op(p)].terminal = {files[Op(p)].terminal}
  BY <1>1, <1>2, SyncReads, NameFacts DEF IInv
<1>8. launcher[p] \in Record
  BY AtWork
<1>9. s.pc = place /\ s.op = Op(p) /\ s.result = launcher[p].result
  BY <1>5, <1>8, PlaceReads DEF Op
<1>10. VerdictInv(s)'
  BY <1>1, <1>4, <1>9, <1>6, <1>7, LinkedVerdict DEF Quiet, Linked
<1> QED
  BY <1>1, <1>4, <1>3, <1>5, <1>10, PublishGoto DEF Publishing

LEMMA DropPendingKeeps ==
    ASSUME IInv, NEW p \in Launchers, DropPending(p)
    PROVE  IInv'
<1>1. launcher[p].pc = "linked synced" /\ Quiet /\ Goto(p, "published")
      /\ Put(Op(p), "pending", "none")
  BY QuietUnchanged DEF DropPending, At, Unlink
<1>2. RecordInv(launcher[p]) /\ Op(p) \in Directories
  BY <1>1, AtWork
<1>3. /\ "pending" \in Names /\ "terminal" \in Names /\ "none" \in Versions
      /\ Harmless(Op(p), "pending", "none")
  BY NameFacts DEF Versions, Telling, Harmless
<1>4. CalmFiles /\ Sets(Op(p), "pending", "none")
  BY <1>1, <1>2, <1>3, NamesAssumption, CalmPut, PutReads DEF IInv
<1>5. PICK s : s = [launcher[p] EXCEPT !.pc = "published"]
  OBVIOUS
<1>6. disk[Op(p)].terminal = {launcher[p].result}
  BY <1>1, <1>2 DEF RecordInv, VerdictInv, Op
<1>7. disk'[Op(p)].terminal = disk[Op(p)].terminal
  BY <1>2, <1>3, <1>4 DEF Sets
<1>8. "published" \in Places /\ launcher[p] \in Record
  BY <1>1, AtWork DEF Places, Publishing
<1>9. s.pc = "published" /\ s.op = Op(p) /\ s.result = launcher[p].result
  BY <1>5, <1>8, PlaceReads DEF Op
<1>10. VerdictInv(s)'
  BY <1>1, <1>9, <1>6, <1>7, LinkedVerdict DEF Quiet, Linked
<1> QED
  BY <1>1, <1>4, <1>5, <1>10, PublishGoto DEF Publishing

-----------------------------------------------------------------------------
(***************************************************************************)
(* Steps that change what is said of the operation that the launcher holds.*)
(***************************************************************************)
LEMMA OwnStep ==
    ASSUME IInv, NEW p \in Launchers, NEW o \in Operations, o = Op(p), launcher[p].made > 0,
           NEW r, Moves(p, r), RecordInv(r)', r.made > 0 => r.op = o,
           StorageTypeOK', RestTypeOK', Shown',
           \A a \in Operations : a # o => Calm(a),
           OperationInv(o)',
           starts[o] > 0 => starts'[o] > 0,
           exit[o] = "PASS" => exit'[o] = "PASS"
    PROVE  IInv'
<1>1. ASSUME NEW q \in Launchers, q # p, launcher[q].made > 0
      PROVE  Calm(Op(q)) /\ (r.made > 0 => r.op # Op(q))
  <2>1. Op(q) # o
    BY <1>1 DEF IInv, OneHolder
  <2>2. RecordInv(launcher[q])
    BY DEF IInv
  <2>3. RecordOK(launcher[q]) /\ HolderInv(launcher[q])
    BY <1>1, <2>2 DEF RecordInv
  <2>4. launcher[q].pc \notin {"idle", "staged", "ended"}
    BY <2>3 DEF HolderInv, Reserved, Launching, Publishing
  <2>5. Op(q) \in Operations
    BY <2>3, <2>4 DEF RecordOK, Op
  <2> QED
    BY <2>1, <2>5
<1>2. /\ \A a \in Operations : starts[a] > 0 => starts'[a] > 0
      /\ \A a \in Operations : exit[a] = "PASS" => exit'[a] = "PASS"
  BY DEF Calm
<1>3. /\ launcher' \in [Launchers -> Record] /\ OneHolder'
      /\ \A q \in Launchers : RecordInv(launcher[q])'
  BY <1>1, <1>2, OthersKeep
<1>4. \A a \in Operations : OperationInv(a)'
  BY CalmOperation DEF IInv
<1> QED
  BY <1>3, <1>4 DEF IInv

\* Writing one entry of an operation is calm for every other.
LEMMA PutElsewhere ==
    ASSUME IInv, NEW d \in Operations, NEW n \in Names, NEW v \in Versions, Put(d, n, v),
           UNCHANGED <<power, child, verdicts>>
    PROVE  /\ StorageTypeOK' /\ Shown' /\ RestTypeOK' /\ Sets(d, n, v)
           /\ \A a \in Operations : a # d => Calm(a)
<1>1. d \in Directories
  BY DEF Directories
<1>2. StorageTypeOK' /\ Shown' /\ Sets(d, n, v)
  BY <1>1, PutReads DEF IInv
<1>3. ASSUME NEW a \in Operations, a # d, NEW m \in Telling
      PROVE  Still(a, m)
  <2>1. a \in Directories /\ m \in Names
    BY NameFacts DEF Directories, Telling
  <2> QED
    BY <1>2, <1>3, <2>1 DEF Sets, Still
<1>4. \A a \in Operations : a # d => Calm(a)
  BY <1>3, StillCalm DEF Calm, CalmTold, child, verdicts
<1>5. RestTypeOK'
  BY DEF IInv, RestTypeOK, child, verdicts
<1> QED
  BY <1>2, <1>4, <1>5

LEMMA UnwindKeeps ==
    ASSUME IInv, NEW p \in Launchers, Unwind(p)
    PROVE  IInv'
<1>1. launcher[p].pc = "unwinding" /\ UNCHANGED <<power, child, verdicts>>
  BY DEF Unwind, At
<1>2. /\ RecordInv(launcher[p]) /\ launcher[p] \in Record
      /\ Op(p) \in Operations /\ Op(p) \in Directories
      /\ \A a \in launcher[p].before : a \in Operations /\ BeforeInv(launcher[p], a)
  BY <1>1, AtWork
<1>3. {"unwinding", "clearing"} \intersect
         ({"running", "markers", "intents", "reserving", "preparing"} \union Publishing
          \union Looking \union Reserved \union PastReconciliation) = {}
  BY DEF Reserved, Publishing, Looking, Launching, PastReconciliation, Preparing
<1>4. CASE Goto(p, "clearing") /\ UNCHANGED storage
  <2>1. CalmFiles /\ Quiet
    BY <1>1, <1>4, CalmUnchanged, QuietUnchanged DEF IInv
  <2>2. PICK s : s = [launcher[p] EXCEPT !.pc = "clearing"]
    OBVIOUS
  <2>3. "clearing" \in Places /\ launcher[p] \in Record
    BY <1>2 DEF Places, Leaving
  <2>4. /\ s \in Record /\ s.pc = "clearing" /\ s.op = Op(p) /\ s.made = launcher[p].made
        /\ s.before = launcher[p].before
    BY <2>2, <2>3, PlaceReads DEF Op
  <2>5. RecordOK(s)
    BY <1>2, <1>3, <2>4 DEF RecordOK
  <2>6. launcher[p].made > 0 => HolderInv(s)
    BY <1>1, <1>2, <1>3, <2>4 DEF RecordInv, HolderInv, Op
  <2>7. VerdictInv(s)
    BY <1>3, <2>4 DEF VerdictInv, Publishing
  <2>8. \A a \in s.before : BeforeInv(s, a)
    BY <1>2, <1>3, <2>4 DEF BeforeInv, BeforeAt
  <2>9. RecordInv(s)
    BY <1>3, <2>4, <2>5, <2>6, <2>7, <2>8 DEF RecordInv
  <2> QED
    BY <1>4, <2>1, <2>2, <2>3, <2>9, GoStep
<1>5. ASSUME NEW next, next = launcher[p].undone + 1,
             next \in Undoable, next <= launcher[p].made,
             Unlink(Op(p), Preparation[next]),
             launcher' = [launcher EXCEPT ![p].undone = next]
      PROVE  IInv'
  <2>1. PICK o \in Operations : o = Op(p) /\ launcher[p].op = o
    BY <1>2 DEF Op
  <2>2. PICK n : n = Preparation[next]
    OBVIOUS
  <2>3. next \in 0..5 /\ n \in {"start", "input", "intent"} /\ launcher[p].made > 0
    BY <1>2, <1>5, <2>2, PreparationFacts DEF Record
  <2>4. n \in Names /\ "none" \in Versions /\ Put(o, n, "none")
    BY <1>5, <2>1, <2>2, <2>3, NameFacts DEF Versions, Unlink
  <2>5. /\ StorageTypeOK' /\ Shown' /\ RestTypeOK' /\ Sets(o, n, "none")
        /\ \A a \in Operations : a # o => Calm(a)
    BY <1>1, <2>4, PutElsewhere
  <2>6. /\ disk'[o].marker = disk[o].marker /\ files'[o].marker = files[o].marker
        /\ disk'[o].terminal = disk[o].terminal /\ disk'[o].nostart = disk[o].nostart
    BY <1>2, <2>1, <2>3, <2>5, NameFacts DEF Sets
  <2>7. starts' = starts /\ exit' = exit /\ told' = told /\ answered' = answered
    BY <1>1 DEF child, verdicts
  <2>8. HolderInv(launcher[p]) /\ starts[o] = 0
    BY <1>1, <1>2, <1>3, <2>1, <2>3 DEF RecordInv, HolderInv
  <2>9. OperationInv(o)'
    <3>1. OperationInv(o)
      BY DEF IInv
    <3>2. Seen(o)' = Seen(o)
      BY <2>6, <2>7 DEF Seen
    <3>3. Fresh(o) => Fresh(o)'
      BY <2>6, <2>7 DEF Fresh
    <3>4. ~(starts'[o] > 0) /\ starts'[o] = 0
      BY <2>7, <2>8
    <3> QED
      BY <2>6, <2>7, <2>8, <3>1, <3>2, <3>3, <3>4 DEF OperationInv
  <2>10. PICK s : s = [launcher[p] EXCEPT !.undone = next]
    OBVIOUS
  <2>11. Moves(p, s)
    BY <1>5, <2>10, AtWork DEF Moves
  <2>12. launcher[p] \in Record
    BY <1>2
  <2>13. /\ s \in Record /\ s.pc = "unwinding" /\ s.op = o /\ s.made = launcher[p].made
         /\ s.before = launcher[p].before
    BY <1>1, <2>1, <2>3, <2>10, <2>12 DEF Record
  <2>14. HolderInv(s)'
    BY <1>3, <2>1, <2>6, <2>7, <2>8, <2>13 DEF HolderInv, Free, Has
  <2>15. RecordOK(s)'
    BY <1>3, <2>13 DEF RecordOK
  <2>16. VerdictInv(s)'
    BY <1>3, <2>13 DEF VerdictInv, Publishing
  <2>17. \A a \in s.before : BeforeInv(s, a)'
    <3>1. \A a \in s.before : starts[a] > 0
      BY <1>2, <2>13 DEF BeforeInv, BeforeAt
    <3> QED
      BY <1>3, <2>7, <2>13, <3>1 DEF BeforeInv, BeforeAt
  <2>18. RecordInv(s)'
    BY <1>3, <2>13, <2>14, <2>15, <2>16, <2>17 DEF RecordInv
  <2> QED
    BY <2>1, <2>3, <2>5, <2>7, <2>9, <2>11, <2>13, <2>18, OwnStep
<1> QED
  BY <1>4, <1>5 DEF Unwind

LEMMA RecordNoStartKeeps ==
    ASSUME IInv, NEW p \in Launchers, RecordNoStart(p)
    PROVE  IInv'
<1>1. /\ launcher[p].pc = "no start proven" /\ End(p)
      /\ UNCHANGED <<power, child, verdicts>>
  BY DEF RecordNoStart, At
<1>2. RecordInv(launcher[p]) /\ Op(p) \in Operations
  BY <1>1, AtWork
<1>3. CASE UNCHANGED storage
  BY <1>1, <1>3, CalmUnchanged, QuietUnchanged, EndStep DEF IInv
<1>4. CASE Create(Op(p), "nostart", "full")
  <2>1. PICK o \in Operations : o = Op(p) /\ launcher[p].op = o
    BY <1>2 DEF Op
  <2>2. "no start proven" \in Reserved /\ "no start proven" \notin {"running"} \union Publishing
    BY DEF Reserved, Publishing
  <2>3. launcher[p].made = 5 /\ Durable(launcher[p].op)
    BY <1>1, <1>2, <2>2 DEF RecordInv
  <2>4. launcher[p].made > 0
    BY <2>3
  <2>5. launcher[p].made = 5 /\ Durable(o) /\ HolderInv(launcher[p])
    BY <1>2, <2>1, <2>3, <2>4 DEF RecordInv
  <2>6. starts[o] = 0
    BY <1>1, <2>1, <2>2, <2>5 DEF HolderInv
  <2>7. "nostart" \in Names /\ "full" \in Versions /\ Put(o, "nostart", "full")
    BY <1>4, <2>1, NameFacts DEF Versions, Create
  <2>8. /\ StorageTypeOK' /\ Shown' /\ RestTypeOK' /\ Sets(o, "nostart", "full")
        /\ \A a \in Operations : a # o => Calm(a)
    BY <1>1, <2>7, PutElsewhere
  <2>9. disk'[o].marker = disk[o].marker /\ disk'[o].terminal = disk[o].terminal
    BY <2>8, NameFacts DEF Sets, Directories
  <2>10. starts' = starts /\ exit' = exit /\ told' = told /\ answered' = answered
    BY <1>1 DEF child, verdicts
  <2>11. OperationInv(o)'
    <3>1. OperationInv(o)
      BY DEF IInv
    <3>2. Seen(o)' = Seen(o)
      BY <2>9, <2>10 DEF Seen
    <3>3. Fresh(o) => Fresh(o)'
      BY <2>9, <2>10 DEF Fresh
    <3>4. ~(starts'[o] > 0) /\ starts'[o] = 0 /\ "none" \notin disk'[o].marker
      BY <2>5, <2>6, <2>9, <2>10 DEF Durable
    <3> QED
      BY <2>9, <2>10, <2>6, <3>1, <3>2, <3>3, <3>4 DEF OperationInv
  <2>12. Moves(p, Ended) /\ RecordInv(Ended) /\ Ended.made = 0
    BY <1>1, EndMoves DEF Ended, Idle
  <2>13. PICK s : s = Ended
    OBVIOUS
  <2>14. RecordInv(s) /\ Moves(p, s) /\ s.made = 0
    BY <2>12, <2>13
  <2>15. RecordInv(s)'
    BY <2>10, <2>14, CalmRecord DEF IInv
  <2> QED
    BY <2>1, <2>5, <2>8, <2>10, <2>11, <2>14, <2>15, OwnStep
<1> QED
  BY <1>3, <1>4 DEF RecordNoStart

\* A step of a launcher that holds o, and goes to a place after its reservation.
LEMMA ReservedRecord ==
    ASSUME IInv, NEW p \in Launchers, launcher[p].pc \in Launching \union Publishing
    PROVE  /\ RecordInv(launcher[p]) /\ launcher[p] \in Record
           /\ launcher \in [Launchers -> Record]
           /\ Op(p) \in Operations
           /\ launcher[p].made = 5 /\ launcher[p].made > 0
           /\ Durable(launcher[p].op) /\ HolderInv(launcher[p]) /\ VerdictInv(launcher[p])
           /\ \A a \in launcher[p].before :
                 a \in Operations /\ starts[a] > 0 /\ exit[a] = "PASS"
<1>1. /\ launcher[p].pc \in Reserved /\ launcher[p].pc \notin {"idle", "staged", "ended"}
      /\ launcher[p].pc \in PastReconciliation
  BY DEF Reserved, Launching, Publishing, PastReconciliation
<1>2. /\ RecordInv(launcher[p]) /\ launcher[p] \in Record /\ Op(p) \in Operations
      /\ launcher \in [Launchers -> Record]
      /\ \A a \in launcher[p].before : a \in Operations /\ BeforeInv(launcher[p], a)
  BY <1>1, AtWork
<1>3. /\ launcher[p].made = 5
      /\ Durable(launcher[p].op) /\ VerdictInv(launcher[p])
  BY <1>1, <1>2 DEF RecordInv
<1>4. launcher[p].made > 0
  BY <1>3
<1>5. HolderInv(launcher[p])
  BY <1>2, <1>4 DEF RecordInv
<1>6. \A a \in launcher[p].before : starts[a] > 0 /\ exit[a] = "PASS"
  BY <1>1, <1>2 DEF BeforeInv, BeforeAt
<1> QED
  BY <1>2, <1>3, <1>4, <1>5, <1>6

\* What its record is then, once the verdict is seen to.
LEMMA ReservedThen ==
    ASSUME IInv, NEW p \in Launchers, launcher[p].pc \in Launching \union Publishing,
           NEW o \in Operations, o = Op(p),
           NEW s \in Record, s.pc \in {"running"} \union Publishing, s.op = o, s.made = 5,
           s.before = launcher[p].before,
           Durable(o)', ~Free(o, "marker")', "full" \notin disk'[o].nostart,
           VerdictInv(s)',
           \A a \in Operations : starts[a] > 0 => starts'[a] > 0,
           \A a \in Operations : exit[a] = "PASS" => exit'[a] = "PASS"
    PROVE  RecordInv(s)'
<1>1. /\ s.pc \in Reserved
      /\ s.pc \notin {"intents", "markers", "preparing", "reserving", "idle", "staged", "ended"}
                     \union Looking
  BY DEF Reserved, Launching, Publishing, Looking
<1>2. \A a \in s.before : BeforeInv(s, a)'
  <2>1. \A a \in s.before : a \in Operations /\ starts[a] > 0 /\ exit[a] = "PASS"
    BY ReservedRecord
  <2> QED
    BY <1>1, <2>1 DEF BeforeInv, BeforeAt
<1>3. HolderInv(s)'
  BY <1>1 DEF HolderInv
<1>4. RecordOK(s)'
  BY <1>1 DEF RecordOK
<1> QED
  BY <1>1, <1>2, <1>3, <1>4 DEF RecordInv

LEMMA StartKeeps ==
    ASSUME IInv, NEW p \in Launchers, Start(p)
    PROVE  IInv'
<1>1. /\ launcher[p].pc = "dispatched" /\ Goto(p, "running")
      /\ starts' = [starts EXCEPT ![Op(p)] = @ + 1]
      /\ files' = files /\ disk' = disk /\ power' = power /\ exit' = exit
      /\ told' = told /\ answered' = answered
  BY DEF Start, At, storage, verdicts
<1>2. /\ launcher[p].pc \in Launching /\ "running" \in Places
      /\ "dispatched" \notin {"running"} \union Publishing
  BY <1>1 DEF Launching, Publishing, Places
<1>3. /\ RecordInv(launcher[p]) /\ launcher[p] \in Record /\ launcher \in [Launchers -> Record]
      /\ Op(p) \in Operations /\ launcher[p].made = 5 /\ launcher[p].made > 0
      /\ Durable(launcher[p].op) /\ HolderInv(launcher[p])
  BY <1>2, ReservedRecord
<1>4. PICK o \in Operations : o = Op(p) /\ launcher[p].op = o
  BY <1>3 DEF Op
<1>5. starts[o] = 0 /\ "full" \notin disk[o].nostart /\ ~Free(o, "marker")
  BY <1>1, <1>2, <1>3, <1>4 DEF HolderInv
<1>6. OperationInv(o) /\ starts \in [Operations -> Nat]
  BY DEF IInv, RestTypeOK
<1>7. Fresh(o) /\ exit[o] = "none" /\ Durable(o)
  BY <1>3, <1>4, <1>5, <1>6 DEF OperationInv
<1>8. /\ starts' \in [Operations -> Nat] /\ starts'[o] = 1
      /\ \A a \in Operations : a # o => starts'[a] = starts[a]
  BY <1>1, <1>4, <1>5, <1>6
<1>9. StorageTypeOK' /\ RestTypeOK' /\ Shown'
  BY <1>1, <1>8 DEF IInv, StorageTypeOK, RestTypeOK, Shown
<1>10. \A a \in Operations : a # o => Calm(a)
  BY <1>1, <1>8 DEF Calm, CalmStorage, CalmTold, Still
<1>11. Fresh(o)' /\ Durable(o)' /\ ~Free(o, "marker")' /\ "full" \notin disk'[o].nostart
  BY <1>1, <1>5, <1>7 DEF Fresh, Durable, Free, Has
<1>12. OperationInv(o)'
  <2>1. disk'[o].terminal = {"none"} /\ told'[o] = {} /\ answered'[o] = "none"
    BY <1>11 DEF Fresh
  <2> QED
    BY <1>8, <1>11, <2>1 DEF OperationInv, Seen
<1>13. PICK s : s = [launcher[p] EXCEPT !.pc = "running"]
  OBVIOUS
<1>14. Moves(p, s)
  BY <1>1, <1>3, <1>13, GotoMoves
<1>15. launcher[p] \in Record /\ "running" \in Places
  BY <1>2, <1>3
<1>16. /\ s \in Record /\ s.pc = "running" /\ s.op = launcher[p].op /\ s.made = launcher[p].made
       /\ s.before = launcher[p].before
  BY <1>13, <1>15, PlaceReads
<1>17. s.op = o /\ s.made = 5
  BY <1>3, <1>4, <1>16
<1>18. VerdictInv(s)'
  BY <1>1, <1>7, <1>8, <1>11, <1>16, <1>17 DEF VerdictInv, Publishing
<1>19. /\ \A a \in Operations : starts[a] > 0 => starts'[a] > 0
       /\ \A a \in Operations : exit[a] = "PASS" => exit'[a] = "PASS"
  BY <1>1, <1>8
<1>20. RecordInv(s)'
  BY <1>2, <1>4, <1>11, <1>16, <1>17, <1>18, <1>19, ReservedThen
<1> QED
  BY <1>3, <1>4, <1>9, <1>10, <1>12, <1>14, <1>17, <1>19, <1>20, OwnStep

LEMMA ExitKeeps ==
    ASSUME IInv, NEW p \in Launchers, Exit(p)
    PROVE  IInv'
<1>1. PICK verdict \in Verdicts :
         /\ exit' = [exit EXCEPT ![Op(p)] = verdict]
         /\ launcher' = [launcher EXCEPT ![p] = [@ EXCEPT
               !.pc = "exited",
               !.result = IF Receipts(Op(p)) THEN verdict ELSE "FAIL"]]
  BY DEF Exit
<1>2. /\ launcher[p].pc = "running"
      /\ files' = files /\ disk' = disk /\ power' = power /\ starts' = starts
      /\ told' = told /\ answered' = answered
  BY DEF Exit, At, storage, verdicts
<1>3. /\ launcher[p].pc \in Launching /\ "exited" \in Places /\ "exited" \in Publishing
  BY <1>2 DEF Launching, Publishing, Places
<1>4. /\ RecordInv(launcher[p]) /\ launcher[p] \in Record /\ launcher \in [Launchers -> Record]
      /\ Op(p) \in Operations /\ launcher[p].made = 5 /\ launcher[p].made > 0
      /\ Durable(launcher[p].op) /\ HolderInv(launcher[p]) /\ VerdictInv(launcher[p])
  BY <1>3, ReservedRecord
<1>5. PICK o \in Operations : o = Op(p) /\ launcher[p].op = o
  BY <1>4 DEF Op
<1>6. /\ Fresh(o) /\ starts[o] > 0 /\ exit[o] = "none" /\ Durable(o)
      /\ "full" \notin disk[o].nostart /\ ~Free(o, "marker")
  BY <1>2, <1>4, <1>5 DEF VerdictInv, HolderInv
<1>7. OperationInv(o) /\ exit \in [Operations -> Verdicts \union {"none"}]
  BY DEF IInv, RestTypeOK
<1>8. /\ exit' \in [Operations -> Verdicts \union {"none"}] /\ exit'[o] = verdict
      /\ \A a \in Operations : a # o => exit'[a] = exit[a]
  BY <1>1, <1>5, <1>7
<1>9. StorageTypeOK' /\ RestTypeOK' /\ Shown'
  BY <1>2, <1>8 DEF IInv, StorageTypeOK, RestTypeOK, Shown
<1>10. \A a \in Operations : a # o => Calm(a)
  BY <1>2, <1>8 DEF Calm, CalmStorage, CalmTold, Still
<1>11. Fresh(o)' /\ Durable(o)' /\ ~Free(o, "marker")' /\ "full" \notin disk'[o].nostart
  BY <1>2, <1>6 DEF Fresh, Durable, Free, Has
<1>12. OperationInv(o)'
  <2>1. disk'[o].terminal = {"none"} /\ told'[o] = {} /\ answered'[o] = "none"
    BY <1>11 DEF Fresh
  <2>2. starts'[o] <= 1 /\ starts'[o] > 0 /\ starts'[o] # 0
    BY <1>2, <1>6, <1>7 DEF OperationInv
  <2> QED
    BY <1>11, <2>1, <2>2 DEF OperationInv, Seen
<1>13. PICK result : result = IF Receipts(Op(p)) THEN verdict ELSE "FAIL"
  OBVIOUS
<1>14. PICK s : s = [launcher[p] EXCEPT !.pc = "exited", !.result = result]
  OBVIOUS
<1>15. Moves(p, s)
  BY <1>1, <1>13, <1>14 DEF Moves
<1>16. result \in Verdicts /\ (result = "PASS" => verdict = "PASS")
  BY <1>13 DEF Verdicts
<1>17. launcher[p] \in Record /\ "exited" \in Places
  BY <1>3, <1>4
<1>18. /\ s \in Record /\ s.pc = "exited" /\ s.op = launcher[p].op /\ s.made = launcher[p].made
       /\ s.before = launcher[p].before /\ s.result = result
  BY <1>14, <1>16, <1>17 DEF Record
<1>19. s.op = o /\ s.made = 5
  BY <1>4, <1>5, <1>18
<1>20. VerdictInv(s)'
  BY <1>2, <1>6, <1>8, <1>11, <1>16, <1>18, <1>19 DEF VerdictInv
<1>21. /\ \A a \in Operations : starts[a] > 0 => starts'[a] > 0
       /\ \A a \in Operations : exit[a] = "PASS" => exit'[a] = "PASS"
  BY <1>2, <1>6, <1>8
<1>22. RecordInv(s)'
  BY <1>3, <1>5, <1>11, <1>18, <1>19, <1>20, <1>21, ReservedThen
<1> QED
  BY <1>4, <1>5, <1>9, <1>10, <1>12, <1>15, <1>19, <1>21, <1>22, OwnStep

LEMMA LinkTerminalKeeps ==
    ASSUME IInv, NEW p \in Launchers, LinkTerminal(p)
    PROVE  IInv'
<1>1. /\ launcher[p].pc = "pending synced"
      /\ Create(Op(p), "terminal", launcher[p].result)
      /\ Goto(p, "linked")
      /\ UNCHANGED <<power, child, verdicts>>
  BY DEF LinkTerminal, At
<1>2. launcher[p].pc \in Publishing \ {"doubt", "doubt recorded"} /\ "linked" \in Publishing /\ "linked" \in Places
  BY <1>1 DEF Publishing, Places
<1>3. /\ RecordInv(launcher[p]) /\ launcher[p] \in Record /\ launcher \in [Launchers -> Record]
      /\ Op(p) \in Operations /\ launcher[p].made = 5 /\ launcher[p].made > 0
      /\ Durable(launcher[p].op) /\ HolderInv(launcher[p]) /\ VerdictInv(launcher[p])
  BY <1>2, ReservedRecord
<1>4. PICK o \in Operations : o = Op(p) /\ launcher[p].op = o
  BY <1>3 DEF Op
<1>5. PICK v : v = launcher[p].result
  OBVIOUS
<1>6. /\ v \in Verdicts /\ (v = "PASS" => exit[o] = "PASS")
      /\ Fresh(o) /\ starts[o] > 0 /\ Durable(o)
      /\ "full" \notin disk[o].nostart /\ ~Free(o, "marker")
  BY <1>1, <1>2, <1>3, <1>4, <1>5 DEF VerdictInv, HolderInv
<1>7. /\ "terminal" \in Names /\ v \in Versions /\ Put(o, "terminal", v)
  BY <1>1, <1>4, <1>5, <1>6, NameFacts DEF Create, Verdicts, Versions
<1>8. /\ StorageTypeOK' /\ Shown' /\ RestTypeOK' /\ Sets(o, "terminal", v)
      /\ \A a \in Operations : a # o => Calm(a)
  BY <1>1, <1>7, PutElsewhere
<1>9. /\ files'[o].terminal = v /\ disk'[o].terminal = disk[o].terminal \union {v}
      /\ disk'[o].marker = disk[o].marker /\ files'[o].marker = files[o].marker
      /\ disk'[o].intent = disk[o].intent /\ disk'[o].nostart = disk[o].nostart
  BY <1>8, NameFacts DEF Sets, Directories
<1>10. starts' = starts /\ exit' = exit /\ told' = told /\ answered' = answered
  BY <1>1 DEF child, verdicts
<1>11. Durable(o)' /\ ~Free(o, "marker")' /\ "full" \notin disk'[o].nostart
  BY <1>6, <1>9 DEF Durable, Free, Has
<1>12. disk'[o].terminal = {"none", v} /\ told'[o] = {} /\ answered'[o] = "none"
  BY <1>6, <1>9, <1>10 DEF Fresh
<1>13. OperationInv(o)'
  <2>1. starts'[o] <= 1 /\ starts'[o] # 0
    BY <1>6, <1>10 DEF IInv, OperationInv
  <2>2. "PASS" \in Seen(o)' => exit'[o] = "PASS" /\ "FAIL" \notin Seen(o)'
    BY <1>6, <1>10, <1>12 DEF Seen, Verdicts
  <2> QED
    BY <1>6, <1>11, <1>12, <2>1, <2>2 DEF OperationInv, Verdicts
<1>14. PICK s : s = [launcher[p] EXCEPT !.pc = "linked"]
  OBVIOUS
<1>15. Moves(p, s)
  BY <1>1, <1>3, <1>14, GotoMoves
<1>16. launcher[p] \in Record /\ "linked" \in Places
  BY <1>2, <1>3
<1>17. /\ s \in Record /\ s.pc = "linked" /\ s.op = launcher[p].op /\ s.made = launcher[p].made
       /\ s.before = launcher[p].before /\ s.result = launcher[p].result
  BY <1>14, <1>16, PlaceReads
<1>18. s.op = o /\ s.made = 5 /\ s.result = v
  BY <1>3, <1>4, <1>5, <1>17
<1>19. VerdictInv(s)'
  BY <1>6, <1>9, <1>10, <1>17, <1>18 DEF VerdictInv, Has
<1>20. RecordInv(s)'
  BY <1>2, <1>4, <1>10, <1>11, <1>17, <1>18, <1>19, ReservedThen
<1> QED
  BY <1>3, <1>4, <1>8, <1>10, <1>13, <1>15, <1>18, <1>20, OwnStep

LEMMA AnswerKeeps ==
    ASSUME IInv, NEW p \in Launchers, Answer(p)
    PROVE  IInv'
<1>1. /\ launcher[p].pc = "published" /\ End(p)
      /\ told' = [told EXCEPT ![Op(p)] = @ \union {launcher[p].result}]
      /\ answered' = [answered EXCEPT ![Op(p)] = launcher[p].result]
      /\ files' = files /\ disk' = disk /\ power' = power
      /\ starts' = starts /\ exit' = exit
  BY DEF Answer, At, storage, child
<1>2. launcher[p].pc \in Publishing \ {"doubt", "doubt recorded"}
  BY <1>1 DEF Publishing
<1>3. /\ Op(p) \in Operations /\ launcher[p].made > 0 /\ VerdictInv(launcher[p])
  BY <1>2, ReservedRecord
<1>4. PICK o \in Operations : o = Op(p) /\ launcher[p].op = o
  BY <1>3 DEF Op
<1>5. PICK v : v = launcher[p].result
  OBVIOUS
<1>6. v \in Verdicts /\ disk[o].terminal = {v}
  BY <1>1, <1>2, <1>3, <1>4, <1>5 DEF VerdictInv
<1>7. OperationInv(o) /\ RestTypeOK
  BY DEF IInv
<1>8. /\ told' \in [Operations -> SUBSET Verdicts]
      /\ told'[o] = told[o] \union {v}
      /\ \A a \in Operations : a # o => told'[a] = told[a]
  BY <1>1, <1>4, <1>5, <1>6, <1>7 DEF RestTypeOK
<1>9. /\ answered' \in [Operations -> Verdicts \union {"none"}]
      /\ answered'[o] = v
      /\ \A a \in Operations : a # o => answered'[a] = answered[a]
  BY <1>1, <1>4, <1>5, <1>6, <1>7 DEF RestTypeOK
<1>10. StorageTypeOK' /\ RestTypeOK' /\ Shown'
  BY <1>1, <1>8, <1>9 DEF IInv, StorageTypeOK, RestTypeOK, Shown
<1>11. \A a \in Operations : a # o => Calm(a)
  BY <1>1, <1>8, <1>9 DEF Calm, CalmStorage, CalmTold, Still
<1>12. OperationInv(o)'
  <2>1. Seen(o)' = Seen(o)
    BY <1>1, <1>6, <1>8 DEF Seen
  <2>2. starts[o] # 0
    BY <1>6, <1>7 DEF OperationInv, Fresh, Verdicts
  <2>3. Durable(o) => Durable(o)'
    BY <1>1 DEF Durable
  <2> QED
    BY <1>1, <1>6, <1>7, <1>9, <2>1, <2>2, <2>3 DEF OperationInv
<1>13. Moves(p, Ended) /\ RecordInv(Ended) /\ Ended.made = 0
  BY <1>1, EndMoves DEF Ended, Idle
<1>14. PICK s : s = Ended
  OBVIOUS
<1>15. RecordInv(s) /\ Moves(p, s) /\ s.made = 0
  BY <1>13, <1>14
<1>16. RecordInv(s)'
  BY <1>1, <1>15, CalmRecord DEF IInv
<1> QED
  BY <1>1, <1>3, <1>4, <1>10, <1>11, <1>12, <1>15, <1>16, OwnStep

-----------------------------------------------------------------------------
(***************************************************************************)
(* Power.                                                                  *)
(***************************************************************************)

\* No launcher is at work while the power is off.
Dark == power = "off" => \A p \in Launchers : launcher[p] \in {Idle, Ended}

LEMMA Resting ==
    ASSUME NEW s, s \in {Idle, Ended}
    PROVE  RecordInv(s) /\ s.made = 0
<1>1. "idle" \in Places
  BY DEF Places
<1>2. "ended" \in Places
  BY DEF Places, Leaving
<1>3. /\ s.pc \in {"idle", "ended"} /\ s.made = 0 /\ s.before = {}
      /\ s \in Record
  BY <1>1, <1>2 DEF Ended, Idle, Record
<1>4. s.pc \notin Looking \union Reserved \union {"reserving", "intents"}
  BY <1>3 DEF Looking, Reserved, Launching, Publishing
<1>5. RecordOK(s)
  BY <1>3, <1>4 DEF RecordOK
<1> QED
  BY <1>3, <1>4, <1>5, EmptyHanded

\* Entries lose versions, and an operation keeps what it is.
LEMMA Shrinks ==
    ASSUME NEW o \in Operations, OperationInv(o),
           \A n \in Telling : disk'[o][n] \subseteq disk[o][n] /\ disk'[o][n] # {},
           UNCHANGED <<child, verdicts>>
    PROVE  OperationInv(o)'
<1>1. /\ disk'[o].marker \subseteq disk[o].marker
      /\ disk'[o].intent \subseteq disk[o].intent /\ disk'[o].intent # {}
      /\ disk'[o].terminal \subseteq disk[o].terminal /\ disk'[o].terminal # {}
      /\ disk'[o].nostart \subseteq disk[o].nostart
  BY DEF Telling
<1>2. starts' = starts /\ exit' = exit /\ told' = told /\ answered' = answered
  BY DEF child, verdicts
<1>3. Durable(o) => Durable(o)'
  BY <1>1 DEF Durable
<1>4. Fresh(o) => Fresh(o)'
  BY <1>1, <1>2 DEF Fresh
<1>5. Seen(o)' \subseteq Seen(o)
  BY <1>1, <1>2 DEF Seen
<1>6. answered[o] # "none" => disk'[o].terminal = {answered[o]}
  BY <1>1 DEF OperationInv
<1> QED
  BY <1>1, <1>2, <1>3, <1>4, <1>5, <1>6 DEF OperationInv

\* With every launcher at rest, only the operations matter.
LEMMA RestingStep ==
    ASSUME launcher' \in [Launchers -> {Idle, Ended}], Shown, UNCHANGED child,
           StorageTypeOK', RestTypeOK', Shown', \A o \in Operations : OperationInv(o)'
    PROVE  IInv'
<1>1. ASSUME NEW q \in Launchers
      PROVE  launcher'[q] \in Record /\ launcher'[q].made = 0 /\ RecordInv(launcher[q])'
  <2>1. PICK s : s = launcher'[q] /\ s \in {Idle, Ended}
    OBVIOUS
  <2>2. RecordInv(s) /\ s.made = 0
    BY <2>1, Resting
  <2>3. RecordInv(s)'
    BY <2>2, CalmRecord DEF child
  <2>4. RecordInv(launcher[q])'
    BY <2>1, <2>3, RecordThen
  <2>5. s \in Record
    BY <2>2 DEF RecordInv, RecordOK
  <2> QED
    BY <2>1, <2>2, <2>4, <2>5
<1>2. launcher' \in [Launchers -> Record]
  BY <1>1
<1>3. OneHolder'
  BY <1>1 DEF OneHolder
<1> QED
  BY <1>1, <1>2, <1>3 DEF IInv

LEMMA PowerLossKeeps ==
    ASSUME IInv, PowerLoss
    PROVE  IInv' /\ Dark'
<1>1. launcher' \in [Launchers -> {Idle, Ended}]
  BY DEF PowerLoss
<1>2. /\ files' = files /\ disk' = disk /\ power' = "off"
      /\ UNCHANGED <<child, verdicts>>
  BY DEF PowerLoss, storage
<1>3. StorageTypeOK' /\ RestTypeOK' /\ Shown' /\ Shown
  BY <1>2 DEF IInv, StorageTypeOK, RestTypeOK, Shown, child, verdicts
<1>4. \A o \in Operations : OperationInv(o)'
  <2>1. \A o \in Operations : Calm(o)
    BY <1>2 DEF Calm, CalmStorage, CalmTold, Still, child, verdicts
  <2> QED
    BY <2>1, CalmOperation DEF IInv
<1>5. IInv'
  BY <1>1, <1>2, <1>3, <1>4, RestingStep
<1> QED
  BY <1>1, <1>5 DEF Dark

LEMMA SettleKeeps ==
    ASSUME IInv, Dark, Settle
    PROVE  IInv' /\ Dark'
<1>1. PICK e \in Directories \X Names : \E v \in disk[e[1]][e[2]] :
         /\ files' = [files EXCEPT ![e[1]][e[2]] = v]
         /\ disk' = [disk EXCEPT ![e[1]][e[2]] = {v}]
  <2>1. (CHOOSE e \in Unsettled : TRUE) \in Unsettled
    BY DEF Settle
  <2> QED
    BY <2>1 DEF Settle, Unsettled
<1>2. PICK v \in disk[e[1]][e[2]] :
         /\ files' = [files EXCEPT ![e[1]][e[2]] = v]
         /\ disk' = [disk EXCEPT ![e[1]][e[2]] = {v}]
  BY <1>1
<1>3. PICK d \in Directories, n \in Names : d = e[1] /\ n = e[2]
  BY <1>1
<1>4. /\ power = "off" /\ power' = power /\ launcher' = launcher
      /\ UNCHANGED <<child, verdicts>>
  BY DEF Settle
<1>5. StorageTypeOK /\ Shown /\ RestTypeOK
  BY DEF IInv
<1>6. v \in Versions /\ v \in disk[d][n]
  BY <1>2, <1>3, <1>5 DEF StorageTypeOK
<1>7. /\ files' = [files EXCEPT ![d][n] = v]
      /\ disk' = [disk EXCEPT ![d][n] = {v}]
  BY <1>2, <1>3
<1>8. StorageTypeOK'
  BY <1>5, <1>6, <1>7 DEF StorageTypeOK
<1>9. \A a \in Directories, m \in Names :
         /\ files'[a][m] = IF a = d /\ m = n THEN v ELSE files[a][m]
         /\ disk'[a][m] = IF a = d /\ m = n THEN {v} ELSE disk[a][m]
  BY <1>5, <1>7 DEF StorageTypeOK
<1>10. ASSUME NEW a \in Directories, NEW m \in Names
      PROVE  files'[a][m] \in disk'[a][m] /\ disk'[a][m] \subseteq disk[a][m]
  <2>1. files[a][m] \in disk[a][m]
    BY <1>5 DEF Shown
  <2>2. /\ files'[a][m] = IF a = d /\ m = n THEN v ELSE files[a][m]
        /\ disk'[a][m] = IF a = d /\ m = n THEN {v} ELSE disk[a][m]
    BY <1>9
  <2> QED
    BY <1>6, <2>1, <2>2
<1>11. Shown'
  BY <1>10 DEF Shown
<1>12. RestTypeOK'
  BY <1>4, <1>5 DEF RestTypeOK, child, verdicts
<1>13. ASSUME NEW o \in Operations
       PROVE  OperationInv(o)'
  <2>1. \A m \in Telling : o \in Directories /\ m \in Names
    BY NameFacts DEF Directories, Telling
  <2>2. \A m \in Telling : disk'[o][m] \subseteq disk[o][m] /\ disk'[o][m] # {}
    BY <1>10, <2>1
  <2>3. OperationInv(o)
    BY DEF IInv
  <2> QED
    BY <1>4, <2>2, <2>3, Shrinks
<1>14. launcher' \in [Launchers -> {Idle, Ended}]
  BY <1>4 DEF Dark, IInv
<1>15. IInv'
  BY <1>4, <1>5, <1>8, <1>11, <1>12, <1>13, <1>14, RestingStep
<1> QED
  BY <1>14, <1>15 DEF Dark

LEMMA PowerBackKeeps ==
    ASSUME IInv, Dark, PowerBack
    PROVE  IInv' /\ Dark'
<1>1. /\ files' = files /\ disk' = disk /\ power = "off" /\ power' = "back" /\ launcher' = launcher
      /\ UNCHANGED <<child, verdicts>>
  BY DEF PowerBack, storage
<1>2. launcher' \in [Launchers -> {Idle, Ended}]
  BY <1>1 DEF Dark, IInv
<1>3. StorageTypeOK' /\ RestTypeOK' /\ Shown' /\ Shown
  BY <1>1 DEF IInv, StorageTypeOK, RestTypeOK, Shown, child, verdicts
<1>4. \A o \in Operations : OperationInv(o)'
  <2>1. \A o \in Operations : Calm(o)
    BY <1>1 DEF Calm, CalmStorage, CalmTold, Still, child, verdicts
  <2> QED
    BY <2>1, CalmOperation DEF IInv
<1> QED
  BY <1>1, <1>2, <1>3, <1>4, RestingStep DEF Dark

-----------------------------------------------------------------------------
(***************************************************************************)
(* The invariant, and the theorems.                                        *)
(***************************************************************************)
LEMMA InitHolds ==
    ASSUME Init
    PROVE  IInv /\ Dark
<1>1. StorageTypeOK /\ Shown
  BY DEF Init, StorageTypeOK, Shown, Versions
<1>2. RestTypeOK
  BY DEF Init, RestTypeOK
<1>3. \A p \in Launchers : RecordInv(launcher[p]) /\ launcher[p].made = 0 /\ launcher[p] \in Record
  <2>1. \A p \in Launchers : launcher[p] = Idle
    BY DEF Init
  <2>2. RecordInv(Idle) /\ Idle.made = 0 /\ Idle \in Record
    BY Resting DEF RecordInv, RecordOK
  <2> QED
    BY <2>1, <2>2
<1>4. launcher \in [Launchers -> Record] /\ OneHolder
  BY <1>3 DEF Init, OneHolder
<1>5. ASSUME NEW o \in Operations
      PROVE  OperationInv(o)
  <2>1. /\ starts[o] = 0 /\ exit[o] = "none" /\ told[o] = {} /\ answered[o] = "none"
        /\ \A n \in Names : disk[o][n] = {"none"}
    BY DEF Init, Directories
  <2>2. disk[o].terminal = {"none"} /\ disk[o].nostart = {"none"}
    BY <2>1, NameFacts
  <2> QED
    BY <2>1, <2>2 DEF OperationInv, Fresh, Seen
<1>6. Dark
  BY DEF Init, Dark
<1> QED
  BY <1>1, <1>2, <1>3, <1>4, <1>5, <1>6 DEF IInv

Step(p) == Stage(p) \/ Reconcile(p) \/ Prepare(p) \/ Cleanup(p) \/ Run(p) \/ Publish(p) \/ Kill(p)

LEMMA StepKeeps ==
    ASSUME IInv, NEW p \in Launchers, Step(p)
    PROVE  IInv'
<1>1. CASE Reconcile(p)
  BY <1>1, CallKeeps, ListingKeeps, ScanRequestKeeps, EndScanRequestsKeeps, ScanIntentKeeps, EndScanIntentsKeeps,
     LookKeeps, FirstReadKeeps, SecondReadKeeps, ResolveKeeps, ScanMarkerKeeps, EndScanMarkersKeeps
     DEF Reconcile
<1>2. CASE Prepare(p)
  BY <1>2, SealKeeps, DropSourceKeeps, SealingFailsKeeps, PrepareNextKeeps, ReserveKeeps, PreparationFailsKeeps,
     UnwindKeeps, DropRefusedKeeps DEF Prepare
<1>3. CASE Cleanup(p)
  BY <1>3, ClearKeeps, MarkKeeps, RecordNoStartKeeps DEF Cleanup
<1>4. CASE Run(p)
  BY <1>4, RefuseKeeps, VerifyKeeps, ClaimKeeps, SyncClaimKeeps, StartKeeps, NotStartedKeeps,
     RunnerFailsKeeps, ObserveKeeps, ExitKeeps DEF Run
<1>5. CASE Publish(p)
  BY <1>5, PutPendingKeeps, SyncPendingKeeps, LinkTerminalKeeps, SyncTerminalKeeps, DropPendingKeeps,
     AnswerKeeps, PublicationFailsKeeps, RecordUncertainKeeps, SyncUncertainKeeps DEF Publish
<1> QED
  BY <1>1, <1>2, <1>3, <1>4, <1>5, StageKeeps, KillKeeps DEF Step

LEMMA StepInLight ==
    ASSUME NEW p \in Launchers, Step(p)
    PROVE  power # "off" /\ power' = power
<1>1. CASE Reconcile(p)
  BY <1>1 DEF Reconcile, Call, ListRequest, EndListing, ScanRequest, EndScanRequests, ScanIntent, EndScanIntents, FirstLook,
     SecondLook, Look, FirstRead, SecondRead, Resolve, ScanMarker, EndScanMarkers, At
<1>2. CASE Prepare(p)
  BY <1>2 DEF Prepare, Seal, DropSource, SealingFails, PrepareNext, Reserve, Barrier,
     PreparationFails, Unwind, DropRefused, At
<1>3. CASE Cleanup(p)
  BY <1>3 DEF Cleanup, Clear, Mark, RecordNoStart, At
<1>4. CASE Run(p)
  BY <1>4 DEF Run, Refuse, Verify, Claim, SyncClaim, Barrier, Start, NotStarted, RunnerFails,
     Observe, Exit, At
<1>5. CASE Publish(p)
  BY <1>5 DEF Publish, PutPending, SyncPending, Barrier, LinkTerminal, SyncTerminal, DropPending,
     Answer, PublicationFails, RecordUncertain, SyncUncertain, At
<1> QED
  BY <1>1, <1>2, <1>3, <1>4, <1>5 DEF Step, Stage, Kill, At

LEMMA NextKeeps ==
    ASSUME IInv, Dark, [Next]_vars
    PROVE  IInv' /\ Dark'
<1>1. ASSUME NEW p \in Launchers, Step(p)
      PROVE  IInv' /\ Dark'
  BY <1>1, StepKeeps, StepInLight DEF Dark
<1>2. CASE UNCHANGED vars
  <2>1. /\ files' = files /\ disk' = disk /\ power' = power /\ launcher' = launcher
        /\ starts' = starts /\ exit' = exit /\ told' = told /\ answered' = answered
    BY <1>2 DEF vars
  <2>2. Dark'
    BY <2>1 DEF Dark
  <2>3. StorageTypeOK' /\ RestTypeOK' /\ Shown'
    BY <2>1 DEF IInv, StorageTypeOK, RestTypeOK, Shown
  <2>4. launcher' \in [Launchers -> Record] /\ OneHolder'
    BY <2>1 DEF IInv, OneHolder, Op
  <2>5. \A o \in Operations : Calm(o)
    BY <2>1 DEF Calm, CalmStorage, CalmTold, Still
  <2>6. \A o \in Operations : OperationInv(o)'
    BY <2>5, CalmOperation DEF IInv
  <2>7. ASSUME NEW q \in Launchers
        PROVE  RecordInv(launcher[q])'
    <3>1. PICK s : s = launcher[q] /\ s = launcher'[q]
      BY <2>1
    <3>2. Shown /\ RecordInv(s) /\ RecordOK(s) /\ (s.made > 0 => HolderInv(s))
      BY <3>1 DEF IInv, RecordInv
    <3>3. s.made > 0 => s.op \in Operations
      BY <3>2 DEF HolderInv, RecordOK, Reserved, Launching, Publishing
    <3>4. RecordInv(s)'
      BY <2>1, <2>5, <3>2, <3>3, CalmRecord
    <3> QED
      BY <3>1, <3>4, RecordThen
  <2> QED
    BY <2>2, <2>3, <2>4, <2>6, <2>7 DEF IInv
<1> QED
  BY <1>1, <1>2, PowerLossKeeps, SettleKeeps, PowerBackKeeps DEF Next, Step

\* Every state has the invariant, and no launcher is at work while the power is off.
THEOREM Invariance == Spec => [](IInv /\ Dark)
<1>1. Init => IInv /\ Dark
  BY InitHolds
<1>2. IInv /\ Dark /\ [Next]_vars => (IInv /\ Dark)'
  BY NextKeeps
<1> QED
  BY <1>1, <1>2, PTL DEF Spec

\* The state of the files, of the launchers and of what was told has its type.
THEOREM TypeCorrect == Spec => []TypeOK
<1>1. IInv => TypeOK
  BY PreparationFacts DEF IInv, StorageTypeOK, RestTypeOK, Record, TypeOK
<1> QED
  BY <1>1, Invariance, PTL

\* No operation starts two children, whoever dies and whenever the power goes
\* (claim_attempt_start).
THEOREM OneStartEach == Spec => []StartedOnce
<1>1. IInv => StartedOnce
  BY DEF IInv, OperationInv, StartedOnce
<1> QED
  BY <1>1, Invariance, PTL

\* Whoever accepts that an operation passed is right, and nobody else is told that
\* it failed (read_attempt_result).
THEOREM PassOnlyAfterPass == Spec => []PassIsProven
<1>1. ASSUME IInv, NEW o \in Operations, "PASS" \in told[o]
      PROVE  exit[o] = "PASS" /\ "FAIL" \notin told[o]
  BY <1>1 DEF IInv, OperationInv, Seen
<1>2. IInv => PassIsProven
  BY <1>1 DEF PassIsProven
<1> QED
  BY <1>2, Invariance, PTL

\* The outcome a launcher returned is on disk, whatever a later power loss does to
\* entries that were not synced (publish_attempt_result).
THEOREM AnswersOnDisk == Spec => []AnswersEndure
<1>1. IInv => AnswersEndure
  BY DEF IInv, OperationInv, AnswersEndure
<1> QED
  BY <1>1, Invariance, PTL

\* A record of no start is never made for an operation that had a child, and no
\* child is started once it is there (record_proven_no_start).
THEOREM NoStartRecordTrue == Spec => []NoStartIsTrue
<1>1. ASSUME IInv, NEW o \in Operations, Has(o, "nostart", "full")
      PROVE  starts[o] = 0
  BY <1>1, Telltale
<1>2. IInv => NoStartIsTrue
  BY <1>1 DEF NoStartIsTrue
<1> QED
  BY <1>2, Invariance, PTL

\* No launch is prepared, started or published while a child that was started before
\* its reconciliation has not passed (reconcile_prelaunch_intents).
THEOREM ReconciledBeforeLaunch == Spec => []NothingOverUncertainty
<1>1. ASSUME IInv, NEW p \in Launchers, launcher[p].pc \in PastReconciliation,
             NEW o \in launcher[p].before
      PROVE  exit[o] = "PASS"
  <2>1. BeforeInv(launcher[p], o)
    BY <1>1, AtWork
  <2> QED
    BY <1>1, <2>1 DEF BeforeInv, BeforeAt
<1>2. IInv => NothingOverUncertainty
  BY <1>1 DEF NothingOverUncertainty
<1> QED
  BY <1>2, Invariance, PTL

-----------------------------------------------------------------------------
(***************************************************************************)
(* Nothing beside a sealed launch.  The sealed request of a launch stays   *)
(* where the listing looks for it until the launch is over, so a listing   *)
(* that began after the seal finds it.  What is found is held, or has an   *)
(* intent, which stays as long and has nothing to resolve it.              *)
(***************************************************************************)
\* Places of a launcher whose sealed request is there.
Sealing == Sealed \union {"unwinding", "clearing", "clearing proven"}

\* Places from which a launcher may still come to seal.
Before == {"idle", "staged", "fresh"} \union Reconciling

HasIntent(r) == r.pc \in Sealed /\ r.made >= 4
Unprepared(r) == r.pc \in {"fresh", "sealed"} \/ (r.pc = "preparing" /\ r.made < 4)

\* The files that a launcher, as r says it is, can rely on.  An intent of another
\* launcher has its marker beside it.
SealInv(r) ==
    /\ r.pc \in Sealing => ~Free(r.op, "request")
    /\ Unprepared(r) => Free(r.op, "intent") \/ (r.made = 0 /\ ~Free(r.op, "marker"))

OneSealer ==
    \A p, q \in Launchers :
        launcher[p].pc \in Sealing /\ launcher[q].pc \in Sealing /\ Op(p) = Op(q) => p = q

\* A launcher at r has not passed over the launch at s.
Facing(r, s) ==
    /\ r.pc \notin {"markers"} \union PastReconciliation
    /\ r.pc = "listing" => s.op \in r.todo \union r.found
    /\ r.pc = "requests" => s.op \in r.todo \/ HasIntent(s)
    /\ r.pc \in {"intents"} \union Looking =>
          HasIntent(s) /\ (s.op \in r.todo \/ (s.op = r.item /\ r.pc # "intents"))

\* A rival of the launcher at r never seals again, and while it is sealed it is faced.
RivalInv(r, s) ==
    /\ s.pc \notin Before
    /\ s.pc \in Sealed => Facing(r, s) /\ (s.made < 4 => Free(s.op, "intent"))

BesideInv ==
    /\ \A p \in Launchers : SealInv(launcher[p])
    /\ OneSealer
    /\ \A p \in Launchers : \A q \in launcher[p].rivals :
          q # p /\ RivalInv(launcher[p], launcher[q])

\* What holds of every launcher that is at work.
LEMMA WorkerFacts ==
    ASSUME IInv, NEW q \in Launchers,
           launcher[q].pc \in Sealing \union {"fresh"} \union Reconciling
    PROVE  /\ RecordInv(launcher[q]) /\ launcher[q] \in Record
           /\ Op(q) \in Operations /\ q \notin Operations /\ Op(q) \notin Launchers
           /\ q \in Directories /\ Op(q) \in Directories
<1>1. launcher[q].pc \notin {"idle", "staged", "ended"}
  BY DEF Sealing, Sealed, Reconciling, Launching
<1> QED
  BY <1>1, AtWork, NamesAssumption DEF Directories

\* A launch that has its intent: the intent is there, no outcome is and no record
\* of no start.
LEMMA IntentShows ==
    ASSUME IInv, NEW q \in Launchers, HasIntent(launcher[q])
    PROVE  /\ ~Free(Op(q), "intent")
           /\ Terminal(Op(q)) = "none"
           /\ ~NoStart(Op(q))
<1> DEFINE r == launcher[q]
<1>1. /\ RecordInv(r) /\ r \in Record
      /\ Op(q) \in Operations /\ Op(q) \in Directories
  BY WorkerFacts DEF HasIntent, Sealing
<1>2. r.made > 0 /\ HolderInv(r) /\ VerdictInv(r) /\ r.op = Op(q)
  BY <1>1 DEF HasIntent, RecordInv, Record, Op
<1>3. \A n \in Telling : files[Op(q)][n] \in disk[Op(q)][n]
  BY <1>1, NameFacts DEF IInv, Shown, Telling
<1>4. ~Free(Op(q), "intent")
  <2>1. CASE r.pc \in Launching
    <3>1. disk[Op(q)].intent = {"full"}
      BY <1>1, <1>2, <2>1 DEF RecordInv, Reserved, Durable
    <3> QED
      BY <1>3, <3>1 DEF Telling, Free, Has
  <2>2. CASE r.pc \notin Launching
    <3>1. r.pc \in {"preparing", "reserving"} /\ r.made >= 4
      BY <1>2, <2>2 DEF HasIntent, Sealed, HolderInv, Reserved, Publishing
    <3> QED
      BY <1>2, <3>1 DEF HolderInv, Free, Has
  <2> QED
    BY <2>1, <2>2
<1>5. Fresh(Op(q))
  <2>1. CASE r.pc = "running"
    BY <1>2, <2>1 DEF VerdictInv
  <2>2. CASE r.pc # "running"
    <3>1. starts[Op(q)] = 0
      BY <1>2, <2>2 DEF HolderInv, HasIntent, Sealed, Launching, Publishing
    <3> QED
      BY <1>1, <3>1 DEF IInv, OperationInv
  <2> QED
    BY <2>1, <2>2
<1>6. files[Op(q)].terminal = "none"
  BY <1>3, <1>5 DEF Fresh, Telling
<1>7. files[Op(q)].nostart # "full"
  BY <1>2, <1>3 DEF HolderInv, Telling
<1> QED
  BY <1>4, <1>6, <1>7 DEF Terminal, NoStart, Has

-----------------------------------------------------------------------------
\* A step of p takes away no other launch's request, and makes no intent for it.
Mindful(p) ==
    /\ \A q \in Launchers \ {p}, d \in Directories :
          launcher[q].pc \in Sealing /\ Op(q) = d /\ ~Free(d, "request") => ~Free(d, "request")'
    /\ \A q \in Launchers \ {p}, o \in Operations :
          launcher[q].pc \in Sealed /\ Op(q) = o /\ Free(o, "intent") => Free(o, "intent")'
    /\ \A o \in Operations : ~Free(o, "marker") => ~Free(o, "marker")'
    /\ \A o \in Operations : Free(o, "intent") => Free(o, "intent")' \/ ~Free(o, "marker")

\* No request and no marker goes away, and no intent appears.
Mono ==
    /\ \A d \in Directories : ~Free(d, "request") => ~Free(d, "request")'
    /\ \A o \in Operations : ~Free(o, "marker") => ~Free(o, "marker")'
    /\ \A o \in Operations : Free(o, "intent") => Free(o, "intent")'

LEMMA MonoMinds ==
    ASSUME Mono, NEW p
    PROVE  Mindful(p)
BY DEF Mono, Mindful

LEMMA MonoUnchanged ==
    ASSUME UNCHANGED storage
    PROVE  Mono
BY DEF storage, Mono, Free, Has

LEMMA MonoSync ==
    ASSUME NEW o, Sync(o)
    PROVE  Mono
BY DEF Sync, Mono, Free, Has

LEMMA MonoPut ==
    ASSUME StorageTypeOK, Shown, NEW d \in Directories, NEW n \in Names, NEW v \in Versions,
           Put(d, n, v),
           n \in {"request", "marker"} => v # "none",
           n = "intent" => v = "none"
    PROVE  Mono
<1>1. Sets(d, n, v)
  BY PutReads
<1>2. "request" \in Names /\ "intent" \in Names /\ "marker" \in Names
  BY NameFacts
<1>3. \A o \in Operations : o \in Directories
  BY DEF Directories
<1> QED
  BY <1>1, <1>2, <1>3 DEF Sets, Mono, Free, Has

\* A request goes that belongs to no launch but p's.
LEMMA UnlinkMinds ==
    ASSUME IInv, BesideInv, NEW p \in Launchers, NEW d \in Directories, Unlink(d, "request"),
           d = p \/ (launcher[p].pc \in Sealing /\ d = Op(p))
    PROVE  Mindful(p)
<1>1. /\ StorageTypeOK /\ Shown /\ "none" \in Versions
      /\ "request" \in Names /\ "intent" \in Names /\ "marker" \in Names
  BY NameFacts DEF IInv, Versions
<1>2. Sets(d, "request", "none")
  BY <1>1, PutReads DEF Unlink
<1>3. ASSUME NEW q \in Launchers \ {p}, launcher[q].pc \in Sealing
      PROVE  Op(q) # d
  <2>1. CASE d = p
    BY <1>3, <2>1, WorkerFacts
  <2>2. CASE launcher[p].pc \in Sealing /\ d = Op(p)
    BY <1>3, <2>2 DEF BesideInv, OneSealer
  <2> QED
    BY <2>1, <2>2
<1>4. \A o \in Operations : o \in Directories
  BY DEF Directories
<1> QED
  BY <1>1, <1>2, <1>3, <1>4 DEF Mindful, Sets, Free, Has

\* What the others rely on is still there.
LEMMA OthersRely ==
    ASSUME IInv, BesideInv, NEW p \in Launchers, Mindful(p),
           NEW q \in Launchers \ {p}, NEW r, r = launcher[q]
    PROVE  /\ SealInv(r)'
           /\ r.pc \in Sealed /\ Free(r.op, "intent") => Free(r.op, "intent")'
<1>1. SealInv(r) /\ r.op = Op(q)
  BY DEF BesideInv, Op
<1>2. r.pc \in Sealing \/ Unprepared(r) => r.op \in Operations /\ r.op \in Directories
  BY WorkerFacts DEF Unprepared, Sealing, Sealed, Op
<1>3. Sealed \subseteq Sealing
  BY DEF Sealing
<1>4. r.pc \in Sealed /\ Free(r.op, "intent") => Free(r.op, "intent")'
  <2>1. CASE r.pc \in Sealed
    <3>1. PICK o \in Operations : o = r.op
      BY <1>2, <1>3, <2>1
    <3>2. Free(o, "intent") => Free(o, "intent")'
      BY <1>1, <2>1, <3>1 DEF Mindful
    <3> QED
      BY <3>1, <3>2
  <2> QED
    BY <2>1
<1>5. r.pc \in Sealing => ~Free(r.op, "request")'
  <2>1. CASE r.pc \in Sealing
    <3>1. PICK d \in Directories : d = r.op
      BY <1>2, <2>1
    <3>2. ~Free(d, "request")'
      BY <1>1, <2>1, <3>1 DEF Mindful, SealInv
    <3> QED
      BY <3>1, <3>2
  <2> QED
    BY <2>1
<1>6. ASSUME Unprepared(r)
      PROVE  Free(r.op, "intent")' \/ (r.made = 0 /\ ~Free(r.op, "marker")')
  <2>1. PICK o \in Operations : o = r.op
    BY <1>2, <1>6
  <2>2. Free(o, "intent") \/ (r.made = 0 /\ ~Free(o, "marker"))
    BY <1>1, <1>6, <2>1 DEF SealInv
  <2>3. r.pc = "fresh" => r.made = 0
    BY NothingHeld
  <2>4. r.pc = "fresh" \/ r.pc \in Sealed
    BY <1>6 DEF Unprepared, Sealed
  <2>5. CASE r.made = 0 /\ ~Free(o, "marker")
    BY <2>1, <2>5 DEF Mindful
  <2>6. CASE Free(o, "intent")
    <3>1. r.pc \in Sealed => Free(o, "intent")'
      BY <1>4, <2>1, <2>6
    <3>2. r.pc = "fresh" => Free(o, "intent")' \/ ~Free(o, "marker")'
      BY <2>6 DEF Mindful
    <3> QED
      BY <2>1, <2>3, <2>4, <3>1, <3>2
  <2> QED
    BY <2>2, <2>5, <2>6
<1> QED
  BY <1>4, <1>5, <1>6 DEF SealInv, Unprepared

\* A step of p: what is asked of the place it comes to.
LEMMA BesideStep ==
    ASSUME IInv, BesideInv, NEW p \in Launchers, Mindful(p), NEW s, Moves(p, s),
           SealInv(s)',
           \A q \in Launchers \ {p} :
              s.pc \in Sealing /\ launcher[q].pc \in Sealing => s.op # Op(q),
           \A q \in s.rivals : q \in Launchers \ {p} /\ RivalInv(s, launcher[q]),
           s.pc \in Before => launcher[p].pc \in Before,
           s.pc \in Sealed /\ launcher[p].pc \notin Before =>
              /\ launcher[p].pc \in Sealed /\ s.op = Op(p)
              /\ HasIntent(launcher[p]) => HasIntent(s)
              /\ s.made < 4 =>
                    /\ launcher[p].made < 4
                    /\ Free(Op(p), "intent") => Free(s.op, "intent")'
    PROVE  BesideInv'
<1>1. launcher'[p] = s /\ \A q \in Launchers \ {p} : launcher'[q] = launcher[q]
  BY DEF IInv, Moves
<1>2. ASSUME NEW q \in Launchers
      PROVE  SealInv(launcher[q])'
  <2>1. CASE q = p
    BY <1>1, <2>1 DEF SealInv, Unprepared
  <2>2. CASE q # p
    <3>1. PICK r : r = launcher[q] /\ r = launcher'[q]
      BY <1>1, <2>2
    <3>2. SealInv(r)'
      BY <2>2, <3>1, OthersRely
    <3> QED
      BY <3>1, <3>2 DEF SealInv, Unprepared
  <2> QED
    BY <2>1, <2>2
<1>3. OneSealer'
  BY <1>1 DEF BesideInv, OneSealer, Op
<1>4. ASSUME NEW x \in Launchers, NEW q \in launcher'[x].rivals
      PROVE  q # x /\ RivalInv(launcher[x], launcher[q])'
  <2>1. launcher[x] \in Record
    BY DEF IInv
  <2>2. CASE x = p
    <3>1. q \in Launchers \ {p} /\ RivalInv(s, launcher[q])
      BY <1>1, <1>4, <2>2
    <3>2. PICK r : r = launcher[q] /\ r = launcher'[q]
      BY <1>1, <3>1
    <3>3. r.pc \in Sealed /\ Free(r.op, "intent") => Free(r.op, "intent")'
      BY <3>1, <3>2, OthersRely
    <3>4. RivalInv(s, r)'
      BY <3>1, <3>2, <3>3 DEF RivalInv
    <3> QED
      BY <1>1, <2>2, <3>1, <3>2, <3>4 DEF RivalInv, Facing, HasIntent
  <2>3. CASE x # p /\ q # p
    <3>1. q \in Launchers \ {p} /\ q # x /\ RivalInv(launcher[x], launcher[q])
      BY <1>1, <1>4, <2>1, <2>3 DEF BesideInv, Record
    <3>2. PICK r : r = launcher[q] /\ r = launcher'[q]
      BY <1>1, <3>1
    <3>3. PICK t : t = launcher[x] /\ t = launcher'[x]
      BY <1>1, <2>3
    <3>4. r.pc \in Sealed /\ Free(r.op, "intent") => Free(r.op, "intent")'
      BY <3>1, <3>2, OthersRely
    <3>5. RivalInv(t, r)'
      BY <3>1, <3>2, <3>3, <3>4 DEF RivalInv
    <3> QED
      BY <3>1, <3>2, <3>3, <3>5 DEF RivalInv, Facing, HasIntent
  <2>4. CASE x # p /\ q = p
    <3>1. RivalInv(launcher[x], launcher[p])
      BY <1>1, <1>4, <2>4 DEF BesideInv
    <3>2. PICK t : t = launcher[x] /\ t = launcher'[x]
      BY <1>1, <2>4
    <3>3. RivalInv(t, s)'
      <4>1. s.pc \notin Before
        BY <3>1 DEF RivalInv
      <4>2. ASSUME s.pc \in Sealed
            PROVE  Facing(t, s) /\ (s.made < 4 => Free(s.op, "intent")')
        <5>1. launcher[p].pc \in Sealed /\ launcher[p].pc \notin Before /\ s.op = Op(p)
          BY <3>1, <4>2 DEF RivalInv
        <5>2. /\ Facing(t, launcher[p])
              /\ launcher[p].made < 4 => Free(Op(p), "intent")
          BY <3>1, <3>2, <5>1 DEF RivalInv, Op
        <5>3. Facing(t, s)
          BY <4>2, <5>1, <5>2 DEF Facing, Op
        <5> QED
          BY <4>2, <5>1, <5>2, <5>3
      <4> QED
        BY <4>1, <4>2 DEF RivalInv, Facing, HasIntent
    <3> QED
      BY <1>1, <2>4, <3>2, <3>3 DEF RivalInv, Facing, HasIntent
  <2> QED
    BY <2>2, <2>3, <2>4
<1> QED
  BY <1>2, <1>3, <1>4 DEF BesideInv

\* A launch that is over, or on its way out, is in nobody's way, and a rival of one
\* that is past reconciliation is not there any more.
LEMMA LeaveStep ==
    ASSUME IInv, BesideInv, NEW p \in Launchers, Mindful(p), NEW s, Moves(p, s),
           s.pc \notin Sealed \union Before \union {"markers"},
           s.pc \in PastReconciliation => launcher[p].pc \in PastReconciliation,
           s.rivals \subseteq launcher[p].rivals,
           s.pc \in Sealing => launcher[p].pc \in Sealing /\ s.op = Op(p) /\ ~Free(s.op, "request")'
    PROVE  BesideInv'
<1>1. SealInv(s)'
  BY DEF SealInv, Unprepared, Sealed, Before
<1>2. ASSUME NEW q \in s.rivals
      PROVE  q \in Launchers \ {p} /\ RivalInv(s, launcher[q])
  <2>1. launcher[p] \in Record
    BY DEF IInv
  <2>2. q \in Launchers \ {p} /\ RivalInv(launcher[p], launcher[q])
    BY <2>1 DEF BesideInv, Record
  <2>3. s.pc \notin {"listing", "requests", "intents"} \union Looking
    BY DEF Before, Reconciling, Looking
  <2> QED
    BY <2>2, <2>3 DEF RivalInv, Facing
<1>3. \A q \in Launchers \ {p} : s.pc \in Sealing /\ launcher[q].pc \in Sealing => s.op # Op(q)
  BY DEF BesideInv, OneSealer
<1> QED
  BY <1>1, <1>2, <1>3, BesideStep

\* The same for a step that leaves all requests where they are.
LEMMA LeaveGoto ==
    ASSUME IInv, BesideInv, Mono, NEW p \in Launchers, NEW place, Goto(p, place),
           place \notin Sealed \union Before \union {"markers"},
           place \in PastReconciliation => launcher[p].pc \in PastReconciliation,
           place \in Sealing => launcher[p].pc \in Sealing
    PROVE  BesideInv'
<1>1. PICK s : s = [launcher[p] EXCEPT !.pc = place]
  OBVIOUS
<1>2. launcher \in [Launchers -> Record] /\ launcher[p] \in Record
  BY DEF IInv
<1>3. s.pc = place /\ s.op = Op(p) /\ s.rivals = launcher[p].rivals
  BY <1>1, <1>2 DEF Record, Op
<1>4. Moves(p, s)
  BY <1>1, <1>2, GotoMoves
<1>5. ASSUME place \in Sealing
      PROVE  ~Free(s.op, "request")'
  <2>1. PICK d \in Directories : d = Op(p) /\ d = s.op /\ d = launcher[p].op
    BY <1>3, <1>5, WorkerFacts DEF Op
  <2>2. ~Free(d, "request")
    BY <1>5, <2>1 DEF BesideInv, SealInv
  <2> QED
    BY <2>1, <2>2 DEF Mono
<1> QED
  BY <1>3, <1>4, <1>5, MonoMinds, LeaveStep

LEMMA LeaveEnd ==
    ASSUME IInv, BesideInv, NEW p \in Launchers, Mindful(p), End(p)
    PROVE  BesideInv'
<1>1. PICK s : s = Ended
  OBVIOUS
<1>2. Moves(p, s)
  BY <1>1, EndMoves
<1>3. s.pc = "ended" /\ s.rivals = {}
  BY <1>1 DEF Ended, Idle
<1>4. s.pc \notin Sealed \union Before \union {"markers"} \union Sealing \union PastReconciliation
  BY <1>3 DEF Sealed, Before, Sealing, Reconciling, Preparing, Launching, Publishing,
     PastReconciliation
<1> QED
  BY <1>2, <1>3, <1>4, LeaveStep

\* A step that gives the launch up.
LEMMA RefusedBeside ==
    ASSUME IInv, BesideInv, NEW p \in Launchers, Mindful(p), Goto(p, "refused")
    PROVE  BesideInv'
<1>1. PICK s : s = [launcher[p] EXCEPT !.pc = "refused"]
  OBVIOUS
<1>2. launcher \in [Launchers -> Record] /\ launcher[p] \in Record
  BY DEF IInv
<1>3. s.pc = "refused" /\ s.rivals = launcher[p].rivals /\ Moves(p, s)
  BY <1>1, <1>2, GotoMoves DEF Record
<1>4. s.pc \notin Sealed \union Before \union {"markers"} \union Sealing \union PastReconciliation
  BY <1>3 DEF Sealed, Before, Sealing, Reconciling, Preparing, Launching, Publishing,
     PastReconciliation
<1> QED
  BY <1>3, <1>4, LeaveStep

\* A launcher that reconciles still faces the rivals that it faced.
LEMMA ReconcileStep ==
    ASSUME IInv, BesideInv, Mono, NEW p \in Launchers, NEW s, Moves(p, s),
           launcher[p].pc \in Reconciling, s.pc \in Reconciling \union {"fresh"}, s.op = Op(p),
           s.pc = "fresh" => Free(Op(p), "intent"),
           s.rivals = launcher[p].rivals,
           \A q \in s.rivals : launcher[q].pc \in Sealed /\ Facing(launcher[p], launcher[q]) =>
              Facing(s, launcher[q])
    PROVE  BesideInv'
<1>1. s.pc \notin Sealing /\ s.pc \in Before /\ launcher[p].pc \in Before
      /\ (Unprepared(s) => s.pc = "fresh")
  BY DEF Sealing, Sealed, Before, Reconciling, Launching, Unprepared
<1>2. SealInv(s)'
  <2>1. Op(p) \in Operations
    BY WorkerFacts
  <2>2. Unprepared(s) => Free(s.op, "intent")'
    BY <1>1, <2>1 DEF Mono
  <2> QED
    BY <1>1, <2>2 DEF SealInv, Unprepared
<1>3. ASSUME NEW q \in s.rivals
      PROVE  q \in Launchers \ {p} /\ RivalInv(s, launcher[q])
  <2>1. launcher[p] \in Record
    BY DEF IInv
  <2>2. q \in Launchers \ {p} /\ RivalInv(launcher[p], launcher[q])
    BY <2>1 DEF BesideInv, Record
  <2> QED
    BY <2>2 DEF RivalInv
<1> QED
  BY <1>1, <1>2, <1>3, MonoMinds, BesideStep DEF Sealing

-----------------------------------------------------------------------------
(***************************************************************************)
(* The steps, one by one: first those of the walk that reconciles.         *)
(***************************************************************************)
LEMMA StageBeside ==
    ASSUME IInv, BesideInv, NEW p \in Launchers, Stage(p)
    PROVE  BesideInv'
<1>1. /\ launcher[p].pc = "idle" /\ Create(p, "request", "full") /\ Goto(p, "staged")
      /\ launcher \in [Launchers -> Record] /\ launcher[p] \in Record
  BY DEF Stage, At, IInv
<1>2. /\ p \in Directories /\ "request" \in Names /\ "full" \in Versions
      /\ StorageTypeOK /\ Shown
  BY NameFacts DEF Directories, Versions, IInv
<1>3. Mindful(p)
  BY <1>1, <1>2, MonoPut, MonoMinds DEF Create
<1>4. PICK s : s = [launcher[p] EXCEPT !.pc = "staged"]
  OBVIOUS
<1>5. s.pc = "staged" /\ s.rivals = launcher[p].rivals /\ Moves(p, s)
  BY <1>1, <1>4, GotoMoves DEF Record
<1>6. s.pc \notin Sealing \union PastReconciliation \union Reconciling /\ ~Unprepared(s)
      /\ s.pc \in Before /\ launcher[p].pc \in Before
  BY <1>1, <1>5 DEF Sealing, Sealed, PastReconciliation, Preparing, Launching, Publishing,
     Reconciling, Unprepared, Before
<1>7. SealInv(s)'
  BY <1>6 DEF SealInv, Unprepared
<1>8. \A q \in s.rivals : q \in Launchers \ {p} /\ RivalInv(s, launcher[q])
  BY <1>1, <1>5, <1>6 DEF BesideInv, RivalInv, Facing, Record, Reconciling, Looking
<1> QED
  BY <1>3, <1>5, <1>6, <1>7, <1>8, BesideStep DEF Sealing

\* The listing has every rival's directory before it, and a rival without an intent
\* of its own has none at all.
LEMMA CallBeside ==
    ASSUME IInv, BesideInv, NEW p \in Launchers, Call(p)
    PROVE  BesideInv'
<1>1. PICK o, s :
         /\ o \in Operations
         /\ launcher' = [launcher EXCEPT ![p] = s]
         /\ s = [launcher[p] EXCEPT
              !.op = o,
              !.pc = IF \E d \in Directories : ~Free(d, "held") THEN "refused" ELSE "listing",
              !.todo = Directories \ {p},
              !.before = {a \in Operations : starts[a] > 0},
              !.rivals = Rivals]
  BY DEF Call
<1>2. launcher[p].pc = "staged" /\ launcher[p] \in Record
  BY DEF Call, At, IInv
<1>3. /\ s.pc = "refused" \/ s.pc = "listing"
      /\ s.todo = Directories \ {p} /\ s.rivals = Rivals
  BY <1>1, <1>2 DEF Record
<1>4. Mindful(p) /\ Moves(p, s)
  BY <1>1, MonoUnchanged, MonoMinds DEF Call, Moves
<1>5. s.pc \notin Sealing \union PastReconciliation \union {"markers", "requests", "intents"} \union Looking
      /\ ~Unprepared(s) /\ launcher[p].pc \in Before /\ launcher[p].pc \notin Sealed
  BY <1>2, <1>3 DEF Sealing, Sealed, PastReconciliation, Preparing, Launching, Publishing, Looking,
     Unprepared, Before
<1>6. SealInv(s)'
  BY <1>5 DEF SealInv, Unprepared
<1>7. ASSUME NEW q \in s.rivals
      PROVE  q \in Launchers \ {p} /\ RivalInv(s, launcher[q])
  <2>1. q \in Launchers \ {p} /\ launcher[q].pc \in Sealed
        /\ (launcher[q].made = 0 => Free(Op(q), "marker"))
    BY <1>3, <1>5 DEF Rivals
  <2>2. /\ Op(q) \in Directories \ {p} /\ Op(q) = launcher[q].op
        /\ launcher[q].made \in 0..5 /\ RecordInv(launcher[q])
    <3>1. launcher[q].pc \in Sealing
      BY <2>1 DEF Sealing
    <3>2. /\ RecordInv(launcher[q]) /\ launcher[q] \in Record
          /\ Op(q) \in Directories /\ Op(q) # p
      BY <2>1, <3>1, WorkerFacts
    <3> QED
      BY <3>2 DEF Record, Op
  <2>3. Facing(s, launcher[q])
    <3>1. launcher[q].op \in s.todo \union s.found
      BY <1>3, <2>2
    <3>2. s.pc # "requests" /\ s.pc \notin {"intents"} \union Looking
          /\ s.pc \notin {"markers"} \union PastReconciliation
      BY <1>5
    <3> QED
      BY <3>1, <3>2 DEF Facing
  <2>4. ASSUME launcher[q].made < 4
        PROVE  Free(Op(q), "intent")
    <3>1. Unprepared(launcher[q])
      <4>1. launcher[q].pc \notin Launching \union {"reserving"}
        <5>1. launcher[q].pc \in Launching \union {"reserving"} => launcher[q].made = 5
          BY <2>2 DEF RecordInv, Reserved
        <5>2. launcher[q].made # 5
          BY <2>4
        <5> QED
          BY <5>1, <5>2
      <4>2. launcher[q].pc \in {"sealed", "preparing"}
        BY <2>1, <4>1 DEF Sealed
      <4> QED
        BY <2>4, <4>2 DEF Unprepared
    <3>2. SealInv(launcher[q])
      BY <2>1 DEF BesideInv
    <3>3. \/ Free(launcher[q].op, "intent")
          \/ launcher[q].made = 0 /\ ~Free(launcher[q].op, "marker")
      BY <3>1, <3>2 DEF SealInv
    <3> QED
      BY <2>1, <3>3 DEF Op
  <2>5. launcher[q].pc \notin Before
    BY <2>1 DEF Sealed, Before, Reconciling, Launching
  <2> QED
    BY <2>1, <2>2, <2>3, <2>4, <2>5 DEF RivalInv
<1> QED
  BY <1>4, <1>5, <1>6, <1>7, BesideStep DEF Sealing

\* The sealed request of a rival is there when the listing comes to it.
LEMMA ListingBeside ==
    ASSUME IInv, BesideInv, NEW p \in Launchers, ListRequest(p) \/ EndListing(p)
    PROVE  BesideInv'
<1>1. /\ launcher[p].pc = "listing" /\ launcher[p] \in Record
      /\ launcher \in [Launchers -> Record] /\ Mono
  BY MonoUnchanged DEF ListRequest, EndListing, At, IInv
<1>2. launcher[p].pc \in Reconciling
  BY <1>1 DEF Reconciling
<1>3. CASE ListRequest(p)
  <2>1. PICK d, s :
           /\ launcher' = [launcher EXCEPT ![p] = s]
           /\ s = [launcher[p] EXCEPT
                !.todo = launcher[p].todo \ {d},
                !.found = launcher[p].found \union {e \in {d} : ~Free(e, "request")}]
    BY <1>3 DEF ListRequest
  <2>2. /\ s.pc = "listing" /\ s.op = Op(p) /\ s.rivals = launcher[p].rivals
        /\ s.todo = launcher[p].todo \ {d}
        /\ s.found = launcher[p].found \union {e \in {d} : ~Free(e, "request")}
        /\ Moves(p, s)
    BY <1>1, <2>1 DEF Record, Op, Moves
  <2>3. ASSUME NEW q \in s.rivals, launcher[q].pc \in Sealed, Facing(launcher[p], launcher[q])
        PROVE  Facing(s, launcher[q])
    <3>1. q \in Launchers
      BY <1>1, <2>2, <2>3 DEF Record
    <3>2. ~Free(launcher[q].op, "request")
      BY <2>3, <3>1 DEF BesideInv, SealInv, Sealing
    <3>3. launcher[q].op \in launcher[p].todo \union launcher[p].found
      BY <1>1, <2>3 DEF Facing
    <3>4. launcher[q].op \in s.todo \union s.found
      BY <2>2, <3>2, <3>3
    <3> QED
      BY <2>2, <3>4 DEF Facing, Looking, PastReconciliation, Preparing, Launching, Publishing
  <2> QED
    BY <1>1, <1>2, <2>2, <2>3, ReconcileStep DEF Reconciling
<1>4. CASE EndListing(p)
  <2>1. PICK s :
           /\ launcher' = [launcher EXCEPT ![p] = s]
           /\ s = [launcher[p] EXCEPT
                !.pc = "requests", !.todo = launcher[p].found, !.found = {}]
    BY <1>4 DEF EndListing
  <2>2. /\ s.pc = "requests" /\ s.op = Op(p) /\ s.rivals = launcher[p].rivals
        /\ s.todo = launcher[p].found /\ launcher[p].todo = {}
        /\ Moves(p, s)
    BY <1>1, <1>4, <2>1 DEF Record, Op, Moves, EndListing
  <2>3. ASSUME NEW q \in s.rivals, Facing(launcher[p], launcher[q])
        PROVE  Facing(s, launcher[q])
    <3>1. launcher[q].op \in s.todo
      BY <1>1, <2>2, <2>3 DEF Facing
    <3> QED
      BY <2>2, <3>1 DEF Facing, Looking, PastReconciliation, Preparing, Launching, Publishing
  <2> QED
    BY <1>1, <1>2, <2>2, <2>3, ReconcileStep DEF Reconciling
<1> QED
  BY <1>3, <1>4

LEMMA HoldBeside ==
    ASSUME IInv, BesideInv, NEW p \in Launchers, NEW d \in Directories, Hold(p, d)
    PROVE  BesideInv'
<1>1. "held" \in Names /\ "full" \in Versions /\ StorageTypeOK /\ Shown
  BY NameFacts DEF Versions, IInv
<1>2. Mindful(p)
  BY <1>1, MonoPut, MonoMinds DEF Hold
<1> QED
  BY <1>2, RefusedBeside DEF Hold

\* A sealed request that is no orphan has its intent, and so has the rival's launch.
LEMMA ScanRequestBeside ==
    ASSUME IInv, BesideInv, NEW p \in Launchers, ScanRequest(p)
    PROVE  BesideInv'
<1>1. launcher[p].pc = "requests" /\ launcher \in [Launchers -> Record] /\ launcher[p] \in Record
  BY DEF ScanRequest, At, IInv
<1>2. PICK d \in launcher[p].todo :
         IF d \in Operations /\ Free(d, "request")
         THEN Goto(p, "refused") /\ UNCHANGED storage
         ELSE IF Orphan(d)
         THEN Hold(p, d)
         ELSE /\ launcher' = [launcher EXCEPT ![p].todo = @ \ {d}]
              /\ UNCHANGED storage
  BY DEF ScanRequest
<1>3. d \in Directories
  BY <1>1 DEF Record
<1>4. CASE Goto(p, "refused") /\ UNCHANGED storage
  BY <1>4, MonoUnchanged, MonoMinds, RefusedBeside
<1>5. CASE Hold(p, d)
  BY <1>3, <1>5, HoldBeside
<1>6. CASE ~Orphan(d) /\ launcher' = [launcher EXCEPT ![p].todo = @ \ {d}] /\ UNCHANGED storage
  <2>1. PICK s : s = [launcher[p] EXCEPT !.todo = @ \ {d}]
    OBVIOUS
  <2>2. /\ s.pc = "requests" /\ s.op = Op(p) /\ s.todo = launcher[p].todo \ {d}
        /\ s.rivals = launcher[p].rivals
    BY <1>1, <2>1 DEF Record, Op
  <2>3. Moves(p, s) /\ Mono
    BY <1>1, <1>6, <2>1, MonoUnchanged DEF Moves
  <2>4. ~Free(d, "intent")
    BY <1>6 DEF Orphan
  <2>5. ASSUME NEW q \in s.rivals, launcher[q].pc \in Sealed, Facing(launcher[p], launcher[q])
        PROVE  Facing(s, launcher[q])
    <3>1. /\ launcher[q].op \in launcher[p].todo \/ HasIntent(launcher[q])
          /\ launcher[q].made < 4 => Free(launcher[q].op, "intent")
      BY <1>1, <2>2, <2>5 DEF Facing, BesideInv, RivalInv
    <3>2. launcher[q].op = d => HasIntent(launcher[q])
      <4>1. launcher[q].made \in 0..5
        BY <1>1, <2>2, <2>5 DEF Record
      <4> QED
        BY <2>4, <2>5, <3>1, <4>1 DEF HasIntent
    <3>3. launcher[q].op \in s.todo \/ HasIntent(launcher[q])
      BY <2>2, <3>1, <3>2
    <3> QED
      BY <2>2, <3>3 DEF Facing, Looking, PastReconciliation, Preparing, Launching, Publishing
  <2> QED
    BY <1>1, <2>2, <2>3, <2>5, ReconcileStep DEF Reconciling
<1> QED
  BY <1>2, <1>4, <1>5, <1>6

LEMMA EndScanRequestsBeside ==
    ASSUME IInv, BesideInv, NEW p \in Launchers, EndScanRequests(p)
    PROVE  BesideInv'
<1>1. /\ launcher[p].pc = "requests" /\ launcher[p].todo = {} /\ launcher[p] \in Record
      /\ launcher \in [Launchers -> Record]
  BY DEF EndScanRequests, At, IInv
<1>2. PICK s : s = [launcher[p] EXCEPT !.pc = "intents", !.todo = Operations]
  OBVIOUS
<1>3. s.pc = "intents" /\ s.op = Op(p) /\ s.todo = Operations /\ s.rivals = launcher[p].rivals
  BY <1>1, <1>2 DEF Record, Op
<1>4. Moves(p, s) /\ Mono
  BY <1>1, <1>2, MonoUnchanged DEF Moves, EndScanRequests
<1>5. ASSUME NEW q \in s.rivals, launcher[q].pc \in Sealed, Facing(launcher[p], launcher[q])
      PROVE  Facing(s, launcher[q])
  <2>1. HasIntent(launcher[q])
    BY <1>1, <1>5 DEF Facing
  <2>2. launcher[q].op \in Operations
    BY <1>1, <1>3, <1>5, WorkerFacts DEF Sealing, Op, Record
  <2> QED
    BY <1>3, <2>1, <2>2 DEF Facing, Looking, PastReconciliation, Preparing, Launching, Publishing
<1> QED
  BY <1>1, <1>3, <1>4, <1>5, ReconcileStep DEF Reconciling

\* An intent that is there is not passed over.
LEMMA ScanIntentBeside ==
    ASSUME IInv, BesideInv, NEW p \in Launchers, ScanIntent(p)
    PROVE  BesideInv'
<1>1. PICK o, s :
         /\ o \in launcher[p].todo
         /\ launcher' = [launcher EXCEPT ![p] = s]
         /\ s = [launcher[p] EXCEPT
              !.todo = launcher[p].todo \ {o},
              !.item = o,
              !.pc = IF Free(o, "intent") THEN "intents" ELSE "first look"]
  BY DEF ScanIntent
<1>2. launcher[p].pc = "intents" /\ launcher[p] \in Record
  BY DEF ScanIntent, At, IInv
<1>3. /\ s.pc = IF Free(o, "intent") THEN "intents" ELSE "first look"
      /\ s.op = Op(p) /\ s.todo = launcher[p].todo \ {o} /\ s.item = o
      /\ s.rivals = launcher[p].rivals
  BY <1>1, <1>2 DEF Record, Op
<1>4. Moves(p, s) /\ Mono
  BY <1>1, MonoUnchanged DEF Moves, ScanIntent
<1>5. ASSUME NEW q \in s.rivals, launcher[q].pc \in Sealed, Facing(launcher[p], launcher[q])
      PROVE  Facing(s, launcher[q])
  <2>1. launcher[q].op \in launcher[p].todo /\ HasIntent(launcher[q])
    BY <1>2, <1>5 DEF Facing
  <2>2. launcher[q].op = o => s.pc = "first look"
    <3>1. q \in Launchers
      BY <1>2, <1>3, <1>5 DEF Record
    <3>2. ~Free(launcher[q].op, "intent")
      BY <2>1, <3>1, IntentShows DEF Op
    <3> QED
      BY <1>3, <3>2
  <2>3. launcher[q].op \in s.todo \/ (launcher[q].op = s.item /\ s.pc # "intents")
    BY <1>3, <2>1, <2>2
  <2> QED
    BY <1>3, <2>1, <2>3 DEF Facing, PastReconciliation, Preparing, Launching, Publishing
<1> QED
  BY <1>2, <1>3, <1>4, <1>5, ReconcileStep DEF Reconciling

\* With nothing left on the walk there is no rival left to face.
LEMMA EndScanIntentsBeside ==
    ASSUME IInv, BesideInv, NEW p \in Launchers, EndScanIntents(p)
    PROVE  BesideInv'
<1>1. /\ launcher[p].pc = "intents" /\ launcher[p].todo = {} /\ launcher[p] \in Record
  BY DEF EndScanIntents, At, IInv
<1>2. PICK s : s = [launcher[p] EXCEPT !.pc = "markers", !.todo = Operations, !.item = NoOperation]
  OBVIOUS
<1>3. s.pc = "markers" /\ s.op = Op(p) /\ s.rivals = launcher[p].rivals
  BY <1>1, <1>2 DEF Record, Op
<1>4. Moves(p, s) /\ Mono
  BY <1>2, MonoUnchanged DEF Moves, EndScanIntents
<1>5. \A q \in Launchers : ~Facing(launcher[p], launcher[q])
  BY <1>1 DEF Facing
<1>6. s.rivals \subseteq Launchers
  BY <1>1, <1>3 DEF Record
<1> QED
  BY <1>1, <1>3, <1>4, <1>5, <1>6, ReconcileStep DEF Reconciling

\* A step on from the item that is looked at, where no rival has the item.
LEMMA LookingGoto ==
    ASSUME IInv, BesideInv, Mono, NEW p \in Launchers, launcher[p].pc \in Looking,
           NEW place \in Looking \union {"intents"}, Goto(p, place),
           \A q \in Launchers : place = "intents" /\ HasIntent(launcher[q]) => Op(q) # Item(p)
    PROVE  BesideInv'
<1>1. PICK s : s = [launcher[p] EXCEPT !.pc = place]
  OBVIOUS
<1>2. launcher \in [Launchers -> Record] /\ launcher[p] \in Record
  BY DEF IInv
<1>3. /\ s.pc = place /\ s.op = Op(p) /\ s.todo = launcher[p].todo /\ s.rivals = launcher[p].rivals
      /\ s.item = launcher[p].item /\ Item(p) = launcher[p].item
  BY <1>1, <1>2 DEF Record, Op, Item
<1>4. Moves(p, s)
  BY <1>1, <1>2, GotoMoves
<1>5. ASSUME NEW q \in s.rivals, Facing(launcher[p], launcher[q])
      PROVE  Facing(s, launcher[q])
  <2>1. /\ HasIntent(launcher[q])
        /\ launcher[q].op \in launcher[p].todo \/ launcher[q].op = launcher[p].item
    BY <1>5 DEF Facing
  <2>2. q \in Launchers
    BY <1>2, <1>3, <1>5 DEF Record
  <2>3. s.pc = "intents" => launcher[q].op # s.item
    BY <1>3, <2>1, <2>2 DEF Op
  <2>4. s.pc \notin {"markers", "listing", "requests"} \union PastReconciliation
    BY <1>3 DEF Looking, PastReconciliation, Preparing, Launching, Publishing
  <2> QED
    BY <1>3, <2>1, <2>3, <2>4 DEF Facing
<1>6. launcher[p].pc \in Reconciling /\ s.pc \in Reconciling /\ s.pc # "fresh"
  BY <1>3 DEF Looking, Reconciling
<1> QED
  BY <1>3, <1>4, <1>5, <1>6, ReconcileStep

LEMMA LookBeside ==
    ASSUME IInv, BesideInv, NEW p \in Launchers, FirstLook(p) \/ SecondLook(p)
    PROVE  BesideInv'
<1>1. Mono
  BY MonoUnchanged DEF FirstLook, SecondLook, Look
<1>2. \E place \in Looking : Goto(p, place)
  BY DEF FirstLook, SecondLook, Look, Looking
<1>3. launcher[p].pc \in Looking /\ "intents" \notin Looking
  BY DEF FirstLook, SecondLook, Look, At, Looking
<1> QED
  BY <1>1, <1>2, <1>3, LookingGoto

LEMMA FirstReadBeside ==
    ASSUME IInv, BesideInv, NEW p \in Launchers, FirstRead(p)
    PROVE  BesideInv'
<1>1. Mono /\ Mindful(p) /\ launcher[p].pc \in Looking
  BY MonoUnchanged, MonoMinds DEF FirstRead, At, Looking
<1>2. CASE Goto(p, "refused")
  BY <1>1, <1>2, RefusedBeside
<1>3. CASE Goto(p, "second look")
  <2>1. PICK place \in Looking : place # "intents" /\ Goto(p, place)
    BY <1>3 DEF Looking
  <2> QED
    BY <1>1, <2>1, LookingGoto
<1> QED
  BY <1>2, <1>3 DEF FirstRead

\* A launch under way has no terminal that passed.
LEMMA SecondReadBeside ==
    ASSUME IInv, BesideInv, NEW p \in Launchers, SecondRead(p)
    PROVE  BesideInv'
<1>1. Mono /\ launcher[p].pc \in Looking
  BY MonoUnchanged DEF SecondRead, At, Looking
<1>2. CASE Terminal(Item(p)) = "PASS" /\ Goto(p, "intents")
  <2>1. \A q \in Launchers : HasIntent(launcher[q]) => Op(q) # Item(p)
    BY <1>2, IntentShows
  <2> QED
    BY <1>1, <1>2, <2>1, LookingGoto
<1>3. CASE Goto(p, "no start")
  <2>1. PICK place \in Looking : place # "intents" /\ Goto(p, place)
    BY <1>3 DEF Looking
  <2> QED
    BY <1>1, <2>1, LookingGoto
<1> QED
  BY <1>2, <1>3 DEF SecondRead

\* Nor has it a record that it was not started.
LEMMA ResolveBeside ==
    ASSUME IInv, BesideInv, NEW p \in Launchers, Resolve(p)
    PROVE  BesideInv'
<1>1. launcher[p].pc = "no start" /\ launcher[p].pc \in Looking
  BY DEF Resolve, At, Looking
<1>2. Item(p) \in Directories
  BY <1>1 DEF IInv, RecordInv, RecordOK, Item, Directories
<1>3. CASE NoStart(Item(p)) /\ Goto(p, "intents") /\ UNCHANGED storage
  <2>1. \A q \in Launchers : HasIntent(launcher[q]) => Op(q) # Item(p)
    BY <1>3, IntentShows
  <2> QED
    BY <1>1, <1>3, <2>1, LookingGoto, MonoUnchanged
<1>4. CASE Hold(p, Item(p))
  BY <1>2, <1>4, HoldBeside
<1> QED
  BY <1>3, <1>4 DEF Resolve

LEMMA ScanMarkerBeside ==
    ASSUME IInv, BesideInv, NEW p \in Launchers, ScanMarker(p) \/ EndScanMarkers(p)
    PROVE  BesideInv'
<1>1. /\ launcher[p].pc = "markers" /\ launcher[p] \in Record /\ Mono /\ Mindful(p)
      /\ launcher \in [Launchers -> Record]
  BY MonoUnchanged, MonoMinds DEF ScanMarker, EndScanMarkers, At, IInv
<1>2. \A q \in Launchers : ~Facing(launcher[p], launcher[q])
  BY <1>1 DEF Facing
<1>3. CASE Goto(p, "refused")
  BY <1>1, <1>3, RefusedBeside
<1>4. CASE \E o \in launcher[p].todo : launcher' = [launcher EXCEPT ![p].todo = @ \ {o}]
  <2>1. PICK s : s.pc = "markers" /\ s.op = Op(p) /\ s.rivals = launcher[p].rivals /\ Moves(p, s)
    <3>1. PICK o : launcher' = [launcher EXCEPT ![p].todo = @ \ {o}]
      BY <1>4
    <3>2. PICK s : s = [launcher[p] EXCEPT !.todo = @ \ {o}]
      OBVIOUS
    <3>3. s.pc = "markers" /\ s.op = Op(p) /\ s.rivals = launcher[p].rivals
      BY <1>1, <3>2 DEF Record, Op
    <3> QED
      BY <3>1, <3>2, <3>3 DEF Moves
  <2>2. s.rivals \subseteq Launchers
    BY <1>1, <2>1 DEF Record
  <2> QED
    BY <1>1, <1>2, <2>1, <2>2, ReconcileStep DEF Reconciling
<1>5. CASE Free(Op(p), "intent") /\ Goto(p, "fresh")
  <2>1. PICK s : s = [launcher[p] EXCEPT !.pc = "fresh"]
    OBVIOUS
  <2>2. s.pc = "fresh" /\ s.op = Op(p) /\ s.rivals = launcher[p].rivals /\ Moves(p, s)
    BY <1>1, <1>5, <2>1, GotoMoves DEF Record, Op
  <2>3. s.rivals \subseteq Launchers
    BY <1>1, <2>2 DEF Record
  <2> QED
    BY <1>1, <1>2, <1>5, <2>2, <2>3, ReconcileStep DEF Reconciling
<1> QED
  BY <1>3, <1>4, <1>5 DEF ScanMarker, EndScanMarkers

LEMMA ReconcileBeside ==
    ASSUME IInv, BesideInv, NEW p \in Launchers, Reconcile(p)
    PROVE  BesideInv'
BY CallBeside, ListingBeside, ScanRequestBeside, EndScanRequestsBeside, ScanIntentBeside,
   EndScanIntentsBeside, LookBeside, FirstReadBeside, SecondReadBeside, ResolveBeside,
   ScanMarkerBeside DEF Reconcile

-----------------------------------------------------------------------------
(***************************************************************************)
(* The launch, once it is past that.                                       *)
(***************************************************************************)
\* Nobody that is past reconciliation has a rival left.
LEMMA NoRivalLeft ==
    ASSUME IInv, BesideInv, NEW p \in Launchers,
           launcher[p].pc \in {"markers"} \union PastReconciliation,
           NEW s, s.rivals = launcher[p].rivals
    PROVE  \A q \in s.rivals : q \in Launchers \ {p} /\ RivalInv(s, launcher[q])
<1>1. launcher[p].rivals \subseteq Launchers
  BY DEF IInv, Record
<1> QED
  BY <1>1 DEF BesideInv, RivalInv, Facing

\* The request is sealed exclusively.
LEMMA SealBeside ==
    ASSUME IInv, BesideInv, NEW p \in Launchers, Seal(p)
    PROVE  BesideInv'
<1>1. /\ launcher[p].pc = "fresh" /\ launcher \in [Launchers -> Record] /\ launcher[p] \in Record
      /\ launcher[p].pc \in PastReconciliation /\ launcher[p].pc \in Before
  BY DEF Seal, At, IInv, PastReconciliation, Preparing, Before
<1>2. PICK o \in Operations :
         /\ o \in Directories /\ o = launcher[p].op /\ o = Op(p)
         /\ "request" \in Names /\ "full" \in Versions /\ StorageTypeOK /\ Shown
  BY <1>1, NameFacts, WorkerFacts DEF Op, Versions, IInv
<1>3. CASE Goto(p, "refused") /\ UNCHANGED storage
  BY <1>3, MonoUnchanged, MonoMinds, RefusedBeside
<1>4. CASE Create(Op(p), "request", "full") /\ Goto(p, "sealed")
  <2>1. Put(o, "request", "full") /\ Free(o, "request")
    BY <1>2, <1>4 DEF Create
  <2>2. Mono
    BY <1>2, <2>1, MonoPut
  <2>3. PICK s : s = [launcher[p] EXCEPT !.pc = "sealed"]
    OBVIOUS
  <2>4. /\ s.pc = "sealed" /\ s.op = o /\ s.made = launcher[p].made
        /\ s.rivals = launcher[p].rivals /\ Moves(p, s)
    BY <1>1, <1>2, <1>4, <2>3, GotoMoves DEF Record, Op
  <2>5. ~Free(o, "request")'
    <3>1. Sets(o, "request", "full")
      BY <1>2, <2>1, PutReads
    <3> QED
      BY <1>2, <3>1 DEF Sets, Free, Has
  <2>6. SealInv(s)'
    <3>1. Free(o, "intent") \/ (s.made = 0 /\ ~Free(o, "marker"))
      BY <1>1, <1>2, <2>4 DEF BesideInv, SealInv, Unprepared
    <3>2. Free(o, "intent")' \/ (s.made = 0 /\ ~Free(o, "marker")')
      BY <2>2, <3>1 DEF Mono
    <3> QED
      BY <2>4, <2>5, <3>2 DEF SealInv
  <2>7. \A q \in Launchers : launcher[q].pc \in Sealing => s.op # Op(q)
    BY <2>1, <2>4 DEF BesideInv, SealInv, Op
  <2>8. \A q \in s.rivals : q \in Launchers \ {p} /\ RivalInv(s, launcher[q])
    BY <1>1, <2>4, NoRivalLeft
  <2> QED
    BY <1>1, <2>2, <2>4, <2>6, <2>7, <2>8, MonoMinds, BesideStep
<1> QED
  BY <1>3, <1>4 DEF Seal

\* A sealed launch goes on.
LEMMA SealedStep ==
    ASSUME IInv, BesideInv, NEW p \in Launchers, Mindful(p), NEW s, Moves(p, s),
           launcher[p].pc \in Sealed, s.pc \in Sealed \ {"sealed"},
           s.op = Op(p), s.rivals = launcher[p].rivals,
           ~Free(Op(p), "request") => ~Free(s.op, "request")',
           HasIntent(launcher[p]) => HasIntent(s),
           Unprepared(s) => Unprepared(launcher[p]) /\
              (SealInv(launcher[p]) => Free(s.op, "intent")' \/ (s.made = 0 /\ ~Free(s.op, "marker")')),
           s.made < 4 =>
              /\ launcher[p].made < 4
              /\ Free(Op(p), "intent") => Free(s.op, "intent")'
    PROVE  BesideInv'
<1>1. launcher[p].pc \in Sealing /\ s.pc \in Sealing
  BY DEF Sealing
<1>2. /\ launcher[p].pc \in PastReconciliation /\ launcher[p].pc \notin Before
      /\ s.pc \notin Before
  BY DEF Sealed, PastReconciliation, Preparing, Before, Reconciling, Launching
<1>3. SealInv(launcher[p]) /\ launcher[p].op = Op(p)
  BY DEF BesideInv, Op
<1>4. SealInv(s)'
  BY <1>1, <1>3 DEF SealInv, Unprepared
<1>5. \A q \in Launchers \ {p} :
         s.pc \in Sealing /\ launcher[q].pc \in Sealing => s.op # Op(q)
  BY <1>1 DEF BesideInv, OneSealer
<1>6. \A q \in s.rivals : q \in Launchers \ {p} /\ RivalInv(s, launcher[q])
  BY <1>2, NoRivalLeft
<1> QED
  BY <1>2, <1>4, <1>5, <1>6, BesideStep

\* The staged request goes, which no other launcher relies on.
LEMMA DropSourceBeside ==
    ASSUME IInv, BesideInv, NEW p \in Launchers, DropSource(p)
    PROVE  BesideInv'
<1>1. /\ launcher[p].pc = "sealed" /\ launcher \in [Launchers -> Record] /\ launcher[p] \in Record
      /\ launcher[p].pc \in Sealing /\ Unlink(p, "request") /\ p \in Directories
  BY DEF DropSource, At, IInv, Sealing, Sealed, Directories
<1>2. PICK o \in Operations :
         /\ o \in Directories /\ o = launcher[p].op /\ o = Op(p) /\ o # p
         /\ "request" \in Names /\ "intent" \in Names /\ "marker" \in Names /\ "none" \in Versions
         /\ StorageTypeOK /\ Shown
  BY <1>1, NameFacts, WorkerFacts DEF Op, Versions, IInv
<1>3. Mindful(p)
  BY <1>1, UnlinkMinds
<1>4. /\ ~Free(o, "request") => ~Free(o, "request")'
      /\ Free(o, "intent") <=> Free(o, "intent")'
      /\ Free(o, "marker") <=> Free(o, "marker")'
  <2>1. Sets(p, "request", "none")
    BY <1>1, <1>2, PutReads DEF Unlink
  <2> QED
    BY <1>2, <2>1 DEF Sets, Free, Has
<1>5. PICK s : s = [launcher[p] EXCEPT !.pc = "preparing"]
  OBVIOUS
<1>6. /\ s.pc = "preparing" /\ s.op = o /\ s.made = 0 /\ launcher[p].made = 0
      /\ s.rivals = launcher[p].rivals /\ Moves(p, s)
  BY <1>1, <1>2, <1>5, GotoMoves, NothingHeld DEF DropSource, Record
<1>7. SealInv(launcher[p]) => Free(s.op, "intent")' \/ (s.made = 0 /\ ~Free(s.op, "marker")')
  BY <1>1, <1>2, <1>4, <1>6 DEF SealInv, Unprepared
<1>8. Unprepared(launcher[p]) /\ ~HasIntent(launcher[p])
  BY <1>1, <1>6 DEF Unprepared, HasIntent
<1>9. launcher[p].pc \in Sealed /\ s.pc \in Sealed \ {"sealed"}
  BY <1>1, <1>6 DEF Sealed
<1>10. s.made < 4 /\ launcher[p].made < 4
  BY <1>6
<1> QED
  BY <1>2, <1>3, <1>4, <1>6, <1>7, <1>8, <1>9, <1>10, SealedStep

LEMMA SealingFailsBeside ==
    ASSUME IInv, BesideInv, NEW p \in Launchers, SealingFails(p)
    PROVE  BesideInv'
<1>1. launcher[p].pc \in Sealing /\ Goto(p, "refused")
  BY DEF SealingFails, At, Sealing, Sealed
<1>2. Op(p) \in Directories
  BY <1>1, WorkerFacts
<1>3. Mindful(p)
  BY <1>1, <1>2, UnlinkMinds, MonoUnchanged, MonoMinds DEF SealingFails
<1> QED
  BY <1>1, <1>3, RefusedBeside

LEMMA SealedGoto ==
    ASSUME IInv, BesideInv, Mono, NEW p \in Launchers,
           launcher[p].pc \in {"reserving"} \union Launching,
           NEW place \in Launching, Goto(p, place)
    PROVE  BesideInv'
<1>1. PICK s : s = [launcher[p] EXCEPT !.pc = place]
  OBVIOUS
<1>2. launcher \in [Launchers -> Record] /\ launcher[p] \in Record
  BY DEF IInv
<1>3. /\ s.pc = place /\ s.op = Op(p) /\ s.made = launcher[p].made
      /\ s.rivals = launcher[p].rivals /\ Moves(p, s)
  BY <1>1, <1>2, GotoMoves DEF Record, Op
<1>4. /\ launcher[p].pc \in Sealed /\ launcher[p].pc \in Sealing
      /\ s.pc \in Sealed \ {"sealed"} /\ ~Unprepared(s)
  BY <1>3 DEF Sealed, Sealing, Launching, Unprepared
<1>5. PICK o \in Operations : o = Op(p) /\ o = s.op /\ o \in Directories
  BY <1>3, <1>4, WorkerFacts
<1>6. launcher[p].made = 5
  BY AtWork DEF RecordInv, Reserved
<1>7. /\ ~Free(o, "request") => ~Free(o, "request")'
      /\ HasIntent(launcher[p]) => HasIntent(s)
      /\ ~(s.made < 4)
  BY <1>3, <1>4, <1>5, <1>6 DEF Mono, HasIntent
<1> QED
  BY <1>3, <1>4, <1>5, <1>7, MonoMinds, SealedStep

LEMMA ReserveBeside ==
    ASSUME IInv, BesideInv, NEW p \in Launchers, Reserve(p)
    PROVE  BesideInv'
BY MonoSync, SealedGoto DEF Reserve, Barrier, At, Launching

LEMMA VerifyBeside ==
    ASSUME IInv, BesideInv, NEW p \in Launchers, Verify(p)
    PROVE  BesideInv'
BY MonoUnchanged, SealedGoto DEF Verify, At, Launching

\* A step that writes no request, no marker and no intent.
LEMMA PutElse ==
    ASSUME IInv, NEW p \in Launchers,
           launcher[p].pc \notin {"idle", "staged", "ended"},
           NEW n \in Names \ {"request", "intent", "marker"}, NEW v \in Versions, Put(Op(p), n, v)
    PROVE  Mono
<1>1. Op(p) \in Directories /\ StorageTypeOK /\ Shown
  BY AtWork DEF IInv
<1> QED
  BY <1>1, MonoPut

LEMMA ClaimBeside ==
    ASSUME IInv, BesideInv, NEW p \in Launchers, Claim(p)
    PROVE  BesideInv'
<1>1. launcher[p].pc \in Launching /\ launcher[p].pc \notin {"idle", "staged", "ended"}
  BY DEF Claim, At, Launching
<1>2. "dispatch" \in Names \ {"request", "intent", "marker"} /\ "full" \in Versions
      /\ "claimed" \in Launching
  BY NameFacts DEF Versions, Launching
<1>3. Mono
  BY <1>1, <1>2, PutElse DEF Claim, Create
<1> QED
  BY <1>1, <1>2, <1>3, SealedGoto DEF Claim

LEMMA SyncClaimBeside ==
    ASSUME IInv, BesideInv, NEW p \in Launchers, SyncClaim(p)
    PROVE  BesideInv'
BY MonoSync, SealedGoto DEF SyncClaim, Barrier, At, Launching

LEMMA StartBeside ==
    ASSUME IInv, BesideInv, NEW p \in Launchers, Start(p)
    PROVE  BesideInv'
BY MonoUnchanged, SealedGoto DEF Start, At, Launching

LEMMA ObserveBeside ==
    ASSUME IInv, BesideInv, NEW p \in Launchers, Observe(p)
    PROVE  BesideInv'
<1>1. launcher[p].pc = "running" /\ launcher \in [Launchers -> Record] /\ UNCHANGED launcher
  BY DEF Observe, At, IInv
<1>2. {"start", "input"} \subseteq Names \ {"request", "intent", "marker"} /\ "full" \in Versions
  BY NameFacts DEF Versions
<1>3. Mono
  BY <1>1, <1>2, PutElse DEF Observe
<1>4. launcher[p] \in Record /\ launcher[p] = [launcher[p] EXCEPT !.pc = "running"]
  BY <1>1 DEF Record
<1>5. Goto(p, "running")
  BY <1>1, <1>4 DEF Goto
<1> QED
  BY <1>1, <1>3, <1>5, SealedGoto DEF Launching

\* The intent is made where its launch alone is sealed, and the marker is there.
LEMMA IntentMinds ==
    ASSUME IInv, BesideInv, NEW p \in Launchers, launcher[p].pc = "preparing",
           launcher[p].made > 0, Put(Op(p), "intent", "full")
    PROVE  Mindful(p)
<1>1. launcher[p].pc \in Sealing /\ RecordInv(launcher[p])
  BY AtWork DEF Sealing, Sealed
<1>2. PICK o \in Operations : o \in Directories /\ o = Op(p) /\ o = launcher[p].op
  BY <1>1, WorkerFacts DEF Op
<1>3. Sets(o, "intent", "full") /\ "request" \in Names /\ "marker" \in Names /\ "intent" \in Names
  BY <1>2, NameFacts, PutReads DEF IInv, Versions
<1>4. ~Free(o, "marker")
  BY <1>1, <1>2 DEF RecordInv, HolderInv
<1>5. \A q \in Launchers \ {p} : launcher[q].pc \in Sealed => Op(q) # o
  BY <1>1, <1>2 DEF BesideInv, OneSealer, Sealing
<1>6. \A a \in Operations : a \in Directories
  BY DEF Directories
<1>7. \A d \in Directories : ~Free(d, "request") => ~Free(d, "request")'
  BY <1>3 DEF Sets, Free, Has
<1>8. \A a \in Operations :
         /\ ~Free(a, "marker") => ~Free(a, "marker")'
         /\ a # o => (Free(a, "intent") => Free(a, "intent")')
  BY <1>3, <1>6 DEF Sets, Free, Has
<1> QED
  BY <1>4, <1>5, <1>7, <1>8 DEF Mindful

\* The launch that makes its marker has no intent yet, nor has anybody else one there.
LEMMA PrepareNextBeside ==
    ASSUME IInv, BesideInv, NEW p \in Launchers, PrepareNext(p)
    PROVE  BesideInv'
<1>1. /\ launcher[p].pc = "preparing" /\ launcher \in [Launchers -> Record] /\ launcher[p] \in Record
      /\ launcher[p].pc \in Sealing /\ launcher[p].pc \in Sealed /\ RecordInv(launcher[p])
  BY DEF PrepareNext, At, IInv, Sealing, Sealed
<1>2. launcher[p].made \in 0..4
  BY <1>1 DEF RecordInv, Record
<1>3. PICK made, n, s :
         /\ made \in 1..5 /\ n \in Names
         /\ made = launcher[p].made + 1 /\ n = Preparation[made]
         /\ Create(Op(p), n, Contents(n)) /\ Moves(p, s)
         /\ s = [launcher[p] EXCEPT
              !.made = made, !.pc = IF n = "reservation" THEN "reserving" ELSE "preparing"]
  <2>1. launcher[p].made + 1 \in 1..5
    BY <1>2
  <2>2. Preparation[launcher[p].made + 1] \in Names
    BY <2>1, PreparationFacts DEF Names
  <2> QED
    BY <2>1, <2>2 DEF PrepareNext, Moves
<1>4. /\ n = "intent" <=> made = 4
      /\ n = "reservation" <=> made = 5
      /\ n = "marker" <=> made = 1
      /\ n # "request"
  BY <1>3, PreparationFacts
<1>5. /\ s.pc = IF n = "reservation" THEN "reserving" ELSE "preparing"
      /\ s.op = Op(p) /\ s.made = made /\ s.rivals = launcher[p].rivals
  BY <1>1, <1>3 DEF Record, Op
<1>6. Contents(n) \in Versions /\ (n = "marker" => Contents(n) # "none")
      /\ (n = "intent" => Contents(n) = "full")
  BY DEF Contents, Versions
<1>7. PICK o \in Operations : o \in Directories /\ o = launcher[p].op /\ o = Op(p)
  BY <1>1, WorkerFacts DEF Op
<1>8. StorageTypeOK /\ Shown /\ SealInv(launcher[p])
  BY DEF IInv, BesideInv
<1>9. s.pc \in Sealed \ {"sealed"}
  BY <1>5 DEF Sealed
<1>10. HasIntent(launcher[p]) => HasIntent(s)
  BY <1>2, <1>3, <1>5, <1>9 DEF HasIntent
<1>11. CASE n # "intent"
  <2>1. Mono
    BY <1>3, <1>4, <1>6, <1>7, <1>8, <1>11, MonoPut DEF Create
  <2>2. Mindful(p) /\ (~Free(o, "request") => ~Free(o, "request")')
    BY <1>7, <2>1, MonoMinds DEF Mono
  <2>3. Free(o, "intent") => Free(o, "intent")'
    BY <2>1 DEF Mono
  <2>4. s.made < 4 => launcher[p].made < 4 /\ Unprepared(launcher[p])
    BY <1>1, <1>2, <1>3, <1>5 DEF Unprepared
  <2>5. Unprepared(s) => s.made < 4
    BY <1>5 DEF Unprepared
  <2>6. s.made < 4 => Free(o, "intent")
    <3>1. ASSUME s.made < 4
          PROVE  Free(o, "intent") \/ (launcher[p].made = 0 /\ ~Free(o, "marker"))
      BY <1>7, <1>8, <2>4, <3>1 DEF SealInv
    <3>2. launcher[p].made = 0 => Free(o, "marker")
      BY <1>3, <1>4, <1>7 DEF Create
    <3> QED
      BY <3>1, <3>2
  <2> QED
    BY <1>1, <1>3, <1>5, <1>7, <1>9, <1>10, <2>2, <2>3, <2>4, <2>5, <2>6, SealedStep
<1>12. CASE n = "intent"
  <2>1. ~Unprepared(s) /\ ~(s.made < 4) /\ launcher[p].made > 0
    BY <1>2, <1>3, <1>4, <1>5, <1>12 DEF Unprepared
  <2>2. Put(o, "intent", "full")
    BY <1>3, <1>6, <1>7, <1>12 DEF Create
  <2>3. Mindful(p)
    BY <1>1, <1>7, <2>1, <2>2, IntentMinds
  <2>4. ~Free(o, "request") => ~Free(o, "request")'
    <3>1. Sets(o, "intent", "full")
      BY <1>7, <1>8, <2>2, NameFacts, PutReads DEF Versions
    <3> QED
      BY <1>7, <3>1, NameFacts DEF Sets, Free, Has
  <2> QED
    BY <1>1, <1>3, <1>5, <1>7, <1>9, <1>10, <2>1, <2>3, <2>4, SealedStep
<1> QED
  BY <1>11, <1>12

LEMMA PreparationFailsBeside ==
    ASSUME IInv, BesideInv, NEW p \in Launchers, PreparationFails(p)
    PROVE  BesideInv'
<1>1. launcher[p].pc \in Sealing /\ launcher[p] \in Record /\ Mono
  BY MonoUnchanged DEF PreparationFails, At, IInv, Sealing, Sealed
<1>2. PICK s : s = [launcher[p] EXCEPT !.pc = "unwinding", !.undone = 1]
  OBVIOUS
<1>3. s.pc = "unwinding" /\ s.op = Op(p) /\ s.rivals = launcher[p].rivals /\ Moves(p, s)
  BY <1>1, <1>2 DEF PreparationFails, Moves, Record, Op
<1>4. s.pc \notin Sealed \union Before \union {"markers"} \union PastReconciliation
  BY <1>3 DEF Sealed, Before, Reconciling, Preparing, Launching, Publishing, PastReconciliation
<1>5. ~Free(s.op, "request")'
  <2>1. PICK d \in Directories : d = Op(p) /\ d = s.op /\ d = launcher[p].op
    BY <1>1, <1>3, WorkerFacts DEF Op
  <2>2. ~Free(d, "request")
    BY <1>1, <2>1 DEF BesideInv, SealInv
  <2> QED
    BY <1>1, <2>1, <2>2 DEF Mono
<1> QED
  BY <1>1, <1>3, <1>4, <1>5, MonoMinds, LeaveStep

LEMMA UnwindBeside ==
    ASSUME IInv, BesideInv, NEW p \in Launchers, Unwind(p)
    PROVE  BesideInv'
<1>1. launcher[p].pc = "unwinding" /\ launcher[p].pc \in Sealing /\ launcher[p] \in Record
      /\ launcher \in [Launchers -> Record]
  BY DEF Unwind, At, IInv, Sealing
<1>2. \A place \in {"unwinding", "clearing"} :
         place \notin Sealed \union Before \union {"markers"} \union PastReconciliation
         /\ place \in Sealing
  BY DEF Sealed, Before, Sealing, Reconciling, Preparing, Launching, Publishing, PastReconciliation
<1>3. CASE Goto(p, "clearing") /\ UNCHANGED storage
  <2>1. PICK place \in {"unwinding", "clearing"} : Goto(p, place)
    BY <1>3
  <2> QED
    BY <1>1, <1>2, <1>3, <2>1, MonoUnchanged, LeaveGoto
<1>4. CASE \E next \in Undoable :
         Unlink(Op(p), Preparation[next]) /\ launcher' = [launcher EXCEPT ![p].undone = next]
  <2>1. PICK next \in Undoable :
           Unlink(Op(p), Preparation[next]) /\ launcher' = [launcher EXCEPT ![p].undone = next]
    BY <1>4
  <2>2. PICK n \in Names : n \notin {"request", "marker"} /\ Put(Op(p), n, "none")
    BY <2>1, PreparationFacts, NameFacts DEF Unlink
  <2>3. PICK d \in Directories : d = Op(p) /\ d = launcher[p].op
    BY <1>1, WorkerFacts DEF Op
  <2>4. Mono
    BY <2>2, <2>3, MonoPut DEF IInv, Versions
  <2>5. PICK s : s = [launcher[p] EXCEPT !.undone = next]
    OBVIOUS
  <2>6. s.pc = "unwinding" /\ s.op = Op(p) /\ s.rivals = launcher[p].rivals /\ Moves(p, s)
    BY <1>1, <2>1, <2>5 DEF Moves, Record, Op
  <2>7. ~Free(s.op, "request")'
    <3>1. ~Free(d, "request")
      BY <1>1, <2>3 DEF BesideInv, SealInv
    <3> QED
      BY <2>3, <2>4, <2>6, <3>1 DEF Mono
  <2> QED
    BY <1>1, <1>2, <2>4, <2>6, <2>7, MonoMinds, LeaveStep
<1> QED
  BY <1>3, <1>4 DEF Unwind

\* A refused launch takes its own staged request away.
LEMMA DropRefusedBeside ==
    ASSUME IInv, BesideInv, NEW p \in Launchers, DropRefused(p)
    PROVE  BesideInv'
<1>1. p \in Directories
  BY DEF Directories
<1>2. Mindful(p)
  BY <1>1, UnlinkMinds DEF DropRefused
<1> QED
  BY <1>2, LeaveEnd DEF DropRefused

\* The sealed request goes with the only launcher of the operation that sealed it.
LEMMA ClearBeside ==
    ASSUME IInv, BesideInv, NEW p \in Launchers, Clear(p)
    PROVE  BesideInv'
<1>1. /\ launcher[p].pc \in Sealing /\ launcher \in [Launchers -> Record] /\ launcher[p] \in Record
  BY DEF Clear, At, IInv, Sealing
<1>2. Op(p) \in Directories
  BY <1>1, WorkerFacts
<1>3. CASE End(p) /\ UNCHANGED storage
  BY <1>3, MonoUnchanged, MonoMinds, LeaveEnd
<1>4. CASE Unlink(Op(p), "request") /\ (Goto(p, "marking") \/ Goto(p, "marking proven"))
  <2>1. PICK place \in {"marking", "marking proven"} : Goto(p, place)
    BY <1>4
  <2>2. PICK s : s = [launcher[p] EXCEPT !.pc = place]
    OBVIOUS
  <2>3. s.pc = place /\ s.rivals = launcher[p].rivals /\ Moves(p, s)
    BY <1>1, <2>1, <2>2, GotoMoves DEF Record
  <2>4. s.pc \notin Sealed \union Before \union {"markers"} \union Sealing \union PastReconciliation
    BY <2>3 DEF Sealed, Before, Sealing, Reconciling, Preparing, Launching, Publishing,
       PastReconciliation
  <2>5. Mindful(p)
    BY <1>1, <1>2, <1>4, UnlinkMinds
  <2> QED
    BY <2>3, <2>4, <2>5, LeaveStep
<1> QED
  BY <1>3, <1>4 DEF Clear

\* Steps that leave the launch and write no request and no intent.
LEMMA LeaveTo ==
    ASSUME IInv, BesideInv, Mono, NEW p \in Launchers,
           launcher[p].pc \in Launching \union Publishing \union {"marking proven"},
           NEW place, Goto(p, place),
           \/ place \in Publishing /\ launcher[p].pc \in Launching \union Publishing
           \/ place = "no start proven"
    PROVE  BesideInv'
<1>1. place \notin Sealed \union Before \union {"markers"} \union Sealing
  BY DEF Sealed, Before, Sealing, Reconciling, Launching, Publishing
<1>2. place \in PastReconciliation => launcher[p].pc \in PastReconciliation
  BY DEF PastReconciliation, Preparing, Launching, Publishing
<1> QED
  BY <1>1, <1>2, LeaveGoto

LEMMA MarkBeside ==
    ASSUME IInv, BesideInv, NEW p \in Launchers, Mark(p)
    PROVE  BesideInv'
<1>1. launcher[p].pc \in {"marking", "marking proven"}
  BY DEF Mark, At
<1>2. Op(p) \in Directories /\ StorageTypeOK /\ Shown
  BY <1>1, AtWork DEF IInv
<1>3. "marker" \in Names /\ "DONE" \in Versions
  BY NameFacts DEF Versions
<1>4. Mono
  BY <1>2, <1>3, MonoPut DEF Mark
<1>5. CASE End(p)
  BY <1>4, <1>5, MonoMinds, LeaveEnd
<1>6. CASE At(p, "marking proven") /\ Goto(p, "no start proven")
  <2>1. PICK place : place = "no start proven" /\ Goto(p, place)
    BY <1>6
  <2> QED
    BY <1>4, <1>6, <2>1, LeaveTo DEF At
<1> QED
  BY <1>5, <1>6 DEF Mark

LEMMA RecordNoStartBeside ==
    ASSUME IInv, BesideInv, NEW p \in Launchers, RecordNoStart(p)
    PROVE  BesideInv'
<1>1. launcher[p].pc \notin {"idle", "staged", "ended"}
  BY DEF RecordNoStart, At
<1>2. "nostart" \in Names \ {"request", "intent", "marker"} /\ "full" \in Versions
  BY NameFacts DEF Versions
<1>3. CASE Create(Op(p), "nostart", "full")
  <2>1. Mono
    BY <1>1, <1>2, <1>3, PutElse DEF Create
  <2> QED
    BY <2>1, MonoMinds, LeaveEnd DEF RecordNoStart
<1>4. CASE UNCHANGED storage
  BY <1>4, MonoUnchanged, MonoMinds, LeaveEnd DEF RecordNoStart
<1> QED
  BY <1>3, <1>4 DEF RecordNoStart

\* The start failed, or was not made.
LEMMA NoStartBeside ==
    ASSUME IInv, BesideInv, NEW p \in Launchers, Refuse(p) \/ NotStarted(p)
    PROVE  BesideInv'
<1>1. Mono /\ launcher[p].pc \in Sealing
  BY MonoUnchanged DEF Refuse, NotStarted, At, Sealing, Sealed, Launching
<1>2. CASE End(p)
  BY <1>1, <1>2, MonoMinds, LeaveEnd
<1>3. CASE Goto(p, "clearing proven")
  <2>1. PICK place \in {"clearing proven"} : Goto(p, place)
    BY <1>3
  <2>2. place \notin Sealed \union Before \union {"markers"} \union PastReconciliation
    BY DEF Sealed, Before, Reconciling, Preparing, Launching, Publishing, PastReconciliation
  <2> QED
    BY <1>1, <2>1, <2>2, LeaveGoto
<1> QED
  BY <1>2, <1>3 DEF Refuse, NotStarted

LEMMA DoubtBeside ==
    ASSUME IInv, BesideInv, NEW p \in Launchers, RunnerFails(p) \/ PublicationFails(p)
    PROVE  BesideInv'
<1>1. Mono /\ launcher[p].pc \in Launching \union Publishing
  BY MonoUnchanged DEF RunnerFails, PublicationFails, At, Launching, Publishing
<1>2. PICK place \in Publishing : Goto(p, place)
  BY DEF RunnerFails, PublicationFails, Publishing
<1> QED
  BY <1>1, <1>2, LeaveTo

LEMMA ExitBeside ==
    ASSUME IInv, BesideInv, NEW p \in Launchers, Exit(p)
    PROVE  BesideInv'
<1>1. Mono /\ launcher[p] \in Record /\ launcher[p].pc \in PastReconciliation
  BY MonoUnchanged DEF Exit, At, IInv, PastReconciliation, Launching
<1>2. PICK s : s.pc = "exited" /\ s.rivals = launcher[p].rivals /\ Moves(p, s)
  <2>1. PICK verdict \in Verdicts :
           launcher' = [launcher EXCEPT ![p] = [@ EXCEPT
               !.pc = "exited",
               !.result = IF Receipts(Op(p)) THEN verdict ELSE "FAIL"]]
    BY DEF Exit
  <2>2. PICK s : s = [launcher[p] EXCEPT
               !.pc = "exited",
               !.result = IF Receipts(Op(p)) THEN verdict ELSE "FAIL"]
    OBVIOUS
  <2>3. s.pc = "exited" /\ s.rivals = launcher[p].rivals
    BY <1>1, <2>2 DEF Record
  <2> QED
    BY <2>1, <2>2, <2>3 DEF Moves
<1>3. s.pc \notin Sealed \union Before \union {"markers"} \union Sealing
  BY <1>2 DEF Sealed, Before, Sealing, Reconciling, Launching
<1> QED
  BY <1>1, <1>2, <1>3, MonoMinds, LeaveStep

\* The publication comes after the launch, and writes its own files.
LEMMA PublishBeside ==
    ASSUME IInv, BesideInv, NEW p \in Launchers, Publish(p)
    PROVE  BesideInv'
<1>1. launcher[p].pc \in Publishing /\ RecordInv(launcher[p])
  BY DEF Publish, PutPending, SyncPending, Barrier, LinkTerminal, SyncTerminal, DropPending,
     Answer, PublicationFails, RecordUncertain, SyncUncertain, At, Publishing, IInv
<1>2. Op(p) \in Directories /\ StorageTypeOK /\ Shown /\ launcher[p].result \in Versions
  BY <1>1 DEF RecordInv, RecordOK, Record, Publishing, Op, Directories, IInv, Versions, Verdicts
<1>3. "pending" \in Names /\ "terminal" \in Names /\ "full" \in Versions /\ "none" \in Versions
  BY NameFacts DEF Versions
<1>4. Mono
  <2>1. CASE UNCHANGED storage
    BY <2>1, MonoUnchanged
  <2>2. CASE Sync(Op(p))
    BY <2>2, MonoSync
  <2>3. CASE \E n \in {"pending", "terminal"}, v \in Versions : Put(Op(p), n, v)
    BY <1>2, <1>3, <2>3, MonoPut
  <2> QED
    BY <1>2, <1>3, <2>1, <2>2, <2>3
       DEF Publish, PutPending, SyncPending, Barrier, LinkTerminal, SyncTerminal, DropPending,
       Answer, PublicationFails, RecordUncertain, SyncUncertain, Create, Unlink
<1>5. End(p) \/ \E place \in Publishing : Goto(p, place)
  BY DEF Publish, PutPending, SyncPending, Barrier, LinkTerminal, SyncTerminal, DropPending,
     Answer, PublicationFails, RecordUncertain, SyncUncertain, Publishing
<1>6. CASE End(p)
  BY <1>4, <1>6, MonoMinds, LeaveEnd
<1>7. CASE \E place \in Publishing : Goto(p, place)
  <2>1. PICK place \in Publishing : Goto(p, place)
    BY <1>7
  <2> QED
    BY <1>1, <1>4, <2>1, LeaveTo
<1> QED
  BY <1>5, <1>6, <1>7

\* One launcher's step.
LEMMA StepBeside ==
    ASSUME IInv, BesideInv, NEW p \in Launchers, Step(p)
    PROVE  BesideInv'
<1>1. CASE Prepare(p)
  BY <1>1, SealBeside, DropSourceBeside, SealingFailsBeside, PrepareNextBeside, ReserveBeside,
     PreparationFailsBeside, UnwindBeside, DropRefusedBeside DEF Prepare
<1>2. CASE Cleanup(p)
  BY <1>2, ClearBeside, MarkBeside, RecordNoStartBeside DEF Cleanup
<1>3. CASE Run(p)
  BY <1>3, NoStartBeside, VerifyBeside, ClaimBeside, SyncClaimBeside, StartBeside, DoubtBeside,
     ObserveBeside, ExitBeside DEF Run
<1>4. CASE Kill(p)
  BY <1>4, MonoUnchanged, MonoMinds, LeaveEnd DEF Kill
<1> QED
  BY <1>1, <1>2, <1>3, <1>4, StageBeside, ReconcileBeside, PublishBeside DEF Step

\* With every launcher at rest nothing is asked of the files.
AllRest == \A q \in Launchers : launcher[q] \in {Idle, Ended}

LEMMA RestBeside == AllRest => BesideInv
<1> SUFFICES ASSUME AllRest PROVE BesideInv
  OBVIOUS
<1>1. \A q \in Launchers : launcher[q].pc \in {"idle", "ended"} /\ launcher[q].rivals = {}
  BY DEF AllRest, Idle, Ended
<1>2. \A q \in Launchers : launcher[q].pc \notin Sealing /\ ~Unprepared(launcher[q])
  BY <1>1 DEF Sealing, Sealed, Launching, Unprepared
<1> QED
  BY <1>1, <1>2 DEF BesideInv, SealInv, OneSealer

LEMMA NextBeside ==
    ASSUME IInv, Dark, BesideInv, [Next]_vars
    PROVE  BesideInv'
<1>1. CASE PowerLoss \/ Settle \/ PowerBack
  <2>1. AllRest'
    BY <1>1 DEF PowerLoss, Settle, PowerBack, Dark, AllRest
  <2> QED
    BY <2>1, RestBeside, PTL
<1>2. CASE UNCHANGED vars
  BY <1>2 DEF vars, BesideInv, SealInv, Unprepared, OneSealer, RivalInv, Facing, HasIntent,
     Free, Has, Op
<1> QED
  BY <1>1, <1>2, StepBeside DEF Next, Step

\* No launch gets past reconciliation beside one, of whatever operation, that was
\* sealed when it began and still is, though no lock is taken
\* (reconcile_prelaunch_intents).
THEOREM NoneBesideSealed == Spec => []NothingBesideSealed
<1>1. Init => BesideInv
  BY RestBeside DEF Init, AllRest
<1>2. IInv /\ Dark /\ BesideInv /\ [Next]_vars => BesideInv'
  BY NextBeside
<1>3. BesideInv => NothingBesideSealed
  BY DEF BesideInv, RivalInv, Facing, NothingBesideSealed
<1> QED
  BY <1>1, <1>2, <1>3, Invariance, PTL DEF Spec

=============================================================================
