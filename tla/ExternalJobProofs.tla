------------------------- MODULE ExternalJobProofs -------------------------
(***************************************************************************)
(* Proofs about ExternalJob, for every set of attempts, every relation of  *)
(* children to parents and every chain of retries.                         *)
(***************************************************************************)
EXTENDS ExternalJob, TLAPS

\* A step of Next, by its attempt.
Move(a) ==
    \/ Create(a) \/ Invoke(a) \/ Monitor(a) \/ Return(a) \/ NoticeCancel(a)
    \/ CancelChild(a) \/ ChildrenCancelled(a) \/ SettleChild(a)
    \/ AbandonChild(a) \/ Capture(a) \/ WriteStatus(a) \/ FailToFinalize(a)
    \/ WriteResult(a) \/ Die(a) \/ RequestCancel(a) \/ PublishCancel(a)

\* Which files there are follows from how far a runner came; of one that was
\* killed only what readers rely on.
FilesFit(a) ==
    /\ step[a] = "absent" => files[a] = {}
    /\ step[a] \in {"created", "invoked"} => files[a] = {"request"}
    /\ step[a] \in {"completed", "cancelling", "settling"}
        => files[a] = {"request", "completion"}
    /\ step[a] \in {"captured", "raised"}
        => files[a] = {"request", "completion", "response"}
    /\ step[a] = "closed"
        => files[a] = {"request", "completion", "response", "status"}
    /\ step[a] = "done"
        => files[a] = {"request", "completion", "response", "status", "result"}
    /\ step[a] = "killed"
        => "result" \notin files[a] /\ ("status" \in files[a] => "completion" \in files[a])

StatusFits(a) == Terminal(a) <=> terminal[a].state # "RUNNING"

CancelSeen(a) ==
    step[a] \in {"cancelling", "settling", "captured"} /\ cancel[a] = "early"
        => local[a]

EarlyWins(a) ==
    Terminal(a) /\ cancel[a] = "early" => terminal[a].state = "CANCELLED"

SuccessIsClean(a) == terminal[a].state = "SUCCEEDED" => terminal[a].clean

ChildrenFit(a) ==
    /\ step[a] = "captured" => todo[a] = {}
    /\ step[a] \in {"settling", "captured"} /\ ~blocked[a]
        => \A c \in Children[a] : c \in todo[a] \/ SettledTree(c)
    /\ SettledTree(a) => \A c \in Children[a] : SettledTree(c)

AttemptFits(a) ==
    /\ FilesFit(a)
    /\ StatusFits(a)
    /\ CancelSeen(a)
    /\ EarlyWins(a)
    /\ SuccessIsClean(a)
    /\ ChildrenFit(a)

\* The inductive invariant.
IInv == TypeOK /\ \A a \in Attempts : AttemptFits(a)
-----------------------------------------------------------------------------
\* Every step keeps the types.
LEMMA TypeStep ==
    ASSUME TypeOK, [Next]_vars
    PROVE  TypeOK'
<1>1. SUFFICES ASSUME NEW b \in Attempts, Move(b) PROVE TypeOK'
  <2>1. CASE UNCHANGED vars
    BY <2>1 DEF vars, TypeOK
  <2>2. CASE Next
    BY <2>2, <1>1 DEF Next, Progress, Move
  <2>. QED  BY <2>1, <2>2
<1>2. Children[b] \in SUBSET Attempts
  BY JobAssumption
<1>3. CASE Create(b)
  BY <1>2, <1>3 DEF Create, Go, Publish, FileNames, TypeOK, Steps
<1>4. CASE Invoke(b)
  BY <1>2, <1>4 DEF Invoke, Go, TypeOK, Steps
<1>5. CASE Monitor(b)
  BY <1>2, <1>5 DEF Monitor, TypeOK, Steps
<1>6. CASE Return(b)
  <2>1. \A x \in BOOLEAN : Returned(x) \subseteq ProcessResults
    BY SMT DEF Returned, ProcessResults
  <2>2. PICK r \in ProcessResults : process' = [process EXCEPT ![b] = r]
    BY <2>1, <1>6 DEF Return, TypeOK
  <2>. QED
    BY <2>2, <1>6 DEF Return, Go, Publish, FileNames, TypeOK, Steps
<1>7. CASE NoticeCancel(b)
  BY <1>2, <1>7 DEF NoticeCancel, Go, TypeOK, Steps
<1>8. CASE CancelChild(b)
  BY <1>2, <1>8 DEF CancelChild, Done, Block, TypeOK, Steps
<1>9. CASE ChildrenCancelled(b)
  BY <1>2, <1>9 DEF ChildrenCancelled, Go, TypeOK, Steps
<1>10. CASE SettleChild(b)
  BY <1>2, <1>10 DEF SettleChild, Done, Block, TypeOK, Steps
<1>11. CASE AbandonChild(b)
  BY <1>2, <1>11 DEF AbandonChild, Done, Block, TypeOK, Steps
<1>12. CASE Capture(b)
  BY <1>2, <1>12 DEF Capture, Go, Publish, Block, FileNames, TypeOK, Steps
<1>13. CASE WriteStatus(b)
  BY <1>2, <1>13 DEF WriteStatus, Go, Publish, Forget, TerminalState, Clean,
      FileNames, States, Passed, TypeOK, Steps
<1>14. CASE FailToFinalize(b)
  BY <1>2, <1>14 DEF FailToFinalize, Go, Forget, TypeOK, Steps
<1>15. CASE WriteResult(b)
  BY <1>2, <1>15 DEF WriteResult, Go, Publish, FileNames, TypeOK, Steps
<1>16. CASE Die(b)
  BY <1>2, <1>16 DEF Die, Go, Forget, TypeOK, Steps
<1>17. CASE RequestCancel(b)
  BY <1>2, <1>17 DEF RequestCancel, TypeOK, Steps
<1>18. CASE PublishCancel(b)
  BY <1>2, <1>18 DEF PublishCancel, TypeOK, Steps
<1>. QED
  BY <1>1, <1>3, <1>4, <1>5, <1>6, <1>7, <1>8, <1>9, <1>10, <1>11, <1>12,
      <1>13, <1>14, <1>15, <1>16, <1>17, <1>18 DEF Move

\* The files of an attempt are written in their order.
LEMMA FilesStep ==
    ASSUME IInv, [Next]_vars, NEW a \in Attempts
    PROVE  FilesFit(a)'
<1>1. CASE UNCHANGED vars
  BY <1>1 DEF vars, IInv, AttemptFits, FilesFit, FileNames
<1>2. SUFFICES ASSUME NEW b \in Attempts, Move(b) PROVE FilesFit(a)'
  BY <1>1, <1>2 DEF Next, Progress, Move
<1>3. CASE Create(b)
  BY <1>3 DEF Create, Go, Publish, IInv, AttemptFits, TypeOK, FilesFit,
      FileNames
<1>4. CASE Invoke(b)
  BY <1>4 DEF Invoke, Go, IInv, AttemptFits, TypeOK, FilesFit, FileNames
<1>5. CASE Monitor(b)
  BY <1>5 DEF Monitor, IInv, AttemptFits, TypeOK, FilesFit, FileNames
<1>6. CASE Return(b)
  BY <1>6 DEF Return, Go, Publish, IInv, AttemptFits, TypeOK, FilesFit,
      FileNames
<1>7. CASE NoticeCancel(b)
  BY <1>7 DEF NoticeCancel, Go, IInv, AttemptFits, TypeOK, FilesFit, FileNames
<1>8. CASE CancelChild(b)
  BY <1>8 DEF CancelChild, Done, Block, IInv, AttemptFits, TypeOK, FilesFit,
      FileNames
<1>9. CASE ChildrenCancelled(b)
  BY <1>9 DEF ChildrenCancelled, Go, IInv, AttemptFits, TypeOK, FilesFit,
      FileNames
<1>10. CASE SettleChild(b)
  BY <1>10 DEF SettleChild, Done, Block, IInv, AttemptFits, TypeOK, FilesFit,
      FileNames
<1>11. CASE AbandonChild(b)
  BY <1>11 DEF AbandonChild, Done, Block, IInv, AttemptFits, TypeOK, FilesFit,
      FileNames
<1>12. CASE Capture(b)
  BY <1>12 DEF Capture, Go, Publish, Block, IInv, AttemptFits, TypeOK,
      FilesFit, FileNames
<1>13. CASE WriteStatus(b)
  BY <1>13 DEF WriteStatus, Go, Publish, Forget, IInv, AttemptFits, TypeOK,
      FilesFit, FileNames
<1>14. CASE FailToFinalize(b)
  BY <1>14 DEF FailToFinalize, Go, Forget, IInv, AttemptFits, TypeOK, FilesFit,
      FileNames
<1>15. CASE WriteResult(b)
  BY <1>15 DEF WriteResult, Go, Publish, IInv, AttemptFits, TypeOK, FilesFit,
      FileNames
<1>16. CASE Die(b)
  <2>1. /\ files'[a] = files[a] /\ FilesFit(a) /\ step[a] \in Steps
        /\ step'[a] = IF a = b THEN "killed" ELSE step[a]
    BY <1>16 DEF Die, Go, IInv, AttemptFits, TypeOK
  <2>2. a = b => step[a] \notin {"absent", "done", "raised", "killed"}
    BY <1>16 DEF Die
  <2> QED
    BY <2>1, <2>2 DEF FilesFit, Steps, FileNames
<1>17. CASE RequestCancel(b)
  BY <1>17 DEF RequestCancel, IInv, AttemptFits, TypeOK, FilesFit, FileNames
<1>18. CASE PublishCancel(b)
  BY <1>18 DEF PublishCancel, IInv, AttemptFits, TypeOK, FilesFit, FileNames
<1>. QED
  BY <1>2, <1>3, <1>4, <1>5, <1>6, <1>7, <1>8, <1>9, <1>10, <1>11, <1>12,
      <1>13, <1>14, <1>15, <1>16, <1>17, <1>18 DEF Move

\* The terminal status says how an attempt ended, and no other status does.
LEMMA StatusStep ==
    ASSUME IInv, [Next]_vars, NEW a \in Attempts
    PROVE  StatusFits(a)'
<1>1. CASE UNCHANGED vars
  BY <1>1 DEF vars, IInv, AttemptFits, StatusFits, FilesFit, Terminal, FileNames
<1>2. SUFFICES ASSUME NEW b \in Attempts, Move(b) PROVE StatusFits(a)'
  BY <1>1, <1>2 DEF Next, Progress, Move
<1>3. CASE Create(b)
  BY <1>3 DEF Create, Go, Publish, IInv, AttemptFits, TypeOK, StatusFits,
      FilesFit, Terminal, FileNames
<1>4. CASE Invoke(b)
  BY <1>4 DEF Invoke, Go, IInv, AttemptFits, TypeOK, StatusFits, FilesFit,
      Terminal, FileNames
<1>5. CASE Monitor(b)
  BY <1>5 DEF Monitor, IInv, AttemptFits, TypeOK, StatusFits, FilesFit,
      Terminal, FileNames
<1>6. CASE Return(b)
  BY <1>6 DEF Return, Go, Publish, IInv, AttemptFits, TypeOK, StatusFits,
      FilesFit, Terminal, FileNames
<1>7. CASE NoticeCancel(b)
  BY <1>7 DEF NoticeCancel, Go, IInv, AttemptFits, TypeOK, StatusFits,
      FilesFit, Terminal, FileNames
<1>8. CASE CancelChild(b)
  BY <1>8 DEF CancelChild, Done, Block, IInv, AttemptFits, TypeOK, StatusFits,
      FilesFit, Terminal, FileNames
<1>9. CASE ChildrenCancelled(b)
  BY <1>9 DEF ChildrenCancelled, Go, IInv, AttemptFits, TypeOK, StatusFits,
      FilesFit, Terminal, FileNames
<1>10. CASE SettleChild(b)
  BY <1>10 DEF SettleChild, Done, Block, IInv, AttemptFits, TypeOK, StatusFits,
      FilesFit, Terminal, FileNames
<1>11. CASE AbandonChild(b)
  BY <1>11 DEF AbandonChild, Done, Block, IInv, AttemptFits, TypeOK,
      StatusFits, FilesFit, Terminal, FileNames
<1>12. CASE Capture(b)
  BY <1>12 DEF Capture, Go, Publish, Block, IInv, AttemptFits, TypeOK,
      StatusFits, FilesFit, Terminal, FileNames
<1>13. CASE WriteStatus(b)
  BY <1>13 DEF WriteStatus, Go, Publish, Forget, TerminalState, IInv,
      AttemptFits, TypeOK, StatusFits, FilesFit, Terminal, FileNames
<1>14. CASE FailToFinalize(b)
  BY <1>14 DEF FailToFinalize, Go, Forget, IInv, AttemptFits, TypeOK,
      StatusFits, FilesFit, Terminal, FileNames
<1>15. CASE WriteResult(b)
  BY <1>15 DEF WriteResult, Go, Publish, IInv, AttemptFits, TypeOK, StatusFits,
      FilesFit, Terminal, FileNames
<1>16. CASE Die(b)
  BY <1>16 DEF Die, Go, Forget, IInv, AttemptFits, TypeOK, StatusFits,
      FilesFit, Terminal, FileNames
<1>17. CASE RequestCancel(b)
  BY <1>17 DEF RequestCancel, IInv, AttemptFits, TypeOK, StatusFits, FilesFit,
      Terminal, FileNames
<1>18. CASE PublishCancel(b)
  BY <1>18 DEF PublishCancel, IInv, AttemptFits, TypeOK, StatusFits, FilesFit,
      Terminal, FileNames
<1>. QED
  BY <1>2, <1>3, <1>4, <1>5, <1>6, <1>7, <1>8, <1>9, <1>10, <1>11, <1>12,
      <1>13, <1>14, <1>15, <1>16, <1>17, <1>18 DEF Move

\* A runner past its last look knows of every early cancellation.
LEMMA CancelStep ==
    ASSUME IInv, [Next]_vars, NEW a \in Attempts
    PROVE  CancelSeen(a)'
<1>1. CASE UNCHANGED vars
  BY <1>1 DEF vars, IInv, AttemptFits, CancelSeen, FilesFit
<1>2. SUFFICES ASSUME NEW b \in Attempts, Move(b) PROVE CancelSeen(a)'
  BY <1>1, <1>2 DEF Next, Progress, Move
<1>3. CASE Create(b)
  BY <1>3 DEF Create, Go, Publish, IInv, AttemptFits, TypeOK, CancelSeen,
      FilesFit
<1>4. CASE Invoke(b)
  BY <1>4 DEF Invoke, Go, IInv, AttemptFits, TypeOK, CancelSeen, FilesFit
<1>5. CASE Monitor(b)
  BY <1>5 DEF Monitor, IInv, AttemptFits, TypeOK, CancelSeen, FilesFit
<1>6. CASE Return(b)
  BY <1>6 DEF Return, Go, Publish, IInv, AttemptFits, TypeOK, CancelSeen,
      FilesFit
<1>7. CASE NoticeCancel(b)
  BY <1>7 DEF NoticeCancel, Go, IInv, AttemptFits, TypeOK, CancelSeen, FilesFit
<1>8. CASE CancelChild(b)
  BY <1>8 DEF CancelChild, Done, Block, Cancellable, IInv, AttemptFits, TypeOK,
      CancelSeen, FilesFit
<1>9. CASE ChildrenCancelled(b)
  BY <1>9 DEF ChildrenCancelled, Go, IInv, AttemptFits, TypeOK, CancelSeen,
      FilesFit
<1>10. CASE SettleChild(b)
  BY <1>10 DEF SettleChild, Done, Block, IInv, AttemptFits, TypeOK, CancelSeen,
      FilesFit
<1>11. CASE AbandonChild(b)
  BY <1>11 DEF AbandonChild, Done, Block, IInv, AttemptFits, TypeOK,
      CancelSeen, FilesFit
<1>12. CASE Capture(b)
  BY <1>12 DEF Capture, Go, Publish, Block, IInv, AttemptFits, TypeOK,
      CancelSeen, FilesFit
<1>13. CASE WriteStatus(b)
  BY <1>13 DEF WriteStatus, Go, Publish, Forget, IInv, AttemptFits, TypeOK,
      CancelSeen, FilesFit
<1>14. CASE FailToFinalize(b)
  BY <1>14 DEF FailToFinalize, Go, Forget, IInv, AttemptFits, TypeOK,
      CancelSeen, FilesFit
<1>15. CASE WriteResult(b)
  BY <1>15 DEF WriteResult, Go, Publish, IInv, AttemptFits, TypeOK, CancelSeen,
      FilesFit
<1>16. CASE Die(b)
  BY <1>16 DEF Die, Go, Forget, IInv, AttemptFits, TypeOK, CancelSeen, FilesFit
<1>17. CASE RequestCancel(b)
  BY <1>17 DEF RequestCancel, IInv, AttemptFits, TypeOK, CancelSeen, FilesFit
<1>18. CASE PublishCancel(b)
  BY <1>18 DEF PublishCancel, IInv, AttemptFits, TypeOK, CancelSeen, FilesFit
<1>. QED
  BY <1>2, <1>3, <1>4, <1>5, <1>6, <1>7, <1>8, <1>9, <1>10, <1>11, <1>12,
      <1>13, <1>14, <1>15, <1>16, <1>17, <1>18 DEF Move

\* An early cancellation wins.
LEMMA EarlyStep ==
    ASSUME IInv, [Next]_vars, NEW a \in Attempts
    PROVE  EarlyWins(a)'
<1>1. CASE UNCHANGED vars
  BY <1>1 DEF vars, IInv, AttemptFits, EarlyWins, CancelSeen, FilesFit, Terminal
<1>2. SUFFICES ASSUME NEW b \in Attempts, Move(b) PROVE EarlyWins(a)'
  BY <1>1, <1>2 DEF Next, Progress, Move
<1>3. CASE Create(b)
  BY <1>3 DEF Create, Go, Publish, IInv, AttemptFits, TypeOK, EarlyWins,
      CancelSeen, FilesFit, Terminal
<1>4. CASE Invoke(b)
  BY <1>4 DEF Invoke, Go, IInv, AttemptFits, TypeOK, EarlyWins, CancelSeen,
      FilesFit, Terminal
<1>5. CASE Monitor(b)
  BY <1>5 DEF Monitor, IInv, AttemptFits, TypeOK, EarlyWins, CancelSeen,
      FilesFit, Terminal
<1>6. CASE Return(b)
  BY <1>6 DEF Return, Go, Publish, IInv, AttemptFits, TypeOK, EarlyWins,
      CancelSeen, FilesFit, Terminal
<1>7. CASE NoticeCancel(b)
  BY <1>7 DEF NoticeCancel, Go, IInv, AttemptFits, TypeOK, EarlyWins,
      CancelSeen, FilesFit, Terminal
<1>8. CASE CancelChild(b)
  BY <1>8 DEF CancelChild, Done, Block, Cancellable, IInv, AttemptFits, TypeOK,
      EarlyWins, CancelSeen, FilesFit, Terminal
<1>9. CASE ChildrenCancelled(b)
  BY <1>9 DEF ChildrenCancelled, Go, IInv, AttemptFits, TypeOK, EarlyWins,
      CancelSeen, FilesFit, Terminal
<1>10. CASE SettleChild(b)
  BY <1>10 DEF SettleChild, Done, Block, IInv, AttemptFits, TypeOK, EarlyWins,
      CancelSeen, FilesFit, Terminal
<1>11. CASE AbandonChild(b)
  BY <1>11 DEF AbandonChild, Done, Block, IInv, AttemptFits, TypeOK, EarlyWins,
      CancelSeen, FilesFit, Terminal
<1>12. CASE Capture(b)
  BY <1>12 DEF Capture, Go, Publish, Block, IInv, AttemptFits, TypeOK,
      EarlyWins, CancelSeen, FilesFit, Terminal
<1>13. CASE WriteStatus(b)
  BY <1>13 DEF WriteStatus, Go, Publish, Forget, TerminalState, IInv,
      AttemptFits, TypeOK, EarlyWins, CancelSeen, FilesFit, Terminal
<1>14. CASE FailToFinalize(b)
  BY <1>14 DEF FailToFinalize, Go, Forget, IInv, AttemptFits, TypeOK,
      EarlyWins, CancelSeen, FilesFit, Terminal
<1>15. CASE WriteResult(b)
  BY <1>15 DEF WriteResult, Go, Publish, IInv, AttemptFits, TypeOK, EarlyWins,
      CancelSeen, FilesFit, Terminal
<1>16. CASE Die(b)
  BY <1>16 DEF Die, Go, Forget, IInv, AttemptFits, TypeOK, EarlyWins,
      CancelSeen, FilesFit, Terminal
<1>17. CASE RequestCancel(b)
  BY <1>17 DEF RequestCancel, IInv, AttemptFits, TypeOK, EarlyWins, CancelSeen,
      FilesFit, Terminal
<1>18. CASE PublishCancel(b)
  BY <1>18 DEF PublishCancel, Steps, IInv, AttemptFits, TypeOK, EarlyWins,
      CancelSeen, FilesFit, Terminal
<1>. QED
  BY <1>2, <1>3, <1>4, <1>5, <1>6, <1>7, <1>8, <1>9, <1>10, <1>11, <1>12,
      <1>13, <1>14, <1>15, <1>16, <1>17, <1>18 DEF Move

\* A success is clean.
LEMMA SuccessStep ==
    ASSUME IInv, [Next]_vars, NEW a \in Attempts
    PROVE  SuccessIsClean(a)'
<1>1. CASE UNCHANGED vars
  BY <1>1 DEF vars, IInv, AttemptFits, SuccessIsClean
<1>2. SUFFICES ASSUME NEW b \in Attempts, Move(b) PROVE SuccessIsClean(a)'
  BY <1>1, <1>2 DEF Next, Progress, Move
<1>3. CASE Create(b)
  BY <1>3 DEF Create, Go, Publish, IInv, AttemptFits, TypeOK, SuccessIsClean
<1>4. CASE Invoke(b)
  BY <1>4 DEF Invoke, Go, IInv, AttemptFits, TypeOK, SuccessIsClean
<1>5. CASE Monitor(b)
  BY <1>5 DEF Monitor, IInv, AttemptFits, TypeOK, SuccessIsClean
<1>6. CASE Return(b)
  BY <1>6 DEF Return, Go, Publish, IInv, AttemptFits, TypeOK, SuccessIsClean
<1>7. CASE NoticeCancel(b)
  BY <1>7 DEF NoticeCancel, Go, IInv, AttemptFits, TypeOK, SuccessIsClean
<1>8. CASE CancelChild(b)
  BY <1>8 DEF CancelChild, Done, Block, IInv, AttemptFits, TypeOK,
      SuccessIsClean
<1>9. CASE ChildrenCancelled(b)
  BY <1>9 DEF ChildrenCancelled, Go, IInv, AttemptFits, TypeOK, SuccessIsClean
<1>10. CASE SettleChild(b)
  BY <1>10 DEF SettleChild, Done, Block, IInv, AttemptFits, TypeOK,
      SuccessIsClean
<1>11. CASE AbandonChild(b)
  BY <1>11 DEF AbandonChild, Done, Block, IInv, AttemptFits, TypeOK,
      SuccessIsClean
<1>12. CASE Capture(b)
  BY <1>12 DEF Capture, Go, Publish, Block, IInv, AttemptFits, TypeOK,
      SuccessIsClean
<1>13. CASE WriteStatus(b)
  BY <1>13 DEF WriteStatus, Go, Publish, Forget, TerminalState, Clean, Passed,
      IInv, AttemptFits, TypeOK, SuccessIsClean
<1>14. CASE FailToFinalize(b)
  BY <1>14 DEF FailToFinalize, Go, Forget, IInv, AttemptFits, TypeOK,
      SuccessIsClean
<1>15. CASE WriteResult(b)
  BY <1>15 DEF WriteResult, Go, Publish, IInv, AttemptFits, TypeOK,
      SuccessIsClean
<1>16. CASE Die(b)
  BY <1>16 DEF Die, Go, Forget, IInv, AttemptFits, TypeOK, SuccessIsClean
<1>17. CASE RequestCancel(b)
  BY <1>17 DEF RequestCancel, IInv, AttemptFits, TypeOK, SuccessIsClean
<1>18. CASE PublishCancel(b)
  BY <1>18 DEF PublishCancel, IInv, AttemptFits, TypeOK, SuccessIsClean
<1>. QED
  BY <1>2, <1>3, <1>4, <1>5, <1>6, <1>7, <1>8, <1>9, <1>10, <1>11, <1>12,
      <1>13, <1>14, <1>15, <1>16, <1>17, <1>18 DEF Move

\* What is settled stays settled: a status is written once.
LEMMA SettledStays ==
    ASSUME IInv, [Next]_vars, NEW c \in Attempts, SettledTree(c)
    PROVE  SettledTree(c)'
<1>1. CASE UNCHANGED vars
  BY <1>1 DEF vars, SettledTree, Terminal
<1>2. SUFFICES ASSUME NEW b \in Attempts, Move(b) PROVE SettledTree(c)'
  BY <1>1, <1>2 DEF Next, Progress, Move
<1>3. CASE Create(b)
  BY <1>3 DEF Create, Go, Publish, IInv, AttemptFits, TypeOK, FilesFit,
      SettledTree, Terminal
<1>4. CASE Invoke(b)
  BY <1>4 DEF Invoke, Go, IInv, AttemptFits, TypeOK, FilesFit, SettledTree,
      Terminal
<1>5. CASE Monitor(b)
  BY <1>5 DEF Monitor, IInv, AttemptFits, TypeOK, FilesFit, SettledTree,
      Terminal
<1>6. CASE Return(b)
  BY <1>6 DEF Return, Go, Publish, IInv, AttemptFits, TypeOK, FilesFit,
      SettledTree, Terminal
<1>7. CASE NoticeCancel(b)
  BY <1>7 DEF NoticeCancel, Go, IInv, AttemptFits, TypeOK, FilesFit,
      SettledTree, Terminal
<1>8. CASE CancelChild(b)
  BY <1>8 DEF CancelChild, Done, Block, IInv, AttemptFits, TypeOK, FilesFit,
      SettledTree, Terminal
<1>9. CASE ChildrenCancelled(b)
  BY <1>9 DEF ChildrenCancelled, Go, IInv, AttemptFits, TypeOK, FilesFit,
      SettledTree, Terminal
<1>10. CASE SettleChild(b)
  BY <1>10 DEF SettleChild, Done, Block, IInv, AttemptFits, TypeOK, FilesFit,
      SettledTree, Terminal
<1>11. CASE AbandonChild(b)
  BY <1>11 DEF AbandonChild, Done, Block, IInv, AttemptFits, TypeOK, FilesFit,
      SettledTree, Terminal
<1>12. CASE Capture(b)
  BY <1>12 DEF Capture, Go, Publish, Block, IInv, AttemptFits, TypeOK,
      FilesFit, SettledTree, Terminal
<1>13. CASE WriteStatus(b)
  BY <1>13 DEF WriteStatus, Go, Publish, Forget, IInv, AttemptFits, TypeOK,
      FilesFit, SettledTree, Terminal
<1>14. CASE FailToFinalize(b)
  BY <1>14 DEF FailToFinalize, Go, Forget, IInv, AttemptFits, TypeOK, FilesFit,
      SettledTree, Terminal
<1>15. CASE WriteResult(b)
  BY <1>15 DEF WriteResult, Go, Publish, IInv, AttemptFits, TypeOK, FilesFit,
      SettledTree, Terminal
<1>16. CASE Die(b)
  BY <1>16 DEF Die, Go, Forget, Steps, IInv, AttemptFits, TypeOK, FilesFit,
      SettledTree, Terminal
<1>17. CASE RequestCancel(b)
  BY <1>17 DEF RequestCancel, IInv, AttemptFits, TypeOK, FilesFit, SettledTree,
      Terminal
<1>18. CASE PublishCancel(b)
  BY <1>18 DEF PublishCancel, IInv, AttemptFits, TypeOK, FilesFit, SettledTree,
      Terminal
<1>. QED
  BY <1>2, <1>3, <1>4, <1>5, <1>6, <1>7, <1>8, <1>9, <1>10, <1>11, <1>12,
      <1>13, <1>14, <1>15, <1>16, <1>17, <1>18 DEF Move

\* A runner that is not blocked has settled the children it is done with.
LEMMA ChildrenStep ==
    ASSUME IInv, [Next]_vars, NEW a \in Attempts
    PROVE  ChildrenFit(a)'
<1>0. \A c \in Children[a] :
        /\ c \in Attempts
        /\ "status" \in files[c] /\ terminal[c].clean
            => "status" \in files'[c] /\ terminal'[c].clean
  BY SettledStays, JobAssumption DEF SettledTree, Terminal
<1>1. CASE UNCHANGED vars
  BY <1>1 DEF vars, IInv, AttemptFits, ChildrenFit, FilesFit, SettledTree,
      Terminal
<1>2. SUFFICES ASSUME NEW b \in Attempts, Move(b) PROVE ChildrenFit(a)'
  BY <1>1, <1>2 DEF Next, Progress, Move
<1>3. CASE Create(b)
  BY <1>3, <1>0 DEF Create, Go, Publish, IInv, AttemptFits, TypeOK,
      ChildrenFit, FilesFit, SettledTree, Terminal
<1>4. CASE Invoke(b)
  BY <1>4, <1>0 DEF Invoke, Go, IInv, AttemptFits, TypeOK, ChildrenFit,
      FilesFit, SettledTree, Terminal
<1>5. CASE Monitor(b)
  BY <1>5, <1>0 DEF Monitor, IInv, AttemptFits, TypeOK, ChildrenFit, FilesFit,
      SettledTree, Terminal
<1>6. CASE Return(b)
  BY <1>6, <1>0 DEF Return, Go, Publish, IInv, AttemptFits, TypeOK,
      ChildrenFit, FilesFit, SettledTree, Terminal
<1>7. CASE NoticeCancel(b)
  BY <1>7, <1>0 DEF NoticeCancel, Go, IInv, AttemptFits, TypeOK, ChildrenFit,
      FilesFit, SettledTree, Terminal
<1>8. CASE CancelChild(b)
  BY <1>8, <1>0 DEF CancelChild, Done, Block, IInv, AttemptFits, TypeOK,
      ChildrenFit, FilesFit, SettledTree, Terminal
<1>9. CASE ChildrenCancelled(b)
  BY <1>9, <1>0 DEF ChildrenCancelled, Go, IInv, AttemptFits, TypeOK,
      ChildrenFit, FilesFit, SettledTree, Terminal
<1>10. CASE SettleChild(b)
  <2>1. PICK c \in todo[b] :
          /\ Terminal(c)
          /\ Done(b, c)
          /\ Block(b, ~terminal[c].clean)
    BY <1>10 DEF SettleChild
  <2>2. UNCHANGED <<step, files, terminal>> /\ step[b] = "settling"
    BY <1>10 DEF SettleChild
  <2>3. CASE a = b
    BY <2>1, <2>2, <2>3, <1>0 DEF Done, Block, IInv, AttemptFits, TypeOK,
        ChildrenFit, SettledTree, Terminal
  <2>4. CASE a # b
    BY <2>1, <2>2, <2>4, <1>0 DEF Done, Block, IInv, AttemptFits, TypeOK,
        ChildrenFit, SettledTree, Terminal
  <2>. QED  BY <2>3, <2>4
<1>11. CASE AbandonChild(b)
  <2>1. PICK c \in todo[b] : Done(b, c)
    BY <1>11 DEF AbandonChild
  <2>2. UNCHANGED <<step, files, terminal>> /\ step[b] = "settling"
    BY <1>11 DEF AbandonChild
  <2>3. blocked' = [blocked EXCEPT ![b] = TRUE]
    BY <1>11 DEF AbandonChild, Block, IInv, TypeOK
  <2>. QED
    BY <2>1, <2>2, <2>3, <1>0 DEF Done, IInv, AttemptFits, TypeOK, ChildrenFit,
        SettledTree, Terminal
<1>12. CASE Capture(b)
  <2>1. PICK late \in BOOLEAN : Block(b, late)
    BY <1>12 DEF Capture
  <2>2. /\ step[b] = "settling" /\ todo[b] = {}
        /\ step' = [step EXCEPT ![b] = "captured"]
        /\ files' = [files EXCEPT ![b] = @ \union {"response"}]
        /\ UNCHANGED <<todo, terminal>>
    BY <1>12 DEF Capture, Go, Publish
  <2>3. ~blocked'[b] => ~blocked[b]
    BY <2>1 DEF Block, IInv, TypeOK
  <2>4. a # b => blocked'[a] = blocked[a]
    BY <2>1 DEF Block, IInv, TypeOK
  <2>. QED
    BY <2>2, <2>3, <2>4, <1>0 DEF IInv, AttemptFits, TypeOK, FilesFit,
        ChildrenFit, SettledTree, Terminal
<1>13. CASE WriteStatus(b)
  <2>1. ChildrenFit(a) /\ ChildrenFit(b)
    BY DEF IInv, AttemptFits
  <2>2. /\ step[b] = "captured" /\ step' = [step EXCEPT ![b] = "closed"]
        /\ todo' = [todo EXCEPT ![b] = {}]
        /\ blocked' = [blocked EXCEPT ![b] = FALSE]
        /\ files' = [files EXCEPT ![b] = @ \union {"status"}]
    BY <1>13 DEF WriteStatus, Go, Publish, Forget
  <2>3. CASE a = b
    <3>1. terminal'[a].clean => ~blocked[a]
      BY <1>13, <2>3 DEF WriteStatus, Clean, IInv, TypeOK
    <3>2. step'[a] = "closed"
      BY <2>2, <2>3 DEF IInv, TypeOK
    <3>3. ~blocked[a] => \A c \in Children[a] : SettledTree(c)
      BY <2>1, <2>2, <2>3 DEF ChildrenFit
    <3>4. ~blocked[a] => \A c \in Children[a] : SettledTree(c)'
      BY <3>3, <1>0 DEF SettledTree, Terminal
    <3>. QED  BY <3>1, <3>2, <3>4 DEF ChildrenFit, SettledTree
  <2>4. CASE a # b
    <3>1. /\ step'[a] = step[a] /\ todo'[a] = todo[a] /\ blocked'[a] = blocked[a]
          /\ files'[a] = files[a] /\ terminal'[a] = terminal[a]
      BY <1>13, <2>2, <2>4 DEF WriteStatus, IInv, TypeOK
    <3>. QED
      BY <2>1, <3>1, <1>0 DEF ChildrenFit, SettledTree, Terminal
  <2>. QED  BY <2>3, <2>4
<1>14. CASE FailToFinalize(b)
  BY <1>14, <1>0 DEF FailToFinalize, Go, Forget, IInv, AttemptFits, TypeOK,
      ChildrenFit, FilesFit, SettledTree, Terminal
<1>15. CASE WriteResult(b)
  BY <1>15, <1>0 DEF WriteResult, Go, Publish, IInv, AttemptFits, TypeOK,
      ChildrenFit, FilesFit, SettledTree, Terminal
<1>16. CASE Die(b)
  BY <1>16, <1>0 DEF Die, Go, Forget, IInv, AttemptFits, TypeOK, ChildrenFit,
      FilesFit, SettledTree, Terminal
<1>17. CASE RequestCancel(b)
  BY <1>17, <1>0 DEF RequestCancel, IInv, AttemptFits, TypeOK, ChildrenFit,
      FilesFit, SettledTree, Terminal
<1>18. CASE PublishCancel(b)
  BY <1>18, <1>0 DEF PublishCancel, IInv, AttemptFits, TypeOK, ChildrenFit,
      FilesFit, SettledTree, Terminal
<1>. QED
  BY <1>2, <1>3, <1>4, <1>5, <1>6, <1>7, <1>8, <1>9, <1>10, <1>11, <1>12,
      <1>13, <1>14, <1>15, <1>16, <1>17, <1>18 DEF Move

LEMMA InitInvariant == Init => IInv
  BY JobAssumption DEF Init, IInv, AttemptFits, TypeOK, FilesFit, StatusFits,
        CancelSeen, EarlyWins, SuccessIsClean, ChildrenFit, SettledTree, Terminal,
        Steps, States, FileNames, NoStatus, NoProcess

\* The inductive invariant is an invariant.
THEOREM JobInvariant == Spec => []IInv
<1>1. IInv /\ [Next]_vars => IInv'
  <2>1. SUFFICES ASSUME IInv, [Next]_vars PROVE IInv'
    OBVIOUS
  <2>2. TypeOK'
    BY <2>1, TypeStep DEF IInv
  <2>3. \A a \in Attempts : AttemptFits(a)'
    BY <2>1, FilesStep, StatusStep, CancelStep, EarlyStep, SuccessStep,
        ChildrenStep DEF AttemptFits
  <2>. QED  BY <2>2, <2>3 DEF IInv
<1>. QED  BY InitInvariant, <1>1, PTL DEF Spec

\* The variables have their types.
THEOREM TypeCorrect == Spec => []TypeOK
  BY JobInvariant, PTL DEF IInv

\* A cancellation published before the process was seen to be complete wins.
THEOREM CancellationWins == Spec => []EarlyCancelWins
<1>1. IInv => EarlyCancelWins
  BY DEF IInv, AttemptFits, EarlyWins, EarlyCancelWins
<1>. QED  BY <1>1, JobInvariant, PTL

\* What is recovered is a whole result of a settled tree.
THEOREM RecoveryIsWhole == Spec => []RecoveredIsWhole
<1>1. ASSUME IInv, NEW a \in Attempts, Recoverable(a)
      PROVE  /\ files[a] = FileNames
             /\ \A b \in {a} \union Children[a] : Terminal(b) /\ terminal[b].clean
  <2>1. FilesFit(a) /\ StatusFits(a) /\ SuccessIsClean(a) /\ ChildrenFit(a)
    BY <1>1 DEF IInv, AttemptFits
  <2>2. step[a] \in Steps /\ "result" \in files[a]
    BY <1>1 DEF IInv, TypeOK, Recoverable
  <2>3. files[a] = FileNames
    BY <2>1, <2>2 DEF FilesFit, FileNames, Steps
  <2>4. SettledTree(a)
    BY <1>1, <2>1 DEF StatusFits, SuccessIsClean, Recoverable, SettledTree
  <2>. QED  BY <2>1, <2>3, <2>4 DEF ChildrenFit, SettledTree
<1>2. IInv => RecoveredIsWhole
  BY <1>1 DEF RecoveredIsWhole
<1>. QED  BY <1>2, JobInvariant, PTL
-----------------------------------------------------------------------------
(* The attempts implement the tree of jobs.                                *)

\* A step that neither begins nor ends an attempt shows nothing.
LEMMA NothingShows ==
    ASSUME terminal' = terminal,
           \A a \in Attempts : step'[a] = "absent" <=> step[a] = "absent",
           \A a \in Attempts : Terminal(a)' <=> Terminal(a)
    PROVE  UNCHANGED <<[a \in Attempts |-> AttemptState(a)],
                       {a \in Attempts : SettledTree(a)}>>
<1>1. \A a \in Attempts : AttemptState(a)' = AttemptState(a)
  BY DEF AttemptState
<1>2. \A a \in Attempts : SettledTree(a)' <=> SettledTree(a)
  BY DEF SettledTree
<1>. QED  BY <1>1, <1>2

\* An attempt that is created is opened, on a prepared route after a failure.
LEMMA CreateOpens ==
    ASSUME IInv, NEW b \in Attempts, Create(b)
    PROVE  Tree!Open(b)
<1>1. /\ step[b] = "absent" /\ step' = [step EXCEPT ![b] = "created"]
      /\ files' = [files EXCEPT ![b] = @ \union {"request"}]
      /\ terminal' = terminal
  BY DEF Create, Go, Publish
<1>2. \A a \in Attempts : Terminal(a)' <=> Terminal(a)
  BY <1>1 DEF Terminal, IInv, TypeOK
<1>3. ~Terminal(b)
  BY <1>1 DEF Terminal, IInv, AttemptFits, FilesFit
<1>4. AttemptState(b) = "absent" /\ AttemptState(b)' = "open"
  BY <1>1, <1>2, <1>3 DEF AttemptState, IInv, TypeOK
<1>5. \A a \in Attempts \ {b} : AttemptState(a)' = AttemptState(a)
  BY <1>1, <1>2 DEF AttemptState, IInv, TypeOK
<1>6. \A a \in Attempts : SettledTree(a)' <=> SettledTree(a)
  BY <1>1, <1>2 DEF SettledTree
<1>7. Prior[b] # NoAttempt => AttemptState(Prior[b]) = "failed"
  <2>1. SUFFICES ASSUME Prior[b] # NoAttempt
                 PROVE  AttemptState(Prior[b]) = "failed"
    OBVIOUS
  <2>2. Prior[b] \in Attempts
    BY <2>1, JobAssumption
  <2>3. Settled(Prior[b])
    BY <2>1 DEF Create, MayStart
  <2>4. step[Prior[b]] # "absent"
    BY <2>2, <2>3 DEF Settled, IInv, AttemptFits, FilesFit
  <2>. QED  BY <2>3, <2>4 DEF Settled, AttemptState, Terminal
<1>8. {a \in Attempts : SettledTree(a)}' = {a \in Attempts : SettledTree(a)}
  BY <1>6
<1>9. [a \in Attempts |-> AttemptState(a)]'
        = [[a \in Attempts |-> AttemptState(a)] EXCEPT ![b] = "open"]
  BY <1>4, <1>5
<1>10. Prior[b] # NoAttempt => Prior[b] \in Attempts
  BY JobAssumption
<1>. QED  BY <1>4, <1>7, <1>8, <1>9, <1>10 DEF Tree!Open

\* The terminal status closes an attempt.
LEMMA StatusCloses ==
    ASSUME IInv, [Next]_vars, NEW b \in Attempts, WriteStatus(b)
    PROVE  Tree!Close(b)
<1>1. /\ step[b] = "captured" /\ step' = [step EXCEPT ![b] = "closed"]
      /\ files' = [files EXCEPT ![b] = @ \union {"status"}]
  BY DEF WriteStatus, Go, Publish
<1>2. PICK r \in [state : {"SUCCEEDED", "FAILED", "CANCELLED", "EXPIRED"},
                  clean : BOOLEAN, again : BOOLEAN] :
          /\ terminal' = [terminal EXCEPT ![b] = r]
          /\ r.clean => ~blocked[b]
          /\ r.state = "SUCCEEDED" => r.clean
  <2>1. process[b].clean \in BOOLEAN /\ blocked[b] \in BOOLEAN
    <3>1. process[b] \in ProcessResults \union {NoProcess} /\ blocked[b] \in BOOLEAN
      BY DEF IInv, TypeOK
    <3>2. \A p \in ProcessResults : p.clean \in BOOLEAN
      BY Zenon DEF ProcessResults
    <3>3. NoProcess.clean \in BOOLEAN
      BY DEF NoProcess
    <3>. QED  BY <3>1, <3>2, <3>3
  <2>2. TerminalState(b) \in {"SUCCEEDED", "FAILED", "CANCELLED", "EXPIRED"}
    BY DEF TerminalState
  <2>3. TerminalState(b) = "SUCCEEDED" => Clean(b)
    BY DEF TerminalState, Clean, Passed
  <2>4. Clean(b) \in BOOLEAN /\ (Clean(b) => ~blocked[b])
    BY <2>1 DEF Clean
  <2>5. PICK again \in BOOLEAN :
          terminal' = [terminal EXCEPT ![b] =
            [state |-> TerminalState(b), clean |-> Clean(b), again |-> again]]
    BY DEF WriteStatus
  <2>. DEFINE r == [state |-> TerminalState(b), clean |-> Clean(b), again |-> again]
  <2>6. r \in [state : {"SUCCEEDED", "FAILED", "CANCELLED", "EXPIRED"},
              clean : BOOLEAN, again : BOOLEAN]
    BY <2>2, <2>4
  <2>7. r.clean = Clean(b) /\ r.state = TerminalState(b)
    OBVIOUS
  <2>8. terminal' = [terminal EXCEPT ![b] = r]
    BY <2>5
  <2>. HIDE DEF r
  <2>. QED  BY <2>3, <2>4, <2>6, <2>7, <2>8
<1>3. ~Terminal(b) /\ Terminal(b)'
  BY <1>1 DEF Terminal, IInv, TypeOK, AttemptFits, FilesFit
<1>4. AttemptState(b) = "open"
  BY <1>1, <1>3 DEF AttemptState
<1>5. terminal'[b] = r /\ step'[b] = "closed"
  BY <1>1, <1>2 DEF IInv, TypeOK
<1>6. /\ AttemptState(b)' \in {"succeeded", "failed", "stopped"}
      /\ AttemptState(b)' = "succeeded" => SettledTree(b)'
  BY <1>2, <1>3, <1>5 DEF AttemptState, SettledTree
<1>7. \A a \in Attempts \ {b} :
        /\ AttemptState(a)' = AttemptState(a)
        /\ SettledTree(a)' <=> SettledTree(a)
  BY <1>1, <1>2 DEF AttemptState, SettledTree, Terminal, IInv, TypeOK
<1>8. ~SettledTree(b)
  BY <1>3 DEF SettledTree
<1>9. SettledTree(b)' => \A c \in Children[b] : SettledTree(c) /\ c \in Attempts
  <2>1. SettledTree(b)' => ~blocked[b]
    BY <1>2, <1>5 DEF SettledTree
  <2>2. ChildrenFit(b)
    BY DEF IInv, AttemptFits
  <2>. QED  BY <2>1, <2>2, <1>1, JobAssumption DEF ChildrenFit
<1>10. PICK s \in {"succeeded", "failed", "stopped"} : s = AttemptState(b)'
  BY <1>6
<1>11. [a \in Attempts |-> AttemptState(a)]'
        = [[a \in Attempts |-> AttemptState(a)] EXCEPT ![b] = s]
  BY <1>7, <1>10
<1>12. IF SettledTree(b)'
       THEN /\ Children[b] \subseteq {a \in Attempts : SettledTree(a)}
            /\ {a \in Attempts : SettledTree(a)}'
                 = {a \in Attempts : SettledTree(a)} \union {b}
       ELSE {a \in Attempts : SettledTree(a)}' = {a \in Attempts : SettledTree(a)}
  <2>1. \A a \in Attempts :
          SettledTree(a)' <=> SettledTree(a) \/ (a = b /\ SettledTree(b)')
    BY <1>7, <1>8
  <2>2. CASE SettledTree(b)'
    BY <2>1, <2>2, <1>9
  <2>3. CASE ~SettledTree(b)'
    BY <2>1, <2>3
  <2>. QED  BY <2>2, <2>3
<1>13. [a \in Attempts |-> AttemptState(a)]'[b] = s
  BY <1>10
<1>14. s = "succeeded" => b \in {a \in Attempts : SettledTree(a)}'
  BY <1>6, <1>10
<1>. QED
  BY <1>4, <1>11, <1>12, <1>13, <1>14 DEF Tree!Close

\* Attempts are opened and closed once, succeed with their whole tree and follow
\* each other after failures only.
THEOREM JobsAreATree == Spec => ImplementsTree
<1>1. Init => Tree!Init
  <2>1. SUFFICES ASSUME Init PROVE Tree!Init
    OBVIOUS
  <2>2. \A a \in Attempts : AttemptState(a) = "absent" /\ ~SettledTree(a)
    BY <2>1 DEF Init, AttemptState, SettledTree, Terminal
  <2>. QED  BY <2>2 DEF Tree!Init
<1>2. ASSUME IInv, [Next]_vars
      PROVE  [Tree!Next]_(<<[a \in Attempts |-> AttemptState(a)],
                           {a \in Attempts : SettledTree(a)}>>)
  <2>1. CASE UNCHANGED vars
    BY <2>1, NothingShows DEF vars, Terminal
  <2>2. SUFFICES ASSUME NEW b \in Attempts, Move(b)
                 PROVE  \/ Tree!Next
                        \/ UNCHANGED <<[a \in Attempts |-> AttemptState(a)],
                                       {a \in Attempts : SettledTree(a)}>>
    BY <1>2, <2>1, <2>2 DEF Next, Progress, Move
  <2>3. CASE Create(b)
    BY <1>2, <2>3, CreateOpens DEF Tree!Next
  <2>4. CASE WriteStatus(b)
    BY <1>2, <2>4, StatusCloses DEF Tree!Next
  <2>5. CASE ~Create(b) /\ ~WriteStatus(b)
    <3>1. terminal' = terminal
      BY <2>2, <2>5 DEF Move, Invoke, Monitor, Return, NoticeCancel, CancelChild,
          ChildrenCancelled, SettleChild, AbandonChild, Capture, FailToFinalize,
          WriteResult, Die, RequestCancel, PublishCancel
    <3>2. \/ step' = step
          \/ step[b] # "absent" /\ \E s \in Steps \ {"absent"} :
                step' = [step EXCEPT ![b] = s]
      BY <2>2, <2>5 DEF Move, Invoke, Monitor, Return, NoticeCancel, CancelChild,
          ChildrenCancelled, SettleChild, AbandonChild, Capture, FailToFinalize,
          WriteResult, Die, RequestCancel, PublishCancel, Go, Steps
    <3>3. \A a \in Attempts : step'[a] = "absent" <=> step[a] = "absent"
      BY <3>2, <1>2 DEF IInv, TypeOK
    <3>4. \/ files' = files
          \/ \E n \in {"completion", "response", "result"} :
                files' = [files EXCEPT ![b] = @ \union {n}]
      BY <2>2, <2>5 DEF Move, Invoke, Monitor, Return, NoticeCancel, CancelChild,
          ChildrenCancelled, SettleChild, AbandonChild, Capture, FailToFinalize,
          WriteResult, Die, RequestCancel, PublishCancel, Publish
    <3>5. \A a \in Attempts : Terminal(a)' <=> Terminal(a)
      BY <3>4, <1>2 DEF Terminal, IInv, TypeOK
    <3>. QED  BY <3>1, <3>3, <3>5, NothingShows
  <2>. QED  BY <2>2, <2>3, <2>4, <2>5
<1>. QED
  BY <1>1, <1>2, JobInvariant, PTL DEF Spec, ImplementsTree, Tree!Spec
=============================================================================
