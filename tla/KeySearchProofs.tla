--------------------------- MODULE KeySearchProofs ---------------------------
(***************************************************************************)
(* Proofs about KeySearch for any number of workers, any difficulties and  *)
(* any thresholds.  The inductive invariant says who holds the lock, which *)
(* of the three fields have been written at each step of the critical      *)
(* section, what is known of the key a worker has at hand, and for what    *)
(* reason a worker may have stopped.                                       *)
(***************************************************************************)
EXTENDS KeySearch, TLAPS

(* The lock is held by the worker in the critical section and by no other. *)
LockInv == \A w \in Workers : pc[w] \in Critical <=> lock = w

(* What a worker knows of the key it carries.                              *)
FoundInv == \A w \in Workers :
    /\ pc[w] = "check" /\ found[w] # NoKey => found[w].difficulty >= MinDifficulty
    /\ pc[w] = "check" /\ found[w] = NoKey => linked
    /\ pc[w] \in {"callback", "readScore", "swapScore"} =>
          found[w] \in Key /\ found[w].difficulty >= MinDifficulty
    /\ pc[w] \in Critical \cup {"acquire", "exchange"} => found[w] \in GoodKey

(* How far the three fields have been written.                             *)
SelectionInv ==
    /\ selectedKey \in GoodKey \cup {NoKey}
    /\ \A w \in Workers :
          /\ pc[w] = "setKey" => selectedKey = NoKey
          /\ pc[w] = "setID" =>
                selectedKey = found[w] /\ selectedID = NoKey /\ privateKey = NoKey
          /\ pc[w] = "setPrivateKey" =>
                selectedKey = found[w] /\ selectedID = found[w] /\ privateKey = NoKey
          /\ pc[w] \in {"release", "exchange", "won"} => selectedKey # NoKey
    /\ (\A w \in Workers : pc[w] \notin {"setID", "setPrivateKey"}) =>
          selectedID = selectedKey /\ privateKey = selectedKey

(* Why a worker ended, and why the search did.                             *)
BlameInv ==
    /\ main = "idle" => \A w \in Workers : pc[w] = "unborn"
    /\ main \in {"spawning", "firstDone"} /\ linked => user
    /\ \A w \in Workers : pc[w] = "stopped" => linked
    /\ main \in {"firstDone", "draining", "returned"} =>
          user \/ \E w \in Workers : pc[w] \in {"won", "faulted"}
    /\ main \in {"returned", "threw"} => \A w \in Workers : pc[w] \in Ended
    /\ main = "returned" => \A w \in Workers : pc[w] # "faulted"

IInv == TypeOK /\ LockInv /\ FoundInv /\ SelectionInv /\ BlameInv

-----------------------------------------------------------------------------
(* The inductive invariant holds when a search starts.                     *)
LEMMA InitIInv == Init => IInv
  BY WorkersAssumption, MeasuresAssumption, NoKeyIsNoKey
  DEF Init, IInv, TypeOK, LockInv, FoundInv, SelectionInv, BlameInv, Steps, Ended,
      Critical, Running, Key, GoodKey

(* Every step keeps the types; a key a worker carries is a key.            *)
LEMMA NextTypeOK == TypeOK /\ FoundInv /\ [Next]_vars => TypeOK'
<1> SUFFICES ASSUME TypeOK, FoundInv, [Next]_vars PROVE TypeOK'
  OBVIOUS
<1> USE DEF TypeOK, Steps, Ended, Critical, Running, Key, selection, Goto
<1>1. CASE Call \/ UserCancel \/ PropagateCancel \/ MainStep
  BY <1>1 DEF Call, UserCancel, PropagateCancel, MainStep, FirstDone, CancelLinked, AllDone
<1>2. ASSUME NEW w \in Workers, Spawn(w) \/ Fault(w) \/ CheckCancelled(w) \/ FoundCallBack(w)
      PROVE TypeOK'
  BY <1>2 DEF Spawn, Fault, CheckCancelled, FoundCallBack
<1>3. ASSUME NEW w \in Workers, GenerateKey(w) PROVE TypeOK'
  BY <1>3 DEF GenerateKey
<1>4. ASSUME NEW w \in Workers, Acquire(w) \/ Select(w) \/ Release(w) PROVE TypeOK'
  BY <1>4 DEF Acquire, Select, Release
<1>5. ASSUME NEW w \in Workers, SetKey(w) \/ SetID(w) \/ SetPrivateKey(w) PROVE TypeOK'
  BY <1>5 DEF SetKey, SetID, SetPrivateKey
<1>6. ASSUME NEW w \in Workers, Exchange(w) \/ ReadScore(w) \/ SwapScore(w) PROVE TypeOK'
  BY <1>6 DEF Exchange, ReadScore, SwapScore, FoundInv, GoodKey
<1>7. CASE UNCHANGED vars
  BY <1>7 DEF vars
<1> QED
  BY <1>1, <1>2, <1>3, <1>4, <1>5, <1>6, <1>7 DEF Next, WorkerStep

(* At most one worker is in the lock block, and it is the owner.           *)
LEMMA NextLockInv == TypeOK /\ LockInv /\ [Next]_vars => LockInv'
<1> SUFFICES ASSUME TypeOK, LockInv, [Next]_vars PROVE LockInv'
  OBVIOUS
<1> USE WorkersAssumption DEF TypeOK, LockInv, Steps, Ended, Critical, Goto
<1>1. CASE Call \/ UserCancel \/ PropagateCancel \/ MainStep
  BY <1>1 DEF Call, UserCancel, PropagateCancel, MainStep, FirstDone, CancelLinked, AllDone
<1>2. ASSUME NEW w \in Workers,
             Spawn(w) \/ Fault(w) \/ GenerateKey(w) \/ CheckCancelled(w) \/ FoundCallBack(w)
      PROVE LockInv'
  BY <1>2 DEF Spawn, Fault, GenerateKey, CheckCancelled, FoundCallBack
<1>3. ASSUME NEW w \in Workers, Acquire(w) PROVE LockInv'
  BY <1>3 DEF Acquire
<1>4. ASSUME NEW w \in Workers, Release(w) PROVE LockInv'
  BY <1>4 DEF Release
<1>5. ASSUME NEW w \in Workers, Select(w) \/ SetKey(w) \/ SetID(w) \/ SetPrivateKey(w)
      PROVE LockInv'
  BY <1>5 DEF Select, SetKey, SetID, SetPrivateKey
<1>6. ASSUME NEW w \in Workers, Exchange(w) \/ ReadScore(w) \/ SwapScore(w) PROVE LockInv'
  BY <1>6 DEF Exchange, ReadScore, SwapScore
<1>7. CASE UNCHANGED vars
  BY <1>7 DEF vars
<1> QED
  BY <1>1, <1>2, <1>3, <1>4, <1>5, <1>6, <1>7 DEF Next, WorkerStep

(* What a worker carries past a test has passed that test.                 *)
LEMMA NextFoundInv == TypeOK /\ BlameInv /\ FoundInv /\ [Next]_vars => FoundInv'
<1> SUFFICES ASSUME TypeOK, BlameInv, FoundInv, [Next]_vars PROVE FoundInv'
  OBVIOUS
<1> USE NoKeyIsNoKey, MeasuresAssumption
        DEF TypeOK, FoundInv, Steps, Ended, Critical, Running, Goto
<1>1. CASE UserCancel \/ PropagateCancel \/ MainStep
  BY <1>1 DEF UserCancel, PropagateCancel, MainStep, FirstDone, CancelLinked, AllDone
<1>2. ASSUME NEW w \in Workers, Spawn(w) \/ Fault(w) PROVE FoundInv'
  BY <1>2 DEF Spawn, Fault
<1>3. ASSUME NEW w \in Workers, GenerateKey(w) PROVE FoundInv'
  BY <1>3 DEF GenerateKey, Key
<1>4. ASSUME NEW w \in Workers, CheckCancelled(w) PROVE FoundInv'
  BY <1>4 DEF CheckCancelled
<1>5. ASSUME NEW w \in Workers, FoundCallBack(w) PROVE FoundInv'
  BY <1>5 DEF FoundCallBack, GoodKey
<1>6. ASSUME NEW w \in Workers, Acquire(w) \/ Select(w) \/ SetKey(w) \/ SetID(w)
             \/ SetPrivateKey(w) \/ Release(w)
      PROVE FoundInv'
  BY <1>6 DEF Acquire, Select, SetKey, SetID, SetPrivateKey, Release
<1>7. ASSUME NEW w \in Workers, Exchange(w) \/ ReadScore(w) \/ SwapScore(w) PROVE FoundInv'
  BY <1>7 DEF Exchange, ReadScore, SwapScore
<1>8. CASE UNCHANGED vars
  BY <1>8 DEF vars
<1>9. CASE Call
  BY <1>9 DEF Call, BlameInv
<1> QED
  BY <1>1, <1>2, <1>3, <1>4, <1>5, <1>6, <1>7, <1>8, <1>9 DEF Next, WorkerStep

(* The critical section: while a worker is between SetKey and              *)
(* SetPrivateKey it holds the lock, so no other worker can be there.       *)
LEMMA NextSelectionInv ==
  TypeOK /\ LockInv /\ FoundInv /\ SelectionInv /\ [Next]_vars => SelectionInv'
<1> SUFFICES ASSUME TypeOK, LockInv, FoundInv, SelectionInv, [Next]_vars PROVE SelectionInv'
  OBVIOUS
<1>a. \A w, v \in Workers : pc[w] \in Critical /\ pc[v] \in Critical => v = w
  BY DEF LockInv
<1> USE NoKeyIsNoKey DEF TypeOK, SelectionInv, Steps, Ended, Critical, selection, Goto
<1>1. CASE Call \/ UserCancel \/ PropagateCancel \/ MainStep
  BY <1>1 DEF Call, UserCancel, PropagateCancel, MainStep, FirstDone, CancelLinked, AllDone
<1>2. ASSUME NEW w \in Workers, Spawn(w) \/ Fault(w) PROVE SelectionInv'
  BY <1>2 DEF Spawn, Fault
<1>3. ASSUME NEW w \in Workers, GenerateKey(w) PROVE SelectionInv'
  BY <1>3 DEF GenerateKey
<1>4. ASSUME NEW w \in Workers, CheckCancelled(w) \/ FoundCallBack(w) PROVE SelectionInv'
  BY <1>4 DEF CheckCancelled, FoundCallBack
<1>5. ASSUME NEW w \in Workers, Acquire(w) \/ Select(w) PROVE SelectionInv'
  BY <1>5 DEF Acquire, Select
<1>6. ASSUME NEW w \in Workers, SetKey(w) PROVE SelectionInv'
  <2>1. found[w] \in GoodKey /\ selectedKey = NoKey
    BY <1>6 DEF SetKey, FoundInv
  <2>2. \A v \in Workers : v # w => pc[v] \notin Critical
    BY <1>6, <1>a DEF SetKey
  <2>3. selectedID = NoKey /\ privateKey = NoKey
    BY <1>6, <2>1, <2>2 DEF SetKey
  <2> QED
    BY <1>6, <2>1, <2>2, <2>3 DEF SetKey, GoodKey, Key
<1>7. ASSUME NEW w \in Workers, SetID(w) PROVE SelectionInv'
  <2>1. \A v \in Workers : v # w => pc[v] \notin Critical
    BY <1>7, <1>a DEF SetID
  <2> QED
    BY <1>7, <2>1 DEF SetID
<1>8. ASSUME NEW w \in Workers, SetPrivateKey(w) PROVE SelectionInv'
  <2>1. \A v \in Workers : v # w => pc[v] \notin Critical
    BY <1>8, <1>a DEF SetPrivateKey
  <2>2. selectedKey = found[w] /\ selectedID = found[w] /\ selectedKey # NoKey
    BY <1>8 DEF SetPrivateKey, FoundInv, GoodKey, Key
  <2> QED
    BY <1>8, <2>1, <2>2 DEF SetPrivateKey
<1>9. ASSUME NEW w \in Workers, Release(w) \/ Exchange(w) PROVE SelectionInv'
  BY <1>9 DEF Release, Exchange
<1>10. ASSUME NEW w \in Workers, ReadScore(w) \/ SwapScore(w) PROVE SelectionInv'
  BY <1>10 DEF ReadScore, SwapScore
<1>11. CASE UNCHANGED vars
  BY <1>11 DEF vars
<1> QED
  BY <1>1, <1>2, <1>3, <1>4, <1>5, <1>6, <1>7, <1>8, <1>9, <1>10, <1>11 DEF Next, WorkerStep

(* A worker ends, and a search is cancelled, for a reason.                 *)
LEMMA NextBlameInv == TypeOK /\ FoundInv /\ BlameInv /\ [Next]_vars => BlameInv'
<1> SUFFICES ASSUME TypeOK, FoundInv, BlameInv, [Next]_vars PROVE BlameInv'
  OBVIOUS
<1> USE DEF TypeOK, BlameInv, Steps, Ended, Critical, Running, Goto
<1>1. CASE Call
  BY <1>1 DEF Call
<1>2. CASE UserCancel \/ PropagateCancel
  BY <1>2 DEF UserCancel, PropagateCancel
<1>3. CASE MainStep
  BY <1>3 DEF MainStep, FirstDone, CancelLinked, AllDone
<1>4. ASSUME NEW w \in Workers, Spawn(w) \/ Fault(w) PROVE BlameInv'
  BY <1>4 DEF Spawn, Fault
<1>5. ASSUME NEW w \in Workers, GenerateKey(w) PROVE BlameInv'
  BY <1>5 DEF GenerateKey
<1>6. ASSUME NEW w \in Workers, CheckCancelled(w) PROVE BlameInv'
  BY <1>6 DEF CheckCancelled, FoundInv
<1>7. ASSUME NEW w \in Workers, FoundCallBack(w) \/ Acquire(w) \/ Select(w) PROVE BlameInv'
  BY <1>7 DEF FoundCallBack, Acquire, Select
<1>8. ASSUME NEW w \in Workers, SetKey(w) \/ SetID(w) \/ SetPrivateKey(w) \/ Release(w)
      PROVE BlameInv'
  BY <1>8 DEF SetKey, SetID, SetPrivateKey, Release
<1>9. ASSUME NEW w \in Workers, Exchange(w) \/ ReadScore(w) \/ SwapScore(w) PROVE BlameInv'
  BY <1>9 DEF Exchange, ReadScore, SwapScore
<1>10. CASE UNCHANGED vars
  BY <1>10 DEF vars
<1> QED
  BY <1>1, <1>2, <1>3, <1>4, <1>5, <1>6, <1>7, <1>8, <1>9, <1>10 DEF Next, WorkerStep

(* The invariant of every execution.                                       *)
THEOREM Invariance == Safety => []IInv
<1>1. IInv /\ [Next]_vars => IInv'
  BY NextTypeOK, NextLockInv, NextFoundInv, NextSelectionInv, NextBlameInv DEF IInv
<1> QED
  BY InitIInv, <1>1, PTL DEF Safety

(* Every variable keeps its type, for any number of workers.               *)
THEOREM TypeCorrect == Safety => []TypeOK
<1>1. IInv => TypeOK
  BY DEF IInv
<1> QED
  BY Invariance, <1>1, PTL

(* What the director reads when GenerateKeys is over is one key that meets *)
(* both thresholds, or nothing.                                            *)
THEOREM SelectionIsWhole == Safety => []SelectionWhole
<1>1. IInv => SelectionWhole
  BY DEF IInv, TypeOK, SelectionInv, BlameInv, SelectionWhole, Ended, Running, Critical
<1> QED
  BY Invariance, <1>1, PTL

(* A search that comes back empty was cancelled by its caller.             *)
THEOREM EmptySearchWasCancelled == Safety => []EmptyOnlyIfCancelled
<1>1. IInv => EmptyOnlyIfCancelled
  BY DEF IInv, TypeOK, SelectionInv, BlameInv, EmptyOnlyIfCancelled
<1> QED
  BY Invariance, <1>1, PTL

(* No step of any worker replaces a selected field.                        *)
THEOREM SelectionWrittenOnce == Safety => WriteOnce
<1> DEFINE Kept ==
      /\ selectedKey # NoKey => selectedKey' = selectedKey
      /\ selectedID # NoKey => selectedID' = selectedID
      /\ privateKey # NoKey => privateKey' = privateKey
<1>1. IInv /\ [Next]_vars => [Kept]_vars
  <2> SUFFICES ASSUME IInv, Next PROVE Kept
    BY DEF vars
  <2> USE DEF selection, Kept
  <2>1. CASE Call \/ UserCancel \/ PropagateCancel \/ MainStep
    BY <2>1 DEF Call, UserCancel, PropagateCancel, MainStep, FirstDone, CancelLinked, AllDone
  <2>2. ASSUME NEW w \in Workers, SetKey(w) \/ SetID(w) \/ SetPrivateKey(w) PROVE Kept
    BY <2>2 DEF SetKey, SetID, SetPrivateKey, IInv, SelectionInv
  <2>3. ASSUME NEW w \in Workers,
               Spawn(w) \/ Fault(w) \/ GenerateKey(w) \/ CheckCancelled(w) \/ FoundCallBack(w)
        PROVE Kept
    BY <2>3 DEF Spawn, Fault, GenerateKey, CheckCancelled, FoundCallBack
  <2>4. ASSUME NEW w \in Workers,
               Acquire(w) \/ Select(w) \/ Release(w) \/ Exchange(w) \/ ReadScore(w) \/ SwapScore(w)
        PROVE Kept
    BY <2>4 DEF Acquire, Select, Release, Exchange, ReadScore, SwapScore
  <2> QED
    BY <2>1, <2>2, <2>3, <2>4 DEF Next, WorkerStep
<1> QED
  BY Invariance, <1>1, PTL DEF Safety, WriteOnce

(* What a worker has read of the high score is below the key it is about   *)
(* to report: the swap that finds the score unchanged raises it.           *)
SwapInv == \A w \in Workers : pc[w] = "swapScore" => seen[w] < found[w].difficulty

(* The high score and the difficulties compared with it are numbers.       *)
LEMMA ScoresAreNumbers ==
    ASSUME IInv
    PROVE  /\ highscore \in Nat
           /\ \A w \in Workers : pc[w] \in {"readScore", "swapScore"} =>
                 found[w].difficulty \in Nat
<1>1. highscore \in Nat
  BY MeasuresAssumption DEF IInv, TypeOK
<1>2. \A w \in Workers : pc[w] \in {"readScore", "swapScore"} => found[w] \in Key
  BY DEF IInv, FoundInv
<1>3. \A k \in Key : k.difficulty \in Nat
  BY MeasuresAssumption DEF Key
<1> QED
  BY <1>1, <1>2, <1>3

(* Every step keeps what a worker knows of the high score.                 *)
LEMMA NextSwapInv == IInv /\ SwapInv /\ [Next]_vars => SwapInv'
<1> SUFFICES ASSUME IInv, SwapInv, [Next]_vars PROVE SwapInv'
  OBVIOUS
<1>0. /\ highscore \in Nat
      /\ \A w \in Workers : pc[w] \in {"readScore", "swapScore"} =>
            found[w].difficulty \in Nat
  BY ScoresAreNumbers
<1> USE DEF IInv, TypeOK, SwapInv, Critical, Ended, Steps, selection, Goto
<1>1. CASE Call \/ UserCancel \/ PropagateCancel \/ MainStep
  BY <1>1 DEF Call, UserCancel, PropagateCancel, MainStep, FirstDone, CancelLinked, AllDone
<1>2. ASSUME NEW w \in Workers, Spawn(w) \/ Fault(w) \/ CheckCancelled(w) \/ FoundCallBack(w)
      PROVE SwapInv'
  BY <1>2 DEF Spawn, Fault, CheckCancelled, FoundCallBack
<1>3. ASSUME NEW w \in Workers, GenerateKey(w) PROVE SwapInv'
  BY <1>3 DEF GenerateKey
<1>4. ASSUME NEW w \in Workers, Acquire(w) \/ Select(w) \/ Release(w) \/ Exchange(w)
      PROVE SwapInv'
  BY <1>4 DEF Acquire, Select, Release, Exchange
<1>5. ASSUME NEW w \in Workers, SetKey(w) \/ SetID(w) \/ SetPrivateKey(w) PROVE SwapInv'
  BY <1>5 DEF SetKey, SetID, SetPrivateKey
<1>6. ASSUME NEW w \in Workers, ReadScore(w) PROVE SwapInv'
  <2>1. found[w].difficulty \in Nat /\ highscore \in Nat
    BY <1>0, <1>6 DEF ReadScore
  <2> QED
    BY <1>6, <2>1 DEF ReadScore
<1>7. ASSUME NEW w \in Workers, SwapScore(w) PROVE SwapInv'
  BY <1>7 DEF SwapScore
<1>8. CASE UNCHANGED vars
  BY <1>8 DEF vars
<1> QED
  BY <1>1, <1>2, <1>3, <1>4, <1>5, <1>6, <1>7, <1>8 DEF Next, WorkerStep

(* No report of a lesser key lowers the high score, whatever the others    *)
(* have stored between its read and its swap.                              *)
THEOREM ScoreOnlyRises == Safety => ScoreDropsOnlyAtWin
<1> DEFINE Allowed == highscore' < highscore =>
                        \E w \in Workers : pc[w] = "exchange" /\ pc'[w] = "won"
<1>1. Init => SwapInv
  BY DEF Init, SwapInv
<1>2. IInv /\ SwapInv /\ [Next]_vars => [Allowed]_vars
  <2> SUFFICES ASSUME IInv, SwapInv, Next PROVE Allowed
    BY DEF vars
  <2>1. highscore \in Nat
    BY ScoresAreNumbers
  <2> USE DEF selection
  <2>2. CASE Call \/ UserCancel \/ PropagateCancel \/ MainStep
    BY <2>1, <2>2 DEF Call, UserCancel, PropagateCancel, MainStep, FirstDone, CancelLinked, AllDone
  <2>3. ASSUME NEW w \in Workers,
               Spawn(w) \/ Fault(w) \/ GenerateKey(w) \/ CheckCancelled(w) \/ FoundCallBack(w)
        PROVE Allowed
    BY <2>1, <2>3 DEF Spawn, Fault, GenerateKey, CheckCancelled, FoundCallBack
  <2>4. ASSUME NEW w \in Workers,
               Acquire(w) \/ Select(w) \/ SetKey(w) \/ SetID(w) \/ SetPrivateKey(w)
               \/ Release(w) \/ ReadScore(w)
        PROVE Allowed
    BY <2>1, <2>4 DEF Acquire, Select, SetKey, SetID, SetPrivateKey, Release, ReadScore
  <2>5. ASSUME NEW w \in Workers, Exchange(w) PROVE Allowed
    BY <2>5 DEF Exchange, Goto, IInv, TypeOK
  <2>6. ASSUME NEW w \in Workers, SwapScore(w) PROVE Allowed
    <3>1. seen[w] < found[w].difficulty /\ found[w].difficulty \in Nat
      BY <2>6, ScoresAreNumbers DEF SwapScore, SwapInv
    <3> QED
      BY <2>1, <2>6, <3>1 DEF SwapScore
  <2> QED
    BY <2>2, <2>3, <2>4, <2>5, <2>6 DEF Next, WorkerStep
<1> QED
  BY Invariance, NextSwapInv, <1>1, <1>2, PTL DEF Safety, ScoreDropsOnlyAtWin

(* A selected key has a worker that selected it and has not gone back to   *)
(* generating.                                                             *)
ChosenInv ==
    selectedKey # NoKey =>
        \E w \in Workers : pc[w] \in {"setID", "setPrivateKey", "release", "exchange", "won"}

(* Every step keeps a worker behind a selected key.                        *)
LEMMA NextChosenInv == IInv /\ ChosenInv /\ [Next]_vars => ChosenInv'
<1> SUFFICES ASSUME IInv, ChosenInv, [Next]_vars PROVE ChosenInv'
  OBVIOUS
<1>0. pc \in [Workers -> Steps]
  BY DEF IInv, TypeOK
<1> USE <1>0 DEF ChosenInv, selection, Goto
<1>1. CASE Call \/ UserCancel \/ PropagateCancel \/ MainStep
  BY <1>1 DEF Call, UserCancel, PropagateCancel, MainStep, FirstDone, CancelLinked, AllDone
<1>2. ASSUME NEW w \in Workers,
             Spawn(w) \/ Fault(w) \/ GenerateKey(w) \/ CheckCancelled(w) \/ FoundCallBack(w)
      PROVE ChosenInv'
  BY <1>2 DEF Spawn, Fault, GenerateKey, CheckCancelled, FoundCallBack
<1>3. ASSUME NEW w \in Workers, Acquire(w) \/ Select(w) \/ ReadScore(w) \/ SwapScore(w)
      PROVE ChosenInv'
  BY <1>3 DEF Acquire, Select, ReadScore, SwapScore
<1>4. ASSUME NEW w \in Workers,
             SetKey(w) \/ SetID(w) \/ SetPrivateKey(w) \/ Release(w) \/ Exchange(w)
      PROVE ChosenInv'
  BY <1>4 DEF SetKey, SetID, SetPrivateKey, Release, Exchange
<1>5. CASE UNCHANGED vars
  BY <1>5 DEF vars
<1> QED
  BY <1>1, <1>2, <1>3, <1>4, <1>5 DEF Next, WorkerStep

(* Once no worker can select a key, none can ever after.                   *)
LEMMA DoomedStays == IInv /\ Doomed /\ Next /\ ~Call => Doomed'
<1> SUFFICES ASSUME IInv, Doomed, Next, ~Call PROVE Doomed'
  OBVIOUS
<1>0. pc \in [Workers -> Steps]
  BY DEF IInv, TypeOK
<1> USE <1>0 DEF Doomed, selection, Goto
<1>1. CASE UserCancel \/ PropagateCancel \/ MainStep
  BY <1>1 DEF UserCancel, PropagateCancel, MainStep, FirstDone, CancelLinked, AllDone
<1>2. ASSUME NEW w \in Workers, Spawn(w) \/ Fault(w) \/ GenerateKey(w) \/ CheckCancelled(w)
      PROVE Doomed'
  BY <1>2 DEF Spawn, Fault, GenerateKey, CheckCancelled
<1>3. ASSUME NEW w \in Workers,
             FoundCallBack(w) \/ Acquire(w) \/ Select(w) \/ SetKey(w) \/ SetID(w)
             \/ SetPrivateKey(w) \/ Release(w) \/ Exchange(w) \/ ReadScore(w) \/ SwapScore(w)
      PROVE Doomed'
  BY <1>3 DEF FoundCallBack, Acquire, Select, SetKey, SetID, SetPrivateKey, Release, Exchange,
              ReadScore, SwapScore
<1> QED
  BY <1>1, <1>2, <1>3 DEF Next, WorkerStep

(* A search that was cancelled before it was called selects nothing,       *)
(* however its workers are scheduled.                                      *)
THEOREM CancelledSearchIsEmpty == Safety => CancelledFirstSelectsNothing
<1> DEFINE Empty == (Call /\ user) \/ (main \in Running /\ Doomed) =>
                      Doomed' /\ selectedKey' = NoKey
<1>1. Init => ChosenInv
  BY DEF Init, ChosenInv
<1>2. IInv /\ ChosenInv /\ [Next]_vars => [Empty]_vars
  <2> SUFFICES ASSUME IInv, ChosenInv, Next, (Call /\ user) \/ (main \in Running /\ Doomed)
               PROVE  Doomed' /\ selectedKey' = NoKey
    OBVIOUS
  <2>1. Doomed'
    <3>1. CASE Call /\ user
      BY <3>1 DEF Call, Doomed, IInv, BlameInv
    <3>2. CASE main \in Running /\ Doomed
      <4>1. ~Call
        BY <3>2 DEF Call, Running
      <4> QED
        BY <3>2, <4>1, DoomedStays
    <3> QED
      BY <3>1, <3>2
  <2>2. ChosenInv'
    BY NextChosenInv
  <2>3. selectedKey' = NoKey
    BY <2>1, <2>2 DEF ChosenInv, Doomed
  <2> QED
    BY <2>1, <2>3
<1> QED
  BY Invariance, NextChosenInv, <1>1, <1>2, PTL DEF Safety, CancelledFirstSelectsNothing

(* A step that changes neither the key nor what the caller has asked for,  *)
(* while the search goes on, is a step of the abstract search or none: the *)
(* most that can happen is that it becomes doomed.                         *)
LEMMA QuietStep ==
    ASSUME IInv, ChosenInv, Next, ~Call, UNCHANGED <<selectedKey, user>>,
           main = main' \/ (main \in Running /\ main' \in Running)
    PROVE  [Selection!SelectionNext]_(Selection!selectionVars)
<1> USE DEF Running, Selection!selectionVars
<1>1. CASE main \notin Running
  BY <1>1
<1>2. CASE main \in Running /\ main' \in Running /\ Doomed
  BY <1>2, DoomedStays
<1>3. CASE main \in Running /\ main' \in Running /\ ~Doomed /\ ~Doomed'
  BY <1>3
<1>4. CASE main \in Running /\ main' \in Running /\ ~Doomed /\ Doomed'
  <2>1. selectedKey' = NoKey
    <3>1. ChosenInv'
      BY NextChosenInv
    <3> QED
      BY <1>4, <3>1 DEF ChosenInv, Doomed
  <2> QED
    BY <1>4, <2>1 DEF Selection!SelectionNext, Selection!Doom
<1> QED
  BY <1>1, <1>2, <1>3, <1>4

(* The workers refine the abstract search: only SetKey chooses, it chooses *)
(* a good key, AllDone returns only with a key or after a cancellation,    *)
(* and a search called with a cancelled token chooses no key.              *)
THEOREM ImplementsSelection == Safety => Selection!SelectionSafety
<1> DEFINE Mapped == [Selection!SelectionNext]_(Selection!selectionVars)
<1>1. Init => Selection!SelectionInit /\ ChosenInv
  BY DEF Init, Selection!SelectionInit, Running, ChosenInv
<1>2. IInv /\ ChosenInv /\ [Next]_vars => Mapped
  <2> SUFFICES ASSUME IInv, ChosenInv, [Next]_vars PROVE Mapped
    OBVIOUS
  <2> USE DEF selection
  <2>1. CASE Call
    <3>1. \A w \in Workers : pc'[w] = "unborn"
      BY <2>1 DEF Call, IInv, BlameInv
    <3>2. Doomed' <=> user
      BY <2>1, <3>1 DEF Call, Doomed, IInv, TypeOK
    <3>3. main = "idle" /\ main' = "spawning" /\ UNCHANGED <<selectedKey, user>>
      BY <2>1 DEF Call
    <3> QED
      BY <3>2, <3>3 DEF Running, Selection!SelectionNext, Selection!Begin
  <2>2. CASE UserCancel
    <3>1. Doomed' <=> Doomed
      BY <2>2 DEF UserCancel, Doomed
    <3> QED
      BY <2>2, <3>1 DEF UserCancel, Running, Selection!SelectionNext, Selection!RequestCancel
  <2>3. CASE PropagateCancel \/ FirstDone \/ CancelLinked
    <3>1. Next /\ ~Call
      BY <2>3 DEF Next, MainStep, Call, PropagateCancel, FirstDone, CancelLinked, Running
    <3> QED
      BY <2>3, <3>1, QuietStep DEF PropagateCancel, FirstDone, CancelLinked, Running
  <2>4. CASE AllDone
    <3>1. CASE \E w \in Workers : pc[w] = "faulted"
      BY <2>4, <3>1 DEF AllDone, Running, Selection!SelectionNext, Selection!Fail,
                        Selection!UnderWay
    <3>2. CASE ~ \E w \in Workers : pc[w] = "faulted"
      <4>1. selectedKey # NoKey \/ user
        BY <2>4, <3>2 DEF AllDone, IInv, BlameInv, SelectionInv
      <4> QED
        BY <2>4, <3>2, <4>1 DEF AllDone, Running, Selection!SelectionNext, Selection!Finish,
                                Selection!UnderWay
    <3> QED
      BY <3>1, <3>2
  <2>5. ASSUME NEW w \in Workers, SetKey(w) PROVE Mapped
    <3>1. found[w] \in GoodKey /\ selectedKey = NoKey /\ pc[w] = "setKey"
      BY <2>5 DEF SetKey, IInv, FoundInv, SelectionInv, Critical
    <3>2. main \in Running
      BY <3>1 DEF IInv, TypeOK, BlameInv, Ended, Running
    <3>3. pc'[w] = "setID"
      BY <2>5 DEF SetKey, Goto, IInv, TypeOK
    <3>4. ~Doomed /\ ~Doomed'
      BY <3>1, <3>3 DEF Doomed
    <3>5. Selection!Choose(found[w])
      BY <2>5, <3>1, <3>2, <3>4 DEF SetKey, Selection!Choose
    <3> QED
      BY <3>1, <3>5 DEF Selection!SelectionNext
  <2>6. ASSUME NEW w \in Workers,
               Spawn(w) \/ Fault(w) \/ GenerateKey(w) \/ CheckCancelled(w) \/ FoundCallBack(w)
               \/ Acquire(w) \/ Select(w)
        PROVE Mapped
    <3>1. UNCHANGED <<main, user, selectedKey>>
      BY <2>6 DEF Spawn, Fault, GenerateKey, CheckCancelled, FoundCallBack, Acquire, Select
    <3>2. Next /\ ~Call
      BY <2>6, <3>1 DEF Next, WorkerStep, Call
    <3> QED
      BY <3>1, <3>2, QuietStep
  <2>7. ASSUME NEW w \in Workers,
               SetID(w) \/ SetPrivateKey(w) \/ Release(w) \/ Exchange(w) \/ ReadScore(w)
               \/ SwapScore(w)
        PROVE Mapped
    <3>1. UNCHANGED <<main, user, selectedKey>>
      BY <2>7 DEF SetID, SetPrivateKey, Release, Exchange, ReadScore, SwapScore
    <3>2. Next /\ ~Call
      BY <2>7, <3>1 DEF Next, WorkerStep, Call
    <3> QED
      BY <3>1, <3>2, QuietStep
  <2>8. CASE UNCHANGED vars
    BY <2>8 DEF vars, Doomed, Selection!selectionVars
  <2> QED
    BY <2>1, <2>2, <2>3, <2>4, <2>5, <2>6, <2>7, <2>8 DEF Next, MainStep, WorkerStep
<1> QED
  BY Invariance, NextChosenInv, <1>1, <1>2, PTL DEF Safety, Selection!SelectionSafety
=============================================================================
