------------------------------ MODULE KeySearch ------------------------------
(***************************************************************************)
(* AbstractCertificateBuilder.GenerateKeys: `concurrency` pool threads     *)
(* generate ECDSA key pairs until one of them finds a node ID that is      *)
(* difficult enough, or the caller's token is cancelled.  The threads      *)
(* share the builder's fields: the selected key, ID and private key, which *)
(* are written under a lock, and the high score, which is not.             *)
(*                                                                         *)
(* A generated key pair is abstracted to who generated it and the          *)
(* difficulty of its ID.  A worker that selects a key generates no further *)
(* one, so this identifies every key that can be selected.                 *)
(***************************************************************************)
EXTENDS Integers

CONSTANTS Workers,        \* the pool threads: `concurrency` of them
          Measures,       \* the difficulties the ID of a key may have
          MinDifficulty,  \* below it GenerateKey drops a key silently
          Difficulty,     \* from it on a key is good enough
          NoKey,          \* a null field
          NoWorker        \* the lock is free

(* Task.WhenAny throws on an empty list: concurrency 0 is no search.       *)
ASSUME WorkersAssumption == Workers # {} /\ NoWorker \notin Workers
ASSUME MeasuresAssumption == Measures \subseteq Nat /\ MinDifficulty \in Nat /\ Difficulty \in Nat
ASSUME NoKeyIsNoKey == NoKey \notin [by : Workers, difficulty : Measures]

VARIABLES main,         \* the task that awaits GenerateKeys
          pc,           \* the next step of each worker
          user,         \* cancellationToken.IsCancellationRequested
          linked,       \* ctx.IsCancellationRequested, ctx linked to it
          lock,         \* the holder of _mutex
          selectedKey, selectedID, privateKey,   \* _selectedKey, _selectedID, _pkey
          highscore,    \* the best difficulty the status line reports
          found,        \* the key each worker has at hand
          seen          \* the high score each worker has read

selection == <<selectedKey, selectedID, privateKey>>
vars == <<main, pc, user, linked, lock, selectedKey, selectedID, privateKey,
          highscore, found, seen>>

Key == [by : Workers, difficulty : Measures]
Critical == {"select", "setKey", "setID", "setPrivateKey", "release"}
Ended == {"won", "stopped", "faulted"}
Steps == Critical \cup Ended \cup
         {"unborn", "generate", "check", "callback", "acquire", "exchange",
          "readScore", "swapScore"}
Running == {"spawning", "firstDone", "draining"}

Init ==
    /\ main = "idle"
    /\ pc = [w \in Workers |-> "unborn"]
    /\ user = FALSE
    /\ linked = FALSE
    /\ lock = NoWorker
    /\ selectedKey = NoKey
    /\ selectedID = NoKey
    /\ privateKey = NoKey
    /\ highscore = 0
    /\ found = [w \in Workers |-> NoKey]
    /\ seen = [w \in Workers |-> 0]

Goto(w, step) == pc' = [pc EXCEPT ![w] = step]

-----------------------------------------------------------------------------
(* The caller's task.                                                      *)

(* A token linked to one that is already cancelled is born cancelled.      *)
Call ==
    /\ main = "idle"
    /\ main' = "spawning"
    /\ linked' = user
    /\ UNCHANGED <<pc, user, lock, selection, highscore, found, seen>>

Spawn(w) ==
    /\ main = "spawning"
    /\ pc[w] = "unborn"
    /\ Goto(w, "generate")
    /\ UNCHANGED <<main, user, linked, lock, selection, highscore, found, seen>>

FirstDone ==
    /\ main = "spawning"
    /\ \A w \in Workers : pc[w] # "unborn"
    /\ \E w \in Workers : pc[w] \in Ended
    /\ main' = "firstDone"
    /\ UNCHANGED <<pc, user, linked, lock, selection, highscore, found, seen>>

(* Without the cancellation: the workers that have found nothing go on.    *)
CancelLinkedForgotten ==
    /\ main = "firstDone"
    /\ main' = "draining"
    /\ UNCHANGED <<pc, user, linked, lock, selection, highscore, found, seen>>

CancelLinked ==
    /\ main = "firstDone"
    /\ main' = "draining"
    /\ linked' = TRUE
    /\ UNCHANGED <<pc, user, lock, selection, highscore, found, seen>>

(* Task.WhenAll rethrows the exception of a worker that faulted, even when *)
(* another worker has selected a key.                                      *)
AllDone ==
    /\ main = "draining"
    /\ \A w \in Workers : pc[w] \in Ended
    /\ main' = IF \E w \in Workers : pc[w] = "faulted" THEN "threw" ELSE "returned"
    /\ UNCHANGED <<pc, user, linked, lock, selection, highscore, found, seen>>

(* The caller cancels its token at any time; the linked token follows in a *)
(* callback, while it has not been disposed.                               *)
UserCancel ==
    /\ ~user
    /\ user' = TRUE
    /\ UNCHANGED <<main, pc, linked, lock, selection, highscore, found, seen>>

PropagateCancel ==
    /\ main \in Running
    /\ user
    /\ ~linked
    /\ linked' = TRUE
    /\ UNCHANGED <<main, pc, user, lock, selection, highscore, found, seen>>

-----------------------------------------------------------------------------
(* A worker.                                                               *)

(* One turn of GenerateKey's loop: the key pair is made, then the token is *)
(* read; a key below MinDifficulty is dropped and the loop goes on.        *)
GenerateKey(w) ==
    /\ pc[w] = "generate"
    /\ \/ /\ linked
          /\ found' = [found EXCEPT ![w] = NoKey]
          /\ Goto(w, "check")
       \/ /\ ~linked
          /\ \E d \in Measures :
                /\ d >= MinDifficulty
                /\ found' = [found EXCEPT ![w] = [by |-> w, difficulty |-> d]]
                /\ Goto(w, "check")
       \/ /\ ~linked
          /\ \E d \in Measures : d < MinDifficulty
          /\ UNCHANGED <<pc, found>>
    /\ UNCHANGED <<main, user, linked, lock, selection, highscore, seen>>

(* The cryptographic provider throws: the exception ends the worker's task.*)
Fault(w) ==
    /\ pc[w] = "generate"
    /\ Goto(w, "faulted")
    /\ UNCHANGED <<main, user, linked, lock, selection, highscore, found, seen>>

(* Only the key is looked at after GenerateKey.                            *)
CheckFound(w) ==
    /\ pc[w] = "check"
    /\ Goto(w, IF found[w] = NoKey THEN "stopped" ELSE "callback")
    /\ UNCHANGED <<main, user, linked, lock, selection, highscore, found, seen>>

(* The token is read again after GenerateKey: a key found meanwhile is     *)
(* dropped.  After this step nothing reads the token until the next key.   *)
CheckCancelled(w) ==
    /\ pc[w] = "check"
    /\ Goto(w, IF linked \/ found[w] = NoKey THEN "stopped" ELSE "callback")
    /\ UNCHANGED <<main, user, linked, lock, selection, highscore, found, seen>>

(* An easier key is taken for a good one: the comparison with the other    *)
(* threshold.                                                              *)
FoundCallBackWrongThreshold(w) ==
    /\ pc[w] = "callback"
    /\ Goto(w, IF found[w].difficulty >= MinDifficulty THEN "acquire" ELSE "readScore")
    /\ UNCHANGED <<main, user, linked, lock, selection, highscore, found, seen>>

FoundCallBack(w) ==
    /\ pc[w] = "callback"
    /\ Goto(w, IF found[w].difficulty >= Difficulty THEN "acquire" ELSE "readScore")
    /\ UNCHANGED <<main, user, linked, lock, selection, highscore, found, seen>>

(* The critical section without the lock statement.                        *)
AcquireNothing(w) ==
    /\ pc[w] = "acquire"
    /\ Goto(w, "select")
    /\ UNCHANGED <<main, user, linked, lock, selection, highscore, found, seen>>

Acquire(w) ==
    /\ pc[w] = "acquire"
    /\ lock = NoWorker
    /\ lock' = w
    /\ Goto(w, "select")
    /\ UNCHANGED <<main, user, linked, selection, highscore, found, seen>>

(* The last worker wins instead of the first.                              *)
SelectAlways(w) ==
    /\ pc[w] = "select"
    /\ Goto(w, "setKey")
    /\ UNCHANGED <<main, user, linked, lock, selection, highscore, found, seen>>

Select(w) ==
    /\ pc[w] = "select"
    /\ Goto(w, IF selectedKey = NoKey THEN "setKey" ELSE "release")
    /\ UNCHANGED <<main, user, linked, lock, selection, highscore, found, seen>>

SetKey(w) ==
    /\ pc[w] = "setKey"
    /\ selectedKey' = found[w]
    /\ Goto(w, "setID")
    /\ UNCHANGED <<main, user, linked, lock, selectedID, privateKey, highscore, found, seen>>

SetID(w) ==
    /\ pc[w] = "setID"
    /\ selectedID' = found[w]
    /\ Goto(w, "setPrivateKey")
    /\ UNCHANGED <<main, user, linked, lock, selectedKey, privateKey, highscore, found, seen>>

SetPrivateKey(w) ==
    /\ pc[w] = "setPrivateKey"
    /\ privateKey' = found[w]
    /\ Goto(w, "release")
    /\ UNCHANGED <<main, user, linked, lock, selectedKey, selectedID, highscore, found, seen>>

Release(w) ==
    /\ pc[w] = "release"
    /\ lock' = NoWorker
    /\ Goto(w, "exchange")
    /\ UNCHANGED <<main, user, linked, selection, highscore, found, seen>>

(* Interlocked.Add for Interlocked.Exchange.                               *)
ExchangeAdds(w) ==
    /\ pc[w] = "exchange"
    /\ highscore' = highscore + found[w].difficulty
    /\ Goto(w, "won")
    /\ UNCHANGED <<main, user, linked, lock, selection, found, seen>>

(* Outside the lock, unconditionally; then FoundCallBack returns true.     *)
Exchange(w) ==
    /\ pc[w] = "exchange"
    /\ highscore' = found[w].difficulty
    /\ Goto(w, "won")
    /\ UNCHANGED <<main, user, linked, lock, selection, found, seen>>

ReadScore(w) ==
    /\ pc[w] = "readScore"
    /\ seen' = [seen EXCEPT ![w] = highscore]
    /\ Goto(w, IF found[w].difficulty <= highscore THEN "generate" ELSE "swapScore")
    /\ UNCHANGED <<main, user, linked, lock, selection, highscore, found>>

(* A plain assignment instead of the compare-and-exchange.                 *)
WriteScore(w) ==
    /\ pc[w] = "swapScore"
    /\ highscore' = found[w].difficulty
    /\ Goto(w, "generate")
    /\ UNCHANGED <<main, user, linked, lock, selection, found, seen>>

(* "done" reported for a key that is not good enough.                      *)
SwapScoreReturnsTrue(w) ==
    /\ pc[w] = "swapScore"
    /\ IF highscore = seen[w]
         THEN highscore' = found[w].difficulty /\ Goto(w, "won")
         ELSE UNCHANGED highscore /\ Goto(w, "readScore")
    /\ UNCHANGED <<main, user, linked, lock, selection, found, seen>>

SwapScore(w) ==
    /\ pc[w] = "swapScore"
    /\ IF highscore = seen[w]
         THEN highscore' = found[w].difficulty /\ Goto(w, "generate")
         ELSE UNCHANGED highscore /\ Goto(w, "readScore")
    /\ UNCHANGED <<main, user, linked, lock, selection, found, seen>>

(* The steps a scheduled worker goes on to take; a fault is not among them.*)
WorkerStep(w) ==
    \/ GenerateKey(w) \/ CheckCancelled(w) \/ FoundCallBack(w)
    \/ Acquire(w) \/ Select(w) \/ SetKey(w) \/ SetID(w) \/ SetPrivateKey(w) \/ Release(w)
    \/ Exchange(w) \/ ReadScore(w) \/ SwapScore(w)

MainStep == FirstDone \/ CancelLinked \/ AllDone

-----------------------------------------------------------------------------
Next ==
    \/ Call \/ UserCancel \/ PropagateCancel \/ MainStep
    \/ \E w \in Workers : Spawn(w) \/ Fault(w) \/ WorkerStep(w)

Safety == Init /\ [][Next]_vars

(* The thread pool runs every task it was given, Task.WhenAny and WhenAll  *)
(* resume, and a cancellation reaches the linked token.  Nothing makes a   *)
(* caller call or cancel, and nothing makes a key good enough.             *)
Fairness ==
    /\ \A w \in Workers : WF_vars(Spawn(w)) /\ WF_vars(WorkerStep(w))
    /\ WF_vars(MainStep)
    /\ WF_vars(PropagateCancel)

Spec == Safety /\ Fairness

-----------------------------------------------------------------------------
TypeOK ==
    /\ main \in Running \cup {"idle", "returned", "threw"}
    /\ pc \in [Workers -> Steps]
    /\ user \in BOOLEAN
    /\ linked \in BOOLEAN
    /\ lock \in Workers \cup {NoWorker}
    /\ selectedKey \in Key \cup {NoKey}
    /\ selectedID \in Key \cup {NoKey}
    /\ privateKey \in Key \cup {NoKey}
    /\ highscore \in Measures \cup {0}
    /\ found \in [Workers -> Key \cup {NoKey}]
    /\ seen \in [Workers -> Measures \cup {0}]

(* Keys good enough to be delivered.                                       *)
GoodKey == {k \in Key : k.difficulty >= MinDifficulty /\ k.difficulty >= Difficulty}

(* The three fields the director reads once the search is over always come *)
(* from one key, and that key meets both thresholds: two workers that      *)
(* succeed at once never leave the ID of one beside the private key of the *)
(* other.                                                                  *)
SelectionWhole ==
    main \in {"idle", "returned", "threw"} =>
        /\ selectedID = selectedKey
        /\ privateKey = selectedKey
        /\ selectedKey \in GoodKey \cup {NoKey}

(* The first key selected stays: no later worker, and no step after the    *)
(* search has returned, replaces any of the three fields.                  *)
WriteOnce ==
    [][/\ selectedKey # NoKey => selectedKey' = selectedKey
       /\ selectedID # NoKey => selectedID' = selectedID
       /\ privateKey # NoKey => privateKey' = privateKey]_vars

(* A search that returns without a key was cancelled by its caller: no     *)
(* worker gives up on account of another one unless that one has selected  *)
(* a key (or has thrown, and then the search throws).                      *)
EmptyOnlyIfCancelled == main = "returned" /\ selectedKey = NoKey => user

(* Only the winner's unconditional Exchange lowers the high score: between *)
(* the workers that report lesser keys no update is lost.                  *)
ScoreDropsOnlyAtWin ==
    [][highscore' < highscore => \E w \in Workers : pc[w] = "exchange" /\ pc'[w] = "won"]_vars

(* "best difficulty so far" (the status line) never goes down.  The code   *)
(* does not keep this: see Exchange.                                       *)
BestSoFar == [][highscore' >= highscore]_vars

(* No key can be selected any more: the linked token is cancelled, and     *)
(* every worker has its next look at it still before it, or has ended      *)
(* without a key.                                                          *)
Doomed ==
    /\ linked
    /\ \A w \in Workers : pc[w] \in {"unborn", "generate", "check", "stopped", "faulted"}

(* A search called with a cancelled token selects no key, and neither does *)
(* one whose workers have all been overtaken by the cancellation: a key    *)
(* that was being generated meanwhile is dropped (the linked token, read   *)
(* again after GenerateKey).                                               *)
CancelledFirstSelectsNothing ==
    [][(Call /\ user) \/ (main \in Running /\ Doomed) =>
          Doomed' /\ selectedKey' = NoKey]_vars

(* A search whose token is cancelled, or that has had a worker end, is     *)
(* over eventually, whatever keys the other workers find.                  *)
CancelEndsSearch ==
    main \in Running /\ (user \/ \E w \in Workers : pc[w] \in Ended)
        ~> main \in {"returned", "threw"}

(* The worker threads implement the search the callers rely on.  The       *)
(* public key is the field that decides: it is tested and written first.   *)
(* A search called with a cancelled token is doomed from the start.        *)
Selection == INSTANCE KeySelection WITH
    Keys <- GoodKey,
    chosen <- selectedKey,
    cancelled <- user,
    phase <- IF main \in Running THEN IF Doomed THEN "doomed" ELSE "searching" ELSE main

ImplementsKeySelection == Selection!SelectionSpec
=============================================================================
