--------------------------- MODULE IdentityService ---------------------------
(***************************************************************************)
(* CertificateAuthorityService: the Create and Cancel commands of the node *)
(* console, and the four identity files they are about.                    *)
(*                                                                         *)
(* Program.StartReadConsole reads commands on one thread.  It does not     *)
(* await Create, so Create runs on the console thread up to the await of   *)
(* the key search (`guarded' to `identAbsent' below) and the rest of it    *)
(* runs on a pool thread, while the console already takes the next         *)
(* command.  Several creations can thus be under way at once, and they     *)
(* share the fields `generating' and `cancellationTokenSource' and the     *)
(* files.  A crash loses everything but the files.                         *)
(*                                                                         *)
(* The key search of a creation is used through its abstraction            *)
(* KeySelection.  A file is abstracted to the creations whose PEM blocks   *)
(* it holds, in order; all blocks are taken to have the same length.       *)
(***************************************************************************)
EXTENDS Integers, Sequences

CONSTANTS Creates,   \* the Create commands that may be given; each is given once
          NoCreate   \* a null cancellationTokenSource, a gap in a file

ASSUME CreatesAssumption == NoCreate \notin Creates

VARIABLES console,      \* what the console thread is doing
          answer,       \* what the last Cancel command has printed
          generating,   \* the field of that name
          cts,          \* cancellationTokenSource: the creation it was made for
          cancelled,    \* the creations whose token source has been cancelled
          userCancelled,\* those for which a Cancel command has begun to act
          pc,           \* the next step of each creation
          search,       \* the state of its key search
          chosen,       \* whether that search has selected a key
          keyTask,      \* the task that writes the key file beside the certificate
          exists,       \* the files on disk
          content,      \* the PEM blocks in each
          position      \* where each creation that has a file open writes in it

serviceVars == <<console, answer, generating, cts, cancelled, userCancelled>>
searchVars == <<search, chosen>>
diskVars == <<exists, content, position>>
vars == <<console, answer, generating, cts, cancelled, userCancelled, pc,
          search, chosen, keyTask, exists, content, position>>

CaFiles == {"caCert", "caKey"}
IdentFiles == {"identCert", "identKey"}
KeyFiles == {"caKey", "identKey"}
Files == CaFiles \cup IdentFiles
Closed == -1

Prefix == {"guarded", "flagged", "caAbsent", "identAbsent"}
Saving == {"saveCA", "joinCA", "saveLeaf", "saveIssuer", "joinIdent"}
Active == Prefix \cup Saving \cup {"searching", "build", "report", "clearFlag"}
Terminal == {"created", "refused", "gaveUp", "threw", "crashed"}

Init ==
    /\ console = "free"
    /\ answer = "none"
    /\ generating = FALSE
    /\ cts = NoCreate
    /\ cancelled = {}
    /\ userCancelled = {}
    /\ pc = [c \in Creates |-> "uncalled"]
    /\ search = [c \in Creates |-> "idle"]
    /\ chosen = [c \in Creates |-> FALSE]
    /\ keyTask = [c \in Creates |-> [f \in KeyFiles |-> "none"]]
    /\ exists = {}
    /\ content = [f \in Files |-> <<>>]
    /\ position = [f \in Files |-> [c \in Creates |-> Closed]]

Goto(c, step) == pc' = [pc EXCEPT ![c] = step]

-----------------------------------------------------------------------------
(* The part of Create that runs on the console thread.                     *)

(* Create without its guard on `generating'.                               *)
CreateUnguarded(c) ==
    /\ console = "free"
    /\ pc[c] = "uncalled"
    /\ answer' = "none"
    /\ cts' = c
    /\ Goto(c, "guarded")
    /\ console' = "create"
    /\ UNCHANGED <<generating, cancelled, userCancelled, searchVars, keyTask, diskVars>>

CreateCalled(c) ==
    /\ console = "free"
    /\ pc[c] = "uncalled"
    /\ answer' = "none"
    /\ \/ /\ generating
          /\ Goto(c, "refused")
          /\ UNCHANGED <<console, cts>>
       \/ /\ ~generating
          /\ cts' = c
          /\ Goto(c, "guarded")
          /\ console' = "create"
    /\ UNCHANGED <<generating, cancelled, userCancelled, searchVars, keyTask, diskVars>>

FlagGenerating(c) ==
    /\ pc[c] = "guarded"
    /\ generating' = TRUE
    /\ Goto(c, "flagged")
    /\ UNCHANGED <<console, answer, cts, cancelled, userCancelled, searchVars, keyTask, diskVars>>

(* Refused only when both files exist.                                     *)
CheckAbsentBoth(c, step, names, next) ==
    /\ pc[c] = step
    /\ IF names \subseteq exists
         THEN Goto(c, "refused") /\ console' = "free"
         ELSE Goto(c, next) /\ UNCHANGED console
    /\ UNCHANGED <<answer, generating, cts, cancelled, userCancelled, searchVars, keyTask, diskVars>>

(* FilePath.IsExists tells apart which of two files exist; the caller only *)
(* asks whether any does (files are never deleted, so looking at both at   *)
(* once is the same).  It returns early, and `generating' stays set.       *)
CheckAbsent(c, step, names, next) ==
    /\ pc[c] = step
    /\ IF names \cap exists # {}
         THEN Goto(c, "refused") /\ console' = "free"
         ELSE Goto(c, next) /\ UNCHANGED console
    /\ UNCHANGED <<answer, generating, cts, cancelled, userCancelled, searchVars, keyTask, diskVars>>

CheckCA(c) == CheckAbsent(c, "flagged", CaFiles, "caAbsent")
CheckIdent(c) == CheckAbsent(c, "caAbsent", IdentFiles, "identAbsent")

(* The search is started and awaited: the console is free again.  A search *)
(* whose token is already cancelled cannot select a key.                   *)
StartSearch(c) ==
    /\ pc[c] = "identAbsent"
    /\ search' = [search EXCEPT ![c] = IF c \in cancelled THEN "doomed" ELSE "searching"]
    /\ Goto(c, "searching")
    /\ console' = "free"
    /\ UNCHANGED <<answer, generating, cts, cancelled, userCancelled, chosen, keyTask, diskVars>>

ConsoleStep(c) == FlagGenerating(c) \/ CheckCA(c) \/ CheckIdent(c) \/ StartSearch(c)

-----------------------------------------------------------------------------
(* The key search, as KeySelection lets it behave.                         *)

SelectKey(c) ==
    /\ search[c] = "searching"
    /\ ~chosen[c]
    /\ chosen' = [chosen EXCEPT ![c] = TRUE]
    /\ UNCHANGED <<serviceVars, pc, search, keyTask, diskVars>>

(* The search goes on in spite of the cancellation.                        *)
SearchReturnsWithKey(c) ==
    /\ search[c] \in {"searching", "doomed"}
    /\ chosen[c]
    /\ search' = [search EXCEPT ![c] = "returned"]
    /\ Goto(c, "build")
    /\ UNCHANGED <<serviceVars, chosen, keyTask, diskVars>>

(* A search that gives up whenever it likes.                               *)
SearchReturnsEmpty(c) ==
    /\ search[c] \in {"searching", "doomed"}
    /\ search' = [search EXCEPT ![c] = "returned"]
    /\ Goto(c, IF chosen[c] THEN "build" ELSE "gaveUp")
    /\ UNCHANGED <<serviceVars, chosen, keyTask, diskVars>>

(* The certificates are built whether there is a key or not.               *)
SearchReturnsUnchecked(c) ==
    /\ search[c] \in {"searching", "doomed"}
    /\ chosen[c] \/ c \in cancelled
    /\ search' = [search EXCEPT ![c] = "returned"]
    /\ Goto(c, "build")
    /\ UNCHANGED <<serviceVars, chosen, keyTask, diskVars>>

(* The director asks only whether there is a key, not whether the token    *)
(* was cancelled meanwhile.  Without a key, Create returns early.          *)
SearchReturns(c) ==
    /\ search[c] \in {"searching", "doomed"}
    /\ chosen[c] \/ c \in cancelled
    /\ search' = [search EXCEPT ![c] = "returned"]
    /\ Goto(c, IF chosen[c] THEN "build" ELSE "gaveUp")
    /\ UNCHANGED <<serviceVars, chosen, keyTask, diskVars>>

SearchThrows(c) ==
    /\ search[c] \in {"searching", "doomed"}
    /\ search' = [search EXCEPT ![c] = "threw"]
    /\ Goto(c, "threw")
    /\ UNCHANGED <<serviceVars, chosen, keyTask, diskVars>>

-----------------------------------------------------------------------------
(* The part of Create after the await, on a pool thread.                   *)

QueueKey(c, f) == keyTask' = [keyTask EXCEPT ![c][f] = "queued"]

(* The certificates are built in memory; saving the CA starts the key task *)
(* and goes on to the certificate file.                                    *)
BuildIdentity(c) ==
    /\ pc[c] = "build"
    /\ QueueKey(c, "caKey")
    /\ Goto(c, "saveCA")
    /\ UNCHANGED <<serviceVars, searchVars, diskVars>>

(* Building a certificate or creating the directory fails.                 *)
BuildThrows(c) ==
    /\ pc[c] = "build"
    /\ Goto(c, "threw")
    /\ UNCHANGED <<serviceVars, searchVars, keyTask, diskVars>>

(* Opening a file for writing creates it; WriteAllText truncates it,       *)
(* AppendAllText writes after what is there.                               *)
Open(c, f, truncate) ==
    /\ position[f][c] = Closed
    /\ exists' = exists \cup {f}
    /\ content' = IF truncate THEN [content EXCEPT ![f] = <<>>] ELSE content
    /\ position' = [position EXCEPT ![f][c] = IF truncate THEN 0 ELSE Len(content[f])]

(* A block written before the end of a file replaces what is there; beyond *)
(* the end it leaves a gap.                                                *)
PutAt(blocks, pos, c) ==
    [i \in 1 .. (IF pos < Len(blocks) THEN Len(blocks) ELSE pos + 1) |->
        IF i = pos + 1 THEN c ELSE IF i <= Len(blocks) THEN blocks[i] ELSE NoCreate]

Write(c, f) ==
    /\ position[f][c] # Closed
    /\ content' = [content EXCEPT ![f] = PutAt(@, position[f][c], c)]
    /\ position' = [position EXCEPT ![f][c] = Closed]
    /\ UNCHANGED exists

(* The files are opened with FileShare.Read.  While another creation has   *)
(* the file open, Windows refuses the open; on macOS the lock is shared    *)
(* and both write.  Either may happen here.                                *)
SharingViolation(c, f) ==
    /\ position[f][c] = Closed
    /\ \E d \in Creates : position[f][d] # Closed
    /\ UNCHANGED diskVars

(* A failed open leaves the file alone; a failed write closes it as it is. *)
Abandon(c, f) ==
    /\ position' = [position EXCEPT ![f][c] = Closed]
    /\ UNCHANGED <<exists, content>>

(* One write of the certificate thread: open, then write and close.  An    *)
(* IOException ends the creation; its key task is not waited for.          *)
CertWrite(c, step, f, truncate, next) ==
    /\ pc[c] = step
    /\ \/ Open(c, f, truncate) /\ UNCHANGED pc
       \/ Write(c, f) /\ Goto(c, next)
       \/ SharingViolation(c, f) /\ Goto(c, "threw")
    /\ UNCHANGED <<serviceVars, searchVars, keyTask>>

SaveCA(c) == CertWrite(c, "saveCA", "caCert", TRUE, "joinCA")
SaveLeaf(c) == CertWrite(c, "saveLeaf", "identCert", TRUE, "saveIssuer")
SaveIssuer(c) == CertWrite(c, "saveIssuer", "identCert", FALSE, "joinIdent")

(* Any other I/O error of the certificate thread.                          *)
CertThrows(c) ==
    /\ \/ pc[c] = "saveCA" /\ Abandon(c, "caCert")
       \/ pc[c] \in {"saveLeaf", "saveIssuer"} /\ Abandon(c, "identCert")
    /\ Goto(c, "threw")
    /\ UNCHANGED <<serviceVars, searchVars, keyTask>>

(* SaveKey on its own task: also when the creation has ended meanwhile.    *)
KeyStep(c, f) ==
    /\ keyTask[c][f] = "queued"
    /\ \/ Open(c, f, TRUE) /\ UNCHANGED keyTask
       \/ Write(c, f) /\ keyTask' = [keyTask EXCEPT ![c][f] = "written"]
       \/ SharingViolation(c, f) /\ keyTask' = [keyTask EXCEPT ![c][f] = "failed"]
    /\ UNCHANGED <<serviceVars, pc, searchVars>>

KeyThrows(c, f) ==
    /\ keyTask[c][f] = "queued"
    /\ Abandon(c, f)
    /\ keyTask' = [keyTask EXCEPT ![c][f] = "failed"]
    /\ UNCHANGED <<serviceVars, pc, searchVars>>

(* task.Wait() at the end of each Save rethrows what the key task threw.   *)
JoinCA(c) ==
    /\ pc[c] = "joinCA"
    /\ \/ /\ keyTask[c]["caKey"] = "written"
          /\ QueueKey(c, "identKey")
          /\ Goto(c, "saveLeaf")
       \/ /\ keyTask[c]["caKey"] = "failed"
          /\ Goto(c, "threw")
          /\ UNCHANGED keyTask
    /\ UNCHANGED <<serviceVars, searchVars, diskVars>>

(* Save without its task.Wait().                                           *)
JoinIdentNoWait(c) ==
    /\ pc[c] = "joinIdent"
    /\ Goto(c, "report")
    /\ UNCHANGED <<serviceVars, searchVars, keyTask, diskVars>>

JoinIdent(c) ==
    /\ pc[c] = "joinIdent"
    /\ \/ keyTask[c]["identKey"] = "written" /\ Goto(c, "report")
       \/ keyTask[c]["identKey"] = "failed" /\ Goto(c, "threw")
    /\ UNCHANGED <<serviceVars, searchVars, keyTask, diskVars>>

(* The last two statements use the fields, whichever creation they belong  *)
(* to by now.                                                              *)
CancelField(c) ==
    /\ pc[c] = "report"
    /\ cancelled' = cancelled \cup {cts}
    /\ Goto(c, "clearFlag")
    /\ UNCHANGED <<console, answer, generating, cts, userCancelled, searchVars, keyTask, diskVars>>

ClearGenerating(c) ==
    /\ pc[c] = "clearFlag"
    /\ generating' = FALSE
    /\ Goto(c, "created")
    /\ UNCHANGED <<console, answer, cts, cancelled, userCancelled, searchVars, keyTask, diskVars>>

PoolStep(c) ==
    \/ BuildIdentity(c) \/ SaveCA(c) \/ JoinCA(c)
    \/ SaveLeaf(c) \/ SaveIssuer(c) \/ JoinIdent(c)
    \/ CancelField(c) \/ ClearGenerating(c)

PoolThrows(c) ==
    \/ SearchThrows(c) \/ BuildThrows(c) \/ CertThrows(c)
    \/ \E f \in KeyFiles : KeyThrows(c, f)

-----------------------------------------------------------------------------
(* The Cancel command, on the console thread.                              *)

CancelCalled ==
    /\ console = "free"
    /\ \/ /\ cts = NoCreate
          /\ answer' = "not started"
          /\ UNCHANGED console
       \/ /\ cts \in cancelled
          /\ answer' = "canceled"
          /\ UNCHANGED console
       \/ /\ cts # NoCreate /\ cts \notin cancelled
          /\ answer' = "none"
          /\ console' = "clear"
    /\ UNCHANGED <<generating, cts, cancelled, userCancelled, pc, searchVars, keyTask, diskVars>>

(* Cancel that drops the token source before it has signalled it.          *)
CancelClearsSource ==
    /\ console = "clear"
    /\ generating' = FALSE
    /\ cts' = NoCreate
    /\ userCancelled' = userCancelled \cup {cts}
    /\ console' = "signal"
    /\ UNCHANGED <<answer, cancelled, pc, searchVars, keyTask, diskVars>>

CancelClears ==
    /\ console = "clear"
    /\ generating' = FALSE
    /\ userCancelled' = userCancelled \cup {cts}
    /\ console' = "signal"
    /\ UNCHANGED <<answer, cts, cancelled, pc, searchVars, keyTask, diskVars>>

CancelSignals ==
    /\ console = "signal"
    /\ cancelled' = cancelled \cup {cts}
    /\ answer' = "canceled"
    /\ console' = "free"
    /\ UNCHANGED <<generating, cts, userCancelled, pc, searchVars, keyTask, diskVars>>

-----------------------------------------------------------------------------
(* The process ends and is started again: the files stay as they are.      *)
Crash ==
    /\ console' = "free"
    /\ answer' = "none"
    /\ generating' = FALSE
    /\ cts' = NoCreate
    /\ pc' = [c \in Creates |-> IF pc[c] \in Active THEN "crashed" ELSE pc[c]]
    /\ search' = [c \in Creates |->
                    IF search[c] \in {"searching", "doomed"} THEN "threw" ELSE search[c]]
    /\ keyTask' = [c \in Creates |-> [f \in KeyFiles |->
                    IF keyTask[c][f] = "queued" THEN "failed" ELSE keyTask[c][f]]]
    /\ position' = [f \in Files |-> [c \in Creates |-> Closed]]
    /\ UNCHANGED <<cancelled, userCancelled, chosen, exists, content>>

Next ==
    \/ CancelCalled \/ CancelClears \/ CancelSignals \/ Crash
    \/ \E c \in Creates :
          \/ CreateCalled(c) \/ ConsoleStep(c)
          \/ SelectKey(c) \/ SearchReturns(c) \/ PoolStep(c) \/ PoolThrows(c)
          \/ \E f \in KeyFiles : KeyStep(c, f)

Safety == Init /\ [][Next]_vars

(* Started commands run on, the pool runs its tasks, and a search ends as  *)
(* KeySelection promises.  No command need be given, no key need be found, *)
(* no failure need happen.                                                 *)
Fairness ==
    /\ WF_vars(CancelClears \/ CancelSignals)
    /\ \A c \in Creates :
          /\ WF_vars(ConsoleStep(c) \/ SearchReturns(c) \/ PoolStep(c))
          /\ WF_vars(\E f \in KeyFiles : KeyStep(c, f))

Spec == Safety /\ Fairness

-----------------------------------------------------------------------------
TypeOK ==
    /\ console \in {"free", "create", "clear", "signal"}
    /\ answer \in {"none", "not started", "canceled"}
    /\ generating \in BOOLEAN
    /\ cts \in Creates \cup {NoCreate}
    /\ cancelled \in SUBSET Creates
    /\ userCancelled \in SUBSET Creates
    /\ pc \in [Creates -> Active \cup Terminal \cup {"uncalled"}]
    /\ search \in [Creates -> {"idle", "searching", "doomed", "returned", "threw"}]
    /\ chosen \in [Creates -> BOOLEAN]
    /\ keyTask \in [Creates -> [KeyFiles -> {"none", "queued", "written", "failed"}]]
    /\ exists \in SUBSET Files
    /\ content \in [Files -> Seq(Creates \cup {NoCreate})]
    /\ position \in [Files -> [Creates -> Nat \cup {Closed}]]

Complete(c, f) == IF f = "identCert" THEN <<c, c>> ELSE <<c>>

(* As long as no Cancel command has acted, the flag `generating' keeps one *)
(* creation from starting while another is under way: also while it is     *)
(* only flagged on the console, and after failures and restarts.           *)
SerialUntilCancelled ==
    userCancelled = {} =>
        \A c, d \in Creates : pc[c] \in Active /\ pc[d] \in Active => c = d

(* A creation that reports success has left four whole files, all its own, *)
(* and they stay so through later commands and crashes (until a Cancel     *)
(* command lets creations overlap).                                        *)
CreatedIsWhole ==
    userCancelled = {} =>
        \A c \in Creates : pc[c] = "created" =>
            \A f \in Files : f \in exists /\ content[f] = Complete(c, f)

(* Whatever fails or crashes in between, the files on disk never hold      *)
(* blocks of two creations, that is a certificate beside the key of        *)
(* another (until a Cancel command lets creations overlap).                *)
UnmixedUntilCancelled ==
    userCancelled = {} =>
        \A f, g \in Files : \A i \in DOMAIN content[f], j \in DOMAIN content[g] :
            content[f][i] = content[g][j]

(* A creation whose search has found nothing, because its token was        *)
(* cancelled before or during it, because it gave up or threw, leaves no   *)
(* block in any file: this holds also when Cancel commands let creations   *)
(* overlap, and after crashes (the director's test of the key, Create's of *)
(* the authority).                                                         *)
NoKeyNoTrace ==
    \A c \in Creates : ~chosen[c] \/ search[c] = "doomed" =>
        \A f \in Files : \A i \in DOMAIN content[f] : content[f][i] # c

(* A key that has been selected, a Cancel command that has begun to act,   *)
(* and a token that was cancelled by another creation all end the creation *)
(* they are about: it hangs neither in the search nor in its saves.        *)
CreateSettles ==
    \A c \in Creates :
        pc[c] \in Active /\ (chosen[c] \/ c \in userCancelled \cup cancelled)
            ~> pc[c] \in Terminal

(* The service uses each search as KeySelection allows.                    *)
Search(c) == INSTANCE KeySelection WITH
    Keys <- {c},
    NoKey <- NoCreate,
    chosen <- IF chosen[c] THEN c ELSE NoCreate,
    cancelled <- c \in cancelled,
    phase <- search[c]

SearchesAreSelections ==
    /\ \A c \in Creates : Search(c)!SelectionInit
    /\ [][\A c \in Creates : [Search(c)!SelectionNext]_(Search(c)!selectionVars)]_vars

-----------------------------------------------------------------------------
(* What the program says of itself and does not keep.                      *)

(* "already exists, NOT overwriting!": what a creation has written to one  *)
(* of the files is not replaced by another creation.                       *)
NotOverwriting ==
    [][\A f \in Files : content[f] # <<>> =>
          content'[f] # <<>> /\ Head(content'[f]) = Head(content[f])]_vars

(* "Identity is already generating": a Create command is refused on        *)
(* account of the flag only while some creation is under way.              *)
RefusedOnlyWhileGenerating ==
    [][\A c \in Creates : pc[c] = "uncalled" /\ pc'[c] = "refused" =>
          \E d \in Creates : pc[d] \in Active]_vars

(* "Please cancel previous task": once Cancel has answered, the flag that  *)
(* refuses the next Create is set only if a creation is still at work.     *)
CancelFreesService ==
    answer = "canceled" /\ generating => \E c \in Creates : pc[c] \in Active

(* "Task has been canceled": a creation that had written nothing when its  *)
(* cancellation was acknowledged writes nothing any more.                  *)
CanceledSavesNothing ==
    [][\A c \in cancelled \cap userCancelled :
          (\A f \in Files : \A i \in DOMAIN content[f] : content[f][i] # c) =>
             \A f \in Files : \A i \in DOMAIN content'[f] : content'[f][i] # c]_vars
=============================================================================
