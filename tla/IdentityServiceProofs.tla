------------------------ MODULE IdentityServiceProofs ------------------------
(***************************************************************************)
(* Proofs about IdentityService, for any number of Create commands.  The   *)
(* inductive invariant is built in layers, each proved with the help of    *)
(* the ones before it: types, the control of each single creation, and the *)
(* exclusion that the flag provides.  IdentityDiskProofs adds the contents *)
(* of the files.                                                           *)
(***************************************************************************)
EXTENDS IdentityService, SequenceTheorems, TLAPS

Steps == Active \cup Terminal \cup {"uncalled"}
States == {"none", "queued", "written", "failed"}

(* A token source exists whenever one is used; a creation waits for its    *)
(* search while it runs.                                                   *)
SourceInv ==
    /\ \A c \in Creates : search[c] \in {"searching", "doomed"} <=> pc[c] = "searching"
    /\ console \in {"clear", "signal"} => cts \in Creates
    /\ \A c \in Creates : pc[c] \in Active => cts \in Creates

(* The console thread runs the first part of one creation at a time.       *)
ConsoleInv ==
    /\ \A c \in Creates : pc[c] \in Prefix => console = "create"
    /\ \A c, d \in Creates : pc[c] \in Prefix /\ pc[d] \in Prefix => c = d

BeforeSave == Prefix \cup {"uncalled", "refused", "gaveUp", "searching", "build"}

(* How far the search and the key tasks of a creation can have got at each *)
(* of its steps.                                                           *)
TaskAt(c) ==
    /\ pc[c] \in Prefix \cup {"uncalled"} => search[c] = "idle"
    /\ pc[c] \in BeforeSave =>
          keyTask[c]["caKey"] = "none" /\ keyTask[c]["identKey"] = "none"
    /\ pc[c] \in {"saveCA", "joinCA"} =>
          keyTask[c]["caKey"] # "none" /\ keyTask[c]["identKey"] = "none"
    /\ pc[c] \in {"saveLeaf", "saveIssuer", "joinIdent"} =>
          keyTask[c]["caKey"] = "written" /\ keyTask[c]["identKey"] # "none"
    /\ pc[c] \in {"report", "clearFlag", "created"} =>
          keyTask[c]["caKey"] = "written" /\ keyTask[c]["identKey"] = "written"
    /\ pc[c] = "crashed" =>
          keyTask[c]["caKey"] # "queued" /\ keyTask[c]["identKey"] # "queued"
    /\ keyTask[c]["identKey"] # "none" => keyTask[c]["caKey"] = "written"

TaskInv == \A c \in Creates : TaskAt(c)

(* A file is open only while its creation, or the key task the creation    *)
(* has started, is at work on it.                                          *)
HandleAt(c) ==
    \A f \in Files : position[f][c] # Closed =>
        \/ f \in KeyFiles /\ keyTask[c][f] = "queued"
        \/ f = "caCert" /\ pc[c] = "saveCA"
        \/ f = "identCert" /\ pc[c] \in {"saveLeaf", "saveIssuer"}

HandleInv == \A c \in Creates : HandleAt(c)

(* A creation is busy while it or one of its key tasks is at work.         *)
Busy(c) == pc[c] \in Active \/ \E f \in KeyFiles : keyTask[c][f] = "queued"

(* Without a Cancel command the flag is set from just after the guard to   *)
(* the end of the creation, and after a failure it stays set.              *)
SerialInv ==
    userCancelled = {} =>
        /\ \A c, d \in Creates : Busy(c) /\ Busy(d) => c = d
        /\ \A c \in Creates : Busy(c) /\ pc[c] # "guarded" => generating

-----------------------------------------------------------------------------
(* Types.                                                                  *)

(* A write yields a sequence again, wherever it starts.                    *)
LEMMA PutAtType ==
  ASSUME NEW S, NEW blocks \in Seq(S), NEW pos \in Nat, NEW c \in S, NoCreate \in S
  PROVE  PutAt(blocks, pos, c) \in Seq(S)
<1> DEFINE n == IF pos < Len(blocks) THEN Len(blocks) ELSE pos + 1
<1>1. n \in Nat
  BY LenProperties
<1>2. \A i \in 1 .. Len(blocks) : blocks[i] \in S
  BY ElementOfSeq
<1>3. \A i \in 1 .. n :
        (IF i = pos + 1 THEN c ELSE IF i <= Len(blocks) THEN blocks[i] ELSE NoCreate) \in S
  BY <1>1, <1>2, LenProperties
<1>4. PutAt(blocks, pos, c) \in [1 .. n -> S]
  BY <1>3 DEF PutAt
<1> HIDE DEF n
<1> QED
  BY <1>1, <1>4, SeqDef

DiskTypeOK ==
    /\ exists \in SUBSET Files
    /\ content \in [Files -> Seq(Creates \cup {NoCreate})]
    /\ position \in [Files -> [Creates -> Nat \cup {Closed}]]

DiskStep(c, f) ==
    \/ Open(c, f, TRUE)
    \/ Open(c, f, FALSE)
    \/ Write(c, f)
    \/ SharingViolation(c, f)
    \/ Abandon(c, f)

(* A step on a file keeps the types of the disk.                           *)
LEMMA DiskStepType ==
  ASSUME DiskTypeOK, NEW c \in Creates, NEW f \in Files, DiskStep(c, f)
  PROVE  DiskTypeOK'
<1> DEFINE Blocks == Creates \cup {NoCreate}
<1>1. /\ content[f] \in Seq(Blocks) /\ Len(content[f]) \in Nat /\ <<>> \in Seq(Blocks)
      /\ position[f][c] \in Nat \cup {Closed}
      /\ c \in Blocks /\ NoCreate \in Blocks
  BY LenProperties, EmptySeq DEF DiskTypeOK
<1>2. CASE Open(c, f, TRUE) \/ Open(c, f, FALSE)
  <2>1. (exists \cup {f}) \in SUBSET Files
    BY DEF DiskTypeOK
  <2>2. content' \in [Files -> Seq(Blocks)]
    BY <1>1, <1>2 DEF DiskTypeOK, Open
  <2>3. position' \in [Files -> [Creates -> Nat \cup {Closed}]]
    <3>1. PICK n \in Nat : position' = [position EXCEPT ![f][c] = n]
      BY <1>1, <1>2 DEF Open
    <3> QED
      BY <3>1 DEF DiskTypeOK
  <2> QED
    BY <1>2, <2>1, <2>2, <2>3 DEF DiskTypeOK, Open
<1>3. CASE Write(c, f)
  <2>1. position[f][c] \in Nat
    BY <1>1, <1>3 DEF Write
  <2>2. PutAt(content[f], position[f][c], c) \in Seq(Blocks)
    BY <1>1, <2>1, PutAtType
  <2> QED
    BY <1>3, <2>2 DEF DiskTypeOK, Write
<1>4. CASE SharingViolation(c, f)
  BY <1>4 DEF DiskTypeOK, SharingViolation, diskVars
<1>5. CASE Abandon(c, f)
  BY <1>5 DEF DiskTypeOK, Abandon
<1> QED
  BY <1>2, <1>3, <1>4, <1>5 DEF DiskStep

(* The steps that write files, and the others, which leave them alone or   *)
(* are a crash.                                                            *)
DiskAction(c) ==
    \/ SaveCA(c) \/ SaveLeaf(c) \/ SaveIssuer(c) \/ CertThrows(c)
    \/ \E f \in KeyFiles : KeyStep(c, f) \/ KeyThrows(c, f)

(* What a step that writes files does to the disk is a step on one of      *)
(* them.                                                                   *)
LEMMA DiskActionSteps ==
  ASSUME NEW c \in Creates, DiskAction(c)
  PROVE  \E f \in Files : DiskStep(c, f)
  BY DEF DiskAction, DiskStep, SaveCA, SaveLeaf, SaveIssuer, CertWrite, CertThrows,
         KeyStep, KeyThrows, Files, CaFiles, IdentFiles, KeyFiles

ControlTypeOK ==
    /\ console \in {"free", "create", "clear", "signal"}
    /\ answer \in {"none", "not started", "canceled"}
    /\ generating \in BOOLEAN
    /\ cts \in Creates \cup {NoCreate}
    /\ cancelled \in SUBSET Creates
    /\ userCancelled \in SUBSET Creates
    /\ pc \in [Creates -> Steps]
    /\ search \in [Creates -> {"idle", "searching", "doomed", "returned", "threw"}]
    /\ chosen \in [Creates -> BOOLEAN]
    /\ keyTask \in [Creates -> [KeyFiles -> States]]

(* The type invariant in two parts.                                        *)
LEMMA TypeParts == TypeOK <=> ControlTypeOK /\ DiskTypeOK
  BY DEF TypeOK, ControlTypeOK, DiskTypeOK, Steps, States

(* Setting the state of a key task keeps the type.                         *)
LEMMA KeyTaskType ==
  ASSUME keyTask \in [Creates -> [KeyFiles -> States]],
         NEW c \in Creates, NEW f \in KeyFiles, NEW s \in States
  PROVE  [keyTask EXCEPT ![c][f] = s] \in [Creates -> [KeyFiles -> States]]
  OBVIOUS

(* The steps that start, finish or fail a key task.                        *)
LEMMA KeyTaskStep ==
  ASSUME keyTask \in [Creates -> [KeyFiles -> States]], NEW c \in Creates,
         \/ BuildIdentity(c) \/ JoinCA(c)
         \/ \E f \in KeyFiles : KeyStep(c, f) \/ KeyThrows(c, f)
  PROVE  keyTask' \in [Creates -> [KeyFiles -> States]]
<1>1. \/ UNCHANGED keyTask
      \/ \E f \in KeyFiles, s \in States : keyTask' = [keyTask EXCEPT ![c][f] = s]
  <2>1. "caKey" \in KeyFiles /\ "identKey" \in KeyFiles
    BY DEF KeyFiles
  <2>2. "queued" \in States /\ "written" \in States /\ "failed" \in States
    BY DEF States
  <2> QED
    BY <2>1, <2>2 DEF BuildIdentity, JoinCA, QueueKey, KeyStep, KeyThrows
<1>2. CASE UNCHANGED keyTask
  BY <1>2
<1>3. ASSUME NEW f \in KeyFiles, NEW s \in States, keyTask' = [keyTask EXCEPT ![c][f] = s]
      PROVE  keyTask' \in [Creates -> [KeyFiles -> States]]
  BY <1>3, KeyTaskType
<1> QED
  BY <1>1, <1>2, <1>3

(* The types hold at the start.                                            *)
LEMMA InitType == Init => ControlTypeOK /\ DiskTypeOK /\ SourceInv
<1> SUFFICES ASSUME Init PROVE ControlTypeOK /\ DiskTypeOK /\ SourceInv
  OBVIOUS
<1>1. ControlTypeOK
  BY DEF Init, ControlTypeOK, Steps, States
<1>2. DiskTypeOK
  BY EmptySeq DEF Init, DiskTypeOK, Closed
<1>3. SourceInv
  BY DEF Init, SourceInv, Active, Prefix, Saving
<1> QED
  BY <1>1, <1>2, <1>3

(* Next, sorted by what the steps touch.                                   *)
Other(c) ==
    \/ CreateCalled(c) \/ FlagGenerating(c) \/ CheckCA(c) \/ CheckIdent(c) \/ StartSearch(c)
    \/ SelectKey(c) \/ SearchReturns(c) \/ SearchThrows(c)
    \/ BuildIdentity(c) \/ BuildThrows(c) \/ JoinCA(c) \/ JoinIdent(c)
    \/ CancelField(c) \/ ClearGenerating(c)

(* Every step is of one of these kinds.                                    *)
LEMMA NextSplit ==
  ASSUME [Next]_vars
  PROVE  \/ CancelCalled \/ CancelClears \/ CancelSignals
         \/ Crash
         \/ \E c \in Creates : Other(c)
         \/ \E c \in Creates : DiskAction(c)
         \/ UNCHANGED vars
  BY DEF Next, ConsoleStep, PoolStep, PoolThrows, Other, DiskAction

(* The types hold after every step.                                        *)
LEMMA NextType ==
  ControlTypeOK /\ DiskTypeOK /\ SourceInv /\ [Next]_vars
    => ControlTypeOK' /\ DiskTypeOK' /\ SourceInv'
<1> SUFFICES ASSUME ControlTypeOK, DiskTypeOK, SourceInv, [Next]_vars
             PROVE  ControlTypeOK' /\ DiskTypeOK' /\ SourceInv'
  OBVIOUS
<1> USE CreatesAssumption
<1> USE DEF ControlTypeOK, SourceInv, Steps, States, Active, Prefix, Saving, Terminal,
            KeyFiles, Goto, QueueKey, serviceVars, searchVars, diskVars
<1>1. CASE CancelCalled \/ CancelClears \/ CancelSignals
  BY <1>1 DEF CancelCalled, CancelClears, CancelSignals, DiskTypeOK
<1>2. CASE Crash
  <2>1. DiskTypeOK'
    BY <1>2 DEF Crash, DiskTypeOK, Closed
  <2>2. ControlTypeOK' /\ SourceInv'
    BY <1>2 DEF Crash
  <2> QED
    BY <2>1, <2>2
<1>3. ASSUME NEW c \in Creates, Other(c)
      PROVE  ControlTypeOK' /\ DiskTypeOK' /\ SourceInv'
  <2>1. CASE CreateCalled(c) \/ FlagGenerating(c)
    <3>1. CASE CreateCalled(c)
      BY <3>1 DEF CreateCalled, DiskTypeOK
    <3>2. CASE FlagGenerating(c)
      BY <3>2 DEF FlagGenerating, DiskTypeOK
    <3> QED
      BY <2>1, <3>1, <3>2
  <2>2. CASE CheckCA(c) \/ CheckIdent(c)
    BY <2>2 DEF CheckCA, CheckIdent, CheckAbsent, DiskTypeOK
  <2>6. CASE StartSearch(c)
    BY <2>6 DEF StartSearch, DiskTypeOK
  <2>3. CASE SelectKey(c) \/ SearchReturns(c) \/ SearchThrows(c)
    <3>1. CASE SelectKey(c)
      BY <3>1 DEF SelectKey, DiskTypeOK
    <3>2. CASE SearchReturns(c)
      BY <3>2 DEF SearchReturns, DiskTypeOK
    <3>3. CASE SearchThrows(c)
      BY <3>3 DEF SearchThrows, DiskTypeOK
    <3> QED
      BY <2>3, <3>1, <3>2, <3>3
  <2>4. CASE BuildIdentity(c) \/ JoinCA(c)
    <3>1. keyTask' \in [Creates -> [KeyFiles -> States]]
      BY <2>4, KeyTaskStep
    <3>2. CASE BuildIdentity(c)
      BY <3>1, <3>2 DEF BuildIdentity, DiskTypeOK
    <3>3. CASE JoinCA(c)
      BY <3>1, <3>3 DEF JoinCA, DiskTypeOK
    <3> QED
      BY <2>4, <3>2, <3>3
  <2>7. CASE BuildThrows(c) \/ JoinIdent(c)
    BY <2>7 DEF BuildThrows, JoinIdent, DiskTypeOK
  <2>5. CASE CancelField(c) \/ ClearGenerating(c)
    BY <2>5 DEF CancelField, ClearGenerating, DiskTypeOK
  <2> QED
    BY <1>3, <2>1, <2>2, <2>3, <2>4, <2>5, <2>6, <2>7 DEF Other
<1>4. ASSUME NEW c \in Creates, DiskAction(c)
      PROVE  ControlTypeOK' /\ DiskTypeOK' /\ SourceInv'
  <2>1. DiskTypeOK'
    BY <1>4, DiskActionSteps, DiskStepType
  <2>2. CASE SaveCA(c) \/ SaveLeaf(c) \/ SaveIssuer(c)
    <3>1. CASE SaveCA(c)
      BY <2>1, <3>1 DEF SaveCA, CertWrite
    <3>2. CASE SaveLeaf(c)
      BY <2>1, <3>2 DEF SaveLeaf, CertWrite
    <3>3. CASE SaveIssuer(c)
      BY <2>1, <3>3 DEF SaveIssuer, CertWrite
    <3> QED
      BY <2>2, <3>1, <3>2, <3>3
  <2>3. CASE CertThrows(c)
    BY <2>1, <2>3 DEF CertThrows
  <2>4. CASE \E f \in KeyFiles : KeyStep(c, f) \/ KeyThrows(c, f)
    <3>1. keyTask' \in [Creates -> [KeyFiles -> States]]
      BY <2>4, KeyTaskStep
    <3> QED
      BY <2>1, <2>4, <3>1 DEF KeyStep, KeyThrows
  <2> QED
    BY <1>4, <2>2, <2>3, <2>4 DEF DiskAction
<1>5. CASE UNCHANGED vars
  BY <1>5 DEF vars, DiskTypeOK
<1> QED
  BY <1>1, <1>2, <1>3, <1>4, <1>5, NextSplit

(* Every variable of the service keeps its type.                           *)
THEOREM Typing == Safety => [](ControlTypeOK /\ DiskTypeOK /\ SourceInv)
  BY InitType, NextType, PTL DEF Safety

(* The type invariant holds of the service, for any number of Create       *)
(* commands.                                                               *)
THEOREM TypeCorrect == Safety => []TypeOK
  BY Typing, TypeParts, PTL

-----------------------------------------------------------------------------
(* The control of each creation.                                           *)

Types == ControlTypeOK /\ DiskTypeOK /\ SourceInv

(* A creation that takes a step leaves the others where they are.          *)
Untouched(d) ==
    /\ pc'[d] = pc[d]
    /\ search'[d] = search[d]
    /\ keyTask'[d] = keyTask[d]
    /\ \A f \in Files : position'[f][d] = position[f][d]

(* A step off the disk is about one creation.                              *)
LEMMA OtherFrame ==
  ASSUME Types, NEW c \in Creates, Other(c), NEW d \in Creates, d # c
  PROVE  Untouched(d)
<1> /\ pc \in [Creates -> Steps]
    /\ DOMAIN search = Creates
    /\ keyTask \in [Creates -> [KeyFiles -> States]]
  BY DEF Types, ControlTypeOK
<1> USE DEF Untouched, Goto, searchVars, diskVars
<1>1. CASE CreateCalled(c) \/ FlagGenerating(c)
  BY <1>1 DEF CreateCalled, FlagGenerating
<1>2. CASE CheckCA(c) \/ CheckIdent(c)
  BY <1>2 DEF CheckCA, CheckIdent, CheckAbsent
<1>3. CASE StartSearch(c)
  BY <1>3 DEF StartSearch
<1>4. CASE SelectKey(c) \/ SearchReturns(c) \/ SearchThrows(c)
  BY <1>4 DEF SelectKey, SearchReturns, SearchThrows
<1>5. CASE BuildIdentity(c) \/ JoinCA(c)
  BY <1>5 DEF BuildIdentity, JoinCA, QueueKey
<1>6. CASE BuildThrows(c) \/ JoinIdent(c)
  BY <1>6 DEF BuildThrows, JoinIdent
<1>7. CASE CancelField(c) \/ ClearGenerating(c)
  BY <1>7 DEF CancelField, ClearGenerating
<1> QED
  BY <1>1, <1>2, <1>3, <1>4, <1>5, <1>6, <1>7 DEF Other

(* A step on the disk is about one creation.                               *)
LEMMA DiskFrame ==
  ASSUME Types, NEW c \in Creates, DiskAction(c), NEW d \in Creates, d # c
  PROVE  Untouched(d)
<1>1. pc'[d] = pc[d] /\ search'[d] = search[d] /\ keyTask'[d] = keyTask[d]
  BY DEF Types, ControlTypeOK, DiskAction, SaveCA, SaveLeaf, SaveIssuer, CertWrite, CertThrows,
         KeyStep, KeyThrows, Goto, searchVars
<1>2. PICK f \in Files : DiskStep(c, f)
  BY DiskActionSteps
<1>3. position \in [Files -> [Creates -> Nat \cup {Closed}]]
  BY DEF Types, DiskTypeOK
<1>4. \A g \in Files : position'[g][d] = position[g][d]
  BY <1>2, <1>3 DEF DiskStep, Open, Write, SharingViolation, Abandon, diskVars
<1> QED
  BY <1>1, <1>4 DEF Untouched

(* How the console goes on in a step of a creation.                        *)
LEMMA ConsoleMoves ==
  ASSUME Types, NEW c \in Creates, Other(c) \/ DiskAction(c)
  PROVE  \/ console' = console /\ (pc'[c] \in Prefix => pc[c] \in Prefix)
         \/ console = "free" /\ console' = "create"
         \/ pc[c] \in Prefix /\ pc'[c] \notin Prefix
<1>0. pc \in [Creates -> Steps]
  BY DEF Types, ControlTypeOK
<1> USE <1>0 DEF Prefix, Goto, serviceVars
<1>1. CASE CreateCalled(c) \/ FlagGenerating(c) \/ StartSearch(c)
  BY <1>1 DEF CreateCalled, FlagGenerating, StartSearch
<1>2. CASE CheckCA(c) \/ CheckIdent(c)
  BY <1>2 DEF CheckCA, CheckIdent, CheckAbsent
<1>4. CASE SelectKey(c) \/ SearchReturns(c) \/ SearchThrows(c)
  BY <1>4 DEF SelectKey, SearchReturns, SearchThrows
<1>5. CASE BuildIdentity(c) \/ JoinCA(c) \/ BuildThrows(c) \/ JoinIdent(c)
  BY <1>5 DEF BuildIdentity, JoinCA, BuildThrows, JoinIdent
<1>6. CASE CancelField(c) \/ ClearGenerating(c)
  BY <1>6 DEF CancelField, ClearGenerating
<1>7. CASE DiskAction(c)
  BY <1>7 DEF DiskAction, SaveCA, SaveLeaf, SaveIssuer, CertWrite, CertThrows, KeyStep, KeyThrows
<1> QED
  BY <1>1, <1>2, <1>4, <1>5, <1>6, <1>7 DEF Other

(* The console stays with one creation.                                    *)
LEMMA NextConsole == Types /\ ConsoleInv /\ [Next]_vars => ConsoleInv'
<1> SUFFICES ASSUME Types, ConsoleInv, [Next]_vars PROVE ConsoleInv'
  OBVIOUS
<1>1. CASE CancelCalled \/ CancelClears \/ CancelSignals
  BY <1>1 DEF ConsoleInv, CancelCalled, CancelClears, CancelSignals
<1>2. CASE Crash
  BY <1>2 DEF Crash, ConsoleInv, Prefix, Active
<1>3. ASSUME NEW c \in Creates, Other(c) \/ DiskAction(c) PROVE ConsoleInv'
  <2>1. \A d \in Creates : d # c => pc'[d] = pc[d]
    BY <1>3, OtherFrame, DiskFrame DEF Untouched
  <2> QED
    BY <1>3, <2>1, ConsoleMoves DEF ConsoleInv
<1>4. CASE UNCHANGED vars
  BY <1>4 DEF vars, ConsoleInv
<1> QED
  BY <1>1, <1>2, <1>3, <1>4, NextSplit

(* The key tasks at each step of the creation that takes it.               *)
LEMMA TaskStep ==
  ASSUME Types, NEW c \in Creates, TaskAt(c), Other(c) \/ DiskAction(c)
  PROVE  TaskAt(c)'
<1>0. /\ pc \in [Creates -> Steps]
      /\ keyTask \in [Creates -> [KeyFiles -> States]]
      /\ DOMAIN search = Creates
      /\ search[c] \in {"searching", "doomed"} => pc[c] = "searching"
      /\ "caKey" \in KeyFiles /\ "identKey" \in KeyFiles
  BY DEF Types, ControlTypeOK, SourceInv, KeyFiles
<1> USE <1>0 DEF TaskAt, BeforeSave, Prefix, Goto, searchVars
<1>1. CASE CreateCalled(c) \/ FlagGenerating(c) \/ StartSearch(c)
  BY <1>1 DEF CreateCalled, FlagGenerating, StartSearch
<1>2. CASE CheckCA(c) \/ CheckIdent(c)
  BY <1>2 DEF CheckCA, CheckIdent, CheckAbsent
<1>3. CASE SelectKey(c) \/ SearchReturns(c) \/ SearchThrows(c)
  BY <1>3 DEF SelectKey, SearchReturns, SearchThrows
<1>4. CASE BuildIdentity(c)
  BY <1>4 DEF BuildIdentity, QueueKey
<1>5. CASE JoinCA(c)
  BY <1>5 DEF JoinCA, QueueKey
<1>6. CASE BuildThrows(c) \/ JoinIdent(c)
  BY <1>6 DEF BuildThrows, JoinIdent
<1>7. CASE CancelField(c) \/ ClearGenerating(c)
  BY <1>7 DEF CancelField, ClearGenerating
<1>8. CASE SaveCA(c) \/ SaveLeaf(c) \/ SaveIssuer(c) \/ CertThrows(c)
  BY <1>8 DEF SaveCA, SaveLeaf, SaveIssuer, CertWrite, CertThrows
<1>9. ASSUME NEW f \in KeyFiles, KeyStep(c, f) \/ KeyThrows(c, f)
      PROVE  TaskAt(c)'
  <2>1. f = "caKey" \/ f = "identKey"
    BY DEF KeyFiles
  <2>2. pc' = pc /\ search' = search /\ keyTask[c][f] = "queued"
    BY <1>9 DEF KeyStep, KeyThrows
  <2>3. PICK s \in {"queued", "written", "failed"} :
          keyTask' = [keyTask EXCEPT ![c][f] = s]
    <3>1. UNCHANGED keyTask => keyTask' = [keyTask EXCEPT ![c][f] = "queued"]
      BY <2>2
    <3> QED
      BY <1>9, <3>1 DEF KeyStep, KeyThrows
  <2> QED
    BY <2>1, <2>2, <2>3
<1> QED
  BY <1>1, <1>2, <1>3, <1>4, <1>5, <1>6, <1>7, <1>8, <1>9 DEF Other, DiskAction

(* The key tasks keep pace with their creations.                           *)
LEMMA NextTask == Types /\ TaskInv /\ [Next]_vars => TaskInv'
<1> SUFFICES ASSUME Types, TaskInv, [Next]_vars, NEW d \in Creates PROVE TaskAt(d)'
  BY DEF TaskInv
<1>0. TaskAt(d)
  BY DEF TaskInv
<1>1. CASE CancelCalled \/ CancelClears \/ CancelSignals
  BY <1>0, <1>1 DEF TaskAt, CancelCalled, CancelClears, CancelSignals, searchVars
<1>2. CASE Crash
  <2>1. /\ pc[d] \in Steps
        /\ "caKey" \in KeyFiles /\ "identKey" \in KeyFiles
    BY DEF Types, ControlTypeOK, KeyFiles
  <2>2. /\ pc'[d] = IF pc[d] \in Active THEN "crashed" ELSE pc[d]
        /\ search[d] = "idle" => search'[d] = "idle"
        /\ \A f \in KeyFiles : keyTask'[d][f] =
              IF keyTask[d][f] = "queued" THEN "failed" ELSE keyTask[d][f]
    BY <1>2 DEF Crash
  <2> QED
    BY <1>0, <2>1, <2>2 DEF TaskAt, BeforeSave, Steps, Active, Terminal, Prefix, Saving
<1>3. ASSUME NEW c \in Creates, Other(c) \/ DiskAction(c) PROVE TaskAt(d)'
  <2>1. CASE d = c
    BY <1>0, <1>3, <2>1, TaskStep
  <2>2. CASE d # c
    <3>1. pc'[d] = pc[d] /\ search'[d] = search[d] /\ keyTask'[d] = keyTask[d]
      BY <1>3, <2>2, OtherFrame, DiskFrame DEF Untouched
    <3> QED
      BY <1>0, <3>1 DEF TaskAt
  <2> QED
    BY <2>1, <2>2
<1>4. CASE UNCHANGED vars
  BY <1>0, <1>4 DEF vars, TaskAt
<1> QED
  BY <1>1, <1>2, <1>3, <1>4, NextSplit

(* A step of a creation that leaves a file open leaves someone at work on  *)
(* it.                                                                     *)
LEMMA HandleStep ==
  ASSUME Types, NEW c \in Creates, HandleAt(c), Other(c) \/ DiskAction(c)
  PROVE  HandleAt(c)'
<1>0. /\ pc \in [Creates -> Steps]
      /\ keyTask \in [Creates -> [KeyFiles -> States]]
      /\ position \in [Files -> [Creates -> Nat \cup {Closed}]]
      /\ search[c] \in {"searching", "doomed"} => pc[c] = "searching"
  BY DEF Types, ControlTypeOK, DiskTypeOK, SourceInv
<1>1. CASE Other(c)
  <2>1. /\ position' = position
        /\ pc[c] \notin {"saveCA", "saveLeaf", "saveIssuer"} \/ pc' = pc
        /\ \A f \in KeyFiles : keyTask[c][f] = "queued" => keyTask'[c][f] = "queued"
    <3> USE <1>0 DEF Prefix, Goto, searchVars, diskVars
    <3>1. CASE CreateCalled(c) \/ FlagGenerating(c) \/ StartSearch(c)
      BY <3>1 DEF CreateCalled, FlagGenerating, StartSearch
    <3>2. CASE CheckCA(c) \/ CheckIdent(c)
      BY <3>2 DEF CheckCA, CheckIdent, CheckAbsent
    <3>3. CASE SelectKey(c) \/ SearchReturns(c) \/ SearchThrows(c)
      BY <3>3 DEF SelectKey, SearchReturns, SearchThrows
    <3>4. CASE BuildIdentity(c) \/ JoinCA(c)
      BY <3>4 DEF BuildIdentity, JoinCA, QueueKey
    <3>5. CASE BuildThrows(c) \/ JoinIdent(c)
      BY <3>5 DEF BuildThrows, JoinIdent
    <3>6. CASE CancelField(c) \/ ClearGenerating(c)
      BY <3>6 DEF CancelField, ClearGenerating
    <3> QED
      BY <1>1, <3>1, <3>2, <3>3, <3>4, <3>5, <3>6 DEF Other
  <2> QED
    BY <2>1 DEF HandleAt
<1>2. CASE DiskAction(c)
  <2> USE <1>0 DEF HandleAt, Goto, Open, Write, SharingViolation, Abandon, diskVars,
                   Files, CaFiles, IdentFiles, KeyFiles
  <2>1. CASE SaveCA(c)
    BY <2>1 DEF SaveCA, CertWrite
  <2>2. CASE SaveLeaf(c) \/ SaveIssuer(c)
    BY <2>2 DEF SaveLeaf, SaveIssuer, CertWrite
  <2>3. CASE CertThrows(c)
    BY <2>3 DEF CertThrows
  <2>4. ASSUME NEW f \in KeyFiles, KeyStep(c, f)
        PROVE  HandleAt(c)'
    BY <2>4 DEF KeyStep
  <2>5. ASSUME NEW f \in KeyFiles, KeyThrows(c, f)
        PROVE  HandleAt(c)'
    BY <2>5 DEF KeyThrows
  <2> QED
    BY <1>2, <2>1, <2>2, <2>3, <2>4, <2>5 DEF DiskAction
<1> QED
  BY <1>1, <1>2

(* The open files keep pace with those at work on them.                    *)
LEMMA NextHandle == Types /\ HandleInv /\ [Next]_vars => HandleInv'
<1> SUFFICES ASSUME Types, HandleInv, [Next]_vars, NEW d \in Creates PROVE HandleAt(d)'
  BY DEF HandleInv
<1>0. HandleAt(d)
  BY DEF HandleInv
<1>1. CASE CancelCalled \/ CancelClears \/ CancelSignals
  BY <1>0, <1>1 DEF HandleAt, CancelCalled, CancelClears, CancelSignals, diskVars
<1>2. CASE Crash
  BY <1>2 DEF Crash, HandleAt
<1>3. ASSUME NEW c \in Creates, Other(c) \/ DiskAction(c) PROVE HandleAt(d)'
  <2>1. CASE d = c
    BY <1>0, <1>3, <2>1, HandleStep
  <2>2. CASE d # c
    BY <1>0, <1>3, <2>2, OtherFrame, DiskFrame DEF Untouched, HandleAt
  <2> QED
    BY <2>1, <2>2
<1>4. CASE UNCHANGED vars
  BY <1>0, <1>4 DEF vars, HandleAt
<1> QED
  BY <1>1, <1>2, <1>3, <1>4, NextSplit

Control == Types /\ ConsoleInv /\ TaskInv /\ HandleInv

(* The control invariant holds at the start.                               *)
LEMMA InitControl == Init => Control
<1> SUFFICES ASSUME Init PROVE Control
  OBVIOUS
<1>1. ConsoleInv
  BY DEF Init, ConsoleInv, Prefix
<1>2. TaskInv
  BY DEF Init, TaskInv, TaskAt, KeyFiles
<1>3. HandleInv
  BY DEF Init, HandleInv, HandleAt
<1> QED
  BY <1>1, <1>2, <1>3, InitType DEF Control, Types

(* The control invariant holds after every step.                           *)
LEMMA NextControl == Control /\ [Next]_vars => Control'
  BY NextType, NextConsole, NextTask, NextHandle DEF Control, Types

(* The console thread is in the first part of at most one creation, the    *)
(* key tasks are where the creation that started them expects them, and a  *)
(* file is open only while someone is at work on it.                       *)
THEOREM ControlInvariance == Safety => []Control
  BY InitControl, NextControl, PTL DEF Safety

-----------------------------------------------------------------------------
(* The exclusion that the flag provides.                                   *)

(* Only a Create command makes a creation busy, and it finds the flag      *)
(* clear.  Past the guard, the flag is set by the creation itself or was   *)
(* set before; only the last step of a creation clears it, and then the    *)
(* creation is busy no more.                                               *)
LEMMA BusyStep ==
  ASSUME Types, NEW c \in Creates, TaskAt(c), Other(c) \/ DiskAction(c)
  PROVE  /\ userCancelled' = userCancelled
         /\ Busy(c)' =>
              \/ Busy(c)
              \/ console = "free" /\ ~generating /\ pc'[c] = "guarded"
         /\ Busy(c)' /\ pc'[c] # "guarded" =>
              generating' \/ (generating' = generating /\ Busy(c) /\ pc[c] # "guarded")
         /\ generating' = generating \/ generating' \/ (Busy(c) /\ ~Busy(c)')
<1>0. /\ pc \in [Creates -> Steps]
      /\ keyTask \in [Creates -> [KeyFiles -> States]]
      /\ search[c] \in {"searching", "doomed"} => pc[c] = "searching"
      /\ "caKey" \in KeyFiles /\ "identKey" \in KeyFiles
      /\ \A f \in KeyFiles : f = "caKey" \/ f = "identKey"
  BY DEF Types, ControlTypeOK, SourceInv, KeyFiles
<1> USE <1>0 DEF Busy, Active, Prefix, Saving, Goto, searchVars, serviceVars
<1>1. CASE CreateCalled(c)
  BY <1>1 DEF CreateCalled, TaskAt, BeforeSave
<1>2. CASE FlagGenerating(c) \/ StartSearch(c)
  BY <1>2 DEF FlagGenerating, StartSearch
<1>3. CASE CheckCA(c) \/ CheckIdent(c)
  BY <1>3 DEF CheckCA, CheckIdent, CheckAbsent
<1>4. CASE SelectKey(c) \/ SearchReturns(c) \/ SearchThrows(c)
  BY <1>4 DEF SelectKey, SearchReturns, SearchThrows
<1>5. CASE BuildIdentity(c) \/ JoinCA(c)
  BY <1>5 DEF BuildIdentity, JoinCA, QueueKey
<1>6. CASE BuildThrows(c) \/ JoinIdent(c) \/ CancelField(c)
  BY <1>6 DEF BuildThrows, JoinIdent, CancelField
<1>7. CASE ClearGenerating(c)
  BY <1>7 DEF ClearGenerating, TaskAt
<1>8. CASE SaveCA(c) \/ SaveLeaf(c) \/ SaveIssuer(c) \/ CertThrows(c)
  BY <1>8 DEF SaveCA, SaveLeaf, SaveIssuer, CertWrite, CertThrows
<1>9. ASSUME NEW f \in KeyFiles, KeyStep(c, f) \/ KeyThrows(c, f)
      PROVE  /\ pc' = pc /\ generating' = generating /\ userCancelled' = userCancelled
             /\ Busy(c)
  BY <1>9 DEF KeyStep, KeyThrows
<1> QED
  BY <1>1, <1>2, <1>3, <1>4, <1>5, <1>6, <1>7, <1>8, <1>9 DEF Other, DiskAction

(* The exclusion holds after every step.                                   *)
LEMMA NextSerial == Control /\ SerialInv /\ [Next]_vars => SerialInv'
<1> SUFFICES ASSUME Control, SerialInv, [Next]_vars PROVE SerialInv'
  OBVIOUS
<1>1. CASE CancelCalled \/ CancelSignals
  <2>1. /\ pc' = pc /\ keyTask' = keyTask
        /\ generating' = generating /\ userCancelled' = userCancelled
    BY <1>1 DEF CancelCalled, CancelSignals
  <2>2. \A c \in Creates : Busy(c)' <=> Busy(c)
    BY <2>1 DEF Busy
  <2> QED
    BY <2>1, <2>2 DEF SerialInv
<1>2. CASE CancelClears
  BY <1>2 DEF CancelClears, SerialInv
<1>3. CASE Crash
  <2>1. \A c \in Creates : ~Busy(c)'
    BY <1>3 DEF Crash, Busy, Active, Prefix, Saving
  <2> QED
    BY <2>1 DEF SerialInv
<1>4. ASSUME NEW c \in Creates, Other(c) \/ DiskAction(c) PROVE SerialInv'
  <2>1. ASSUME NEW d \in Creates, d # c
        PROVE  (Busy(d)' <=> Busy(d)) /\ pc'[d] = pc[d]
    BY <1>4, <2>1, OtherFrame, DiskFrame DEF Control, Untouched, Busy
  <2>2. TaskAt(c) /\ Types
    BY DEF Control, TaskInv
  <2>3. ASSUME NEW d \in Creates, console = "free" PROVE pc[d] # "guarded"
    BY <2>3 DEF Control, ConsoleInv, Prefix
  <2>4. /\ userCancelled' = userCancelled
        /\ Busy(c)' =>
             \/ Busy(c)
             \/ console = "free" /\ ~generating /\ pc'[c] = "guarded"
        /\ Busy(c)' /\ pc'[c] # "guarded" =>
             generating' \/ (generating' = generating /\ Busy(c) /\ pc[c] # "guarded")
        /\ generating' = generating \/ generating' \/ (Busy(c) /\ ~Busy(c)')
    BY <1>4, <2>2, BusyStep
  <2> QED
    BY <2>1, <2>3, <2>4 DEF SerialInv
<1>5. CASE UNCHANGED vars
  BY <1>5 DEF vars, SerialInv, Busy
<1> QED
  BY <1>1, <1>2, <1>3, <1>4, <1>5, NextSplit

(* The exclusion holds at the start.                                       *)
LEMMA InitSerial == Init => SerialInv
  BY DEF Init, SerialInv, Busy, Active, Prefix, Saving

(* As long as no Cancel command has acted, no two creations are under way  *)
(* at once, however many are called, fail or are cut off by a crash.       *)
THEOREM SerialCorrect == Safety => []SerialUntilCancelled
<1>1. SerialInv => SerialUntilCancelled
  BY DEF SerialInv, SerialUntilCancelled, Busy
<1>2. Init => Control /\ SerialInv
  BY InitControl, InitSerial
<1>3. Control /\ SerialInv /\ [Next]_vars => Control' /\ SerialInv'
  BY NextControl, NextSerial
<1> QED
  BY <1>1, <1>2, <1>3, PTL DEF Safety

-----------------------------------------------------------------------------
(* The key searches.                                                       *)

SearchStep(c) == [Search(c)!SelectionNext]_(Search(c)!selectionVars)

(* What happens to the search of one creation in a step.                   *)
SearchMoves(c) ==
    \/ search'[c] = search[c] /\ chosen'[c] = chosen[c]
    \/ /\ cancelled' = cancelled
       /\ search'[c] = search[c]
       /\ search[c] = "searching" /\ ~chosen[c] /\ chosen'[c]
    \/ /\ cancelled' = cancelled
       /\ chosen'[c] = chosen[c]
       /\ \/ /\ search[c] = "idle"
             /\ search'[c] = IF c \in cancelled THEN "doomed" ELSE "searching"
          \/ /\ search[c] \in {"searching", "doomed"} /\ search'[c] = "returned"
             /\ chosen[c] \/ c \in cancelled
          \/ search[c] \in {"searching", "doomed"} /\ search'[c] = "threw"

(* Each of these is a step of the abstract search.                         *)
LEMMA MoveIsStep ==
  ASSUME ControlTypeOK, ControlTypeOK', cancelled \subseteq cancelled',
         NEW c \in Creates, SearchMoves(c)
  PROVE  SearchStep(c)
<1>1. /\ c # NoCreate /\ chosen[c] \in BOOLEAN /\ chosen'[c] \in BOOLEAN
  BY CreatesAssumption DEF ControlTypeOK
<1> USE DEF SearchStep, Search!SelectionNext, Search!selectionVars, Search!Begin, Search!Choose,
            Search!RequestCancel, Search!Finish, Search!Fail, Search!UnderWay
<1>2. CASE search'[c] = search[c] /\ chosen'[c] = chosen[c]
  BY <1>1, <1>2
<1>3. CASE /\ cancelled' = cancelled
           /\ search'[c] = search[c]
           /\ search[c] = "searching" /\ ~chosen[c] /\ chosen'[c]
  BY <1>1, <1>3
<1>4. CASE /\ cancelled' = cancelled
           /\ chosen'[c] = chosen[c]
           /\ search'[c] # search[c]
  BY <1>1, <1>4 DEF SearchMoves
<1> QED
  BY <1>2, <1>3, <1>4 DEF SearchMoves

(* Every step of the service is one of these for every search.             *)
LEMMA NextSearch ==
  ASSUME Control, [Next]_vars
  PROVE  cancelled \subseteq cancelled' /\ \A d \in Creates : SearchMoves(d)
<1>0. /\ pc \in [Creates -> Steps]
      /\ DOMAIN search = Creates /\ chosen \in [Creates -> BOOLEAN]
  BY DEF Control, Types, ControlTypeOK
<1> USE <1>0 DEF SearchMoves, searchVars, serviceVars
<1>1. CASE CancelCalled \/ CancelClears \/ CancelSignals \/ UNCHANGED vars
  BY <1>1 DEF CancelCalled, CancelClears, CancelSignals, vars
<1>2. CASE Crash
  BY <1>2 DEF Crash
<1>3. ASSUME NEW c \in Creates, Other(c)
      PROVE  cancelled \subseteq cancelled' /\ \A d \in Creates : SearchMoves(d)
  <2>1. CASE CreateCalled(c) \/ FlagGenerating(c) \/ CheckCA(c) \/ CheckIdent(c)
             \/ BuildIdentity(c) \/ BuildThrows(c) \/ JoinCA(c) \/ JoinIdent(c)
             \/ CancelField(c) \/ ClearGenerating(c)
    BY <2>1 DEF CreateCalled, FlagGenerating, CheckCA, CheckIdent, CheckAbsent, BuildIdentity,
                BuildThrows, JoinCA, JoinIdent, CancelField, ClearGenerating
  <2>2. CASE StartSearch(c)
    <3>1. search[c] = "idle"
      BY <2>2 DEF StartSearch, Control, TaskInv, TaskAt, Prefix
    <3> QED
      BY <2>2, <3>1 DEF StartSearch
  <2>3. CASE SelectKey(c) \/ SearchReturns(c) \/ SearchThrows(c)
    BY <2>3 DEF SelectKey, SearchReturns, SearchThrows
  <2> QED
    BY <1>3, <2>1, <2>2, <2>3 DEF Other
<1>4. ASSUME NEW c \in Creates, DiskAction(c)
      PROVE  cancelled \subseteq cancelled' /\ \A d \in Creates : SearchMoves(d)
  BY <1>4 DEF DiskAction, SaveCA, SaveLeaf, SaveIssuer, CertWrite, CertThrows, KeyStep, KeyThrows
<1> QED
  BY <1>1, <1>2, <1>3, <1>4, NextSplit

(* The service uses every key search as the abstract one may be used, and  *)
(* sees of it only what the abstract one may do.                           *)
THEOREM ImplementsSelections == Safety => SearchesAreSelections
<1>1. Init => \A c \in Creates : Search(c)!SelectionInit
  <2>1. ASSUME Init, NEW c \in Creates PROVE Search(c)!SelectionInit
    BY <2>1 DEF Init, Search!SelectionInit
  <2> QED
    BY <2>1
<1>2. Control /\ Control' /\ [Next]_vars => [\A c \in Creates : SearchStep(c)]_vars
  BY NextSearch, MoveIsStep DEF Control, Types
<1> QED
  BY <1>1, <1>2, ControlInvariance, PTL DEF Safety, SearchesAreSelections, SearchStep
=============================================================================
