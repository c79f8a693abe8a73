-------------------------- MODULE IdentityDiskProofs --------------------------
(***************************************************************************)
(* Proofs about the identity files of IdentityService: the last layer of   *)
(* the inductive invariant says what is on disk at each step of a creation *)
(* that the flag gives the disk to itself.                                 *)
(***************************************************************************)
EXTENDS IdentityServiceProofs

(* A file that does not exist holds nothing.                               *)
AbsentInv ==
    \A f \in Files : f \notin exists =>
        content[f] = <<>> /\ \A c \in Creates : position[f][c] = Closed

Own(c) == \A f \in Files : \A i \in DOMAIN content[f] : content[f][i] = c

Holds(f, blocks) == f \in exists /\ content[f] = blocks

(* What is on disk at each step of a creation that has the disk to itself: *)
(* what its checks have found absent, whose blocks there are, what it has  *)
(* written to the certificate and to the key files, and where it writes.   *)
CheckedInv(c) ==
    /\ pc[c] \in {"caAbsent", "identAbsent", "searching", "build"} =>
          CaFiles \cap exists = {}
    /\ pc[c] \in {"identAbsent", "searching", "build", "saveCA", "joinCA"} =>
          IdentFiles \cap exists = {}

OwnInv(c) == Busy(c) /\ keyTask[c]["caKey"] # "none" => Own(c)

CertInv(c) ==
    /\ pc[c] = "saveCA" => content["caCert"] = <<>>
    /\ pc[c] \in {"joinCA", "saveLeaf", "saveIssuer", "joinIdent", "report", "clearFlag"} =>
          Holds("caCert", <<c>>)
    /\ pc[c] = "saveLeaf" => content["identCert"] = <<>>
    /\ pc[c] = "saveIssuer" => Holds("identCert", <<c>>)
    /\ pc[c] \in {"joinIdent", "report", "clearFlag"} => Holds("identCert", <<c, c>>)

KeyInv(c) ==
    \A f \in KeyFiles :
        /\ keyTask[c][f] = "queued" => content[f] = <<>>
        /\ keyTask[c][f] = "written" /\ Busy(c) => Holds(f, <<c>>)

AtEnd(c) == \A f \in Files : position[f][c] # Closed => position[f][c] = Len(content[f])

ProgressInv(c) == CheckedInv(c) /\ OwnInv(c) /\ CertInv(c) /\ KeyInv(c) /\ AtEnd(c)

CreatedInv(c) ==
    pc[c] = "created" =>
        /\ \A f \in Files : Holds(f, Complete(c, f))
        /\ \A d \in Creates : pc[d] \in Active => pc[d] \in {"guarded", "flagged"}
        /\ \A d \in Creates, f \in KeyFiles : keyTask[d][f] # "queued"

Unmixed ==
    \A f, g \in Files : \A i \in DOMAIN content[f], j \in DOMAIN content[g] :
        content[f][i] = content[g][j]

DiskInv ==
    /\ AbsentInv
    /\ userCancelled = {} =>
          Unmixed /\ \A c \in Creates : ProgressInv(c) /\ CreatedInv(c)

-----------------------------------------------------------------------------
(* A write at the end of a file appends to it.                             *)
LEMMA PutAtEnd ==
  ASSUME NEW S, NEW blocks \in Seq(S), NEW c \in S
  PROVE  PutAt(blocks, Len(blocks), c) = Append(blocks, c)
<1> DEFINE n == Len(blocks)
<1>1. n \in Nat /\ blocks \in [1 .. n -> S]
  BY LenProperties
<1>2. PutAt(blocks, n, c) = [i \in 1 .. n + 1 |-> IF i = n + 1 THEN c ELSE blocks[i]]
  BY <1>1 DEF PutAt
<1>3. /\ Append(blocks, c) \in Seq(S)
      /\ Len(Append(blocks, c)) = n + 1
      /\ \A i \in 1 .. n : Append(blocks, c)[i] = blocks[i]
      /\ Append(blocks, c)[n + 1] = c
  BY AppendProperties
<1>4. Append(blocks, c) \in [1 .. n + 1 -> S]
  BY <1>3, LenProperties
<1> HIDE DEF n
<1>5. \A i \in 1 .. n + 1 : i = n + 1 \/ i \in 1 .. n
  BY <1>1
<1>6. PutAt(blocks, n, c) = Append(blocks, c)
  BY <1>1, <1>2, <1>3, <1>4, <1>5
<1> QED
  BY <1>6 DEF n

(* What opening and writing come to when a creation writes at the end.     *)
Opened(c, f) ==
    /\ exists' = exists \cup {f}
    /\ content' = content
    /\ position' = [position EXCEPT ![f][c] = Len(content[f])]

Appended(c, f) ==
    /\ f \in exists
    /\ exists' = exists
    /\ content' = [content EXCEPT ![f] = Append(content[f], c)]
    /\ position' = [position EXCEPT ![f][c] = Closed]

(* An open that truncates nothing leaves the contents as they are.         *)
LEMMA OpenEffect ==
  ASSUME DiskTypeOK, NEW c \in Creates, NEW f \in Files, NEW truncate \in BOOLEAN,
         Open(c, f, truncate), truncate => content[f] = <<>>
  PROVE  Opened(c, f)
<1>1. content \in [Files -> Seq(Creates \cup {NoCreate})]
  BY DEF DiskTypeOK
<1>2. content' = content
  BY <1>1 DEF Open
<1>3. truncate => Len(content[f]) = 0
  OBVIOUS
<1> QED
  BY <1>2, <1>3 DEF Open, Opened

(* A write at the end of a file appends a block.                           *)
LEMMA WriteEffect ==
  ASSUME DiskTypeOK, AbsentInv, NEW c \in Creates, NEW f \in Files, AtEnd(c), Write(c, f)
  PROVE  Appended(c, f)
<1>1. /\ content[f] \in Seq(Creates \cup {NoCreate})
      /\ position[f][c] = Len(content[f])
      /\ f \in exists
  BY DEF DiskTypeOK, AbsentInv, AtEnd, Write
<1>2. PutAt(content[f], Len(content[f]), c) = Append(content[f], c)
  BY <1>1, PutAtEnd
<1> QED
  BY <1>1, <1>2 DEF Write, Appended

(* A step on a file creates it before it writes to it.                     *)
LEMMA AbsentStep ==
  ASSUME DiskTypeOK, AbsentInv, NEW c \in Creates, NEW f \in Files, DiskStep(c, f)
  PROVE  AbsentInv'
<1>0. /\ position \in [Files -> [Creates -> Nat \cup {Closed}]]
      /\ DOMAIN content = Files
  BY DEF DiskTypeOK
<1>1. CASE Open(c, f, TRUE) \/ Open(c, f, FALSE)
  BY <1>0, <1>1 DEF Open, AbsentInv
<1>2. CASE Write(c, f)
  <2>1. f \in exists
    BY <1>2 DEF Write, AbsentInv
  <2> QED
    BY <1>0, <1>2, <2>1 DEF Write, AbsentInv
<1>3. CASE SharingViolation(c, f) \/ Abandon(c, f)
  BY <1>0, <1>3 DEF SharingViolation, Abandon, diskVars, AbsentInv
<1> QED
  BY <1>1, <1>2, <1>3 DEF DiskStep

(* Appending leaves a creation that owns the disk its owner.               *)
LEMMA AppendOwn ==
  ASSUME DiskTypeOK, NEW c \in Creates, NEW f \in Files, Own(c), Appended(c, f)
  PROVE  Own(c)'
<1>1. content \in [Files -> Seq(Creates \cup {NoCreate})]
  BY DEF DiskTypeOK
<1>2. ASSUME NEW g \in Files, NEW i \in DOMAIN content'[g] PROVE content'[g][i] = c
  <2>1. CASE g # f
    BY <1>1, <1>2, <2>1 DEF Appended, Own
  <2>2. CASE g = f
    <3>1. content'[f] = Append(content[f], c) /\ content[f] \in Seq(Creates \cup {NoCreate})
      BY <1>1 DEF Appended
    <3>2. /\ Len(content[f]) \in Nat
          /\ DOMAIN content[f] = 1 .. Len(content[f])
          /\ DOMAIN content'[f] = 1 .. Len(content[f]) + 1
          /\ \A k \in 1 .. Len(content[f]) : content'[f][k] = content[f][k]
          /\ content'[f][Len(content[f]) + 1] = c
      BY <3>1, AppendProperties, LenProperties
    <3>3. i \in 1 .. Len(content[f]) \/ i = Len(content[f]) + 1
      BY <1>2, <2>2, <3>2
    <3> QED
      BY <2>2, <3>2, <3>3 DEF Own
  <2> QED
    BY <2>1, <2>2
<1> QED
  BY <1>2 DEF Own

(* The files hold no more than two blocks.                                 *)
LEMMA AppendShort ==
  ASSUME NEW S, NEW x \in S, NEW y \in S
  PROVE  Append(<<>>, x) = <<x>> /\ Append(<<x>>, y) = <<x, y>>
<1>1. /\ <<>> \in Seq(S) /\ Len(<<>>) = 0
      /\ <<x>> \in Seq(S) /\ Len(<<x>>) = 1
      /\ <<x, y>> \in Seq(S) /\ Len(<<x, y>>) = 2
  BY EmptySeq
<1>2. Append(<<>>, x) = <<x>>
  <2>1. /\ Append(<<>>, x) \in Seq(S) /\ Len(Append(<<>>, x)) = 1
        /\ Append(<<>>, x)[1] = x
    BY <1>1, AppendProperties
  <2>2. \A i \in 1 .. 1 : i = 1
    OBVIOUS
  <2> QED
    BY <1>1, <2>1, <2>2, SeqEqual
<1>3. Append(<<x>>, y) = <<x, y>>
  <2>1. /\ Append(<<x>>, y) \in Seq(S) /\ Len(Append(<<x>>, y)) = 2
        /\ Append(<<x>>, y)[1] = x /\ Append(<<x>>, y)[2] = y
    <3>1. 1 \in 1 .. Len(<<x>>)
      BY <1>1
    <3> QED
      BY <1>1, <3>1, AppendProperties
  <2>2. <<x, y>>[1] = x /\ <<x, y>>[2] = y
    OBVIOUS
  <2>3. \A i \in 1 .. 2 : Append(<<x>>, y)[i] = <<x, y>>[i]
    <3>1. \A i \in 1 .. 2 : i = 1 \/ i = 2
      OBVIOUS
    <3> QED
      BY <2>1, <2>2, <3>1
  <2> QED
    BY <1>1, <2>1, <2>3, SeqEqual
<1> QED
  BY <1>2, <1>3

(* A creation that is not at work has nothing to show on disk.             *)
LEMMA IdleProgress ==
  ASSUME Control, NEW c \in Creates, ~Busy(c)
  PROVE  ProgressInv(c)
<1>1. HandleAt(c) /\ "caKey" \in KeyFiles
  BY DEF Control, HandleInv, KeyFiles
<1>2. AtEnd(c)
  BY <1>1 DEF HandleAt, AtEnd, Busy, Active, Saving
<1> QED
  BY <1>2 DEF ProgressInv, CheckedInv, OwnInv, CertInv, KeyInv, Busy, Active, Prefix, Saving

(* The same, after a step.                                                 *)
LEMMA IdleProgressNext ==
  ASSUME Control', NEW c \in Creates, ~Busy(c)'
  PROVE  ProgressInv(c)'
<1>1. HandleAt(c)' /\ "caKey" \in KeyFiles
  BY DEF Control, HandleInv, KeyFiles
<1>2. AtEnd(c)'
  BY <1>1 DEF HandleAt, AtEnd, Busy, Active, Saving
<1> QED
  BY <1>2 DEF ProgressInv, CheckedInv, OwnInv, CertInv, KeyInv, Busy, Active, Prefix, Saving

(* The steps a creation takes without touching the disk.                   *)
LEMMA OtherDisk ==
  ASSUME NEW c \in Creates, Other(c)
  PROVE  UNCHANGED diskVars
<1> USE DEF diskVars
<1>1. CASE CreateCalled(c) \/ FlagGenerating(c) \/ StartSearch(c)
  BY <1>1 DEF CreateCalled, FlagGenerating, StartSearch
<1>2. CASE CheckCA(c) \/ CheckIdent(c)
  BY <1>2 DEF CheckCA, CheckIdent, CheckAbsent
<1>3. CASE SelectKey(c) \/ SearchReturns(c) \/ SearchThrows(c)
  BY <1>3 DEF SelectKey, SearchReturns, SearchThrows
<1>4. CASE BuildIdentity(c) \/ JoinCA(c) \/ BuildThrows(c) \/ JoinIdent(c)
  BY <1>4 DEF BuildIdentity, JoinCA, BuildThrows, JoinIdent
<1>6. CASE CancelField(c) \/ ClearGenerating(c)
  BY <1>6 DEF CancelField, ClearGenerating
<1> QED
  BY <1>1, <1>2, <1>3, <1>4, <1>6 DEF Other

(* They keep what it says of the disk, up to the checks it has made and    *)
(* the key tasks it has started.                                           *)
LEMMA OtherProgress ==
  ASSUME Control, Control', AbsentInv, NEW c \in Creates, ProgressInv(c), Other(c), Busy(c)'
  PROVE  ProgressInv(c)' /\ UNCHANGED diskVars
<1>0. /\ pc \in [Creates -> Steps]
      /\ keyTask \in [Creates -> [KeyFiles -> States]]
      /\ search[c] \in {"searching", "doomed"} => pc[c] = "searching"
      /\ "caKey" \in KeyFiles /\ "identKey" \in KeyFiles
      /\ \A f \in KeyFiles : f = "caKey" \/ f = "identKey"
      /\ TaskAt(c) /\ TaskAt(c)'
  BY DEF Control, Types, ControlTypeOK, SourceInv, TaskInv, KeyFiles
<1>1. UNCHANGED diskVars
  BY OtherDisk
<1>2. exists' = exists /\ content' = content /\ position' = position
  BY <1>1 DEF diskVars
<1>3. AtEnd(c)'
  BY <1>2 DEF ProgressInv, AtEnd
<1>4. CASE CreateCalled(c) \/ FlagGenerating(c) \/ StartSearch(c)
  BY <1>0, <1>2, <1>3, <1>4
  DEF CreateCalled, FlagGenerating, StartSearch, Goto, ProgressInv, CheckedInv, OwnInv,
      CertInv, KeyInv, TaskAt, BeforeSave, Prefix
<1>5. CASE CheckCA(c) \/ CheckIdent(c)
  BY <1>0, <1>2, <1>3, <1>5
  DEF CheckCA, CheckIdent, CheckAbsent, Goto, ProgressInv, CheckedInv, OwnInv,
      CertInv, KeyInv, TaskAt, BeforeSave, Prefix
<1>6. CASE SelectKey(c) \/ SearchReturns(c) \/ SearchThrows(c)
  BY <1>0, <1>2, <1>3, <1>6
  DEF SelectKey, SearchReturns, SearchThrows, Goto, ProgressInv, CheckedInv, OwnInv,
      CertInv, KeyInv, TaskAt, BeforeSave, Prefix, Busy
<1>7. CASE BuildThrows(c)
  BY <1>0, <1>7 DEF BuildThrows, Goto, Busy, Active, Prefix, Saving, TaskAt, BeforeSave
<1>8. CASE JoinIdent(c) \/ CancelField(c) \/ ClearGenerating(c)
  <2>1. Busy(c)
    BY <1>8 DEF JoinIdent, CancelField, ClearGenerating, Busy, Active, Saving
  <2> QED
    BY <1>0, <1>2, <1>3, <1>8, <2>1
    DEF JoinIdent, CancelField, ClearGenerating, Goto, ProgressInv, CheckedInv, OwnInv,
        CertInv, KeyInv, Own, Holds
<1>9. CASE BuildIdentity(c)
  <2>1. \A f \in Files : f \notin exists
    BY <1>9 DEF BuildIdentity, ProgressInv, CheckedInv, Files
  <2>2. \A f \in Files : content'[f] = <<>>
    BY <1>2, <2>1 DEF AbsentInv
  <2>3. Own(c)'
    BY <2>2 DEF Own
  <2>4. pc[c] = "build" /\ pc'[c] = "saveCA" /\ keyTask'[c]["caKey"] = "queued"
    BY <1>0, <1>9 DEF BuildIdentity, QueueKey, Goto
  <2>5. keyTask'[c]["identKey"] = "none"
    BY <1>0, <2>4 DEF TaskAt
  <2>6. CheckedInv(c)' /\ OwnInv(c)' /\ CertInv(c)'
    BY <1>2, <2>1, <2>2, <2>3, <2>4 DEF CheckedInv, OwnInv, CertInv, Files, CaFiles, IdentFiles
  <2>7. KeyInv(c)'
    BY <1>0, <2>2, <2>4, <2>5 DEF KeyInv, Files, CaFiles
  <2> QED
    BY <1>1, <1>3, <2>6, <2>7 DEF ProgressInv
<1>10. CASE JoinCA(c)
  <2>1. pc[c] = "joinCA" /\ Busy(c)
    BY <1>10 DEF JoinCA, Busy, Active, Saving
  <2>2. \A f \in IdentFiles : f \in Files /\ f \notin exists
    BY <2>1 DEF ProgressInv, CheckedInv, Files
  <2>3. \A f \in IdentFiles : content'[f] = <<>>
    BY <1>2, <2>2 DEF AbsentInv
  <2>4. keyTask[c]["caKey"] = "written"
    BY <1>0, <1>10, <2>1 DEF JoinCA, Goto, Busy, Active, Prefix, Saving, TaskAt
  <2>5. pc'[c] = "saveLeaf" /\ keyTask'[c]["identKey"] = "queued" /\ keyTask'[c]["caKey"] = "written"
    BY <1>0, <1>10, <2>4 DEF JoinCA, QueueKey, Goto
  <2>6. Own(c)'
    BY <1>2, <2>1, <2>4 DEF ProgressInv, OwnInv, Own
  <2>7. Holds("caCert", <<c>>)' /\ Holds("caKey", <<c>>)'
    BY <1>0, <1>2, <2>1, <2>4 DEF ProgressInv, CertInv, KeyInv, Holds
  <2>8. CheckedInv(c)' /\ OwnInv(c)' /\ CertInv(c)'
    BY <2>3, <2>5, <2>6, <2>7 DEF CheckedInv, OwnInv, CertInv, IdentFiles
  <2>9. KeyInv(c)'
    BY <1>0, <2>3, <2>5, <2>7 DEF KeyInv, IdentFiles
  <2> QED
    BY <1>1, <1>3, <2>8, <2>9 DEF ProgressInv
<1> QED
  BY <1>1, <1>4, <1>5, <1>6, <1>7, <1>8, <1>9, <1>10 DEF Other

(* A step on the disk leaves the creation its own blocks, and the files    *)
(* other than the one it is about as they are.                             *)
LEMMA DiskOwner ==
  ASSUME Control, NEW c \in Creates, DiskAction(c)
  PROVE  Busy(c) /\ keyTask[c]["caKey"] # "none"
         /\ pc[c] \notin BeforeSave \cup {"report", "clearFlag", "created", "crashed"}
<1>1. TaskAt(c)
  BY DEF Control, TaskInv
<1>2. CASE SaveCA(c) \/ SaveLeaf(c) \/ SaveIssuer(c) \/ CertThrows(c)
  BY <1>1, <1>2 DEF SaveCA, SaveLeaf, SaveIssuer, CertWrite, CertThrows, TaskAt,
                    Busy, Active, Prefix, Saving, BeforeSave
<1>3. ASSUME NEW f \in KeyFiles, keyTask[c][f] = "queued"
      PROVE  Busy(c) /\ keyTask[c]["caKey"] # "none"
             /\ pc[c] \notin BeforeSave \cup {"report", "clearFlag", "created", "crashed"}
  <2>1. f = "caKey" \/ f = "identKey"
    BY DEF KeyFiles
  <2> QED
    BY <1>1, <1>3, <2>1 DEF TaskAt, Busy
<1> QED
  BY <1>2, <1>3 DEF DiskAction, KeyStep, KeyThrows

(* One step of a file: it is opened, appended to, or left alone.           *)
FileStep(c, f) ==
    \/ Opened(c, f)
    \/ Appended(c, f)
    \/ /\ exists' = exists
       /\ content' = content
       /\ \A g \in Files : position'[g][c] \in {position[g][c], Closed}

(* A creation that writes at the end of its files goes on to do so.        *)
LEMMA FileStepAtEnd ==
  ASSUME DiskTypeOK, NEW c \in Creates, NEW f \in Files, AtEnd(c), FileStep(c, f)
  PROVE  AtEnd(c)'
<1>0. /\ position \in [Files -> [Creates -> Nat \cup {Closed}]]
      /\ DOMAIN content = Files
  BY DEF DiskTypeOK
<1>1. CASE Opened(c, f)
  BY <1>0, <1>1 DEF Opened, AtEnd
<1>2. CASE Appended(c, f)
  BY <1>0, <1>2 DEF Appended, AtEnd
<1>3. CASE ~Opened(c, f) /\ ~Appended(c, f)
  BY <1>3 DEF FileStep, AtEnd
<1> QED
  BY <1>1, <1>2, <1>3

(* A creation that owns the disk goes on to do so.                         *)
LEMMA FileStepOwn ==
  ASSUME DiskTypeOK, NEW c \in Creates, NEW f \in Files, Own(c), FileStep(c, f)
  PROVE  Own(c)'
<1>1. CASE Appended(c, f)
  BY <1>1, AppendOwn
<1>2. CASE content' = content
  BY <1>2 DEF Own
<1> QED
  BY <1>1, <1>2 DEF FileStep, Opened

(* A write of the certificate thread goes on to the next step with the     *)
(* block appended, or ends the creation.                                   *)
LEMMA CertWriteEffect ==
  ASSUME Control, AbsentInv, NEW c \in Creates, AtEnd(c),
         NEW step, NEW f \in Files, NEW truncate \in BOOLEAN, NEW next,
         CertWrite(c, step, f, truncate, next), truncate => content[f] = <<>>
  PROVE  /\ FileStep(c, f)
         /\ \/ pc'[c] = step /\ content' = content
            \/ pc'[c] = next /\ content' = [content EXCEPT ![f] = Append(content[f], c)]
                              /\ f \in exists /\ exists' = exists
            \/ pc'[c] = "threw"
<1>0. /\ pc \in [Creates -> Steps]
      /\ DiskTypeOK
  BY DEF Control, Types, ControlTypeOK
<1>1. CASE Open(c, f, truncate) /\ UNCHANGED pc
  <2>1. Opened(c, f)
    BY <1>0, <1>1, OpenEffect
  <2> QED
    BY <1>1, <2>1 DEF CertWrite, Opened, FileStep
<1>2. CASE Write(c, f) /\ Goto(c, next)
  <2>1. Appended(c, f)
    BY <1>0, <1>2, WriteEffect
  <2> QED
    BY <1>0, <1>2, <2>1 DEF Goto, Appended, FileStep
<1>3. CASE SharingViolation(c, f) /\ Goto(c, "threw")
  BY <1>0, <1>3 DEF SharingViolation, Goto, FileStep, diskVars
<1> QED
  BY <1>1, <1>2, <1>3 DEF CertWrite

(* The steps of a creation on its certificate files.                       *)
LEMMA CertProgress ==
  ASSUME Control, AbsentInv, NEW c \in Creates, ProgressInv(c),
         SaveCA(c) \/ SaveLeaf(c) \/ SaveIssuer(c) \/ CertThrows(c)
  PROVE  ProgressInv(c)' /\ Own(c)'
<1>0. /\ pc \in [Creates -> Steps]
      /\ DOMAIN content = Files
      /\ DOMAIN position = Files /\ \A f \in Files : DOMAIN position[f] = Creates
      /\ DiskTypeOK
      /\ \A f \in KeyFiles : f \in Files /\ f # "caCert" /\ f # "identCert"
      /\ "caCert" \in Files /\ "identCert" \in Files
      /\ keyTask' = keyTask
  BY DEF Control, Types, ControlTypeOK, DiskTypeOK, Files, CaFiles, IdentFiles, KeyFiles,
         SaveCA, SaveLeaf, SaveIssuer, CertWrite, CertThrows
<1>1. Busy(c) /\ Own(c) /\ keyTask[c]["caKey"] # "none"
  BY DiskOwner DEF DiskAction, ProgressInv, OwnInv
<1>2. /\ Append(<<>>, c) = <<c>>
      /\ Append(<<c>>, c) = <<c, c>>
  BY AppendShort
<1>3. SUFFICES ASSUME NEW f \in {"caCert", "identCert"}, FileStep(c, f),
                      CheckedInv(c)', CertInv(c)'
               PROVE  ProgressInv(c)' /\ Own(c)'
  <2>1. CASE SaveCA(c)
    <3>1. pc[c] = "saveCA" /\ content["caCert"] = <<>> /\ IdentFiles \cap exists = {}
      BY <2>1 DEF SaveCA, CertWrite, ProgressInv, CertInv, CheckedInv
    <3>2. /\ FileStep(c, "caCert")
          /\ \/ pc'[c] = "saveCA" /\ content' = content
             \/ /\ pc'[c] = "joinCA"
                /\ content' = [content EXCEPT !["caCert"] = Append(content["caCert"], c)]
                /\ "caCert" \in exists /\ exists' = exists
             \/ pc'[c] = "threw"
      BY <1>0, <2>1, <3>1, CertWriteEffect DEF SaveCA, ProgressInv
    <3>3. CheckedInv(c)' /\ CertInv(c)'
      BY <1>0, <1>2, <3>1, <3>2
      DEF FileStep, Opened, Appended, CheckedInv, CertInv, Holds, IdentFiles
    <3> QED
      BY <1>3, <3>2, <3>3
  <2>2. CASE SaveLeaf(c)
    <3>1. pc[c] = "saveLeaf" /\ content["identCert"] = <<>> /\ Holds("caCert", <<c>>)
      BY <2>2 DEF SaveLeaf, CertWrite, ProgressInv, CertInv, CheckedInv
    <3>2. /\ FileStep(c, "identCert")
          /\ \/ pc'[c] = "saveLeaf" /\ content' = content
             \/ /\ pc'[c] = "saveIssuer"
                /\ content' = [content EXCEPT !["identCert"] = Append(content["identCert"], c)]
                /\ "identCert" \in exists /\ exists' = exists
             \/ pc'[c] = "threw"
      BY <1>0, <2>2, <3>1, CertWriteEffect DEF SaveLeaf, ProgressInv
    <3>3. CheckedInv(c)' /\ CertInv(c)'
      BY <1>0, <1>2, <3>1, <3>2
      DEF FileStep, Opened, Appended, CheckedInv, CertInv, Holds, IdentFiles
    <3> QED
      BY <1>3, <3>2, <3>3
  <2>3. CASE SaveIssuer(c)
    <3>1. pc[c] = "saveIssuer" /\ Holds("identCert", <<c>>) /\ Holds("caCert", <<c>>)
      BY <2>3 DEF SaveIssuer, CertWrite, ProgressInv, CertInv, CheckedInv
    <3>2. /\ FileStep(c, "identCert")
          /\ \/ pc'[c] = "saveIssuer" /\ content' = content
             \/ /\ pc'[c] = "joinIdent"
                /\ content' = [content EXCEPT !["identCert"] = Append(content["identCert"], c)]
                /\ "identCert" \in exists /\ exists' = exists
             \/ pc'[c] = "threw"
      BY <1>0, <2>3, <3>1, CertWriteEffect DEF SaveIssuer, ProgressInv
    <3>3. CheckedInv(c)' /\ CertInv(c)'
      BY <1>0, <1>2, <3>1, <3>2
      DEF FileStep, Opened, Appended, CheckedInv, CertInv, Holds, IdentFiles
    <3> QED
      BY <1>3, <3>2, <3>3
  <2>4. CASE CertThrows(c)
    <3>1. PICK f \in {"caCert", "identCert"} : Abandon(c, f) /\ Goto(c, "threw")
      BY <2>4 DEF CertThrows
    <3>2. FileStep(c, f) /\ pc'[c] = "threw"
      BY <1>0, <3>1 DEF Abandon, Goto, FileStep
    <3> QED
      BY <1>3, <3>2 DEF CheckedInv, CertInv
  <2> QED
    BY <2>1, <2>2, <2>3, <2>4
<1>4. f \in Files
  BY <1>0
<1>5. AtEnd(c)' /\ Own(c)'
  BY <1>0, <1>1, <1>3, <1>4, FileStepAtEnd, FileStepOwn DEF ProgressInv
<1>6. \A g \in KeyFiles : content'[g] = content[g] /\ (g \in exists => g \in exists')
  BY <1>0, <1>3 DEF FileStep, Opened, Appended
<1>7. KeyInv(c)'
  BY <1>0, <1>1, <1>6 DEF ProgressInv, KeyInv, Holds
<1> QED
  BY <1>3, <1>5, <1>7 DEF ProgressInv, OwnInv

(* The steps of its key tasks.                                             *)
LEMMA KeyProgress ==
  ASSUME Control, AbsentInv, NEW c \in Creates, ProgressInv(c),
         NEW f \in KeyFiles, KeyStep(c, f) \/ KeyThrows(c, f)
  PROVE  ProgressInv(c)' /\ Own(c)'
<1>0. /\ keyTask \in [Creates -> [KeyFiles -> States]]
      /\ DOMAIN content = Files
      /\ DOMAIN position = Files /\ \A g \in Files : DOMAIN position[g] = Creates
      /\ DiskTypeOK
      /\ f \in Files /\ f # "caCert" /\ f # "identCert"
      /\ keyTask[c][f] = "queued" /\ pc' = pc
  BY DEF Control, Types, ControlTypeOK, DiskTypeOK, Files, CaFiles, IdentFiles, KeyFiles,
         KeyStep, KeyThrows
<1>1. /\ Busy(c) /\ Own(c) /\ keyTask[c]["caKey"] # "none"
      /\ pc[c] \notin BeforeSave \cup {"report", "clearFlag", "created", "crashed"}
  BY DiskOwner DEF DiskAction, ProgressInv, OwnInv
<1>2. content[f] = <<>> /\ Append(<<>>, c) = <<c>>
  BY <1>0, AppendShort DEF ProgressInv, KeyInv
<1>3. /\ FileStep(c, f)
      /\ exists \subseteq exists' /\ exists' \subseteq exists \cup {f}
      /\ \A g \in Files : g # f => content'[g] = content[g]
      /\ \A g \in KeyFiles : g # f => keyTask'[c][g] = keyTask[c][g]
      /\ keyTask'[c][f] = "queued" => content'[f] = <<>>
      /\ keyTask'[c][f] = "written" => Holds(f, <<c>>)'
  <2>1. CASE Open(c, f, TRUE) /\ UNCHANGED keyTask
    <3>1. Opened(c, f)
      BY <1>0, <1>2, <2>1, OpenEffect
    <3> QED
      BY <1>0, <1>2, <2>1, <3>1 DEF Opened, FileStep
  <2>2. CASE Write(c, f) /\ keyTask' = [keyTask EXCEPT ![c][f] = "written"]
    <3>1. Appended(c, f)
      BY <1>0, <2>2, WriteEffect DEF ProgressInv
    <3> QED
      BY <1>0, <1>2, <2>2, <3>1 DEF Appended, FileStep, Holds
  <2>3. CASE /\ SharingViolation(c, f) \/ Abandon(c, f)
             /\ keyTask' = [keyTask EXCEPT ![c][f] = "failed"]
    BY <1>0, <1>2, <2>3 DEF SharingViolation, Abandon, FileStep, diskVars
  <2> QED
    BY <2>1, <2>2, <2>3 DEF KeyStep, KeyThrows
<1>4. AtEnd(c)' /\ Own(c)'
  BY <1>0, <1>1, <1>3, FileStepAtEnd, FileStepOwn DEF ProgressInv
<1>5. CheckedInv(c)'
  <2>1. CASE pc[c] \in {"saveCA", "joinCA"}
    <3>1. f \notin IdentFiles
      BY <1>0, <2>1 DEF Control, TaskInv, TaskAt, KeyFiles, IdentFiles
    <3> QED
      BY <1>0, <1>3, <2>1, <3>1 DEF ProgressInv, CheckedInv
  <2>2. CASE pc[c] \notin {"saveCA", "joinCA"}
    BY <1>0, <1>1, <2>2 DEF CheckedInv, BeforeSave, Prefix
  <2> QED
    BY <2>1, <2>2
<1>6. CertInv(c)'
  <2>1. /\ "caCert" \in Files /\ "identCert" \in Files
    BY DEF Files, CaFiles, IdentFiles
  <2> QED
    BY <1>0, <1>3, <2>1 DEF ProgressInv, CertInv, Holds
<1>7. KeyInv(c)'
  <2>1. \A g \in KeyFiles : g \in Files
    BY DEF KeyFiles, Files, CaFiles, IdentFiles
  <2> QED
    BY <1>1, <1>3, <2>1 DEF ProgressInv, KeyInv, Holds
<1> QED
  BY <1>4, <1>5, <1>6, <1>7 DEF ProgressInv, OwnInv

(* What a creation that finds another's files in place can still do.       *)
LEMMA BesideCreated ==
  ASSUME Control, NEW c \in Creates, Other(c) \/ DiskAction(c),
         CaFiles \subseteq exists,
         pc[c] \in Active => pc[c] \in {"guarded", "flagged"},
         \A f \in KeyFiles : keyTask[c][f] # "queued"
  PROVE  /\ pc'[c] \in Active => pc'[c] \in {"guarded", "flagged"}
         /\ keyTask' = keyTask
         /\ UNCHANGED diskVars
<1>0. /\ pc \in [Creates -> Steps]
      /\ search[c] \in {"searching", "doomed"} => pc[c] = "searching"
      /\ pc[c] \notin {"searching", "build", "joinCA", "joinIdent", "report", "clearFlag",
                       "identAbsent", "caAbsent", "saveCA", "saveLeaf", "saveIssuer"}
  BY DEF Control, Types, ControlTypeOK, SourceInv, Active, Prefix, Saving
<1>1. ~DiskAction(c)
  BY <1>0 DEF DiskAction, SaveCA, SaveLeaf, SaveIssuer, CertWrite, CertThrows, KeyStep, KeyThrows
<1>2. UNCHANGED diskVars
  BY <1>1, OtherDisk
<1>3. CASE CreateCalled(c) \/ FlagGenerating(c)
  BY <1>0, <1>2, <1>3 DEF CreateCalled, FlagGenerating, Goto, Active, Prefix, Saving
<1>4. CASE CheckCA(c)
  <2>1. CaFiles \cap exists # {}
    BY DEF CaFiles
  <2> QED
    BY <1>0, <1>2, <1>4, <2>1 DEF CheckCA, CheckAbsent, Goto, Active, Prefix, Saving
<1>5. CASE ~CreateCalled(c) /\ ~FlagGenerating(c) /\ ~CheckCA(c)
  BY <1>0, <1>1, <1>5 DEF Other, CheckIdent, CheckAbsent, StartSearch, SelectKey, SearchReturns,
     SearchThrows, BuildIdentity, BuildThrows, JoinCA, JoinIdent, CancelField, ClearGenerating
<1> QED
  BY <1>3, <1>4, <1>5

(* A creation becomes one that has reported success by its last step only. *)
LEMMA CreatedStep ==
  ASSUME Control, NEW c \in Creates, Other(c) \/ DiskAction(c),
         pc'[c] = "created", pc[c] # "created"
  PROVE  ClearGenerating(c)
<1>0. pc \in [Creates -> Steps]
  BY DEF Control, Types, ControlTypeOK
<1>1. CASE DiskAction(c)
  BY <1>0, <1>1 DEF DiskAction, SaveCA, SaveLeaf, SaveIssuer, CertWrite, CertThrows,
                    KeyStep, KeyThrows, Goto
<1>2. CASE Other(c)
  BY <1>0, <1>2 DEF Other, CreateCalled, FlagGenerating, CheckCA, CheckIdent, CheckAbsent,
     StartSearch, SelectKey, SearchReturns, SearchThrows, BuildIdentity, BuildThrows, JoinCA,
     JoinIdent, CancelField, Goto, searchVars
<1> QED
  BY <1>1, <1>2

(* The invariant speaks of nothing but these variables.                    *)
LEMMA StillDisk ==
  ASSUME DiskInv, userCancelled' = userCancelled,
         pc' = pc, keyTask' = keyTask, UNCHANGED diskVars
  PROVE  DiskInv'
  BY DEF DiskInv, AbsentInv, Unmixed, ProgressInv, CheckedInv, OwnInv, Own, CertInv, KeyInv,
         AtEnd, CreatedInv, Holds, Busy, diskVars

(* A creation has whole files once it has reported success, and keeps      *)
(* them: those called after it go no further than the check of the CA      *)
(* files.                                                                  *)
LEMMA CreatedNext ==
  ASSUME Control, SerialInv, DiskInv, userCancelled = {},
         NEW c \in Creates, Other(c) \/ DiskAction(c),
         NEW d \in Creates, pc'[d] = "created"
  PROVE  CreatedInv(d)'
<1>0. \A e \in Creates : e # c => pc'[e] = pc[e] /\ keyTask'[e] = keyTask[e]
  BY OtherFrame, DiskFrame DEF Control, Untouched
<1>1. CASE pc[d] = "created"
  <2>1. /\ \A f \in Files : Holds(f, Complete(d, f))
        /\ \A e \in Creates : pc[e] \in Active => pc[e] \in {"guarded", "flagged"}
        /\ \A e \in Creates, f \in KeyFiles : keyTask[e][f] # "queued"
    BY <1>1 DEF DiskInv, CreatedInv
  <2>2. CaFiles \subseteq exists
    BY <2>1 DEF Holds, Files
  <2>3. /\ pc'[c] \in Active => pc'[c] \in {"guarded", "flagged"}
        /\ keyTask' = keyTask
        /\ exists' = exists /\ content' = content
    BY <2>1, <2>2, BesideCreated DEF diskVars
  <2>4. \A f \in Files : Holds(f, Complete(d, f))'
    BY <2>1, <2>3 DEF Holds, Complete
  <2> QED
    BY <1>0, <2>1, <2>3, <2>4 DEF CreatedInv
<1>2. CASE pc[d] # "created"
  <2>1. d = c /\ ClearGenerating(c)
    BY <1>0, <1>2, CreatedStep
  <2>2. /\ pc[c] = "clearFlag" /\ keyTask' = keyTask
        /\ exists' = exists /\ content' = content
    BY <2>1 DEF ClearGenerating, diskVars
  <2>3. Busy(c)
    BY <2>2 DEF Busy, Active
  <2>4. \A e \in Creates : e # c => ~Busy(e)
    BY <2>3 DEF SerialInv
  <2>5. keyTask[c]["caKey"] = "written" /\ keyTask[c]["identKey"] = "written"
    BY <2>2 DEF Control, TaskInv, TaskAt
  <2>6. /\ Holds("caCert", <<c>>) /\ Holds("identCert", <<c, c>>)
        /\ Holds("caKey", <<c>>) /\ Holds("identKey", <<c>>)
    BY <2>2, <2>3, <2>5 DEF DiskInv, ProgressInv, CertInv, KeyInv, KeyFiles
  <2>7. \A f \in Files : Holds(f, Complete(c, f))
    BY <2>6 DEF Files, CaFiles, IdentFiles, Complete
  <2>8. \A f \in Files : Holds(f, Complete(d, f))'
    BY <2>1, <2>2, <2>7 DEF Holds, Complete
  <2>9. \A e \in Creates : pc'[e] \in Active => pc'[e] \in {"guarded", "flagged"}
    BY <1>0, <2>1, <2>4 DEF Busy, Active, Prefix, Saving
  <2>10. \A e \in Creates, f \in KeyFiles : keyTask'[e][f] # "queued"
    BY <2>2, <2>4, <2>5 DEF Busy, KeyFiles
  <2> QED
    BY <2>8, <2>9, <2>10 DEF CreatedInv
<1> QED
  BY <1>1, <1>2

(* Every creation, the one that takes the step and the others, finds the   *)
(* disk as it expects.                                                     *)
LEMMA ProgressNext ==
  ASSUME Control, Control', SerialInv, DiskInv, userCancelled = {},
         NEW c \in Creates, Other(c) \/ DiskAction(c), NEW d \in Creates
  PROVE  ProgressInv(d)'
<1>1. CASE ~Busy(d)'
  BY <1>1, IdleProgressNext
<1>2. CASE Busy(d)' /\ d = c
  <2>1. AbsentInv /\ ProgressInv(c)
    BY DEF DiskInv
  <2> QED
    BY <1>2, <2>1, OtherProgress, CertProgress, KeyProgress DEF DiskAction
<1>3. CASE Busy(d)' /\ d # c
  <2>1. Untouched(d)
    BY <1>3, OtherFrame, DiskFrame DEF Control
  <2>2. Busy(d)
    BY <1>3, <2>1 DEF Busy, Untouched
  <2>3. ~DiskAction(c)
    BY <1>3, <2>2, DiskOwner DEF SerialInv
  <2>4. exists' = exists /\ content' = content /\ position' = position
    BY <2>3, OtherDisk DEF diskVars
  <2>5. ProgressInv(d)
    BY DEF DiskInv
  <2> QED
    BY <2>1, <2>4, <2>5 DEF Untouched, ProgressInv, CheckedInv, OwnInv, Own, CertInv, KeyInv,
                            AtEnd, Holds, Busy
<1> QED
  BY <1>1, <1>2, <1>3

(* Blocks are written by the creation that owns the disk.                  *)
LEMMA UnmixedNext ==
  ASSUME Control, DiskInv, userCancelled = {},
         NEW c \in Creates, Other(c) \/ DiskAction(c)
  PROVE  Unmixed'
<1>1. CASE Other(c)
  BY <1>1, OtherDisk DEF diskVars, DiskInv, Unmixed
<1>2. CASE DiskAction(c)
  <2>1. AbsentInv /\ ProgressInv(c)
    BY DEF DiskInv
  <2>2. Own(c)'
    BY <1>2, <2>1, CertProgress, KeyProgress DEF DiskAction
  <2> QED
    BY <2>2 DEF Own, Unmixed
<1> QED
  BY <1>1, <1>2

(* The disk invariant holds after every step.                              *)
LEMMA NextDisk == Control /\ Control' /\ SerialInv /\ DiskInv /\ [Next]_vars => DiskInv'
<1> SUFFICES ASSUME Control, Control', SerialInv, DiskInv, [Next]_vars PROVE DiskInv'
  OBVIOUS
<1>1. CASE CancelCalled \/ CancelSignals \/ UNCHANGED vars
  <2>1. /\ userCancelled' = userCancelled /\ pc' = pc /\ keyTask' = keyTask
        /\ UNCHANGED diskVars
    BY <1>1 DEF CancelCalled, CancelSignals, vars, diskVars
  <2> QED
    BY <2>1, StillDisk
<1>2. CASE CancelClears
  <2>1. cts \in Creates
    BY <1>2 DEF CancelClears, Control, Types, SourceInv
  <2>2. userCancelled' # {} /\ UNCHANGED diskVars
    BY <1>2, <2>1 DEF CancelClears
  <2> QED
    BY <2>2 DEF DiskInv, AbsentInv, diskVars
<1>3. CASE Crash
  <2>1. \A c \in Creates : ~Busy(c)'
    BY <1>3 DEF Crash, Busy, Active, Prefix, Saving
  <2>2. \A c \in Creates : ProgressInv(c)'
    BY <2>1, IdleProgressNext
  <2>3. /\ exists' = exists /\ content' = content /\ userCancelled' = userCancelled
        /\ \A c \in Creates : pc'[c] = "created" => pc[c] = "created"
        /\ \A f \in Files, c \in Creates : position'[f][c] = Closed
    BY <1>3 DEF Crash
  <2>4. AbsentInv' /\ (Unmixed => Unmixed')
    BY <2>3 DEF DiskInv, AbsentInv, Unmixed
  <2>5. ASSUME NEW c \in Creates, CreatedInv(c) PROVE CreatedInv(c)'
    <3>1. \A f \in Files : Holds(f, Complete(c, f)) => Holds(f, Complete(c, f))'
      BY <2>3 DEF Holds, Complete
    <3> QED
      BY <2>1, <2>3, <2>5, <3>1 DEF CreatedInv, Busy
  <2> QED
    BY <2>2, <2>3, <2>4, <2>5 DEF DiskInv
<1>4. ASSUME NEW c \in Creates, Other(c) \/ DiskAction(c) PROVE DiskInv'
  <2>1. userCancelled' = userCancelled
    BY <1>4, BusyStep DEF Control, TaskInv
  <2>2. AbsentInv'
    <3>1. CASE Other(c)
      BY <3>1, OtherDisk DEF diskVars, DiskInv, AbsentInv
    <3>2. CASE DiskAction(c)
      BY <3>2, DiskActionSteps, AbsentStep DEF Control, Types, DiskInv
    <3> QED
      BY <1>4, <3>1, <3>2
  <2>3. userCancelled = {} =>
          Unmixed' /\ \A d \in Creates : ProgressInv(d)' /\ CreatedInv(d)'
    <3>1. SUFFICES ASSUME userCancelled = {}, NEW d \in Creates
                   PROVE  Unmixed' /\ ProgressInv(d)' /\ CreatedInv(d)'
      BY UnmixedNext, <1>4
    <3>2. Unmixed' /\ ProgressInv(d)'
      BY <1>4, <3>1, UnmixedNext, ProgressNext
    <3>3. CASE pc'[d] = "created"
      BY <1>4, <3>1, <3>2, <3>3, CreatedNext
    <3>4. CASE pc'[d] # "created"
      BY <3>2, <3>4 DEF CreatedInv
    <3> QED
      BY <3>3, <3>4
  <2> QED
    BY <2>1, <2>2, <2>3 DEF DiskInv
<1> QED
  BY <1>1, <1>2, <1>3, <1>4, NextSplit

(* The disk invariant holds at the start.                                  *)
LEMMA InitDisk == Init => DiskInv
  BY DEF Init, DiskInv, AbsentInv, Unmixed, ProgressInv, CheckedInv, OwnInv, CertInv, KeyInv,
         AtEnd, CreatedInv, Busy, Active, Prefix, Saving, KeyFiles

(* The disk invariant is one of the specification.                         *)
LEMMA DiskInvariance == Safety => []DiskInv
<1>1. Init => Control /\ SerialInv /\ DiskInv
  BY InitControl, InitSerial, InitDisk
<1>2. Control /\ SerialInv /\ DiskInv /\ [Next]_vars => (Control /\ SerialInv /\ DiskInv)'
  BY NextControl, NextSerial, NextDisk
<1> QED
  BY <1>1, <1>2, PTL DEF Safety

(* As long as no Cancel command has acted, the files of a creation that    *)
(* has reported success are whole and stay as it wrote them, whatever is   *)
(* called afterwards, fails or is cut off by a crash.                      *)
THEOREM CreatedCorrect == Safety => []CreatedIsWhole
<1>1. DiskInv => CreatedIsWhole
  BY DEF DiskInv, CreatedIsWhole, CreatedInv, Holds
<1> QED
  BY <1>1, DiskInvariance, PTL

(* As long as no Cancel command has acted, the four files never hold       *)
(* blocks of two creations, not even half-written or after a crash.        *)
THEOREM UnmixedCorrect == Safety => []UnmixedUntilCancelled
<1>1. DiskInv => UnmixedUntilCancelled
  BY DEF DiskInv, UnmixedUntilCancelled, Unmixed
<1> QED
  BY <1>1, DiskInvariance, PTL

-----------------------------------------------------------------------------
(* Who has written at all, with and without Cancel commands.               *)

Trace(c) == \E f \in Files : \E i \in DOMAIN content[f] : content[f][i] = c

(* A creation without a key has not come to its saves, has started no key  *)
(* task and has written nothing; a search that has not begun, or began     *)
(* cancelled, has no key.                                                  *)
TraceAt(c) ==
    /\ search[c] \in {"idle", "doomed"} => ~chosen[c]
    /\ ~chosen[c] =>
         /\ pc[c] \notin Saving \cup {"build", "report", "clearFlag", "created"}
         /\ \A f \in KeyFiles : keyTask[c][f] = "none"
         /\ ~Trace(c)

(* A step off the disk: the saves begin with a key.                        *)
LEMMA OtherTrace ==
  ASSUME Control, NEW c \in Creates, TraceAt(c), Other(c), SearchMoves(c)
  PROVE  TraceAt(c)'
<1>0. /\ pc \in [Creates -> Steps]
      /\ keyTask \in [Creates -> [KeyFiles -> States]]
      /\ search[c] \in {"searching", "doomed"} <=> pc[c] = "searching"
      /\ pc[c] \in Prefix => search[c] = "idle"
  BY DEF Control, Types, ControlTypeOK, SourceInv, TaskInv, TaskAt
<1>1. content' = content
  BY OtherDisk DEF diskVars
<1>2. Trace(c)' <=> Trace(c)
  BY <1>1 DEF Trace
<1>3. search'[c] \in {"idle", "doomed"} => ~chosen'[c]
  BY DEF SearchMoves, TraceAt
<1>4. ASSUME ~chosen'[c]
      PROVE  /\ pc'[c] \notin Saving \cup {"build", "report", "clearFlag", "created"}
             /\ \A f \in KeyFiles : keyTask'[c][f] = "none"
  <2>1. ~chosen[c]
    BY <1>4 DEF SearchMoves
  <2>2. /\ pc[c] \notin Saving \cup {"build", "report", "clearFlag", "created"}
        /\ \A f \in KeyFiles : keyTask[c][f] = "none"
    BY <2>1 DEF TraceAt
  <2> USE <1>0, <2>2 DEF Saving, Goto, searchVars
  <2>3. CASE CreateCalled(c) \/ FlagGenerating(c) \/ StartSearch(c)
    BY <2>3 DEF CreateCalled, FlagGenerating, StartSearch
  <2>4. CASE CheckCA(c) \/ CheckIdent(c)
    BY <2>4 DEF CheckCA, CheckIdent, CheckAbsent
  <2>5. CASE SelectKey(c) \/ SearchReturns(c) \/ SearchThrows(c)
    BY <2>1, <2>5 DEF SelectKey, SearchReturns, SearchThrows
  <2>6. CASE BuildIdentity(c) \/ JoinCA(c) \/ BuildThrows(c) \/ JoinIdent(c)
             \/ CancelField(c) \/ ClearGenerating(c)
    BY <2>6 DEF BuildIdentity, JoinCA, BuildThrows, JoinIdent, CancelField, ClearGenerating
  <2> QED
    BY <2>3, <2>4, <2>5, <2>6 DEF Other
<1>5. ~chosen'[c] => ~chosen[c]
  BY DEF SearchMoves
<1> QED
  BY <1>2, <1>3, <1>4, <1>5 DEF TraceAt

(* A step on the disk leaves blocks of its own creation only.              *)
LEMMA DiskTrace ==
  ASSUME Control, NEW c \in Creates, DiskAction(c), NEW d \in Creates, d # c, Trace(d)'
  PROVE  Trace(d)
<1>1. PICK f \in Files : DiskStep(c, f)
  BY DiskActionSteps
<1>2. content \in [Files -> Seq(Creates \cup {NoCreate})]
  BY DEF Control, Types, DiskTypeOK
<1>3. PICK g \in Files : \E i \in DOMAIN content'[g] : content'[g][i] = d
  BY DEF Trace
<1>4. PICK i \in DOMAIN content'[g] : content'[g][i] = d
  BY <1>3
<1>5. CASE content'[g] = content[g]
  BY <1>4, <1>5 DEF Trace
<1>6. CASE content'[g] # content[g]
  <2>1. \/ content'[g] = <<>>
        \/ content'[g] = PutAt(content[g], position[g][c], c)
    BY <1>1, <1>2, <1>6 DEF DiskStep, Open, Write, SharingViolation, Abandon, diskVars
  <2>2. content'[g] = PutAt(content[g], position[g][c], c)
    BY <1>4, <2>1
  <2>3. /\ i \in Nat /\ i >= 1
        /\ content'[g][i] = IF i = position[g][c] + 1 THEN c
                            ELSE IF i <= Len(content[g]) THEN content[g][i] ELSE NoCreate
    BY <1>4, <2>2 DEF PutAt
  <2>4. i <= Len(content[g]) /\ content[g][i] = d
    BY <1>4, <2>3, CreatesAssumption
  <2>5. DOMAIN content[g] = 1 .. Len(content[g]) /\ Len(content[g]) \in Nat
    BY <1>2
  <2>6. i \in DOMAIN content[g]
    BY <2>3, <2>4, <2>5
  <2> QED
    BY <2>4, <2>6 DEF Trace
<1> QED
  BY <1>5, <1>6

(* Nobody leaves a trace without a key.                                    *)
LEMMA NextTrace ==
  Control /\ (\A c \in Creates : TraceAt(c)) /\ [Next]_vars => (\A c \in Creates : TraceAt(c))'
<1> SUFFICES ASSUME Control, \A c \in Creates : TraceAt(c), [Next]_vars, NEW d \in Creates
             PROVE  TraceAt(d)'
  OBVIOUS
<1>0. SearchMoves(d) /\ TraceAt(d)
  BY NextSearch
<1>1. CASE CancelCalled \/ CancelClears \/ CancelSignals \/ UNCHANGED vars
  <2>1. UNCHANGED <<pc, search, chosen, keyTask, content>>
    BY <1>1 DEF CancelCalled, CancelClears, CancelSignals, vars, searchVars, diskVars
  <2> QED
    BY <1>0, <2>1 DEF TraceAt, Trace
<1>2. CASE Crash
  <2>1. /\ chosen' = chosen /\ content' = content
        /\ pc'[d] \in {pc[d], "crashed"}
        /\ search'[d] \in {search[d], "threw"}
        /\ \A f \in KeyFiles : keyTask[d][f] = "none" => keyTask'[d][f] = "none"
    BY <1>2 DEF Crash
  <2> QED
    BY <1>0, <2>1 DEF TraceAt, Trace, Saving
<1>3. ASSUME NEW c \in Creates, Other(c) PROVE TraceAt(d)'
  <2>1. CASE d = c
    BY <1>0, <1>3, <2>1, OtherTrace
  <2>2. CASE d # c
    <3>1. Untouched(d)
      BY <1>3, <2>2, OtherFrame DEF Control
    <3>2. content' = content
      BY <1>3, OtherDisk DEF diskVars
    <3>3. search'[d] = search[d] /\ chosen'[d] => chosen[d] \/ search[d] = "searching"
      BY <1>0, <3>1 DEF SearchMoves, Untouched
    <3>4. ~chosen'[d] => ~chosen[d]
      BY <1>0 DEF SearchMoves
    <3> QED
      BY <1>0, <3>1, <3>2, <3>3, <3>4 DEF Untouched, TraceAt, Trace
  <2> QED
    BY <2>1, <2>2
<1>4. ASSUME NEW c \in Creates, DiskAction(c) PROVE TraceAt(d)'
  <2>1. search' = search /\ chosen' = chosen
    BY <1>4 DEF DiskAction, SaveCA, SaveLeaf, SaveIssuer, CertWrite, CertThrows,
                KeyStep, KeyThrows, searchVars
  <2>2. CASE d = c
    <3>1. keyTask[c]["caKey"] # "none" /\ "caKey" \in KeyFiles
      BY <1>4, DiskOwner DEF KeyFiles
    <3>2. chosen[c]
      BY <1>0, <2>2, <3>1 DEF TraceAt
    <3> QED
      BY <1>0, <2>1, <2>2, <3>2 DEF TraceAt
  <2>3. CASE d # c
    <3>1. Untouched(d)
      BY <1>4, <2>3, DiskFrame DEF Control
    <3>2. Trace(d)' => Trace(d)
      BY <1>4, <2>3, DiskTrace
    <3> QED
      BY <1>0, <2>1, <3>1, <3>2 DEF Untouched, TraceAt
  <2> QED
    BY <2>2, <2>3
<1> QED
  BY <1>1, <1>2, <1>3, <1>4, NextSplit

(* A creation that has no key when its search ends, and one that was       *)
(* cancelled before its search began, never writes to a file, whatever is  *)
(* cancelled, fails or crashes, and however creations overlap.             *)
THEOREM NoKeyWritesNothing == Safety => []NoKeyNoTrace
<1>1. Init => \A c \in Creates : TraceAt(c)
  <2>1. ASSUME Init, NEW c \in Creates PROVE TraceAt(c)
    <3>1. \A f \in Files : content[f] = <<>> /\ DOMAIN content[f] = {}
      BY <2>1 DEF Init
    <3>2. ~Trace(c)
      BY <3>1 DEF Trace
    <3> QED
      BY <2>1, <3>2 DEF Init, TraceAt, Saving
  <2> QED
    BY <2>1
<1>2. (\A c \in Creates : TraceAt(c)) => NoKeyNoTrace
  BY DEF TraceAt, Trace, NoKeyNoTrace
<1> QED
  BY <1>1, <1>2, NextTrace, ControlInvariance, PTL DEF Safety
=============================================================================
