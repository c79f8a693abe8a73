------------------------- MODULE RegistrationProofs -------------------------
(***************************************************************************)
(* What a tab shows, and what may become of a token, for any tabs,         *)
(* browsers and addresses, and any number of writes by account pages.      *)
(***************************************************************************)
EXTENDS Registration, SequenceTheorems, TLAPS

User == [id : Nat, stamp : Nat, tokens : Seq(Tabs)]
Held == [id : Nat, address : Addresses, tokens : Seq(Tabs), by : Pages]
Display == [address : Addresses, token : Tabs, by : Pages]
Among(tokens) == {tokens[i] : i \in DOMAIN tokens}

(* A request before it has found its user, and before it has asked the     *)
(* store to add its token.                                                 *)
Before == {"closed", "loading", "form", "find", "create", "insert"}
Early == Before \cup {"claims"}

(* Before the document is ready the input carries no feedback.             *)
Fresh == \A t \in Tabs : pc[t] \in {"closed", "loading"} => classes[t] = {}

(* No stamp and no id is ahead of the writes.                              *)
Stamped ==
    /\ \A a \in DOMAIN users : users[a].id <= stamps /\ users[a].stamp <= stamps
    /\ \A t \in Tabs : read[t].id <= stamps /\ read[t].stamp <= stamps

(* The address a request is about.                                         *)
Posted ==
    \A t \in Tabs :
        /\ pc[t] \in {"find", "create", "insert", "claims", "signIn"} => field[t] \in Addresses
        /\ pc[t] = "insert" => field[t] \in Nameable

(* The stamp tells whether anybody has written the user a request has read.*)
Reads(t) ==
    /\ pc[t] \in Before => t \notin overtaken
    /\ pc[t] = "claims" /\ Kept(t) =>
         (users[field[t]].stamp = read[t].stamp <=> t \notin overtaken)
Settles(t) == pc[t] = "signIn" /\ Kept(t) => (Stored(t) <=> t \notin overtaken)
Reading == \A t \in Tabs : Reads(t)

(* Wherever a token is, it was requested for the address it is with, by a  *)
(* tab whose text can no longer change.                                    *)
AskedFor(token, a) == field[token] = a /\ pc[token] \notin Early
Given == \A a \in DOMAIN users : \A u \in Among(users[a].tokens) : AskedFor(u, a)
Carried ==
    \A b \in Browsers : \A p \in cookie[b] :
        /\ \A u \in Among(p.tokens) : AskedFor(u, p.address)
        /\ p.by = "Index" /\ p.tokens # <<>> => Browser[p.tokens[Len(p.tokens)]] = b
Displayed ==
    \A t \in Tabs : \A s \in shown[t] :
        /\ AskedFor(s.token, s.address)
        /\ s.by = "Index" => Browser[s.token] = Browser[t]

IInv == TypeOK /\ Fresh /\ Stamped /\ Posted /\ Reading /\ Given /\ Carried /\ Displayed
            /\ FeedbackHonest /\ StoredUnlessOvertaken

----------------------------------------------------------------------------
(* The tokens of an empty list and of a longer one.                        *)
LEMMA AmongAppend ==
    ASSUME NEW tokens \in Seq(Tabs), NEW t \in Tabs
    PROVE  /\ Append(tokens, t) \in Seq(Tabs)
           /\ Among(Append(tokens, t)) = Among(tokens) \cup {t}
           /\ Append(tokens, t)[Len(Append(tokens, t))] = t
<1>1. /\ Append(tokens, t) \in Seq(Tabs) /\ Len(tokens) \in Nat
      /\ Len(Append(tokens, t)) = Len(tokens) + 1
      /\ DOMAIN tokens = 1 .. Len(tokens)
      /\ DOMAIN Append(tokens, t) = 1 .. Len(tokens) + 1
      /\ \A i \in 1 .. Len(tokens) : Append(tokens, t)[i] = tokens[i]
      /\ Append(tokens, t)[Len(tokens) + 1] = t
  BY AppendProperties, LenProperties
<1>2. \A i \in 1 .. Len(tokens) + 1 : i \in 1 .. Len(tokens) \/ i = Len(tokens) + 1
  BY <1>1
<1>3. 1 .. Len(tokens) \subseteq 1 .. Len(tokens) + 1 /\ Len(tokens) + 1 \in 1 .. Len(tokens) + 1
  BY <1>1
<1> QED
  BY <1>1, <1>2, <1>3 DEF Among

(* A request moves to one of its states.                                   *)
LEMMA GotoIs ==
    ASSUME TypeOK, NEW t \in Tabs, NEW to \in States, Goto(t, to)
    PROVE  /\ pc' \in [Tabs -> States] /\ pc'[t] = to
           /\ \A u \in Tabs : u # t => pc'[u] = pc[u]
  BY DEF Goto, TypeOK

(* The page and the form, and the request up to the store.                 *)
Local(t) ==
    \/ Open(t) \/ Ready(t) \/ Post(t)
    \/ \E text \in Addresses \cup {Empty} : TypeUnheard(t, text) \/ OnInput(t, text)
    \/ FindByEmail(t) \/ Validate(t) \/ NoToken(t)

(* Where such a step may lead.                                             *)
LEMMA LocalIs ==
    ASSUME IInv, NEW t \in Tabs, Local(t)
    PROVE  /\ UNCHANGED <<users, stamps, overtaken, cookie, shown>>
           /\ pc[t] \in Early /\ pc' \in [Tabs -> States]
           /\ \A u \in Tabs : u # t => pc'[u] = pc[u] /\ field'[u] = field[u] /\ classes'[u] = classes[u]
                                     /\ read'[u] = read[u]
           /\ pc'[t] \in Early \cup {"toRegistered", "toIndex", "page"}
           /\ pc'[t] \in Before => pc[t] \in Before
           /\ pc'[t] \in {"closed", "loading"} => pc[t] \in {"closed", "loading"} /\ classes'[t] = classes[t]
           /\ pc'[t] \in {"find", "create", "insert", "claims", "signIn"} => field'[t] \in Addresses
           /\ pc'[t] = "insert" => field'[t] \in Nameable
           /\ pc'[t] = "claims" =>
                pc[t] \in Before /\ Registered(field'[t])
                /\ read'[t] = [id |-> users[field'[t]].id, stamp |-> users[field'[t]].stamp]
           /\ read'[t] = read[t] \/ pc'[t] = "claims"
           /\ field' \in [Tabs -> Addresses \cup {Empty}] /\ read' \in [Tabs -> [id : Nat, stamp : Nat]]
           /\ classes' \in [Tabs -> SUBSET {"is-valid", "is-invalid"}]
           /\ FeedbackHonest'
<1> USE DEF formVars, storeVars, serverVars, IInv
<1>1. ASSUME UNCHANGED formVars PROVE FeedbackHonest'
  BY <1>1 DEF FeedbackHonest
<1>2. CASE Open(t)
  <2>1. PICK to \in {"toRegistered", "loading"} : Goto(t, to)
    BY <1>2 DEF Open
  <2> QED
    BY <1>1, <1>2, <2>1, GotoIs DEF Open, TypeOK, Early, Before, States, Fresh
<1>3. CASE Ready(t)
  BY <1>1, <1>3, GotoIs DEF Ready, TypeOK, Early, Before, States
<1>4. CASE Post(t)
  <2>1. PICK to \in {"find", "page"} : Goto(t, to) /\ (to = "find" => field[t] \in Addresses)
    BY <1>4, RegistrationAssumption DEF Post
  <2> QED
    BY <1>1, <1>4, <2>1, GotoIs DEF Post, TypeOK, Early, Before, States
<1>5. ASSUME NEW text \in Addresses \cup {Empty}, TypeUnheard(t, text) PROVE field' \in [Tabs -> Addresses \cup {Empty}]
  BY <1>5 DEF TypeUnheard, TypeOK
<1>6. CASE \E text \in Addresses \cup {Empty} : TypeUnheard(t, text)
  <2>1. classes[t] = {}
    BY <1>6 DEF TypeUnheard, Fresh
  <2>2. FeedbackHonest'
    BY <1>6, <2>1 DEF TypeUnheard, FeedbackHonest, TypeOK
  <2> QED
    BY <1>5, <1>6, <2>2 DEF TypeUnheard, TypeOK, Early, Before
<1>7. CASE \E text \in Addresses \cup {Empty} : OnInput(t, text)
  <2>1. PICK text \in Addresses \cup {Empty} : OnInput(t, text)
    BY <1>7
  <2>2. /\ Feedback(t, text) \in SUBSET {"is-valid", "is-invalid"}
        /\ text = Empty => Feedback(t, text) = {}
        /\ text # Empty => Feedback(t, text) = {IF text \in Valid THEN "is-valid" ELSE "is-invalid"}
    BY DEF Feedback, CheckValidity
  <2>3. /\ field'[t] = text /\ classes'[t] = Feedback(t, text)
        /\ \A u \in Tabs : u # t => field'[u] = field[u] /\ classes'[u] = classes[u]
        /\ field' \in [Tabs -> Addresses \cup {Empty}]
        /\ classes' \in [Tabs -> SUBSET {"is-valid", "is-invalid"}]
    BY <2>1, <2>2 DEF OnInput, TypeOK
  <2>4. FeedbackHonest'
    BY <2>2, <2>3 DEF FeedbackHonest
  <2> QED
    BY <2>1, <2>3, <2>4 DEF OnInput, TypeOK, Early, Before
<1>8. CASE FindByEmail(t)
  <2>1. pc[t] = "find" /\ field[t] \in Addresses /\ UNCHANGED <<field, classes, users, stamps, overtaken, cookie, shown>>
    BY <1>8 DEF FindByEmail, Posted
  <2>2. CASE Registered(field[t])
    <3> DEFINE found == [id |-> users[field[t]].id, stamp |-> users[field[t]].stamp]
    <3>1. Goto(t, "claims") /\ read' = [read EXCEPT ![t] = found]
      BY <1>8, <2>2 DEF FindByEmail
    <3>2. found \in [id : Nat, stamp : Nat]
      BY <2>2 DEF TypeOK, Registered
    <3> HIDE DEF found
    <3>3. read' \in [Tabs -> [id : Nat, stamp : Nat]] /\ read'[t] = found /\ \A u \in Tabs : u # t => read'[u] = read[u]
      BY <3>1, <3>2 DEF TypeOK
    <3>4. pc' \in [Tabs -> States] /\ pc'[t] = "claims" /\ \A u \in Tabs : u # t => pc'[u] = pc[u]
      BY <3>1, GotoIs DEF States
    <3> QED
      BY <1>1, <2>1, <2>2, <3>3, <3>4 DEF TypeOK, Early, Before, Registered, found
  <2>3. CASE ~Registered(field[t])
    <3>1. Goto(t, "create") /\ UNCHANGED read
      BY <1>8, <2>3 DEF FindByEmail
    <3> QED
      BY <1>1, <2>1, <3>1, GotoIs DEF TypeOK, Early, Before, States
  <2> QED
    BY <2>2, <2>3
<1>9. CASE Validate(t)
  <2>1. CASE field[t] \in Nameable /\ ~Registered(field[t])
    <3>1. Goto(t, "insert")
      BY <1>9, <2>1 DEF Validate
    <3> QED
      BY <1>1, <1>9, <2>1, <3>1, GotoIs DEF Validate, TypeOK, Early, Before, States, Posted
  <2>2. CASE ~(field[t] \in Nameable /\ ~Registered(field[t]))
    <3>1. Goto(t, "toIndex")
      BY <1>9, <2>2 DEF Validate
    <3> QED
      BY <1>1, <1>9, <3>1, GotoIs DEF Validate, TypeOK, Early, Before, States
  <2> QED
    BY <2>1, <2>2
<1>10. CASE NoToken(t)
  BY <1>1, <1>10, GotoIs DEF NoToken, TypeOK, Early, Before, States
<1> QED
  BY <1>2, <1>3, <1>4, <1>6, <1>7, <1>8, <1>9, <1>10 DEF Local

(* Tokens stay where they were asked for, as long as no text of a tab past *)
(* the form changes.                                                       *)
LEMMA AskedForStays ==
    ASSUME \A u \in Tabs : pc[u] \notin Early => pc'[u] \notin Early /\ field'[u] = field[u],
           NEW token \in Tabs, NEW a, AskedFor(token, a)
    PROVE  AskedFor(token, a)'
  BY DEF AskedFor

(* What carries and shows tokens keeps its part of the invariant when it   *)
(* stays as it is.                                                         *)
LEMMA HeldStays ==
    ASSUME IInv, UNCHANGED <<cookie, shown>>,
           \A u \in Tabs : pc[u] \notin Early => pc'[u] \notin Early /\ field'[u] = field[u]
    PROVE  Carried' /\ Displayed'
<1>1. ASSUME NEW b \in Browsers, NEW p \in cookie[b], NEW u \in Among(p.tokens)
      PROVE  AskedFor(u, p.address)'
  <2>1. p.tokens \in Seq(Tabs)
    BY DEF IInv, TypeOK
  <2>2. u \in Tabs
    BY <2>1, ElementOfSeq, LenProperties DEF Among
  <2> QED
    BY <2>2, AskedForStays DEF IInv, Carried
<1>2. ASSUME NEW t \in Tabs, NEW s \in shown[t] PROVE AskedFor(s.token, s.address)'
  BY AskedForStays DEF IInv, Displayed, TypeOK
<1> QED
  BY <1>1, <1>2 DEF IInv, Carried, Displayed

(* The same for the store.                                                 *)
LEMMA GivenStays ==
    ASSUME IInv, NEW a \in DOMAIN users, NEW u \in Among(users[a].tokens),
           \A v \in Tabs : pc[v] \notin Early => pc'[v] \notin Early /\ field'[v] = field[v]
    PROVE  u \in Tabs /\ AskedFor(u, a)'
<1>1. users[a].tokens \in Seq(Tabs)
  BY DEF IInv, TypeOK
<1>2. u \in Tabs
  BY <1>1, ElementOfSeq, LenProperties DEF Among
<1> QED
  BY <1>2, AskedForStays DEF IInv, Given

(* They keep the invariant.                                                *)
LEMMA LocalKeeps == ASSUME IInv, NEW t \in Tabs, Local(t) PROVE IInv'
<1>1. \A u \in Tabs : pc[u] \notin Early => pc'[u] \notin Early /\ field'[u] = field[u]
  BY LocalIs
<1>2. TypeOK' /\ FeedbackHonest'
  BY LocalIs DEF IInv, TypeOK
<1>3. Fresh'
  BY LocalIs DEF IInv, Fresh
<1>4. Posted'
  BY LocalIs DEF IInv, Posted
<1>5. Stamped'
  <2>1. UNCHANGED <<users, stamps>>
    BY LocalIs
  <2>2. ASSUME NEW u \in Tabs PROVE read'[u].id <= stamps /\ read'[u].stamp <= stamps
    <3>1. CASE read'[u] = read[u]
      BY <3>1 DEF IInv, Stamped
    <3>2. CASE u = t /\ read'[u] # read[u]
      <4>1. Registered(field'[t]) /\ read'[t] = [id |-> users[field'[t]].id, stamp |-> users[field'[t]].stamp]
        BY <3>2, LocalIs
      <4> QED
        BY <3>2, <4>1 DEF IInv, Stamped, Registered
    <3> QED
      BY <3>1, <3>2, LocalIs
  <2> QED
    BY <2>1, <2>2 DEF IInv, Stamped
<1>6. Given' /\ Carried' /\ Displayed'
  <2>1. UNCHANGED <<users, cookie, shown>>
    BY LocalIs
  <2> QED
    BY <1>1, <2>1, HeldStays, GivenStays DEF Given
<1>7. Reading' /\ StoredUnlessOvertaken'
  <2>1. ASSUME NEW u \in Tabs, u # t PROVE Reads(u)' /\ Settles(u)'
    <3>1. UNCHANGED <<users, overtaken, pc[u], field[u], read[u]>>
      BY <2>1, LocalIs
    <3> QED
      BY <3>1 DEF IInv, Reading, Reads, Settles, StoredUnlessOvertaken, Kept, Stored, Registered
  <2>2. Reads(t)' /\ Settles(t)'
    <3>1. /\ pc'[t] # "signIn" /\ UNCHANGED <<users, overtaken>>
          /\ pc'[t] \in Before => pc[t] \in Before
          /\ pc'[t] = "claims" =>
               pc[t] \in Before /\ read'[t] = [id |-> users[field'[t]].id, stamp |-> users[field'[t]].stamp]
      BY LocalIs DEF Early, Before
    <3>2. pc[t] \in Before => t \notin overtaken
      BY DEF IInv, Reading, Reads
    <3> QED
      BY <3>1, <3>2 DEF Reads, Settles
  <2> QED
    BY <2>1, <2>2 DEF Reading, Settles, StoredUnlessOvertaken
<1> QED
  BY <1>2, <1>3, <1>4, <1>5, <1>6, <1>7 DEF IInv

----------------------------------------------------------------------------
(* The store.                                                              *)

(* A write puts the user in its place, and nothing else.                   *)
LEMMA WriteIs ==
    ASSUME NEW a, NEW user, NEW writer, Write(a, user, writer)
    PROVE  /\ DOMAIN users' = DOMAIN users \cup {a} /\ users'[a] = user
           /\ \A b \in DOMAIN users : b # a => users'[b] = users[b]
           /\ stamps' = stamps + 1
           /\ \A u \in Tabs : u \in overtaken' <=>
                u \in overtaken \/ (u \notin writer /\ pc[u] = "claims" /\ field[u] = a)
<1>1. /\ DOMAIN WithUser(a, user) = DOMAIN users \cup {a} /\ WithUser(a, user)[a] = user
      /\ \A b \in DOMAIN users : b # a => WithUser(a, user)[b] = users[b]
  BY DEF WithUser
<1> QED
  BY <1>1 DEF Write

(* What may be written: a new user, or another stamp and perhaps another   *)
(* token for one that is there.                                            *)
Writes(a, user, writer) ==
    /\ Write(a, user, writer)
    /\ a \in Nameable /\ user \in User /\ user.stamp = stamps + 1 /\ user.id <= user.stamp
    /\ \/ ~Registered(a) /\ user.id = stamps + 1 /\ Among(user.tokens) = {}
       \/ /\ Registered(a) /\ user.id = users[a].id
          /\ Among(users[a].tokens) \subseteq Among(user.tokens)
          /\ Among(user.tokens) \subseteq Among(users[a].tokens) \cup writer

(* To a tab that does not write itself, it is as the invariant says: a     *)
(* request that had read the user is overtaken, and has another stamp.     *)
LEMMA OthersWrite ==
    ASSUME IInv, NEW a, NEW user, NEW writer, Writes(a, user, writer),
           NEW u \in Tabs, u \notin writer, UNCHANGED <<pc[u], field[u], read[u]>>
    PROVE  Reads(u)' /\ Settles(u)'
<1>1. /\ DOMAIN users' = DOMAIN users \cup {a} /\ users'[a] = user
      /\ \A b \in DOMAIN users : b # a => users'[b] = users[b]
      /\ u \in overtaken' <=> u \in overtaken \/ (pc[u] = "claims" /\ field[u] = a)
  <2>1. Write(a, user, writer)
    BY DEF Writes
  <2> QED
    BY <2>1, WriteIs
<1>2. Reads(u) /\ Settles(u)
  BY DEF IInv, Reading, StoredUnlessOvertaken, Settles
<1>3. CASE field[u] # a
  <2>1. Kept(u)' <=> Kept(u)
    BY <1>1, <1>3 DEF Kept, Registered
  <2>2. Kept(u) => users'[field[u]] = users[field[u]]
    BY <1>1, <1>3 DEF Kept, Registered
  <2> QED
    BY <1>1, <1>2, <1>3, <2>1, <2>2 DEF Reads, Settles, Stored, Before
<1>4. CASE field[u] = a
  <2>1. read[u].id <= stamps /\ read[u].stamp <= stamps /\ stamps \in Nat
        /\ read[u].id \in Nat /\ read[u].stamp \in Nat
    BY DEF IInv, Stamped, TypeOK
  <2>2. users'[field'[u]].stamp # read'[u].stamp
    BY <1>1, <1>4, <2>1 DEF Writes
  <2>3. Kept(u)' => Kept(u) /\ (u \in Among(user.tokens) <=> u \in Among(users[a].tokens))
    BY <1>1, <1>4, <2>1 DEF Writes, Kept, Registered
  <2>4. Kept(u)' => (Stored(u)' <=> Stored(u))
    BY <1>1, <1>4, <2>3 DEF Stored, Among
  <2> QED
    BY <1>1, <1>2, <1>4, <2>2, <2>3, <2>4 DEF Reads, Settles, Before
<1> QED
  BY <1>3, <1>4

(* The store stays well formed.                                            *)
LEMMA WriteKeeps ==
    ASSUME IInv, NEW a, NEW user, NEW writer \in SUBSET Tabs, Writes(a, user, writer),
           \A u \in Tabs : pc[u] \notin Early => pc'[u] \notin Early /\ field'[u] = field[u],
           \A u \in Among(user.tokens) : u \in writer => AskedFor(u, a)',
           \A t \in Tabs : read'[t] = read[t] \/ read'[t] = [id |-> user.id, stamp |-> user.stamp]
    PROVE  /\ DOMAIN users' \subseteq Nameable /\ \A b \in DOMAIN users' : users'[b] \in User
           /\ stamps' \in Nat /\ overtaken' \subseteq Tabs
           /\ Stamped' /\ Given'
<1>1. /\ DOMAIN users' = DOMAIN users \cup {a} /\ users'[a] = user
      /\ \A b \in DOMAIN users : b # a => users'[b] = users[b]
      /\ stamps' = stamps + 1
  <2>1. Write(a, user, writer)
    BY DEF Writes
  <2> QED
    BY <2>1, WriteIs
<1>2. /\ DOMAIN users' \subseteq Nameable /\ \A b \in DOMAIN users' : users'[b] \in User
      /\ stamps' \in Nat /\ overtaken' \subseteq Tabs
  BY <1>1 DEF IInv, TypeOK, Writes, Write, User
<1>3. Stamped'
  <2>1. user.id <= stamps' /\ user.stamp <= stamps'
    BY <1>1 DEF Writes
  <2>2. ASSUME NEW b \in DOMAIN users', b # a PROVE users'[b].id <= stamps' /\ users'[b].stamp <= stamps'
    <3>1. users[b].id \in Nat /\ users[b].stamp \in Nat /\ users[b].id <= stamps /\ users[b].stamp <= stamps
      BY <1>1, <2>2 DEF IInv, TypeOK, Stamped
    <3> QED
      BY <1>1, <2>2, <3>1 DEF IInv, TypeOK
  <2>3. ASSUME NEW t \in Tabs PROVE read'[t].id <= stamps' /\ read'[t].stamp <= stamps'
    <3>1. read[t].id \in Nat /\ read[t].stamp \in Nat /\ read[t].id <= stamps /\ read[t].stamp <= stamps
      BY DEF IInv, TypeOK, Stamped
    <3>2. CASE read'[t] = read[t]
      BY <1>1, <3>1, <3>2 DEF IInv, TypeOK
    <3>3. CASE read'[t] = [id |-> user.id, stamp |-> user.stamp]
      BY <2>1, <3>3
    <3> QED
      BY <3>2, <3>3
  <2> QED
    BY <1>1, <2>1, <2>2, <2>3 DEF Stamped
<1>4. Given'
  <2>1. ASSUME NEW b \in DOMAIN users', NEW u \in Among(users'[b].tokens)
        PROVE  AskedFor(u, b)'
    <3>1. CASE b # a
      BY <1>1, <2>1, <3>1, GivenStays
    <3>2. CASE b = a /\ u \in writer
      BY <1>1, <2>1, <3>2
    <3>3. CASE b = a /\ u \notin writer
      <4>1. Registered(a) /\ u \in Among(users[a].tokens)
        BY <1>1, <2>1, <3>3 DEF Writes
      <4> QED
        BY <3>3, <4>1, GivenStays DEF Registered
    <3> QED
      BY <3>1, <3>2, <3>3
  <2> QED
    BY <2>1 DEF Given
<1> QED
  BY <1>2, <1>3, <1>4

(* A new user is such a write.                                             *)
LEMMA NewUserWrites ==
    ASSUME IInv, NEW a \in Nameable, ~Registered(a), NEW writer, Write(a, NewUser, writer)
    PROVE  Writes(a, NewUser, writer)
<1>1. NewUser \in User /\ NewUser.id = stamps + 1 /\ NewUser.stamp = stamps + 1 /\ NewUser.tokens = <<>>
  BY EmptySeq DEF NewUser, User, IInv, TypeOK
<1>2. Among(NewUser.tokens) = {}
  BY <1>1 DEF Among
<1>3. NewUser.id <= NewUser.stamp
  BY <1>1 DEF IInv, TypeOK
<1> QED
  BY <1>1, <1>2, <1>3 DEF Writes

(* An insertion keeps the invariant.                                       *)
LEMMA InsertKeeps == ASSUME IInv, NEW t \in Tabs, Insert(t) PROVE IInv'
<1>1. pc[t] = "insert" /\ field[t] \in Nameable /\ UNCHANGED <<field, classes, cookie, shown>>
  BY DEF Insert, formVars, IInv, Posted
<1>2. CASE Registered(field[t])
  <2>1. Goto(t, "failed") /\ UNCHANGED <<users, stamps, overtaken, read>>
    BY <1>2 DEF Insert, storeVars
  <2>2. pc' \in [Tabs -> States] /\ pc'[t] = "failed" /\ \A u \in Tabs : u # t => pc'[u] = pc[u]
    BY <2>1, GotoIs DEF States, IInv
  <2>3. \A u \in Tabs : pc[u] \notin Early => pc'[u] \notin Early /\ field'[u] = field[u]
    BY <1>1, <2>2 DEF Early, Before
  <2>4. TypeOK' /\ FeedbackHonest' /\ Fresh' /\ Stamped' /\ Posted'
    BY <1>1, <2>1, <2>2 DEF IInv, TypeOK, FeedbackHonest, Fresh, Stamped, Posted
  <2>5. Reading' /\ StoredUnlessOvertaken'
    BY <1>1, <2>1, <2>2 DEF IInv, Reading, Reads, Before, StoredUnlessOvertaken, Kept, Stored, Registered
  <2>6. Given' /\ Carried' /\ Displayed'
    BY <1>1, <2>1, <2>3, GivenStays, HeldStays DEF Given
  <2> QED
    BY <2>4, <2>5, <2>6 DEF IInv
<1>3. CASE ~Registered(field[t])
  <2> DEFINE a == field[t]
             new == [id |-> NewUser.id, stamp |-> NewUser.stamp]
  <2>1. Goto(t, "claims") /\ Write(a, NewUser, {t}) /\ read' = [read EXCEPT ![t] = new]
    BY <1>3 DEF Insert
  <2>2. pc' \in [Tabs -> States] /\ pc'[t] = "claims" /\ \A u \in Tabs : u # t => pc'[u] = pc[u]
    BY <2>1, GotoIs DEF States, IInv
  <2>3. Writes(a, NewUser, {t})
    BY <1>1, <1>3, <2>1, NewUserWrites
  <2>4. new \in [id : Nat, stamp : Nat]
    BY DEF NewUser, IInv, TypeOK
  <2> HIDE DEF a, new
  <2>5. read' \in [Tabs -> [id : Nat, stamp : Nat]] /\ read'[t] = new /\ \A u \in Tabs : u # t => read'[u] = read[u]
    BY <2>1, <2>4 DEF IInv, TypeOK
  <2>6. \A u \in Tabs : pc[u] \notin Early => pc'[u] \notin Early /\ field'[u] = field[u]
    BY <1>1, <2>2 DEF Early, Before
  <2>7. Among(NewUser.tokens) = {}
    BY DEF NewUser, Among
  <2>8. /\ DOMAIN users' \subseteq Nameable /\ \A b \in DOMAIN users' : users'[b] \in User
        /\ stamps' \in Nat /\ overtaken' \subseteq Tabs
        /\ Stamped' /\ Given'
    BY <2>3, <2>5, <2>6, <2>7, WriteKeeps DEF new
  <2>9. TypeOK'
    BY <1>1, <2>2, <2>5, <2>8 DEF IInv, TypeOK, User
  <2>10. Fresh' /\ FeedbackHonest' /\ Posted'
    BY <1>1, RegistrationAssumption, <2>2 DEF IInv, Fresh, FeedbackHonest, Posted
  <2>11. Carried' /\ Displayed'
    BY <1>1, <2>6, HeldStays
  <2>12. ASSUME NEW u \in Tabs PROVE Reads(u)' /\ Settles(u)'
    <3>1. CASE u = t
      <4>1. users'[a] = NewUser
        BY <2>1, WriteIs
      <4>2. t \notin overtaken
        BY <1>1 DEF IInv, Reading, Reads, Before
      <4>3. t \notin overtaken'
        BY <2>1, <4>2, WriteIs
      <4> QED
        BY <1>1, <2>2, <2>5, <3>1, <4>1, <4>3 DEF Reads, Settles, Before, a, new
    <3>2. CASE u # t
      BY <1>1, <2>2, <2>3, <2>5, <3>2, OthersWrite
    <3> QED
      BY <3>1, <3>2
  <2> QED
    BY <2>8, <2>9, <2>10, <2>11, <2>12 DEF IInv, Reading, StoredUnlessOvertaken, Settles
<1> QED
  BY <1>2, <1>3

(* A user with another stamp and one more token.                           *)
LEMMA MoreTokens ==
    ASSUME NEW user \in User, NEW t \in Tabs, NEW n \in Nat
    PROVE  LET added == [user EXCEPT !.stamp = n, !.tokens = Append(@, t)]
           IN  /\ added \in User /\ added.stamp = n /\ added.id = user.id
               /\ Among(added.tokens) = Among(user.tokens) \cup {t}
<1> DEFINE tokens == Append(user.tokens, t)
           added == [user EXCEPT !.stamp = n, !.tokens = tokens]
<1>1. tokens \in Seq(Tabs) /\ Among(tokens) = Among(user.tokens) \cup {t}
  BY AmongAppend DEF User
<1> HIDE DEF tokens
<1>2. added \in User /\ added.stamp = n /\ added.id = user.id /\ added.tokens = tokens
  BY <1>1 DEF User
<1>3. added = [user EXCEPT !.stamp = n, !.tokens = Append(@, t)]
  BY DEF tokens
<1> HIDE DEF added
<1> QED
  BY <1>1, <1>2, <1>3

(* Adding the claims keeps it: a request that was not overtaken finds the  *)
(* stamp it has read, any other request finds another one.                 *)
LEMMA AddClaimsKeeps == ASSUME IInv, NEW t \in Tabs, AddClaims(t) PROVE IInv'
<1> DEFINE a == field[t]
           user == users[a]
           added == [user EXCEPT !.stamp = stamps + 1, !.tokens = Append(@, t)]
<1>1. pc[t] = "claims" /\ UNCHANGED <<field, classes, read, cookie, shown>>
      /\ \E to \in {"signIn", "failed"} : Goto(t, to)
  BY DEF AddClaims, formVars
<1>2. pc' \in [Tabs -> States] /\ pc'[t] \in {"signIn", "failed"} /\ \A u \in Tabs : u # t => pc'[u] = pc[u]
  BY <1>1, GotoIs DEF States, IInv
<1>3. \A u \in Tabs : pc[u] \notin Early => pc'[u] \notin Early /\ field'[u] = field[u]
  BY <1>1, <1>2 DEF Early, Before
<1>4. Carried' /\ Displayed' /\ Fresh' /\ FeedbackHonest' /\ Posted'
  BY <1>1, <1>2, <1>3, HeldStays DEF IInv, Fresh, FeedbackHonest, Posted
<1>5. \A b \in DOMAIN users : \A u \in Among(users[b].tokens) : pc[u] \notin Early
  BY DEF IInv, Given, AskedFor
<1>6. Kept(t) => t \notin Among(user.tokens)
  BY <1>1, <1>5 DEF Kept, Registered, Early
<1>7. CASE ~(Kept(t) /\ user.stamp = read[t].stamp)
  <2>1. UNCHANGED <<users, stamps, overtaken>>
    BY <1>7 DEF AddClaims, storeVars
  <2>2. TypeOK' /\ Stamped' /\ Given'
    BY <1>1, <1>2, <1>3, <2>1, GivenStays DEF IInv, TypeOK, Stamped, Given
  <2>3. ASSUME NEW u \in Tabs PROVE Reads(u)' /\ Settles(u)'
    <3>1. CASE u = t
      <4>1. Kept(t)' <=> Kept(t)
        BY <1>1, <2>1 DEF Kept, Registered
      <4>2. Kept(t) => t \in overtaken /\ ~Stored(t)
        BY <1>1, <1>6, <1>7 DEF IInv, Reading, Reads, Stored, Among
      <4>3. Stored(t)' <=> Stored(t)
        BY <1>1, <2>1 DEF Stored
      <4> QED
        BY <1>2, <2>1, <3>1, <4>1, <4>2, <4>3 DEF Reads, Settles, Before
    <3>2. CASE u # t
      <4>1. UNCHANGED <<users, overtaken, pc[u], field[u], read[u]>>
        BY <1>1, <1>2, <2>1, <3>2
      <4> QED
        BY <4>1 DEF IInv, Reading, Reads, Settles, StoredUnlessOvertaken, Kept, Stored, Registered
    <3> QED
      BY <3>1, <3>2
  <2> QED
    BY <1>4, <2>2, <2>3 DEF IInv, Reading, StoredUnlessOvertaken, Settles
<1>8. CASE Kept(t) /\ user.stamp = read[t].stamp
  <2>1. Goto(t, "signIn") /\ Write(a, added, {t})
    BY <1>8 DEF AddClaims
  <2>2. pc'[t] = "signIn"
    BY <2>1, GotoIs DEF States, IInv
  <2>3. a \in DOMAIN users /\ user \in User /\ a \in Nameable
        /\ user.id <= stamps /\ user.id \in Nat /\ stamps \in Nat
    BY <1>8 DEF Kept, Registered, IInv, TypeOK, User, Stamped
  <2>4. /\ added \in User /\ added.stamp = stamps + 1 /\ added.id = user.id
        /\ Among(added.tokens) = Among(user.tokens) \cup {t}
    <3>1. user \in User /\ stamps + 1 \in Nat
      BY <2>3
    <3> HIDE DEF user
    <3> QED
      BY <3>1, MoreTokens
  <2>5. Writes(a, added, {t})
    BY <2>1, <2>3, <2>4 DEF Writes, Registered
  <2>6. AskedFor(t, a)'
    BY <1>1, <2>2 DEF AskedFor, Early, Before
  <2> HIDE DEF added
  <2>7. users'[a] = added /\ t \notin overtaken
    <3>1. users'[a] = added
      <4>1. Write(a, added, {t})
        BY <2>1
      <4> HIDE DEF a
      <4> QED
        BY <4>1, WriteIs
    <3> QED
      BY <1>1, <1>8, <3>1 DEF IInv, Reading, Reads
  <2>8. /\ DOMAIN users' \subseteq Nameable /\ \A b \in DOMAIN users' : users'[b] \in User
        /\ stamps' \in Nat /\ overtaken' \subseteq Tabs
        /\ Stamped' /\ Given'
    BY <1>1, <1>3, <2>5, <2>6, WriteKeeps
  <2>9. TypeOK'
    BY <1>1, <1>2, <2>8 DEF IInv, TypeOK, User
  <2>10. ASSUME NEW u \in Tabs PROVE Reads(u)' /\ Settles(u)'
    <3>1. CASE u = t
      <4>1. t \notin overtaken'
        BY <2>1, <2>7, WriteIs
      <4>2. Stored(t)'
        BY <1>1, <2>4, <2>7 DEF Stored, Among
      <4> QED
        BY <2>2, <3>1, <4>1, <4>2 DEF Reads, Settles, Before
    <3>2. CASE u # t
      BY <1>1, <1>2, <2>5, <3>2, OthersWrite
    <3> QED
      BY <3>1, <3>2
  <2> QED
    BY <1>4, <2>8, <2>9, <2>10 DEF IInv, Reading, StoredUnlessOvertaken, Settles
<1> QED
  BY <1>7, <1>8

----------------------------------------------------------------------------
(* The cookies.                                                            *)

(* Neither the store nor a form changes, and only requests past the store  *)
(* move.                                                                   *)
LEMMA CookieKeeps ==
    ASSUME IInv, UNCHANGED <<field, classes, users, stamps, read, overtaken>>,
           pc' \in [Tabs -> States],
           \A u \in Tabs : pc'[u] = pc[u] \/ pc'[u] \notin Early \cup {"signIn"},
           cookie' \in [Browsers -> SUBSET Held], shown' \in [Tabs -> SUBSET Display],
           Carried', Displayed'
    PROVE  IInv'
<1>1. TypeOK' /\ Fresh' /\ Stamped' /\ Posted' /\ FeedbackHonest'
  BY DEF IInv, TypeOK, Held, Display, Fresh, Stamped, Posted, FeedbackHonest, Early, Before
<1>2. Reading' /\ StoredUnlessOvertaken'
  BY DEF IInv, Reading, Reads, StoredUnlessOvertaken, Kept, Stored, Registered, Early
<1>3. Given'
  <2>1. \A u \in Tabs : pc[u] \notin Early => pc'[u] \notin Early /\ field'[u] = field[u]
    OBVIOUS
  <2> QED
    BY <2>1, GivenStays DEF Given
<1> QED
  BY <1>1, <1>2, <1>3 DEF IInv

(* One browser is given another principal, or none.                        *)
LEMMA CookieIs ==
    ASSUME IInv, NEW b \in Browsers, NEW c \in SUBSET Held, cookie' = [cookie EXCEPT ![b] = c]
    PROVE  /\ cookie' \in [Browsers -> SUBSET Held]
           /\ \A d \in Browsers : cookie'[d] = IF d = b THEN c ELSE cookie[d]
  BY DEF IInv, TypeOK, Held

(* The tokens it carries are well placed, when those of the new principal  *)
(* are.                                                                    *)
LEMMA NewCookie ==
    ASSUME IInv, NEW b \in Browsers, NEW c \in SUBSET Held, cookie' = [cookie EXCEPT ![b] = c],
           \A u \in Tabs : pc[u] \notin Early => pc'[u] \notin Early /\ field'[u] = field[u],
           \A p \in c : /\ \A u \in Among(p.tokens) : AskedFor(u, p.address)'
                        /\ p.by = "Index" /\ p.tokens # <<>> => Browser[p.tokens[Len(p.tokens)]] = b
    PROVE  cookie' \in [Browsers -> SUBSET Held] /\ Carried'
<1>1. /\ cookie' \in [Browsers -> SUBSET Held]
      /\ \A d \in Browsers : cookie'[d] = IF d = b THEN c ELSE cookie[d]
  BY CookieIs
<1>2. ASSUME NEW d \in Browsers, d # b, NEW p \in cookie[d], NEW u \in Among(p.tokens)
      PROVE  AskedFor(u, p.address)'
  <2>1. p.tokens \in Seq(Tabs)
    BY DEF IInv, TypeOK
  <2>2. u \in Tabs
    BY <2>1, ElementOfSeq, LenProperties DEF Among
  <2> QED
    BY <2>2, AskedForStays DEF IInv, Carried
<1> QED
  BY <1>1, <1>2 DEF IInv, Carried

(* Without a cookie there is nothing to place.                             *)
LEMMA NoCookie ==
    ASSUME IInv, NEW b \in Browsers, cookie' = [cookie EXCEPT ![b] = {}],
           \A u \in Tabs : pc[u] \notin Early => pc'[u] \notin Early /\ field'[u] = field[u]
    PROVE  cookie' \in [Browsers -> SUBSET Held] /\ Carried'
<1> DEFINE c == {}
<1>1. c \in SUBSET Held /\ cookie' = [cookie EXCEPT ![b] = c] /\ \A p \in c : FALSE
  OBVIOUS
<1> HIDE DEF c
<1> QED
  BY <1>1, NewCookie

(* What is shown stays well placed.                                        *)
LEMMA ShownStays ==
    ASSUME IInv, UNCHANGED shown,
           \A u \in Tabs : pc[u] \notin Early => pc'[u] \notin Early /\ field'[u] = field[u]
    PROVE  shown' \in [Tabs -> SUBSET Display] /\ Displayed'
<1>1. ASSUME NEW t \in Tabs, NEW s \in shown[t] PROVE AskedFor(s.token, s.address)'
  BY AskedForStays DEF IInv, Displayed, TypeOK
<1> QED
  BY <1>1 DEF IInv, Displayed, TypeOK, Display

(* The tokens the store holds are those of tabs that asked for them.       *)
LEMMA TokensAsked ==
    ASSUME IInv
    PROVE  \A a \in DOMAIN users : \A u \in Among(users[a].tokens) : u \in Tabs /\ AskedFor(u, a)
<1>1. ASSUME NEW a \in DOMAIN users, NEW u \in Among(users[a].tokens) PROVE u \in Tabs
  <2>1. users[a].tokens \in Seq(Tabs)
    BY DEF IInv, TypeOK
  <2> QED
    BY <2>1, ElementOfSeq, LenProperties DEF Among
<1> QED
  BY <1>1 DEF IInv, Given

(* Signing in keeps the invariant.                                         *)
LEMMA SignInKeeps == ASSUME IInv, NEW t \in Tabs, SignIn(t) PROVE IInv'
<1> DEFINE b == Browser[t]
           stored == IF Kept(t) THEN users[field[t]].tokens ELSE <<>>
           tokens == Append(stored, t)
           p == [id |-> read[t].id, address |-> field[t], tokens |-> tokens, by |-> "Index"]
<1>1. /\ pc[t] = "signIn" /\ UNCHANGED <<field, classes, users, stamps, overtaken, read, shown>>
      /\ Goto(t, "toRegistered") /\ cookie' = [cookie EXCEPT ![b] = {p}]
  BY DEF SignIn, formVars, storeVars, Principal
<1>2. pc' \in [Tabs -> States] /\ pc'[t] = "toRegistered" /\ \A u \in Tabs : u # t => pc'[u] = pc[u]
  BY <1>1, GotoIs DEF States, IInv
<1>3. \A u \in Tabs : pc[u] \notin Early => pc'[u] \notin Early /\ field'[u] = field[u]
  BY <1>1, <1>2 DEF Early, Before
<1>4. b \in Browsers /\ field[t] \in Addresses /\ read[t].id \in Nat
  BY <1>1, RegistrationAssumption DEF IInv, Posted, TypeOK
<1>5. stored \in Seq(Tabs) /\ \A u \in Among(stored) : AskedFor(u, field[t])'
  <2>1. CASE Kept(t)
    <3>1. field[t] \in DOMAIN users /\ stored = users[field[t]].tokens
      BY <2>1 DEF Kept, Registered
    <3> HIDE DEF stored
    <3>2. stored \in Seq(Tabs)
      BY <3>1 DEF IInv, TypeOK
    <3>3. ASSUME NEW u \in Among(stored) PROVE AskedFor(u, field[t])'
      <4>1. u \in Among(users[field[t]].tokens)
        BY <3>1, <3>3
      <4>2. u \in Tabs /\ field[u] = field[t] /\ pc[u] \notin Early
        BY <3>1, <4>1, TokensAsked DEF AskedFor
      <4> QED
        BY <1>1, <1>3, <4>2 DEF AskedFor
    <3> QED
      BY <3>2, <3>3
  <2>2. CASE ~Kept(t)
    BY <2>2, EmptySeq DEF Among
  <2> QED
    BY <2>1, <2>2
<1>6. AskedFor(t, field[t])'
  BY <1>1, <1>2 DEF AskedFor, Early, Before
<1> HIDE DEF stored
<1>7. tokens \in Seq(Tabs) /\ Among(tokens) = Among(stored) \cup {t} /\ tokens[Len(tokens)] = t
  BY <1>5, AmongAppend
<1> HIDE DEF tokens
<1>8. /\ {p} \in SUBSET Held
      /\ p.address = field[t] /\ p.tokens = tokens
  BY <1>4, <1>7 DEF Held, Pages
<1> HIDE DEF p
<1>9. cookie' \in [Browsers -> SUBSET Held] /\ Carried'
  <2> DEFINE c == {p}
  <2>1. \A q \in c : /\ \A u \in Among(q.tokens) : AskedFor(u, q.address)'
                     /\ q.by = "Index" /\ q.tokens # <<>> => Browser[q.tokens[Len(q.tokens)]] = b
    BY <1>1, <1>5, <1>6, <1>7, <1>8 DEF AskedFor
  <2>2. c \in SUBSET Held /\ cookie' = [cookie EXCEPT ![b] = c]
    BY <1>1, <1>8
  <2> HIDE DEF b, c
  <2> QED
    BY <1>3, <1>4, <2>1, <2>2, NewCookie
<1>10. shown' \in [Tabs -> SUBSET Display] /\ Displayed'
  BY <1>1, <1>3, ShownStays
<1> QED
  BY <1>1, <1>2, <1>9, <1>10, CookieKeeps DEF Early, Before

(* Losing a cookie keeps it.                                               *)
LEMMA ExpireKeeps == ASSUME IInv, NEW b \in Browsers, Expire(b) PROVE IInv'
<1>1. /\ UNCHANGED <<pc, field, classes, users, stamps, overtaken, read, shown>>
      /\ cookie' = [cookie EXCEPT ![b] = {}]
  BY DEF Expire, formVars, storeVars, SignedOut
<1>2. cookie' \in [Browsers -> SUBSET Held] /\ Carried'
  BY <1>1, NoCookie
<1>3. pc' \in [Tabs -> States] /\ shown' \in [Tabs -> SUBSET Display] /\ Displayed'
  BY <1>1, ShownStays DEF IInv, TypeOK
<1> QED
  BY <1>1, <1>2, <1>3, CookieKeeps

(* Showing a token keeps it.                                               *)
LEMMA ShowKeeps == ASSUME IInv, NEW t \in Tabs, OnGetRegistered(t) PROVE IInv'
<1> DEFINE b == Browser[t]
<1>1. /\ UNCHANGED <<field, classes, users, stamps, overtaken, read>>
      /\ pc[t] = "toRegistered" /\ \E to \in {"toIndex", "shown"} : Goto(t, to)
  BY DEF OnGetRegistered, formVars, storeVars
<1>2. pc' \in [Tabs -> States] /\ \A u \in Tabs : pc'[u] = pc[u] \/ pc'[u] \in {"toIndex", "shown"}
  BY <1>1, GotoIs DEF States, IInv
<1>3. b \in Browsers
  BY RegistrationAssumption
<1>4. \A u \in Tabs : pc[u] \notin Early => pc'[u] \notin Early /\ field'[u] = field[u]
  BY <1>1, <1>2 DEF Early, Before
<1>5. cookie' \in [Browsers -> SUBSET Held] /\ Carried'
  <2>1. UNCHANGED cookie \/ cookie' = [cookie EXCEPT ![b] = {}]
    BY DEF OnGetRegistered, SignedOut
  <2>2. CASE UNCHANGED cookie
    <3>1. \A d \in Browsers : cookie' = [cookie EXCEPT ![d] = cookie[d]] /\ cookie[d] \in SUBSET Held
      BY <2>2 DEF IInv, TypeOK, Held
    <3>2. ASSUME NEW p \in cookie[b], NEW u \in Among(p.tokens) PROVE AskedFor(u, p.address)'
      <4>1. p.tokens \in Seq(Tabs)
        BY <1>3 DEF IInv, TypeOK
      <4>2. u \in Tabs
        BY <4>1, ElementOfSeq, LenProperties DEF Among
      <4> QED
        BY <1>3, <1>4, <4>2, AskedForStays DEF IInv, Carried
    <3>3. \A p \in cookie[b] : p.by = "Index" /\ p.tokens # <<>> => Browser[p.tokens[Len(p.tokens)]] = b
      BY <1>3 DEF IInv, Carried
    <3> DEFINE c == cookie[b]
    <3>4. cookie' = [cookie EXCEPT ![b] = c] /\ c \in SUBSET Held
      BY <1>3, <3>1
    <3>5. \A p \in c : /\ \A u \in Among(p.tokens) : AskedFor(u, p.address)'
                       /\ p.by = "Index" /\ p.tokens # <<>> => Browser[p.tokens[Len(p.tokens)]] = b
      BY <3>2, <3>3
    <3> HIDE DEF b, c
    <3> QED
      BY <1>3, <1>4, <3>4, <3>5, NewCookie
  <2>3. CASE cookie' = [cookie EXCEPT ![b] = {}]
    <3> HIDE DEF b
    <3> QED
      BY <1>3, <1>4, <2>3, NoCookie
  <2> QED
    BY <2>1, <2>2, <2>3
<1>6. shown' \in [Tabs -> SUBSET Display] /\ Displayed'
  <2>1. CASE UNCHANGED shown
    BY <1>4, <2>1, ShownStays
  <2>2. CASE \E p \in cookie[b] :
               /\ p.tokens # <<>>
               /\ shown' = [shown EXCEPT ![t] =
                    {[address |-> p.address, token |-> p.tokens[Len(p.tokens)], by |-> p.by]}]
    <3>1. PICK p \in cookie[b] :
               /\ p.tokens # <<>>
               /\ shown' = [shown EXCEPT ![t] =
                    {[address |-> p.address, token |-> p.tokens[Len(p.tokens)], by |-> p.by]}]
      BY <2>2
    <3> DEFINE token == p.tokens[Len(p.tokens)]
               s == [address |-> p.address, token |-> token, by |-> p.by]
    <3>2. p.tokens \in Seq(Tabs) /\ p.address \in Addresses /\ p.by \in Pages
      BY <1>3, <3>1 DEF IInv, TypeOK
    <3>3. token \in Tabs /\ token \in Among(p.tokens)
      <4>1. Len(p.tokens) \in Nat \ {0} /\ DOMAIN p.tokens = 1 .. Len(p.tokens)
        BY <3>1, <3>2, LenProperties, EmptySeq
      <4>2. Len(p.tokens) \in 1 .. Len(p.tokens)
        BY <4>1
      <4> QED
        BY <3>2, <4>1, <4>2, ElementOfSeq DEF Among
    <3>4. AskedFor(token, p.address)' /\ (p.by = "Index" => Browser[token] = b)
      <4>1. AskedFor(token, p.address) /\ (p.by = "Index" => Browser[token] = b)
        BY <1>3, <3>1, <3>3 DEF IInv, Carried
      <4> HIDE DEF token
      <4> QED
        BY <1>4, <3>3, <4>1, AskedForStays
    <3> HIDE DEF token
    <3>5. s \in Display /\ s.address = p.address /\ s.token = token /\ s.by = p.by
      BY <3>2, <3>3 DEF Display
    <3>6. shown' = [shown EXCEPT ![t] = {s}]
      BY <3>1 DEF token
    <3> HIDE DEF s
    <3>7. shown' \in [Tabs -> SUBSET Display] /\ \A u \in Tabs : shown'[u] = IF u = t THEN {s} ELSE shown[u]
      BY <3>5, <3>6 DEF IInv, TypeOK, Display
    <3>8. ASSUME NEW u \in Tabs, NEW r \in shown'[u]
          PROVE  AskedFor(r.token, r.address)' /\ (r.by = "Index" => Browser[r.token] = Browser[u])
      <4>1. CASE u = t
        BY <3>4, <3>5, <3>7, <3>8, <4>1
      <4>2. CASE u # t
        <5>1. r \in shown[u] /\ r.token \in Tabs
          BY <3>7, <3>8, <4>2 DEF IInv, TypeOK
        <5> QED
          BY <1>4, <5>1, AskedForStays DEF IInv, Displayed
      <4> QED
        BY <4>1, <4>2
    <3> QED
      BY <3>7, <3>8 DEF Displayed
  <2> QED
    BY <2>1, <2>2 DEF OnGetRegistered, ReversedFirst
<1> QED
  BY <1>1, <1>2, <1>5, <1>6, CookieKeeps DEF Early, Before

----------------------------------------------------------------------------
(* The account pages.                                                      *)

(* A registration keeps the invariant: nobody has read the new user yet.   *)
LEMMA RegisterKeeps ==
    ASSUME IInv, NEW b \in Browsers, NEW a \in Addresses, AccountRegister(b, a)
    PROVE  IInv'
<1> DEFINE p == [id |-> NewUser.id, address |-> a, tokens |-> <<>>, by |-> "account"]
<1>1. /\ a \in Nameable /\ ~Registered(a) /\ Write(a, NewUser, {})
      /\ cookie' = [cookie EXCEPT ![b] = {p}]
      /\ UNCHANGED <<pc, field, classes, read, shown>>
  BY DEF AccountRegister, formVars, Principal, Nobody
<1>2. Writes(a, NewUser, {})
  BY <1>1, NewUserWrites
<1>3. \A u \in Tabs : pc[u] \notin Early => pc'[u] \notin Early /\ field'[u] = field[u]
  BY <1>1
<1>4. /\ DOMAIN users' \subseteq Nameable /\ \A c \in DOMAIN users' : users'[c] \in User
      /\ stamps' \in Nat /\ overtaken' \subseteq Tabs
      /\ Stamped' /\ Given'
  BY <1>1, <1>2, <1>3, WriteKeeps
<1>5. {p} \in SUBSET Held /\ p.tokens = <<>> /\ Among(p.tokens) = {}
  BY EmptySeq DEF Held, Pages, Among, NewUser, IInv, TypeOK
<1> HIDE DEF p
<1>6. cookie' \in [Browsers -> SUBSET Held] /\ Carried'
  <2> DEFINE c == {p}
  <2>1. /\ c \in SUBSET Held /\ cookie' = [cookie EXCEPT ![b] = c]
        /\ \A q \in c : q.tokens = <<>> /\ Among(q.tokens) = {}
    BY <1>1, <1>5
  <2> HIDE DEF c
  <2>2. \A q \in c : /\ \A u \in Among(q.tokens) : AskedFor(u, q.address)'
                     /\ q.by = "Index" /\ q.tokens # <<>> => Browser[q.tokens[Len(q.tokens)]] = b
    BY <2>1
  <2> QED
    BY <1>3, <2>1, <2>2, NewCookie
<1>7. Displayed'
  BY <1>1, <1>3, ShownStays
<1>8. TypeOK' /\ Fresh' /\ FeedbackHonest' /\ Posted'
  BY <1>1, <1>4, <1>6 DEF IInv, TypeOK, User, Held, Fresh, FeedbackHonest, Posted
<1>9. \A u \in Tabs : Reads(u)' /\ Settles(u)'
  BY <1>1, <1>2, OthersWrite
<1> QED
  BY <1>4, <1>6, <1>7, <1>8, <1>9 DEF IInv, Reading, StoredUnlessOvertaken, Settles

(* Signing in on an account page keeps it.                                 *)
LEMMA AccountSignInKeeps ==
    ASSUME IInv, NEW b \in Browsers, NEW a \in Addresses, AccountSignIn(b, a)
    PROVE  IInv'
<1> DEFINE p == [id |-> users[a].id, address |-> a, tokens |-> users[a].tokens, by |-> "account"]
<1>1. /\ a \in DOMAIN users /\ cookie' = [cookie EXCEPT ![b] = {p}]
      /\ UNCHANGED <<pc, field, classes, users, stamps, overtaken, read, shown>>
  BY DEF AccountSignIn, Registered, formVars, storeVars, Principal
<1>2. \A u \in Tabs : pc[u] \notin Early => pc'[u] \notin Early /\ field'[u] = field[u]
  BY <1>1
<1>3. \A u \in Among(users[a].tokens) : AskedFor(u, a)'
  BY <1>1, <1>2, GivenStays
<1>4. /\ {p} \in SUBSET Held
      /\ p.address = a /\ p.tokens = users[a].tokens /\ p.by # "Index"
  BY <1>1 DEF Held, Pages, IInv, TypeOK
<1> HIDE DEF p
<1>5. cookie' \in [Browsers -> SUBSET Held] /\ Carried'
  <2> DEFINE c == {p}
  <2>1. /\ c \in SUBSET Held /\ cookie' = [cookie EXCEPT ![b] = c]
        /\ \A q \in c : q.by # "Index" /\ \A u \in Among(q.tokens) : AskedFor(u, q.address)'
    BY <1>1, <1>3, <1>4 DEF AskedFor
  <2> HIDE DEF c
  <2>2. \A q \in c : /\ \A u \in Among(q.tokens) : AskedFor(u, q.address)'
                     /\ q.by = "Index" /\ q.tokens # <<>> => Browser[q.tokens[Len(q.tokens)]] = b
    BY <2>1
  <2> QED
    BY <1>2, <2>1, <2>2, NewCookie
<1>6. pc' \in [Tabs -> States] /\ shown' \in [Tabs -> SUBSET Display] /\ Displayed'
  BY <1>1, <1>2, ShownStays DEF IInv, TypeOK
<1> QED
  BY <1>1, <1>5, <1>6, CookieKeeps

(* An update of a user keeps it.                                           *)
LEMMA UpdateKeeps == ASSUME IInv, NEW a \in Addresses, AccountUpdate(a) PROVE IInv'
<1> DEFINE updated == [users[a] EXCEPT !.stamp = stamps + 1]
<1>1. /\ Registered(a) /\ Write(a, updated, {})
      /\ UNCHANGED <<pc, field, classes, read, cookie, shown>>
  BY DEF AccountUpdate, formVars, Nobody
<1>2. \A u \in Tabs : pc[u] \notin Early => pc'[u] \notin Early /\ field'[u] = field[u]
  BY <1>1
<1>3. users[a] \in User /\ a \in Nameable /\ stamps \in Nat /\ users[a].id <= stamps /\ users[a].id \in Nat
  BY <1>1 DEF Registered, IInv, TypeOK, User, Stamped
<1>4. /\ updated \in User /\ updated.stamp = stamps + 1 /\ updated.id = users[a].id
      /\ updated.tokens = users[a].tokens
  <2>1. updated = [id |-> users[a].id, stamp |-> stamps + 1, tokens |-> users[a].tokens]
    BY <1>3 DEF User
  <2> QED
    BY <1>3, <2>1 DEF User
<1> HIDE DEF updated
<1>5. Writes(a, updated, {})
  BY <1>1, <1>3, <1>4 DEF Writes
<1>6. /\ DOMAIN users' \subseteq Nameable /\ \A c \in DOMAIN users' : users'[c] \in User
      /\ stamps' \in Nat /\ overtaken' \subseteq Tabs
      /\ Stamped' /\ Given'
  BY <1>1, <1>2, <1>5, WriteKeeps
<1>7. Carried' /\ Displayed'
  BY <1>1, <1>2, HeldStays
<1>8. TypeOK' /\ Fresh' /\ FeedbackHonest' /\ Posted'
  BY <1>1, <1>6 DEF IInv, TypeOK, User, Fresh, FeedbackHonest, Posted
<1>9. \A u \in Tabs : Reads(u)' /\ Settles(u)'
  BY <1>1, <1>5, OthersWrite
<1> QED
  BY <1>6, <1>7, <1>8, <1>9 DEF IInv, Reading, StoredUnlessOvertaken, Settles

(* A deletion keeps it.                                                    *)
LEMMA DeleteKeeps ==
    ASSUME IInv, NEW b \in Browsers, NEW a \in Addresses, AccountDelete(b, a)
    PROVE  IInv'
<1>1. /\ users' = [c \in DOMAIN users \ {a} |-> users[c]] /\ cookie' = [cookie EXCEPT ![b] = {}]
      /\ UNCHANGED <<pc, field, classes, stamps, overtaken, read, shown>>
  BY DEF AccountDelete, formVars, SignedOut
<1>2. /\ DOMAIN users' \subseteq DOMAIN users
      /\ \A c \in DOMAIN users' : users'[c] = users[c]
  BY <1>1
<1>3. \A u \in Tabs : pc[u] \notin Early => pc'[u] \notin Early /\ field'[u] = field[u]
  BY <1>1
<1>4. cookie' \in [Browsers -> SUBSET Held] /\ Carried' /\ Displayed'
  BY <1>1, <1>3, NoCookie, ShownStays
<1>5. TypeOK' /\ Fresh' /\ FeedbackHonest' /\ Posted'
  BY <1>1, <1>2, <1>4 DEF IInv, TypeOK, Held, Fresh, FeedbackHonest, Posted
<1>6. Stamped'
  BY <1>1, <1>2 DEF IInv, Stamped
<1>7. Given'
  BY <1>2, <1>3, GivenStays DEF Given
<1>8. \A u \in Tabs : Kept(u)' => Kept(u) /\ users'[field'[u]] = users[field[u]]
  BY <1>1, <1>2 DEF Kept, Registered
<1>9. \A u \in Tabs : Kept(u)' => (Stored(u)' <=> Stored(u))
  BY <1>8 DEF Stored
<1>10. Reading' /\ StoredUnlessOvertaken'
  <2>1. ASSUME NEW u \in Tabs PROVE Reads(u)' /\ Settles(u)'
    <3>1. Reads(u) /\ Settles(u)
      BY DEF IInv, Reading, StoredUnlessOvertaken, Settles
    <3> QED
      BY <1>1, <1>8, <1>9, <3>1 DEF Reads, Settles
  <2> QED
    BY <2>1 DEF Reading, StoredUnlessOvertaken, Settles
<1> QED
  BY <1>4, <1>5, <1>6, <1>7, <1>10 DEF IInv

----------------------------------------------------------------------------
(* Every reachable state satisfies the invariant.                          *)
LEMMA Invariance == Spec => []IInv
<1>1. Init => IInv
  <2> SUFFICES ASSUME Init PROVE IInv
    OBVIOUS
  <2>1. TypeOK
    BY DEF Init, TypeOK, States, Empty, SignedOut
  <2>2. Fresh /\ Stamped /\ Posted /\ Given /\ Carried /\ Displayed
    BY DEF Init, Fresh, Stamped, Posted, Given, Carried, Displayed, SignedOut
  <2>3. FeedbackHonest /\ Reading /\ StoredUnlessOvertaken
    BY DEF Init, FeedbackHonest, Reading, Reads, Before, StoredUnlessOvertaken
  <2> QED
    BY <2>1, <2>2, <2>3 DEF IInv
<1>2. IInv /\ [Next]_vars => IInv'
  <2> SUFFICES ASSUME IInv, [Next]_vars PROVE IInv'
    OBVIOUS
  <2>1. CASE UNCHANGED vars
    <3>1. UNCHANGED <<pc, field, classes, users, stamps, read, cookie, shown, overtaken>>
      BY <2>1 DEF vars
    <3>2. TypeOK' /\ Fresh' /\ Stamped' /\ Posted' /\ FeedbackHonest'
      BY <3>1 DEF IInv, TypeOK, Fresh, Stamped, Posted, FeedbackHonest
    <3>3. Given' /\ Carried' /\ Displayed'
      BY <3>1 DEF IInv, Given, Carried, Displayed, AskedFor
    <3>4. Reading' /\ StoredUnlessOvertaken'
      BY <3>1 DEF IInv, Reading, Reads, StoredUnlessOvertaken, Kept, Stored, Registered
    <3> QED
      BY <3>2, <3>3, <3>4 DEF IInv
  <2> QED
    BY <2>1, LocalKeeps, InsertKeeps, AddClaimsKeeps, SignInKeeps, ShowKeeps, ExpireKeeps,
       RegisterKeeps, AccountSignInKeeps, UpdateKeeps, DeleteKeeps
       DEF Next, Local
<1> QED
  BY <1>1, <1>2, PTL DEF Spec

(* Every variable has its type: only addresses Identity accepts are in the *)
(* store.                                                                  *)
THEOREM TypeCorrect == Spec => []TypeOK
<1>1. IInv => TypeOK
  BY DEF IInv
<1> QED
  BY <1>1, Invariance, PTL

(* The feedback is about the text in the input.                            *)
THEOREM FeedbackIsHonest == Spec => []FeedbackHonest
<1>1. IInv => FeedbackHonest
  BY DEF IInv
<1> QED
  BY <1>1, Invariance, PTL

(* Whoever is shown a token sees it with the address it was requested for, *)
(* and whom Index has signed in, has requested it in the same browser.     *)
THEOREM TokenIsOwn == Spec => []ShownIsOwn
<1>1. IInv => ShownIsOwn
  BY DEF IInv, Displayed, AskedFor, ShownIsOwn
<1> QED
  BY <1>1, Invariance, PTL

(* A token that is handed out is stored, exactly unless somebody else has  *)
(* written the user since it was read, as long as it is not deleted.       *)
THEOREM TokenStored == Spec => []StoredUnlessOvertaken
<1>1. IInv => StoredUnlessOvertaken
  BY DEF IInv
<1> QED
  BY <1>1, Invariance, PTL
=============================================================================
