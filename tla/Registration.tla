---------------------------- MODULE Registration ----------------------------
(***************************************************************************)
(* The token site: the registration form with the feedback site.js gives   *)
(* while an address is typed, the handlers of the pages Index and          *)
(* Registered, and the user store.                                         *)
(*                                                                         *)
(* Every tab opens the site once and may register once; the token it is    *)
(* given is named after it.  The tabs of one browser share its cookie.     *)
(* Handlers of several tabs run concurrently on the server and meet in the *)
(* user store of ASP.NET Identity: the name of a user is unique, every     *)
(* write gives a user a concurrency stamp never used before, and it is     *)
(* only updated when its stamp is the one that was read.                   *)
(*                                                                         *)
(* The account pages that come with Identity (AddDefaultIdentity,          *)
(* MapRazorPages) work on the same store: they register users, sign them   *)
(* in, update and delete them.  Their passwords are left out, so that any  *)
(* browser may sign in as any registered user.                             *)
(***************************************************************************)
EXTENDS Naturals, Sequences

CONSTANTS Tabs, Browsers, Browser, \* Browser[t]: the browser of a tab
          Addresses,  \* what may be typed, the empty text not included
          Valid,      \* those that match the pattern of the form and the model
          Nameable,   \* those Identity accepts as a user name
          MaxStamps   \* bound: no account page writes a user after so many writes

Empty == ""

ASSUME RegistrationAssumption ==
    /\ Browser \in [Tabs -> Browsers]
    /\ Nameable \subseteq Addresses /\ Valid \subseteq Addresses
    /\ Empty \notin Addresses
    /\ MaxStamps \in Nat

VARIABLES pc,       \* what each tab shows or its request is about to do
          field,    \* the text in its email input
          classes,  \* the feedback classes of that input
          users,    \* the store: id, stamp and tokens of the user of an address
          stamps,   \* how many stamps have been given
          read,     \* the id and the stamp of the user a request has read
          cookie,   \* the principal each browser holds, if any
          shown,    \* the address and the token a tab shows, if any, and what
                    \* kind of page made the principal that carried them
          overtaken \* history: the requests whose user somebody else wrote
                    \* between their reading it and their adding the token

vars == <<pc, field, classes, users, stamps, read, cookie, shown, overtaken>>
formVars == <<field, classes>>
storeVars == <<users, stamps, overtaken>>
serverVars == <<storeVars, read, cookie, shown>>

SignedOut == {} \* the value of cookie[b] without a cookie, and with one, the
                \* tokens oldest first:
Principal(id, address, tokens, by) ==
    {[id |-> id, address |-> address, tokens |-> tokens, by |-> by]}

Pages == {"Index", "account"} \* what makes a principal

States == {"closed", "loading", "form", "find", "create", "insert", "claims", "signIn",
           "toRegistered", "toIndex", "shown", "page", "failed"}

Init ==
    /\ pc = [t \in Tabs |-> "closed"]
    /\ field = [t \in Tabs |-> Empty]
    /\ classes = [t \in Tabs |-> {}]
    /\ users = [a \in {} |-> [id |-> 0, stamp |-> 0, tokens |-> <<>>]]
    /\ stamps = 0
    /\ read = [t \in Tabs |-> [id |-> 0, stamp |-> 0]]
    /\ cookie = [b \in Browsers |-> SignedOut]
    /\ shown = [t \in Tabs |-> {}]
    /\ overtaken = {}

Goto(t, state) == pc' = [pc EXCEPT ![t] = state]
Registered(a) == a \in DOMAIN users

(* A user is written, by a request of tab t or, with nobody, by an account *)
(* page.                                                                   *)
Nobody == {}
WithUser(a, user) == [b \in DOMAIN users \cup {a} |-> IF b = a THEN user ELSE users[b]]
Write(a, user, writer) ==
    /\ users' = WithUser(a, user)
    /\ stamps' = stamps + 1
    /\ overtaken' = overtaken \cup {u \in Tabs \ writer : pc[u] = "claims" /\ field[u] = a}
NewUser == [id |-> stamps + 1, stamp |-> stamps + 1, tokens |-> <<>>]

-----------------------------------------------------------------------------
(* The page Index: OnGet, and the input handler of site.js, which is bound *)
(* when the document is ready.                                             *)
Open(t) ==
    /\ pc[t] = "closed"
    /\ Goto(t, IF cookie[Browser[t]] # SignedOut THEN "toRegistered" ELSE "loading")
    /\ UNCHANGED <<formVars, serverVars>>

Ready(t) ==
    /\ pc[t] = "loading"
    /\ Goto(t, "form")
    /\ UNCHANGED <<formVars, serverVars>>

TypeUnheard(t, text) ==
    /\ pc[t] = "loading"
    /\ field' = [field EXCEPT ![t] = text]
    /\ UNCHANGED <<pc, classes, serverVars>>

CheckValidity(text) == text \in Valid

(* The class is added without removing the one before.                     *)
FeedbackAdded(t, text) ==
    IF text = Empty THEN {}
    ELSE classes[t] \cup {IF CheckValidity(text) THEN "is-valid" ELSE "is-invalid"}

Feedback(t, text) ==
    IF text = Empty THEN {}
    ELSE {IF CheckValidity(text) THEN "is-valid" ELSE "is-invalid"}

OnInput(t, text) ==
    /\ pc[t] = "form"
    /\ field' = [field EXCEPT ![t] = text]
    /\ classes' = [classes EXCEPT ![t] = Feedback(t, text)]
    /\ UNCHANGED <<pc, serverVars>>

-----------------------------------------------------------------------------
(* OnPostAsync, cut at its awaits.  The server checks the model again, so  *)
(* that it does not matter whether the browser has checked the input.      *)
Post(t) ==
    /\ pc[t] \in {"loading", "form"}
    /\ Goto(t, IF field[t] \in Valid THEN "find" ELSE "page")
    /\ UNCHANGED <<formVars, serverVars>>

FindByEmail(t) ==
    /\ pc[t] = "find"
    /\ IF Registered(field[t])
       THEN /\ Goto(t, "claims")
            /\ read' = [read EXCEPT ![t] = [id |-> users[field[t]].id,
                                           stamp |-> users[field[t]].stamp]]
       ELSE Goto(t, "create") /\ UNCHANGED read
    /\ UNCHANGED <<formVars, storeVars, cookie, shown>>

(* CreateAsync validates the user and then inserts it; the insertion of a  *)
(* name that has come to exist in between throws.  First without the check *)
(* of the characters of the name.                                          *)
ValidateUniqueOnly(t) ==
    /\ pc[t] = "create"
    /\ Goto(t, IF ~Registered(field[t]) THEN "insert" ELSE "toIndex")
    /\ UNCHANGED <<formVars, serverVars>>

Validate(t) ==
    /\ pc[t] = "create"
    /\ Goto(t, IF field[t] \in Nameable /\ ~Registered(field[t]) THEN "insert" ELSE "toIndex")
    /\ UNCHANGED <<formVars, serverVars>>

Insert(t) ==
    /\ pc[t] = "insert"
    /\ IF Registered(field[t])
       THEN Goto(t, "failed") /\ UNCHANGED <<storeVars, read>>
       ELSE /\ Goto(t, "claims")
            /\ Write(field[t], NewUser, {t})
            /\ read' = [read EXCEPT ![t] = [id |-> NewUser.id, stamp |-> NewUser.stamp]]
    /\ UNCHANGED <<formVars, cookie, shown>>

(* NewAuthorizationClaims has found no token.                              *)
NoToken(t) ==
    /\ pc[t] = "claims"
    /\ Goto(t, "page")
    /\ UNCHANGED <<formVars, serverVars>>

(* The user a request has read is in the store, though perhaps written     *)
(* since.                                                                  *)
Kept(t) == Registered(field[t]) /\ users[field[t]].id = read[t].id

(* The claims are made and never given to the store.                       *)
AddClaimsForgotten(t) ==
    /\ pc[t] = "claims"
    /\ Goto(t, "signIn")
    /\ UNCHANGED <<formVars, serverVars>>

(* A failed result, when the user has another stamp by now or is gone, is  *)
(* ignored; of a user that is gone the store may also throw.               *)
AddClaims(t) ==
    /\ pc[t] = "claims"
    /\ IF Kept(t) /\ users[field[t]].stamp = read[t].stamp
       THEN /\ Write(field[t], [users[field[t]] EXCEPT !.stamp = stamps + 1,
                                                      !.tokens = Append(@, t)], {t})
            /\ Goto(t, "signIn")
       ELSE /\ UNCHANGED storeVars
            /\ \/ Goto(t, "signIn")
               \/ ~Kept(t) /\ Goto(t, "failed")
    /\ UNCHANGED <<formVars, read, cookie, shown>>

(* The principal has the claims of the store, then those of this request.  *)
SignIn(t) ==
    LET stored == IF Kept(t) THEN users[field[t]].tokens ELSE <<>>
    IN  /\ pc[t] = "signIn"
        /\ cookie' = [cookie EXCEPT ![Browser[t]] =
                        Principal(read[t].id, field[t], Append(stored, t), "Index")]
        /\ Goto(t, "toRegistered")
        /\ UNCHANGED <<formVars, storeVars, read, shown>>

-----------------------------------------------------------------------------
(* The page Registered: the last token of the principal.                   *)
FirstToken(tokens) == tokens[1]
ReversedFirst(tokens) == tokens[Len(tokens)]

OnGetRegistered(t) ==
    LET b == Browser[t]
    IN  /\ pc[t] = "toRegistered"
        /\ \/ /\ cookie[b] = SignedOut
              /\ Goto(t, "toIndex")
              /\ UNCHANGED <<cookie, shown>>
           \/ /\ \E p \in cookie[b] : p.tokens = <<>>
              /\ cookie' = [cookie EXCEPT ![b] = SignedOut]
              /\ Goto(t, "toIndex")
              /\ UNCHANGED shown
           \/ \E p \in cookie[b] :
                /\ p.tokens # <<>>
                /\ shown' = [shown EXCEPT ![t] = {[address |-> p.address,
                                                  token |-> ReversedFirst(p.tokens),
                                                  by |-> p.by]}]
                /\ Goto(t, "shown")
                /\ UNCHANGED cookie
        /\ UNCHANGED <<formVars, storeVars, read>>

(* Two minutes later, or when the user signs out.                          *)
Expire(b) ==
    /\ cookie[b] # SignedOut
    /\ cookie' = [cookie EXCEPT ![b] = SignedOut]
    /\ UNCHANGED <<pc, formVars, storeVars, read, shown>>

-----------------------------------------------------------------------------
(* The account pages.  Who registers there is signed in, with a new user's *)
(* claims; a login, or a page that signs in afresh, takes those of the     *)
(* store; ConfirmEmail and the pages of Manage write the user without      *)
(* touching its claims; DeletePersonalData removes both and signs out.     *)
AccountRegister(b, a) ==
    /\ stamps < MaxStamps
    /\ a \in Nameable /\ ~Registered(a)
    /\ Write(a, NewUser, Nobody)
    /\ cookie' = [cookie EXCEPT ![b] = Principal(NewUser.id, a, <<>>, "account")]
    /\ UNCHANGED <<pc, formVars, read, shown>>

AccountSignIn(b, a) ==
    /\ Registered(a)
    /\ cookie' = [cookie EXCEPT ![b] = Principal(users[a].id, a, users[a].tokens, "account")]
    /\ UNCHANGED <<pc, formVars, storeVars, read, shown>>

AccountUpdate(a) ==
    /\ stamps < MaxStamps
    /\ Registered(a)
    /\ Write(a, [users[a] EXCEPT !.stamp = stamps + 1], Nobody)
    /\ UNCHANGED <<pc, formVars, read, cookie, shown>>

AccountDelete(b, a) ==
    /\ Registered(a)
    /\ \E p \in cookie[b] : p.id = users[a].id
    /\ users' = [c \in DOMAIN users \ {a} |-> users[c]]
    /\ cookie' = [cookie EXCEPT ![b] = SignedOut]
    /\ UNCHANGED <<pc, formVars, stamps, overtaken, read, shown>>

Next ==
    \/ \E t \in Tabs :
         \/ Open(t) \/ Ready(t) \/ Post(t)
         \/ \E text \in Addresses \cup {Empty} : TypeUnheard(t, text) \/ OnInput(t, text)
         \/ FindByEmail(t) \/ Validate(t) \/ Insert(t) \/ NoToken(t)
         \/ AddClaims(t) \/ SignIn(t) \/ OnGetRegistered(t)
    \/ \E b \in Browsers : Expire(b)
    \/ \E b \in Browsers, a \in Addresses :
         AccountRegister(b, a) \/ AccountSignIn(b, a) \/ AccountDelete(b, a)
    \/ \E a \in Addresses : AccountUpdate(a)

Spec == Init /\ [][Next]_vars

-----------------------------------------------------------------------------
TypeOK ==
    /\ pc \in [Tabs -> States]
    /\ field \in [Tabs -> Addresses \cup {Empty}]
    /\ classes \in [Tabs -> SUBSET {"is-valid", "is-invalid"}]
    /\ DOMAIN users \subseteq Nameable
    /\ \A a \in DOMAIN users : users[a] \in [id : Nat, stamp : Nat, tokens : Seq(Tabs)]
    /\ stamps \in Nat
    /\ read \in [Tabs -> [id : Nat, stamp : Nat]]
    /\ cookie \in [Browsers -> SUBSET [id : Nat, address : Addresses, tokens : Seq(Tabs), by : Pages]]
    /\ shown \in [Tabs -> SUBSET [address : Addresses, token : Tabs, by : Pages]]
    /\ overtaken \subseteq Tabs

(* The feedback is never about a text that is not there any more: an input *)
(* marked valid would pass its constraints, one marked invalid would not,  *)
(* and none is marked as both (the input handler of site.js).              *)
FeedbackHonest ==
    \A t \in Tabs :
        \/ classes[t] = {}
        \/ field[t] \in Valid /\ classes[t] = {"is-valid"}
        \/ field[t] \in Addresses \ Valid /\ classes[t] = {"is-invalid"}

(* A token is only shown with the address it was requested for, and to     *)
(* whom Index has signed in, it is one requested in the same browser,      *)
(* although the principal also carries the tokens all others were given    *)
(* for that address.  A principal an account page made, from the store     *)
(* alone, may show theirs (SignInWithClaimsAsync, RegisteredModel.OnGet).  *)
ShownIsOwn ==
    \A t \in Tabs : \A s \in shown[t] :
        /\ field[s.token] = s.address
        /\ s.by = "Index" => Browser[s.token] = Browser[t]

(* When a request hands its token out, the token is stored, exactly unless *)
(* somebody else, be it another request or an account page, has written    *)
(* the user between the request's reading it and its adding the claims, or *)
(* has deleted it (FindByEmailAsync, CreateAsync and AddClaimsAsync, whose *)
(* result OnPostAsync ignores).                                            *)
Stored(t) == \E i \in DOMAIN users[field[t]].tokens : users[field[t]].tokens[i] = t

StoredUnlessOvertaken ==
    \A t \in Tabs : pc[t] = "signIn" /\ Kept(t) => (Stored(t) <=> t \notin overtaken)
=============================================================================
