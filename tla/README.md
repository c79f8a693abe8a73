# Formal models of LittleMozzarellaNode

TLA+ modules, TLC configurations and TLAPS proofs for the node's program in
`src/`. This file says what the system consists of, what each module models,
what each run checks, what is proved, and what is left.

## 1. The system

LittleMozzarellaNode is a proxy node for an overlay network. It makes itself a
self-signed identity whose ID has to be hard to find, keeps it in four files,
can have it signed by a service, and forwards TCP connections for clients that
ask it with HTTP `CONNECT`. A web site hands out registration tokens.

| Component | State it keeps | Operations | Hard behaviour |
|---|---|---|---|
| Key search (`AbstractCertificateBuilder`, `ConcreteSystemSecurityBuilder.GenerateKey`) | selected key, ID, private key; high score; lock; linked token | `GenerateKeys`, `GenerateKey`, `FoundCallBack` | several threads, a lock, lock-free updates, cancellation, faults |
| Identity service (`CertificateAuthorityService`, `ServiceManager`, `Program`) | `generating`, `cancellationTokenSource`; files `ca.cert`, `ca.key`, `identity.cert`, `identity.key` | commands Create and Cancel; load | commands overlap, check-then-act on files, half-done writes, crashes |
| Certificate construction (builders, templates) | none | build, sign | cryptographic calls that may throw |
| Certificate loading (`CertificateManager`) | none (reads the files) | load CA, load identity, identity from a peer | files being written, or left by a crash |
| Difficulty (`GetDifficulty`, `Bits`) | none | pure functions | boundaries: zero bytes, table look-up |
| Socket tunnel (`TunnelManager`, `SocketTunnelManager`, `SocketTunnelExecutor`) | listening socket; per tunnel two sockets, two buffers, a token | accept, handshake, forward, close | two loops per tunnel, timeouts, one-sided close |
| Request parsing (`RequestStruct`) | none | parse and check a `CONNECT` request | short or malformed input |
| TLS tunnel (`SSLStreamTunnelManager`, `SSLTunnelExecutor`) | as the socket tunnel, over TLS streams | accept, authenticate, forward, close | buffer reuse while reading, errors |
| QUIC tunnel | none | accept | unfinished in the source |
| Yggdrasil service (native library) | one shared unmanaged handle | config queries, start, exit, dispose | concurrent calls over one field |
| Signing service (gRPC, Amazon, ACME) | the signer's certificate | sign, request and fetch | polling with a fixed sleep |
| Registration site (`Index`, `Registered`, `site.js`) | users, their claims and stamps; a cookie per browser; the form's feedback classes | type, register, show token | concurrent registrations of one address, repeated ones, ignored results |
| Form validation library (`jquery.validate.unobtrusive.js`) | per form: parsed rules, validator, reset handler, shown errors | parse, attach, check, reset, validate | two copies of the rules, events in any order, a validator destroyed and made again |
| Trust store administration, demo client, experiments, web assets | external | external | not part of the node's logic |

How they interact: `Program` reads console commands and calls `ServiceManager`,
which calls the identity service; that starts a key search (`GenerateKeys`)
through the `CertificateDirector`, builds the two certificates and lets
`FullCertificateAuthority` and `FullIdentity` save them. The tunnels and the
signing service's client use a loaded identity. Everything shared is in fields
of singletons (`ServiceLocator`) and in files; there is one lock, in the key
search. The accept loop of a tunnel manager starts two loops per tunnel, which
share the tunnel's sockets and token and nothing else. The registration site
and its scripts are a program of their own and meet the node only through the
tokens.

What makes each component correct:

* key search: one whole key or none; the search ends when a worker has a key or
  the caller cancels; no key below the thresholds is delivered.
* identity service: creations do not overlap and never mix their files; what is
  reported as created is on disk; a cancelled creation stops; after a failure
  or a cancellation the service can be used again.
* loading: what is loaded is one creation's certificate and key.
* tunnels: bytes arrive in order, unchanged, at the other side; a tunnel whose
  peers have gone ends; one client does not hold up the others.
* Yggdrasil service: a buffer is freed once, and not while it is in use.
* registration: one user per address; whoever is shown a token asked for it, and
  it is stored; the feedback while typing is about the text that is there.
* form validation: what is shown is what the last check found; every error can
  be revised and reset; what has been parsed is enforced.

## 2. Modules

| Module | What it is |
|---|---|
| `KeySelection` | abstract specification: what a key search promises to its caller |
| `KeySearch` | `GenerateKeys` and its worker threads, step by step |
| `KeySearchProofs` | its inductive invariant and theorems |
| `IdentityService` | Create and Cancel commands, flag, token, files, crashes |
| `IdentityServiceProofs` | types, control, exclusion and the use of the searches, proved |
| `IdentityDiskProofs` | what is on disk at each step, and who has written at all, proved |
| `Pipes` | abstract specification: what a tunnel promises for each direction |
| `SocketTunnel` | the accept loop, the `CONNECT` handshake, the two forwarding loops |
| `SocketTunnelProofs` | its inductive invariant, the order of what is heard, the refinement of `Pipes` |
| `Registration` | the registration form, the pages' handlers, the user store |
| `RegistrationProofs` | its inductive invariant and its safety properties |
| `Adapters` | how `data-val-*` attributes become rules: pure definitions |
| `UnobtrusiveValidation` | one form: parsing, attaching, checking, errors, reset |
| `AdaptersProofs` | which rules an input gets, for any attributes, by induction over the adapters |
| `UnobtrusiveValidationProofs` | its inductive invariants and all its properties |
| `MC...` | the instances TLC checks, one per component |

`KeySearch` implements `KeySelection` (property `ImplementsKeySelection`, an
`INSTANCE` with a refinement mapping: the public key, the field that is tested
and written first, stands for the selection). A search that was called with a
cancelled token is `doomed` there, and may choose nothing; the mapping makes
any search doomed whose linked token is cancelled and whose workers all have
their next look at it before them (`Doomed`). `IdentityService` uses one
`KeySelection` for every creation and `SearchesAreSelections` checks that it
uses it as specified, so the two models compose through the abstract one.

### 2.1 KeySearch

One action per step of the code that another thread can observe. `main` is the
task that awaits `GenerateKeys`: `Call` (lines 88-90 of
`AbstractCertificateBuilder.cs`; a token linked to a cancelled one is born
cancelled), `Spawn` (one `Task.Run`), `FirstDone` (`WhenAny`), `CancelLinked`
(`ctx.Cancel()`), `AllDone` (`WhenAll`, which rethrows). `pc[w]` is a worker:
`GenerateKey` (one turn of its loop), `CheckCancelled` (the test after it),
`FoundCallBack` (the threshold), `Acquire`, `Select`, `SetKey`, `SetID`,
`SetPrivateKey`, `Release` (the `lock` block, one step per field write so that
another thread may come between), `Exchange` (the winner's update of the high
score, outside the lock), `ReadScore` and `SwapScore` (the compare-and-exchange
loop of the others). `Fault` is an exception of the cryptographic provider.
`UserCancel` is the caller's cancellation, `PropagateCancel` its arrival at the
linked token.

A key pair is abstracted to who generated it and the difficulty of its ID. A
worker generates no further key after one it selects, so this identifies every
key that can be selected. The counter of generated keys and the status lines
are left out. A builder runs one search (`ServiceManager` makes a new builder
for every command), so `Call` happens once.

### 2.2 IdentityService

`Program.StartReadConsole` does not await a Create command, so its first part
runs on the console thread up to the `await` of the key search, and the rest on
a pool thread. `console` says what the console thread is in the middle of;
`pc[c]` is the next step of creation `c`. The fields `generating` and
`cancellationTokenSource` (`cts`, abstracted to the creation it was made for)
are shared by all creations; `CancelField` and `ClearGenerating`, the last two
statements of Create, act on the fields whichever creation they belong to by
then. `CancelCalled`, `CancelClears` and `CancelSignals` are the Cancel
command, cut where another thread can come between.

A file is abstracted to the creations whose PEM blocks it holds. Saving is cut
into opening (which creates and truncates) and writing; the key file of each
`Save` is written by a task of its own (`KeyStep`), which `JoinCA` and
`JoinIdent` wait for (`task.Wait()`), unless the certificate write has thrown
before. When another creation has the file open, Windows refuses to open it and
macOS, whose locks are advisory and shared here, does not; the model allows
both. `position` is where a writer that has the file open writes, so that two
writers overlay each other as they do on disk. All blocks are taken to be of
the same length.

`Crash` is the end of the process at any moment and its restart: only the files
remain. `cancelled` and `userCancelled` are remembered for the properties; the
program cannot reach the token sources of a previous run.

The search of a creation is `searching` or, when its token was already
cancelled at the call, `doomed`. It may select a key (`SelectKey`), return when
it has a key or its token is cancelled (`SearchReturns`), or throw. The
director then looks at the key only, so a cancelled search that has a key goes
on to save.

### 2.3 SocketTunnel

The state is that of the program and of the TCP streams around it. `manager`
says what `OnAcceptSocketAsync` is awaiting and for which client (one at a time:
it awaits the whole handshake); `conn[s][c]` is the node's socket to a side,
`peer[s][c]` what the other end has done to it (`open`, half closed by `fin`,
`reset`), `loop[s][c]` the task that reads from that side with the buffer it
holds, `canceled[c]` the executor's token. `written`, `taken`, `skipped` and
`got` are the streams: units sent by a peer, received by the node, received as
the request, and sent on.

| Action | Code |
|---|---|
| `Accept` | `AcceptAsync`, `SocketTunnelManager.cs:51` |
| `Request`, `NoRequest`, `RequestTimeout`, `RequestReset` | the first `ReceiveAsync` of `ConnectAsync`: data, 0, the 30 s timeout, an exception |
| `IsConnect`, `Version` | `TryCheckHttpMethod` and `RequestStruct`: three parts between line feeds in the zero-filled buffer, the version without its last character |
| `Refuse` | the 403 and `CloseSocketAsync` |
| `Connect`, `Establish`, `NotEstablished` | `TryCreateTunnel`: connect, the 200, `StartTunneling`; on failure both sockets are closed and the loops start all the same |
| `Reads`, `ReadsNothing`, `ReadFails`, `Sends`, `SendFails` | a round of `ListenClientAsync` or `ListenServerAsync`, cut at its two awaits |
| `RemoteCheck` | `SocketTunnelExecutor.cs:193` |
| `Arrive`, `PeerSends`, `PeerLeaves` | the peers |

A receive returns everything that has arrived, up to the buffer; the bytes are
numbered units, the first of which is the client's first line. The replies 200
and 403 fit into the socket's buffer and fail only at a reset. The model keeps
what the code does with sockets literally: after a tunnel is established no
socket of it is closed; a loop ends by an exception only; a receive of 0
(closed peer, closed socket, cancelled token) makes it go round at once, so
that a half-closed direction spins for as long as the process lives; a client
whose first receive times out is left connected and unanswered. The scan for
expired tunnels that `Settings.cs` documents is not called from anywhere
(`IdleIsAbandoned`).

`Piped` says that each direction is a lane of `Pipes`: what the target gets is
a window of what the client sent, starting right after the bytes received as
the request. What was received together with the request is lost, and what
belongs to the request and arrives later is forwarded to the target: the
window's start makes both visible.
`src/Node/TestNode/TestNode/ProxyTest.cs:79-122` expects requests of one line
to be accepted; `IsConnect` refuses them for want of three parts and because
their version loses its last character.

### 2.4 Registration

A tab opens `Index` (`Open`, `OnGet`), becomes ready (`site.js` binds its
handler), takes input (`OnInput`; `TypeUnheard` before it is ready), and posts.
`OnPostAsync` is cut where it awaits: `FindByEmail`, `Validate` and `Insert`
(the two halves of `CreateAsync`), `AddClaims`, `SignIn`; `OnGetRegistered` is
the page it redirects to. The store is ASP.NET Identity's, external, modelled
by what the handlers rely on: a unique name, an identifier of each user, and a
concurrency stamp, new at every write, that makes the update of a stale user
fail. `OnPostAsync` ignores that failure, so a token can be handed out that was
never stored; `StoredUnlessOvertaken` says exactly when. Of a user that has been
deleted the update fails or throws, depending on the order of the statements
the store sends; the model allows both. `Random` and `Base58` make a fresh
token, which is named after its tab. The principal in the cookie of a browser
holds the store's claims and those of the request, in this order; `Registered`
shows the last, and signs a principal without tokens out. The cookie ends after
two minutes (`Expire`).

`Program.cs:22` and `:53` expose the account pages of ASP.NET Identity as well,
which work on the same store and the same cookies:

| Action | Pages |
|---|---|
| `AccountRegister` | Register: a user without claims, signed in at once |
| `AccountSignIn` | Login, and every page that signs in afresh: a principal with the store's claims, whoever asked for them |
| `AccountUpdate` | ConfirmEmail, the Manage pages, password and lockout bookkeeping: the user's stamp changes, the claims do not |
| `AccountDelete` | DeletePersonalData: the user and the claims are gone, the browser is signed out |
| `Expire` | Logout |

Passwords and confirmation mails are left out: any browser may sign in as, and
any page may update, any user, which allows more than the pages do. A change of
the address is left out: it needs the confirmation mail, and the site registers
no mail sender. `shown` remembers which kind of page made the principal: one
made by `AccountSignIn` shows the newest token of the user, which another
browser may have requested, so `ShownIsOwn` claims the own browser for those of
`Index` only, and for all that token and address belong together. `overtaken` is
a history variable, the requests whose user somebody else has written since they
read it.

### 2.5 Adapters and UnobtrusiveValidation

`Adapters` translates every adapter the library registers and the loop of
`parseElement` over them. `UnobtrusiveValidation` is one form. Of
`jquery.validate.js`, third-party code, it has what the library calls or is
called from: `validate`, `rules`, `check`, `showLabel`, `form`, `element`,
`resetForm`, `destroy` and the event handlers, with the bugs and habits of the
version in the repository (`onfocusout`, the `equalTo` blur handler).

`options` is what has been parsed, `settings` the deep copy the validator took
when it was created; `handlers` counts the bound reset handlers; `resetting` is
the flag of `onReset`; `container` and `summary` what the user sees.
`Ready` is the parse at `document.ready`; `ParseAgain`, `ParseElement`,
`Validate` and `Destroy` are what page scripts may call; `SetValue`, `KeyUp`,
`FocusOut`, `Submit`, `Reset` are the user. `ChangeField` is a page script that
adds, hides, shows, disables or enables an input. A handler runs to its end, as
in a browser.

The validator passes over what is disabled and what `settings.ignore` selects,
which is `":hidden"` (`jquery.validate.js:294`, `655-656`): `Editable` are the
others, and only those are checked at a submission. Inputs of type `hidden` are
ignored for good. So a hidden or disabled input never refuses a submission, and
a required one may be posted empty; the properties say so. The events of an
ignored input do not reach the validator, except that the blur of an `equalTo`
target calls `element()` for the input that compares with it, which, if that
one is ignored, forgets it as invalid and does nothing else (481-487,
1064-1073).

Assumed: inputs of the text types and of type `hidden` (no check boxes, radio
buttons, selects and buttons, which have events and values of their own), one
input per name, one input per `equalTo` target, `data-val=true` on every input,
no rules from other sources (classes, HTML constraints), no
`unobtrusive.options` (nothing in the repository sets it). Rules whose method
is not loaded (`creditcard`, `accept`, `extension`, and the rule named
"undefined" that `addMinMax` sets when it has no name for it) throw when they
are checked, and a `remote` rule asks the server: the form has none of them,
`Adapters` has their rules. Buttons that bypass validation are left out. At
this commit only `_ValidationScriptsPartial.cshtml` refers to the library, in
its minified form, and no page renders that partial; `site.js` is loaded by
every page.

Where the comments and the code of the adapters differ, `Adapters` follows the
code: `addMinMax` reads `min` and `max` whatever attributes it was given
(303-310), `addSingleVal` without an attribute looks up `val` and then reads
the parameter of no name (329-335), and the rule of an `equalto` whose target
is absent at parsing has an undefined parameter and is dropped by the
validator's copy (`DeepCopy`). The copy leaves the other rules in their places,
so its domain may have gaps; `check` takes the least one that fails.

## 3. Runs

| Run | Instance | Shows |
|---|---|---|
| `key_search` | 2 workers, difficulties 0, 8, 10, 14, 15 around the thresholds 8 and 14 (the code's defaults) | types; `SelectionWhole`, `WriteOnce`, `EmptyOnlyIfCancelled`, `ScoreDropsOnlyAtWin`, `CancelledFirstSelectsNothing`, `CancelEndsSearch`; `ImplementsKeySelection` |
| `identity_service` | 2 Create commands, any number of Cancel commands and crashes | types; `SerialUntilCancelled`, `CreatedIsWhole`, `UnmixedUntilCancelled`, `NoKeyNoTrace`, `SearchesAreSelections`; `CreateSettles` |
| `best_so_far` | as `key_search` | violated: the displayed best difficulty goes down |
| `not_overwriting` | 2 creations | violated: one creation overwrites another's files |
| `refused` | 2 creations | violated: refused as "already generating" with nothing under way |
| `cancel_frees` | 2 creations | violated: Cancel answers, the flag stays set for good |
| `canceled_saves` | 2 creations | violated: files written after "Task has been canceled" |
| `socket_tunnel` | 2 clients, up to 3 units from the first and 1 from every other peer, a buffer of 3, one peer that leaves | types; `StatusFirst`, `CancelComesLate`; the refinement `Piped`; `Served`, `Delivered` |
| `idle_abandoned` | 1 client, both peers may leave | violated: a tunnel whose peers have both closed is never given up |
| `registration` | a tab in each of 2 browsers, 4 addresses: two accepted, one refused as a name, one not an address; account pages write while there are fewer than 2 stamps | types; `FeedbackHonest`, `ShownIsOwn`, `StoredUnlessOvertaken` |
| `form_validation` | an optional address, which may be disabled, and its required confirmation, which may be hidden; three values | types; `ErrorsCanBeReset`, `ErrorsFollowChecks`, `ErrorsStayRevisable`, `ResetClears`, `RefusalIsSummarised`, `RequiredIsFilled` |
| `parse_again` | the same | violated: an input parsed after the form was attached is not checked |

Bounds. Two workers are enough for every race of the key search, which is
always between one worker and one other (the lock, the swap, the first to end);
the theorems do not depend on the number. The difficulties include one below
`MinDifficulty`, both thresholds, one between and one above, so that equal,
lesser and greater keys meet. Two creations are enough for one to interfere
with another; three exceed what TLC finishes, and the safety theorems cover any
number. A Create command is given at most once per name; a second attempt is
another creation. Nothing else is bounded there: contents and positions are
bounded by the number of creations.

Two clients are what it takes for one to be held up by another, and for the
units of two tunnels to be mixed up; tunnels share nothing but the manager.
`Limit` 3 for the first client lets its request come whole, split, or with
data behind it, and data come in two receives; `Buffer` 3 lets one receive
leave nothing behind. A first line that is one line of the request makes a
request of one unit too short and one of two long enough. `MaxLeaving` 1 (a
peer that leaves may first half close and then reset) keeps the instance
within minutes: it has half closes and resets of either side at every moment
of a tunnel. The theorems have no such bounds.

Two tabs in two browsers are two requests for one address or for two, each with
the store's writes of the other and of the account pages between its steps; a
tab registers once. `MaxStamps` 2 lets an account page write before, between or
after the two requests, first a user nobody has requested a token for, then one
somebody has read; the handlers themselves write without a bound. `SYMMETRY` is
over the two accepted addresses, which no action or invariant tells apart. A
third stamp triples the run; three tabs, two of which would share a cookie
beside another browser, are more than TLC finishes. The theorems have any number
of each.

The form has each kind of rule that `check` treats differently: one that is optional, `required`,
`equalTo`, and the dummy, with and without replaced messages, and inputs that
are missing at first, hidden or disabled at any time: the input that is compared
may be hidden while the one it is compared with is revised, and the other way
round be disabled while the form is submitted.

`CHECK_DEADLOCK FALSE` is set where the system may stop: a search ends, the
console may be given no further command, every tab has registered, a form is
posted, every loop has ended and no client is left. (In `identity_service` a step
is always possible: the process can crash.)

Fairness. The pool runs the tasks it was given (`Spawn`, `WorkerStep`,
`KeyStep`, `PoolStep`), `WhenAny`, `WhenAll` and `Wait` resume, a cancellation
reaches the linked token, a command that was started on the console goes on.
`Acquire` has only weak fairness: every worker takes the lock at most once and
gives it back, so it cannot be starved. No fairness makes a key good
enough, a command be given, or a failure happen.

In the tunnel, `Manager` is fair as a whole: the accept loop goes on, and when
nothing else happens in a handshake its timeout does (`Settings.IoTimeout`, 30
s), so that `Served` does not rest on a client behaving. Each loop is fair in
`Forwarding`: a socket with data returns it, a send to a connected peer that
reads completes. Peers need not send or leave, and the failures of a loop
(`ReadFails`, `SendFails`) need not happen; where they do, `Delivered` excuses
the loop only if it has ended. `Served` says "something sent before it was
accepted": a client whose request comes after its own timeout is not answered.
The form and the registration have no liveness properties: everything that
happens there is the user's or a page script's choice.

Each violated property is what the program says of itself:

* `BestSoFar`: "best difficulty so far" (`AbstractCertificateBuilder.cs:192`);
  the winner's `Interlocked.Exchange` (line 157) is unconditional.
* `NotOverwriting`: "already exists, NOT overwriting!"
  (`CertificateAuthorityService.cs:98`); the check is made before a long search
  and a Cancel command lets two creations overlap.
* `RefusedOnlyWhileGenerating`: "Identity is already generating" (line 83); an
  early return or an exception leaves the flag set.
* `CancelFreesService`: "Please cancel previous task" (line 83). A first
  creation ends (line 127) between lines 87 and 88 of a second one and cancels
  the second's token; the second ends without resetting the flag, at its
  cancelled token, or before that at the existence check (lines 95 and 105) when
  the files of the first are there, and Cancel returns at line 164 without
  resetting it either.
* `CanceledSavesNothing`: "Task has been canceled" (`ServiceManager.cs:91`);
  the director does not read the token again.
* `ParsedIsEnforced`: the comment on `parse` says that it "enables validation
  according to the data-val-* attribute values"
  (`jquery.validate.unobtrusive.js:230-232`); for a form that has a validator,
  `validate(this.options)` (161) returns it and ignores the options. In TLC's
  trace the form has got its validator from a `parseElement` before the page was
  ready; an input added later meets the same.
* `IdleIsAbandoned`: "how long the session can be idle before its contents are
  abandoned" (`Settings.cs:67`). When both peers have closed their halves and
  everything is delivered, the two loops receive 0 bytes for ever
  (`ReadsNothing`); `IsExpired`, which would end them, is commented out in the
  loops (`SocketTunnelExecutor.cs:159`, `180`), and so is the scan
  (`SocketTunnelManager.cs:54`). No fairness could help: nothing but a reset by
  a peer is enabled there.

The safety properties of the identity service about its flag and its files are
therefore stated for the time until a Cancel command first acts
(`userCancelled = {}`): they say what flag and checks do protect, through
failures and crashes. `NoKeyNoTrace` and `SearchesAreSelections` have no such
condition: with any Cancel commands, a search without a key writes nothing and
every search is used as specified. `RequiredIsFilled` is the counterpart of
`ParsedIsEnforced` that does hold: what was parsed before the validator was
made is enforced, as far as the attribute `data-val-required` goes, while the
input is displayed and enabled.

## 4. Proofs

`KeySearchProofs` proves for any set of workers, any difficulties and any
thresholds, from the assumptions that there is a worker and that "no worker"
and "no key" are neither workers nor keys:

* `Invariance`: the inductive invariant `IInv`. `SelectionWhole` alone is not
  inductive: one has to know who holds the lock (`LockInv`), what is known of
  the key a worker carries (`FoundInv`), which fields are written at each step
  of the critical section (`SelectionInv`), and why a worker has ended
  (`BlameInv`).
* `TypeCorrect`, `SelectionIsWhole`, `EmptySearchWasCancelled`,
  `SelectionWrittenOnce` follow from it.
* `ScoreOnlyRises`: the high score goes down at a win only. It needs `SwapInv`:
  a worker about to swap has read a score below its own key's difficulty, so
  that a swap that finds what was read raises it.
* `CancelledSearchIsEmpty`: `CancelledFirstSelectsNothing`; with `FoundInv`, a
  worker of a doomed search has no way past the test after `GenerateKey`.
* `ImplementsSelection`: every step of the threads is a step of `KeySelection`
  or leaves it unchanged. A key in `selectedKey` has a worker that is past the
  test of the token (`ChosenInv`), so that no search with a key is doomed.

`IdentityServiceProofs` and `IdentityDiskProofs` prove for any number of Create
commands, from the one assumption that "no creation" is not a creation. The
inductive invariant is in layers, each preserved with the help of those before:

* types, and that a token source exists whenever one is used (`Types`);
* the control of a single creation (`Control`): the console is in the first
  part of one creation at a time, the two key tasks are where the creation
  expects them, a file is open only while someone is at work on it. A step of
  one creation leaves the others where they are (`OtherFrame`, `DiskFrame`), so
  that only the creation that moves has to be looked at;
* exclusion (`SerialInv`): `SerialUntilCancelled` alone is not inductive, since
  a creation that has failed may still have a key task running, and since the
  flag is set one step after it is tested; so it counts the key tasks as well,
  and says when the flag is set;
* the disk (`DiskInv`): what has been found absent and what has been written at
  each step of a creation; that it owns every block on disk and writes at the
  end of its files; that a creation called after a successful one gets no
  further than the check of the CA files.

`TypeCorrect`, `SerialCorrect`, `CreatedCorrect`, `UnmixedCorrect` and
`NoKeyWritesNothing` are the safety properties of run `identity_service`. The
last one does not rest on exclusion or on `DiskInv`: its invariant (`TraceAt`)
says of each creation that without a key it has not come to its saves, has no
key task and is in no file, and the control layer is enough to keep it. `ImplementsSelections` is the
refinement: the service uses each search only as `KeySelection` allows, which
together with `ImplementsSelection` of the key search ties the two models.

`SocketTunnelProofs` proves, for any clients, any positive buffer and any
bounds on what peers send, with the assumptions that "no client" is not one and
that the constants have their types:

* `TypeCorrect`, `StatusComesFirst`, `CancelIsLate`: the safety properties of
  run `socket_tunnel`;
* `TunnelsArePipes`: the refinement `Spec => Piped`, step by step: a peer's send
  is a `Write`, the reception of the request a `Skip`, a send of a loop a
  `Deliver`, everything else a stutter.

The inductive invariant has the order of the handshakes (`Turns`: a client is
waiting, or being served, or done, and nothing has been read from it before),
what is true of a connection before and after its loops start (`Phases`), that
a loop holds exactly the stretch of its stream that follows what it has passed
on (`Streams`, the heart of the refinement), and for the cancellation that a
target loop whose socket is lost has outlived its client loop (`Outlived`,
with `Reached`).

`RegistrationProofs` proves `TypeCorrect`, `FeedbackIsHonest`, `TokenIsOwn` and
`TokenStored`, all properties of run `registration`, for any tabs, browsers and
addresses and any number of writes by account pages, from the assumption that
accepted names are addresses and the empty text is none. The invariant adds that
no stamp or identifier is ahead of the counter that makes them (`Stamped`); that
the stamp a request has read is still the user's exactly when nobody has
overtaken it (`Reading`); and that wherever a token is, in the store, in a
cookie or on a page, it was requested for the address it is with, by a tab whose
text can no longer change (`Given`, `Carried`, `Displayed`), the last one of a
principal that `Index` made in the browser that holds it. One lemma says what a
write of a user leaves of this (`WriteKeeps`), one what it does to the other
requests (`OthersWrite`), whoever writes.

`AdaptersProofs` proves `RulesAreOfDistinctNames`: whatever its attributes, an
input gets rules with distinct names, the dummy last, and the rule `required`,
with the parameter `true`, exactly when `data-val-required` is there and the
input is no checkbox. The loop of `parseElement` is a fold of the community
modules, whose definition chooses a function by its recursive equation; so the
existence of that function is proved first (`FoldExists`), for loops of every
length, and then that each turn keeps what is claimed (`TurnedKeeps`,
`LoopAdapts`). The induction over the length is done with a set of numbers and
its least element (`Induction`), from `NatLessThanWellFounded` and `WFMin`,
since the library's induction theorems take an operator as a parameter.

`UnobtrusiveValidationProofs` proves all properties of run `form_validation`
for any inputs, attributes, values and methods. `TypeCorrect`, `ResetIsBound`,
`ErrorsRevisable` and `ResetWorks` need that at most one handler is bound, that
the flag is never left set, and that a form without a validator, or without the
handler, has no rules in force, so that nothing can be found broken there
(`IInv`). `ErrorsTellTheVerdict`, `RefusalsAreSummarised` and
`RequiredIsEnforced` are about the outcome of a check rule by rule, for the
inputs the check does not pass over. They need
`RInv`: parsed rules and copied ones are `WellRuled`, that is, have distinct
names, the dummy among them, and `required` where the attribute asks for it.
With the dummy an input is never left out of a check as having one optional
rule only (`NeverSkipped`); with distinct names, one rule is the first that
fails (`FirstIsFirst`), and its message is the one shown.

## 5. Plan

Modules in order of importance, each with its MC module, runs and theorems:

1. `KeySearch`, `KeySelection` - done, proved.
2. `IdentityService` - Create and Cancel done, all safety properties proved, one
   of them without a condition on Cancel commands; then loads (`LoadFullCertificateAuthority` over torn or missing files) as
   actions of the same module.
3. `SocketTunnel`, `Pipes` - done, safety and refinement proved.
4. `UnobtrusiveValidation`, `Adapters` - done, proved.
5. `Registration` - done, proved.
6. `Difficulty`: `GetDifficulty` and `TrailingZeros16` as functions against a
   definition by divisibility, over all 16-bit tails and table indices.
7. `TlsTunnel`: the read loop and its buffer, authentication, closing.
8. `YggdrasilHandles`: unmanaged buffers in the shared field; freed once.
9. `CertificateSign`: issue, wait, fetch.

## 6. Not modelled

Certificate construction, trust store administration and the Yggdrasil process
wrapper are calls into the platform; the QUIC tunnel is unfinished in the
source; the demo client, the experiments, the database migrations, jQuery and
Bootstrap carry no logic of the node. Not yet modelled: items 6 to 9 of the
plan and the loads of item 2. Of the socket tunnel: opening the listening
socket, `Dispose` and `Stop`, `AddEndPoint`, and the scan for idle tunnels,
which is never called (run `idle_abandoned` shows what follows from that). Of the registration site: `TokenManager`, which no page
uses, and the conversion `Base58`, which keeps no state.

Every invariant and every safety property of the passing runs is proved.
Model-checked only: the liveness properties (`CancelEndsSearch`,
`CreateSettles`, `Served`, `Delivered`), since the proof system does not reason
about `ENABLED`, and with them the fairness part of `ImplementsKeySelection`.
The seven violated properties have TLC's counterexamples and no proofs.
