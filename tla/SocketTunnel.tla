---------------------------- MODULE SocketTunnel ----------------------------
(***************************************************************************)
(* The plain TCP tunnel of the node: one task accepts clients, one after   *)
(* the other, reads a CONNECT request from each, connects to the target it *)
(* names and answers (SocketTunnelManager); two tasks per tunnel then      *)
(* carry what either peer sends to the other (SocketTunnelExecutor).       *)
(*                                                                         *)
(* A side is "client" or "target"; the loop of side s reads from s and     *)
(* sends to Other(s).  What peer s sends is a sequence of units numbered   *)
(* from 1: for a client, the first lines of its request, then single lines *)
(* of request or data.  The streams are TCP streams: a receive returns what*)
(* has arrived, up to the buffer.                                          *)
(* Not modelled: opening the listening socket and its failures, Dispose,   *)
(* the TLS and QUIC tunnels.                                               *)
(***************************************************************************)
EXTENDS Naturals, Sequences, FiniteSets

CONSTANTS Clients, \* one connection each
          NoClient, \* not a client
          RequestLines, \* what the first line a client sends may hold
          Buffer, \* Settings.BufferSize, in units
          Limit, \* [Sides -> [Clients -> Nat]]: bound on what a peer sends
          MaxLeaving \* bound on the peers that leave

Sides == {"client", "target"}

ASSUME ClientAssumption == NoClient \notin Clients
ASSUME BufferAssumption == Buffer \in Nat \ {0}
ASSUME LimitAssumption == Limit \in [Sides -> [Clients -> Nat]]
ASSUME LineAssumption ==
    RequestLines \subseteq [method : STRING, lines : Nat, host : BOOLEAN, port : Nat, version : STRING, crlf : BOOLEAN]

VARIABLES line, \* the first line of each client
          backlog, \* connected, not accepted yet
          manager, \* what OnAcceptSocketAsync awaits, and for which client
          conn, \* conn[s][c]: the node's socket of side s
          peer, \* peer[s][c]: what the other end of it has done
          written, \* written[s][c]: units peer s has sent
          taken, \* taken[s][c]: units of them the node has received
          skipped, \* skipped[c]: units received as the request
          got, \* got[s][c]: what the node has sent to peer s
          loop, \* loop[s][c]: the task that reads from s
          canceled \* canceled[c]: _cancellationTokenSource of the executor

vars == <<line, backlog, manager, conn, peer, written, taken, skipped, got, loop, canceled>>
sockets == <<conn, peer, written, taken, skipped, got>>
tasks == <<loop, canceled>>

Other(s) == IF s = "client" THEN "target" ELSE "client"

\* Units from + 1 .. to of what peer s of connection c sends.
Stream(s, c, from, to) == [i \in 1 .. to - from |-> <<s, c, from + i>>]
Status(c, code) == <<<<"node", c, code>>>>

Accepting == [at |-> "accept", client |-> NoClient]
Off == [at |-> "off", buf |-> <<>>]
Listening == [at |-> "receive", buf |-> <<>>]
Ended == [at |-> "ended", buf |-> <<>>]

Pending(s, c) == written[s][c] - taken[s][c]

\* Variant: the size of the buffer is taken for the number of bytes received.
WholeBuffer(s, c) == Buffer

\* What a receive from s returns.
Received(s, c) == IF Pending(s, c) < Buffer THEN Pending(s, c) ELSE Buffer

Init ==
    /\ line \in [Clients -> RequestLines]
    /\ backlog = <<>>
    /\ manager = Accepting
    /\ conn = [s \in Sides |-> [c \in Clients |-> "none"]]
    /\ peer = [s \in Sides |-> [c \in Clients |-> "open"]]
    /\ written = [s \in Sides |-> [c \in Clients |-> 0]]
    /\ taken = [s \in Sides |-> [c \in Clients |-> 0]]
    /\ skipped = [c \in Clients |-> 0]
    /\ got = [s \in Sides |-> [c \in Clients |-> <<>>]]
    /\ loop = [s \in Sides |-> [c \in Clients |-> Off]]
    /\ canceled = [c \in Clients |-> FALSE]

----------------------------------------------------------------------------
(* The peers. *)

Arrive(c) ==
    /\ conn["client"][c] = "none"
    /\ conn' = [conn EXCEPT !["client"][c] = "up"]
    /\ backlog' = Append(backlog, c)
    /\ UNCHANGED <<line, manager, peer, written, taken, skipped, got, tasks>>

PeerSends(s, c) ==
    /\ conn[s][c] = "up" /\ peer[s][c] = "open" /\ written[s][c] < Limit[s][c]
    /\ written' = [written EXCEPT ![s][c] = @ + 1]
    /\ UNCHANGED <<line, backlog, manager, conn, peer, taken, skipped, got, tasks>>

Left == {p \in Sides \X Clients : peer[p[1]][p[2]] # "open"}

\* A peer shuts its sending half down, or resets the connection.
PeerLeaves(s, c) ==
    /\ conn[s][c] = "up"
    /\ peer[s][c] = "open" => Cardinality(Left) < MaxLeaving
    /\ \E how \in {"fin", "reset"} :
        /\ peer[s][c] # "reset" /\ peer[s][c] # how
        /\ peer' = [peer EXCEPT ![s][c] = how]
    /\ UNCHANGED <<line, backlog, manager, conn, written, taken, skipped, got, tasks>>

----------------------------------------------------------------------------
(* The manager. *)

\* The line ends at "\n"; the version loses its last character, the "\r".
Version(l) == IF l.crlf THEN l.version ELSE "cut"

\* RequestStruct splits the whole buffer, with the zeros that follow the n
\* received units, at "\n" and wants three parts.
IsConnect(l, n) ==
    /\ l.lines + n - 1 + (IF n < Buffer THEN 1 ELSE 0) >= 3
    /\ l.host /\ l.port \in 0 .. 65535
    /\ l.method = "CONNECT" /\ Version(l) \in {"HTTP/1.1", "HTTP/2", "HTTP/3"}

Accept ==
    /\ manager.at = "accept" /\ backlog # <<>>
    /\ manager' = [at |-> "request", client |-> Head(backlog)]
    /\ backlog' = Tail(backlog)
    /\ UNCHANGED <<line, sockets, tasks>>

\* The first receive: whatever has arrived is taken for the request, and
\* what it holds after the request is lost with the buffer.
Request(c) ==
    LET n == Received("client", c) IN
    /\ manager = [at |-> "request", client |-> c]
    /\ peer["client"][c] # "reset" /\ Pending("client", c) > 0
    /\ taken' = [taken EXCEPT !["client"][c] = n]
    /\ skipped' = [skipped EXCEPT ![c] = n]
    /\ manager' = [manager EXCEPT !.at = IF IsConnect(line[c], n) THEN "connect" ELSE "refuse"]
    /\ UNCHANGED <<line, backlog, conn, peer, written, got, tasks>>

\* response == 0: the client closed without a request.
NoRequest(c) ==
    /\ manager = [at |-> "request", client |-> c]
    /\ peer["client"][c] = "fin" /\ Pending("client", c) = 0
    /\ conn' = [conn EXCEPT !["client"][c] = "closed"]
    /\ manager' = Accepting
    /\ UNCHANGED <<line, backlog, peer, written, taken, skipped, got, tasks>>

\* Variant: a receive that times out is tried again.
RequestRetried(c) ==
    /\ manager = [at |-> "request", client |-> c]
    /\ peer["client"][c] = "open" /\ Pending("client", c) = 0
    /\ UNCHANGED vars

\* The receive throws, after IoTimeout or because of a reset: the exception
\* is logged by the accept loop and the client's socket stays as it is.
RequestTimeout(c) ==
    /\ manager = [at |-> "request", client |-> c]
    /\ peer["client"][c] = "open" /\ Pending("client", c) = 0
    /\ manager' = Accepting
    /\ UNCHANGED <<line, backlog, sockets, tasks>>

RequestReset(c) ==
    /\ manager = [at |-> "request", client |-> c]
    /\ peer["client"][c] = "reset"
    /\ conn' = [conn EXCEPT !["client"][c] = "lost"]
    /\ manager' = Accepting
    /\ UNCHANGED <<line, backlog, peer, written, taken, skipped, got, tasks>>

\* 403, then CloseSocketAsync; or the send throws and the socket is left.
Refuse(c) ==
    /\ manager = [at |-> "refuse", client |-> c]
    /\ IF peer["client"][c] = "reset"
       THEN conn' = [conn EXCEPT !["client"][c] = "lost"] /\ UNCHANGED got
       ELSE /\ conn' = [conn EXCEPT !["client"][c] = "closed"]
            /\ got' = [got EXCEPT !["client"][c] = Status(c, 403)]
    /\ manager' = Accepting
    /\ UNCHANGED <<line, backlog, peer, written, taken, skipped, tasks>>

Start(c) == loop' = [s \in Sides |-> [loop[s] EXCEPT ![c] = Listening]]

\* Variant: the loops are started before the client is answered.
ConnectAndStart(c) ==
    /\ manager = [at |-> "connect", client |-> c]
    /\ conn' = [conn EXCEPT !["target"][c] = "up"]
    /\ manager' = [manager EXCEPT !.at = "establish"]
    /\ Start(c)
    /\ UNCHANGED <<line, backlog, peer, written, taken, skipped, got, canceled>>

Connect(c) ==
    /\ manager = [at |-> "connect", client |-> c]
    /\ conn' = [conn EXCEPT !["target"][c] = "up"]
    /\ manager' = [manager EXCEPT !.at = "establish"]
    /\ UNCHANGED <<line, backlog, peer, written, taken, skipped, got, tasks>>

\* 200, then SetSockets and StartTunneling.
Establish(c) ==
    /\ manager = [at |-> "establish", client |-> c]
    /\ peer["client"][c] # "reset"
    /\ got' = [got EXCEPT !["client"][c] = Status(c, 200)]
    /\ Start(c)
    /\ manager' = Accepting
    /\ UNCHANGED <<line, backlog, conn, peer, written, taken, skipped, canceled>>

\* The target cannot be reached in time, or the 200 cannot be sent: both
\* sockets are closed, and the loops are started on them nevertheless.
NotEstablished(c) ==
    /\ \/ manager = [at |-> "connect", client |-> c]
       \/ manager = [at |-> "establish", client |-> c] /\ peer["client"][c] = "reset"
    /\ conn' = [s \in Sides |-> [conn[s] EXCEPT ![c] = "closed"]]
    /\ Start(c)
    /\ manager' = Accepting
    /\ UNCHANGED <<line, backlog, peer, written, taken, skipped, got, canceled>>

Handshake(c) ==
    \/ Request(c) \/ NoRequest(c) \/ RequestTimeout(c) \/ RequestReset(c) \/ Refuse(c)
    \/ Connect(c) \/ Establish(c) \/ NotEstablished(c)

----------------------------------------------------------------------------
(* The two loops of a tunnel. *)

\* Variant: cancels when the target has closed its half, too.
CheckHalfClosed(s, c) ==
    canceled' = [canceled EXCEPT ![c] = @ \/ (s = "target" /\ (conn["target"][c] # "up" \/ peer["target"][c] = "fin"))]

\* The test that ends a round of ListenServerAsync.
RemoteCheck(s, c) ==
    canceled' = [canceled EXCEPT ![c] = @ \/ (s = "target" /\ conn["target"][c] # "up")]

Receiving(s, c) == loop[s][c].at = "receive" /\ conn[s][c] = "up"

\* Variant: the send is not awaited, so that the next receive may overwrite
\* what it has not sent yet.
ReadsUnawaited(s, c) ==
    LET n == Received(s, c) IN
    /\ loop[s][c].at \in {"receive", "send"} /\ conn[s][c] = "up" /\ conn[Other(s)][c] = "up"
    /\ ~canceled[c] /\ peer[s][c] # "reset" /\ Pending(s, c) > 0
    /\ taken' = [taken EXCEPT ![s][c] = @ + n]
    /\ loop' = [loop EXCEPT ![s][c] = [at |-> "send", buf |-> Stream(s, c, taken[s][c], taken[s][c] + n)]]
    /\ UNCHANGED <<line, backlog, manager, conn, peer, written, skipped, got, canceled>>

\* A receive that returns data, which is dropped if the other socket is no
\* longer connected.
Reads(s, c) ==
    LET n == Received(s, c)
        unit == Stream(s, c, taken[s][c], taken[s][c] + n) IN
    /\ Receiving(s, c) /\ ~canceled[c] /\ peer[s][c] # "reset" /\ Pending(s, c) > 0
    /\ taken' = [taken EXCEPT ![s][c] = @ + n]
    /\ IF conn[Other(s)][c] = "up"
       THEN loop' = [loop EXCEPT ![s][c] = [at |-> "send", buf |-> unit]] /\ UNCHANGED canceled
       ELSE UNCHANGED loop /\ RemoteCheck(s, c)
    /\ UNCHANGED <<line, backlog, manager, conn, peer, written, skipped, got>>

\* A receive that returns 0 at once: canceled, not connected, or the peer
\* has closed.  The loop goes round.
ReadsNothing(s, c) ==
    /\ loop[s][c].at = "receive"
    /\ \/ canceled[c]
       \/ conn[s][c] # "up"
       \/ peer[s][c] = "fin" /\ Pending(s, c) = 0
    /\ RemoteCheck(s, c)
    /\ UNCHANGED <<line, backlog, manager, sockets, loop>>

\* A receive that throws ends the loop: the peer has reset the connection,
\* or the receive is canceled, by IoTimeout or by the executor.
ReadFails(s, c) ==
    /\ Receiving(s, c)
    /\ \/ /\ peer[s][c] = "reset" /\ ~canceled[c]
          /\ conn' = [conn EXCEPT ![s][c] = "lost"]
       \/ /\ peer[s][c] = "open" /\ Pending(s, c) = 0
          /\ UNCHANGED conn
    /\ loop' = [loop EXCEPT ![s][c] = Ended]
    /\ UNCHANGED <<line, backlog, manager, peer, written, taken, skipped, got, canceled>>

\* The send of what was read; 0 bytes if the other socket was lost meanwhile.
Sends(s, c) ==
    LET o == Other(s) IN
    /\ loop[s][c].at = "send"
    /\ \/ /\ conn[o][c] = "up" /\ peer[o][c] # "reset"
          /\ got' = [got EXCEPT ![o][c] = @ \o loop[s][c].buf]
       \/ conn[o][c] # "up" /\ UNCHANGED got
    /\ loop' = [loop EXCEPT ![s][c] = Listening]
    /\ RemoteCheck(s, c)
    /\ UNCHANGED <<line, backlog, manager, conn, peer, written, taken, skipped>>

\* A send that throws ends the loop: the peer has reset the connection, or
\* IoTimeout has passed with a part of the buffer sent.
SendFails(s, c) ==
    LET o == Other(s) IN
    /\ loop[s][c].at = "send" /\ conn[o][c] = "up"
    /\ \/ /\ peer[o][c] = "reset"
          /\ conn' = [conn EXCEPT ![o][c] = "lost"]
          /\ UNCHANGED got
       \/ /\ peer[o][c] # "reset"
          /\ \E m \in 0 .. Len(loop[s][c].buf) - 1 :
                got' = [got EXCEPT ![o][c] = @ \o SubSeq(loop[s][c].buf, 1, m)]
          /\ UNCHANGED conn
    /\ loop' = [loop EXCEPT ![s][c] = Ended]
    /\ UNCHANGED <<line, backlog, manager, peer, written, taken, skipped, canceled>>

Forwarding(s, c) == Reads(s, c) \/ ReadsNothing(s, c) \/ Sends(s, c)
Failing(s, c) == ReadFails(s, c) \/ SendFails(s, c)

Manager == Accept \/ \E c \in Clients : Handshake(c)
Peers == \E c \in Clients : Arrive(c) \/ \E s \in Sides : PeerSends(s, c) \/ PeerLeaves(s, c)
Loops == \E s \in Sides, c \in Clients : Forwarding(s, c) \/ Failing(s, c)

Next == Manager \/ Peers \/ Loops

\* The tasks run; the peers and the failures need not.  The manager's own
\* timeouts are part of its steps: they fire when nothing else does.
Fairness == /\ WF_vars(Manager)
            /\ \A s \in Sides, c \in Clients : WF_vars(Forwarding(s, c))

Spec == Init /\ [][Next]_vars /\ Fairness
----------------------------------------------------------------------------
(* Properties. *)

Stages == {"request", "refuse", "connect", "establish"}
Unit == (Sides \cup {"node"}) \X Clients \X Nat

\* Every variable has its type, and the node takes no more from a peer than
\* it has sent.
TypeOK ==
    /\ line \in [Clients -> RequestLines]
    /\ backlog \in Seq(Clients)
    /\ manager \in [at : Stages, client : Clients] \cup {Accepting}
    /\ conn \in [Sides -> [Clients -> {"none", "up", "lost", "closed"}]]
    /\ peer \in [Sides -> [Clients -> {"open", "fin", "reset"}]]
    /\ written \in [Sides -> [Clients -> Nat]]
    /\ taken \in [Sides -> [Clients -> Nat]]
    /\ skipped \in [Clients -> Nat]
    /\ got \in [Sides -> [Clients -> Seq(Unit)]]
    /\ loop \in [Sides -> [Clients -> [at : {"off", "receive", "send", "ended"}, buf : Seq(Unit)]]]
    /\ canceled \in [Clients -> BOOLEAN]
    /\ \A s \in Sides, c \in Clients : taken[s][c] <= written[s][c] /\ Len(loop[s][c].buf) <= Buffer

\* A client hears one status, and hears it first; nothing reaches a target
\* or comes from one unless that status was 200: not when the connection to
\* the target failed, although the loops are started then too
\* (SocketTunnelManager.cs:99-111).
StatusFirst ==
    \A c \in Clients :
        LET heard == got["client"][c] IN
        /\ heard # <<>> => heard[1] \in {<<"node", c, 200>>, <<"node", c, 403>>}
        /\ \A i \in 2 .. Len(heard) : heard[i][1] = "target"
        /\ Len(heard) > 1 \/ got["target"][c] # <<>> => heard # <<>> /\ heard[1] = <<"node", c, 200>>

\* The cancellation that ends ListenServerAsync's round never stops a client
\* loop that could still deliver: by then that loop has ended, or there was
\* never a tunnel (SocketTunnelExecutor.cs:193).
CancelComesLate ==
    \A c \in Clients :
        canceled[c] => loop["client"][c].at = "ended" \/ conn["client"][c] = "closed"

\* Each direction of each tunnel is a pipe: the target of c gets what c sent
\* after the bytes received as its request, c gets what its target sent, in
\* order, without a gap, and nothing of another client (the loops share no
\* buffer, and each awaits a send before the next receive).
Sink(s, c) == IF s = "client" THEN got["target"][c]
              ELSE IF got["client"][c] = <<>> THEN <<>> ELSE Tail(got["client"][c])
Base(s, c) == IF s = "client" THEN skipped[c] ELSE 0
P == INSTANCE Pipes WITH
    Lanes <- Sides \X Clients,
    source <- [l \in Sides \X Clients |-> Stream(l[1], l[2], 0, written[l[1]][l[2]])],
    skipped <- [l \in Sides \X Clients |-> Base(l[1], l[2])],
    sink <- [l \in Sides \X Clients |-> Sink(l[1], l[2])]
Piped == P!Spec

\* A client that has sent something before it resets is answered or closed,
\* whatever the clients before it do: a silent one holds the accept loop for
\* IoTimeout only.  One whose bytes come after its own timeout is left.
Waiting(c) == \E i \in DOMAIN backlog : backlog[i] = c
Served ==
    \A c \in Clients :
        Waiting(c) /\ written["client"][c] > 0 ~>
            \/ got["client"][c] # <<>>
            \/ conn["client"][c] = "closed"
            \/ peer["client"][c] = "reset"

\* A running loop catches up with its peer, unless it ends or a socket of its
\* tunnel is lost: neither the end of the other direction nor half a close
\* stops it.
Behind(s, c) ==
    /\ loop[s][c].at \in {"receive", "send"}
    /\ Base(s, c) + Len(Sink(s, c)) < written[s][c]
Broken(c) == \E s \in Sides : conn[s][c] # "up" \/ peer[s][c] = "reset"
Delivered == \A s \in Sides, c \in Clients : Behind(s, c) ~> ~Behind(s, c) \/ Broken(c)

\* A session that is idle for good, because both peers have sent all they
\* ever will and all of it was carried, is abandoned: its loops end, unless a
\* socket of it is lost (Settings.IdleTimeout, which only IsExpired reads;
\* the calls of IsExpired in the loops and of ScanForExpiredTunneling are
\* commented out).
Finished(s, c) == peer[s][c] = "fin" /\ Pending(s, c) = 0 /\ loop[s][c].at = "receive"
IdleIsAbandoned ==
    \A c \in Clients :
        (\A s \in Sides : Finished(s, c)) ~> Broken(c) \/ \A s \in Sides : loop[s][c].at = "ended"
=============================================================================
