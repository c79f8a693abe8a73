------------------------- MODULE SocketTunnelProofs -------------------------
(***************************************************************************)
(* Types, the order of what a client hears, the late cancellation and the  *)
(* refinement of Pipes, for any clients, buffer and bounds.                *)
(***************************************************************************)
EXTENDS SocketTunnel, SequenceTheorems, TLAPS

(* The loops of c have not been started.                                   *)
Unstarted(c) == \A s \in Sides : loop[s][c] = Off

(* Before c is accepted, and while its request is awaited.                 *)
Unheard(c) ==
    \/ conn["client"][c] = "none"
    \/ Waiting(c)
    \/ manager = [at |-> "request", client |-> c]

(* A client is connected, waiting, then served by the manager, in turn;    *)
(* until then nothing has been read from it.                               *)
Turns ==
    /\ \A i, j \in DOMAIN backlog : backlog[i] = backlog[j] => i = j
    /\ \A c \in Clients : Waiting(c) => conn["client"][c] = "up" /\ manager.client # c
    /\ \A c \in Clients : manager.client = c => conn["client"][c] = "up"
    /\ \A c \in Clients : Unheard(c) => skipped[c] = 0 /\ taken["client"][c] = 0
    /\ \A c \in Clients : Unheard(c) \/ manager.client = c =>
          Unstarted(c) /\ got["client"][c] = <<>>

(* Before its loops start a connection is idle; afterwards it has answered *)
(* 200, or both its sockets are closed and nothing has passed.             *)
Idle(c) ==
    /\ ~canceled[c]
    /\ got["target"][c] = <<>> /\ got["client"][c] \in {<<>>, Status(c, 403)}
    /\ taken["target"][c] = 0 /\ taken["client"][c] = skipped[c]
Established(c) ==
    /\ got["client"][c] # <<>> /\ got["client"][c][1] = <<"node", c, 200>>
Stillborn(c) ==
    /\ \A s \in Sides : conn[s][c] = "closed" /\ got[s][c] = <<>>
    /\ \A s \in Sides : loop[s][c] = Listening
Phase(c) ==
    \/ Unstarted(c) /\ Idle(c)
    \/ (\A s \in Sides : loop[s][c].at # "off") /\ (Established(c) \/ Stillborn(c))
Phases == \A c \in Clients : Phase(c)

(* What the loop of s has read, passed on and still holds: a stretch of    *)
(* what s sends from its base on, with no gap while the loop runs and the  *)
(* other socket is up.                                                     *)
Conveys(s, c, base, sink, l, t, to) ==
    LET passed == base + Len(sink) IN
    /\ sink = Stream(s, c, base, passed)
    /\ l.buf = Stream(s, c, t - Len(l.buf), t)
    /\ l.at # "send" => l.buf = <<>>
    /\ passed + Len(l.buf) <= t
    /\ l.at \in {"receive", "send"} /\ to = "up" => passed + Len(l.buf) = t
Carries(s, c) == Conveys(s, c, Base(s, c), Sink(s, c), loop[s][c], taken[s][c], conn[Other(s)][c])
Streams == \A s \in Sides, c \in Clients : Carries(s, c)

(* A client is answered 200 with its target connected.                     *)
Reached == \A c \in Clients : manager = [at |-> "establish", client |-> c] => conn["target"][c] = "up"

(* A target loop that finds its socket lost has outlived the client loop.  *)
Outlived ==
    \A c \in Clients :
        loop["target"][c].at \in {"receive", "send"} /\ conn["target"][c] # "up" =>
            loop["client"][c].at = "ended" \/ conn["client"][c] = "closed"

IInv == TypeOK /\ Turns /\ Phases /\ Streams /\ Reached /\ Outlived /\ CancelComesLate

----------------------------------------------------------------------------
(* A stretch of a stream is a sequence of units.                           *)
LEMMA StreamIs ==
    ASSUME NEW s \in Sides, NEW c \in Clients, NEW a \in Nat, NEW b \in Nat, a <= b
    PROVE  /\ Stream(s, c, a, b) \in Seq(Unit)
           /\ Len(Stream(s, c, a, b)) = b - a
           /\ \A i \in 1 .. b - a : Stream(s, c, a, b)[i] = <<s, c, a + i>>
<1>1. ASSUME NEW i \in 1 .. b - a PROVE <<s, c, a + i>> \in Unit
  <2>1. a + i \in Nat
    OBVIOUS
  <2> QED
    BY <2>1, Zenon DEF Unit
<1>2. Stream(s, c, a, b) \in [1 .. b - a -> Unit]
  BY <1>1 DEF Stream
<1>3. b - a \in Nat
  OBVIOUS
<1>4. Stream(s, c, a, b) \in Seq(Unit)
  BY <1>2, <1>3, SeqDef
<1>5. DOMAIN Stream(s, c, a, b) = 1 .. Len(Stream(s, c, a, b)) /\ Len(Stream(s, c, a, b)) \in Nat
  BY <1>4, LenProperties
<1>6. Len(Stream(s, c, a, b)) = b - a
  BY <1>2, <1>3, <1>5
<1>7. \A i \in 1 .. b - a : Stream(s, c, a, b)[i] = <<s, c, a + i>>
  BY DEF Stream
<1> QED
  BY <1>4, <1>6, <1>7

(* The next n units of a stream.                                           *)
LEMMA StreamNext ==
    ASSUME NEW s \in Sides, NEW c \in Clients, NEW a \in Nat, NEW n \in Nat
    PROVE  Stream(s, c, a, a + n) \in Seq(Unit) /\ Len(Stream(s, c, a, a + n)) = n
<1>1. a + n \in Nat /\ a <= a + n /\ (a + n) - a = n
  OBVIOUS
<1>2. Stream(s, c, a, a + n) \in Seq(Unit) /\ Len(Stream(s, c, a, a + n)) = (a + n) - a
  BY <1>1, StreamIs
<1> QED
  BY <1>1, <1>2

(* The empty stretch.                                                      *)
LEMMA StreamEmpty ==
    ASSUME NEW s \in Sides, NEW c \in Clients, NEW a \in Nat
    PROVE  Stream(s, c, a, a) = <<>>
  BY StreamIs, EmptySeq

(* The two parts of a concatenation.                                       *)
LEMMA Parts ==
    ASSUME NEW S, NEW x \in Seq(S), NEW y \in Seq(S)
    PROVE  /\ x \o y \in Seq(S) /\ Len(x \o y) = Len(x) + Len(y)
           /\ \A i \in 1 .. Len(x) : (x \o y)[i] = x[i]
           /\ \A i \in Len(x) + 1 .. Len(x) + Len(y) : (x \o y)[i] = y[i - Len(x)]
<1>1. Len(x) \in Nat /\ Len(y) \in Nat
  BY LenProperties
<1>2. ASSUME NEW i \in 1 .. Len(x) PROVE (x \o y)[i] = x[i]
  <2>1. i \in 1 .. Len(x) + Len(y) /\ i <= Len(x)
    BY <1>1
  <2> QED
    BY <2>1, ConcatProperties
<1>3. ASSUME NEW i \in Len(x) + 1 .. Len(x) + Len(y) PROVE (x \o y)[i] = y[i - Len(x)]
  <2>1. i \in 1 .. Len(x) + Len(y) /\ ~(i <= Len(x))
    BY <1>1
  <2> QED
    BY <2>1, ConcatProperties
<1> QED
  BY <1>2, <1>3, ConcatProperties

(* Two adjacent stretches make one.                                        *)
LEMMA StreamJoin ==
    ASSUME NEW s \in Sides, NEW c \in Clients,
           NEW a \in Nat, NEW b \in Nat, NEW d \in Nat, a <= b, b <= d
    PROVE  Stream(s, c, a, b) \o Stream(s, c, b, d) = Stream(s, c, a, d)
<1> DEFINE x == Stream(s, c, a, b)
           y == Stream(s, c, b, d)
           z == Stream(s, c, a, d)
<1>0. a <= d
  OBVIOUS
<1>1. x \in Seq(Unit) /\ Len(x) = b - a /\ \A i \in 1 .. b - a : x[i] = <<s, c, a + i>>
  BY StreamIs
<1>2. y \in Seq(Unit) /\ Len(y) = d - b /\ \A i \in 1 .. d - b : y[i] = <<s, c, b + i>>
  BY StreamIs
<1>3. z \in Seq(Unit) /\ Len(z) = d - a /\ \A i \in 1 .. d - a : z[i] = <<s, c, a + i>>
  BY <1>0, StreamIs
<1> HIDE DEF x, y, z
<1>4. x \o y \in Seq(Unit) /\ Len(x \o y) = d - a
  <2>1. x \o y \in Seq(Unit) /\ Len(x \o y) = Len(x) + Len(y)
    BY <1>1, <1>2, Parts
  <2>2. (b - a) + (d - b) = d - a
    OBVIOUS
  <2> QED
    BY <1>1, <1>2, <2>1, <2>2
<1>5. ASSUME NEW i \in 1 .. d - a PROVE (x \o y)[i] = <<s, c, a + i>>
  <2>1. CASE i <= b - a
    <3>1. i \in 1 .. Len(x)
      BY <1>1, <2>1
    <3> QED
      BY <1>1, <1>2, <3>1, Parts
  <2>2. CASE i > b - a
    <3>1. i \in Len(x) + 1 .. Len(x) + Len(y)
      BY <1>1, <1>2, <2>2
    <3>2. (x \o y)[i] = y[i - (b - a)]
      BY <1>1, <1>2, <3>1, Parts
    <3>3. i - (b - a) \in 1 .. d - b /\ b + (i - (b - a)) = a + i
      BY <2>2
    <3>4. y[i - (b - a)] = <<s, c, b + (i - (b - a))>>
      BY <1>2, <3>3
    <3> QED
      BY <3>2, <3>3, <3>4
  <2>3. i <= b - a \/ i > b - a
    OBVIOUS
  <2> QED
    BY <2>1, <2>2, <2>3, Zenon
<1>6. x \o y = z
  <2>1. \A i \in 1 .. Len(x \o y) : (x \o y)[i] = z[i]
    BY <1>3, <1>4, <1>5
  <2> QED
    BY <1>3, <1>4, <2>1, SeqEqual
<1> QED
  BY <1>6 DEF x, y, z

(* The front of a stretch.                                                 *)
LEMMA StreamFront ==
    ASSUME NEW s \in Sides, NEW c \in Clients,
           NEW a \in Nat, NEW b \in Nat, a <= b, NEW m \in 0 .. b - a
    PROVE  SubSeq(Stream(s, c, a, b), 1, m) = Stream(s, c, a, a + m)
<1> DEFINE x == Stream(s, c, a, b)
           y == Stream(s, c, a, a + m)
           f == SubSeq(x, 1, m)
<1>0. m \in Nat /\ a + m \in Nat /\ a <= a + m /\ (a + m) - a = m
  OBVIOUS
<1>1. x \in Seq(Unit) /\ Len(x) = b - a /\ \A i \in 1 .. b - a : x[i] = <<s, c, a + i>>
  BY StreamIs
<1>2. y \in Seq(Unit) /\ Len(y) = m /\ \A i \in 1 .. m : y[i] = <<s, c, a + i>>
  <2>1. /\ y \in Seq(Unit) /\ Len(y) = (a + m) - a
        /\ \A i \in 1 .. (a + m) - a : y[i] = <<s, c, a + i>>
    BY <1>0, StreamIs
  <2> QED
    BY <1>0, <2>1
<1> HIDE DEF x, y
<1>3. \A i \in 1 .. m : x[i] \in Unit
  <2>1. \A i \in 1 .. m : i \in 1 .. Len(x)
    BY <1>1
  <2> QED
    BY <1>1, <2>1, ElementOfSeq
<1>4. f \in Seq(Unit) /\ Len(f) = m /\ \A i \in 1 .. m : f[i] = x[i]
  <2>1. f \in Seq(Unit) /\ Len(f) = IF 1 <= m THEN m - 1 + 1 ELSE 0
    BY <1>0, <1>3, SubSeqProperties
  <2>2. \A i \in 1 .. m : f[i] = x[i]
    BY <1>0, <1>3, SubSeqProperties
  <2> QED
    BY <2>1, <2>2
<1> HIDE DEF f
<1>5. \A i \in 1 .. Len(f) : f[i] = y[i]
  <2>1. \A i \in 1 .. m : i \in 1 .. b - a
    OBVIOUS
  <2> QED
    BY <1>1, <1>2, <1>4, <2>1
<1>6. f = y
  BY <1>2, <1>4, <1>5, SeqEqual
<1> QED
  BY <1>6 DEF x, y, f

(* The side a loop sends to.                                               *)
LEMMA OtherIs ==
    /\ "client" \in Sides /\ "target" \in Sides
    /\ \A s \in Sides : Other(s) \in Sides /\ Other(s) # s /\ Other(Other(s)) = s
  BY DEF Sides, Other

(* A status is a sequence of one unit.                                     *)
LEMMA StatusIs ==
    ASSUME NEW c \in Clients, NEW code \in Nat
    PROVE  Status(c, code) \in Seq(Unit)
  BY DEF Status, Unit

(* A loop's place and buffer, and the functions of the model's types.      *)
LoopState == [at : {"off", "receive", "send", "ended"}, buf : Seq(Unit)]
Each(S) == [Sides -> [Clients -> S]]

(* The bounds on what is read.                                             *)
Bounded == \A s \in Sides, c \in Clients : taken[s][c] <= written[s][c] /\ Len(loop[s][c].buf) <= Buffer

(* Every step keeps the types.                                             *)
LEMMA TypeKept == ASSUME TypeOK, [Next]_vars PROVE TypeOK'
<1> USE OtherIs
<1>0. CASE UNCHANGED vars
  BY <1>0 DEF vars, TypeOK
<1>1. CASE Accept
  <2>1. Head(backlog) \in Clients /\ Tail(backlog) \in Seq(Clients)
    BY <1>1, HeadTailProperties DEF Accept, TypeOK
  <2> QED
    BY <1>1, <2>1 DEF Accept, Stages, sockets, tasks, TypeOK
<1>2. ASSUME NEW c \in Clients, Arrive(c) PROVE TypeOK'
  <2>1. backlog' \in Seq(Clients)
    BY <1>2, AppendProperties DEF Arrive, TypeOK
  <2>2. conn' \in Each({"none", "up", "lost", "closed"})
    BY <1>2 DEF Arrive, TypeOK, Each
  <2> QED
    BY <1>2, <2>1, <2>2 DEF Arrive, tasks, TypeOK, Each
<1>3. ASSUME NEW c \in Clients, NEW s \in Sides, PeerSends(s, c) PROVE TypeOK'
  <2>1. written' \in Each(Nat)
    BY <1>3 DEF PeerSends, TypeOK, Each
  <2>2. ASSUME NEW r \in Sides, NEW d \in Clients PROVE taken[r][d] <= written'[r][d]
    <3>1. written'[r][d] = written[r][d] \/ written'[r][d] = written[r][d] + 1
      BY <1>3 DEF PeerSends, TypeOK
    <3>2. written[r][d] \in Nat /\ taken[r][d] \in Nat /\ taken[r][d] <= written[r][d]
      BY DEF TypeOK
    <3> QED
      BY <3>1, <3>2
  <2> QED
    BY <1>3, <2>1, <2>2 DEF PeerSends, tasks, TypeOK, Each
<1>4. ASSUME NEW c \in Clients, NEW s \in Sides, PeerLeaves(s, c) PROVE TypeOK'
  BY <1>4, SMTT(30) DEF PeerLeaves, tasks, TypeOK
<1>5. ASSUME NEW c \in Clients, NEW s \in Sides
      PROVE  /\ Received(s, c) \in Nat /\ Received(s, c) <= Buffer
             /\ taken[s][c] + Received(s, c) \in Nat
             /\ taken[s][c] + Received(s, c) <= written[s][c]
             /\ Pending(s, c) > 0 => Received(s, c) > 0
  <2>1. taken[s][c] \in Nat /\ written[s][c] \in Nat /\ taken[s][c] <= written[s][c]
    BY DEF TypeOK
  <2> QED
    BY <2>1, BufferAssumption DEF Received, Pending
<1>6. ASSUME NEW c \in Clients, NEW s \in Sides, NEW n \in Nat, n <= written[s][c],
             taken' = [taken EXCEPT ![s][c] = n]
      PROVE  taken' \in Each(Nat) /\ \A r \in Sides, d \in Clients : taken'[r][d] <= written[r][d]
  BY <1>6 DEF TypeOK, Each
<1>7. ASSUME NEW c \in Clients, Request(c) PROVE TypeOK'
  <2>1. /\ taken["client"][c] \in Nat /\ Received("client", c) \in Nat
        /\ Received("client", c) <= written["client"][c]
    <3>1. taken["client"][c] \in Nat /\ written["client"][c] \in Nat
      BY DEF TypeOK
    <3> QED
      BY <1>5, <3>1
  <2>2. taken' \in Each(Nat) /\ \A r \in Sides, d \in Clients : taken'[r][d] <= written[r][d]
    BY <1>6, <1>7, <2>1 DEF Request
  <2>3. skipped' \in [Clients -> Nat]
    BY <1>7, <2>1 DEF Request, TypeOK
  <2>4. manager' \in [at : Stages, client : Clients]
    BY <1>7 DEF Request, Stages, TypeOK
  <2> QED
    BY <1>7, <2>2, <2>3, <2>4 DEF Request, tasks, TypeOK, Each
<1>8. ASSUME NEW c \in Clients, NEW s \in Sides, NEW v \in {"lost", "up", "closed"},
             conn' = [conn EXCEPT ![s][c] = v]
      PROVE  conn' \in Each({"none", "up", "lost", "closed"})
  BY <1>8 DEF TypeOK, Each
<1>9. ASSUME NEW c \in Clients, NoRequest(c) PROVE TypeOK'
  BY <1>8, <1>9 DEF NoRequest, tasks, TypeOK, Each
<1>10. ASSUME NEW c \in Clients, RequestTimeout(c) PROVE TypeOK'
  BY <1>10 DEF RequestTimeout, sockets, tasks, TypeOK
<1>11. ASSUME NEW c \in Clients, RequestReset(c) PROVE TypeOK'
  BY <1>8, <1>11 DEF RequestReset, tasks, TypeOK, Each
<1>12. ASSUME NEW c \in Clients, NEW s \in Sides, NEW x \in Seq(Unit), got' = [got EXCEPT ![s][c] = x]
       PROVE  got' \in Each(Seq(Unit))
  BY <1>12 DEF TypeOK, Each
<1>13. ASSUME NEW c \in Clients, Refuse(c) PROVE TypeOK'
  <2>1. got' \in Each(Seq(Unit))
    <3>1. CASE UNCHANGED got
      BY <3>1 DEF TypeOK, Each
    <3>2. CASE got' = [got EXCEPT !["client"][c] = Status(c, 403)]
      <4>1. 403 \in Nat
        OBVIOUS
      <4>2. Status(c, 403) \in Seq(Unit)
        BY <4>1, StatusIs
      <4>3. "client" \in Sides
        OBVIOUS
      <4> QED
        BY <3>2, <4>2, <4>3 DEF TypeOK, Each
    <3> QED
      BY <1>13, <3>1, <3>2 DEF Refuse
  <2>2. conn' \in Each({"none", "up", "lost", "closed"})
    BY <1>8, <1>13 DEF Refuse
  <2> QED
    BY <1>13, <2>1, <2>2 DEF Refuse, tasks, TypeOK, Each
<1>14. ASSUME NEW c \in Clients, Start(c)
       PROVE  loop' \in Each(LoopState) /\ \A s \in Sides, d \in Clients : Len(loop'[s][d].buf) <= Buffer
  <2>1. Listening \in LoopState /\ Len(Listening.buf) <= Buffer
    BY BufferAssumption DEF Listening, LoopState
  <2>2. loop \in Each(LoopState) /\ \A s \in Sides, d \in Clients : Len(loop[s][d].buf) <= Buffer
    BY DEF TypeOK, Each, LoopState
  <2> HIDE DEF LoopState
  <2> QED
    BY <1>14, <2>1, <2>2 DEF Start, Each
<1>15. ASSUME NEW c \in Clients, Connect(c) PROVE TypeOK'
  <2>1. conn' \in Each({"none", "up", "lost", "closed"})
    BY <1>8, <1>15 DEF Connect
  <2>2. manager' \in [at : Stages, client : Clients]
    BY <1>15 DEF Connect, Stages, TypeOK
  <2> QED
    BY <1>15, <2>1, <2>2 DEF Connect, tasks, TypeOK, Each
<1>16. ASSUME NEW c \in Clients, Establish(c) PROVE TypeOK'
  <2>1. got' \in Each(Seq(Unit))
    <3>1. 200 \in Nat
      OBVIOUS
    <3>2. Status(c, 200) \in Seq(Unit)
      BY <3>1, StatusIs
    <3> QED
      BY <1>12, <1>16, <3>2 DEF Establish
  <2> QED
    BY <1>14, <1>16, <2>1 DEF Establish, TypeOK, Each, LoopState
<1>17. ASSUME NEW c \in Clients, NotEstablished(c) PROVE TypeOK'
  <2>1. conn' \in Each({"none", "up", "lost", "closed"})
    BY <1>17 DEF NotEstablished, TypeOK, Each
  <2> QED
    BY <1>14, <1>17, <2>1 DEF NotEstablished, TypeOK, Each, LoopState
<1>18. canceled \in [Clients -> BOOLEAN]
  BY DEF TypeOK
<1>19. ASSUME NEW c \in Clients, NEW s \in Sides, RemoteCheck(s, c) PROVE canceled' \in [Clients -> BOOLEAN]
  BY <1>18, <1>19 DEF RemoteCheck
<1>20. ASSUME NEW c \in Clients, NEW s \in Sides, NEW x \in LoopState, Len(x.buf) <= Buffer,
              loop' = [loop EXCEPT ![s][c] = x]
       PROVE  loop' \in Each(LoopState) /\ \A r \in Sides, d \in Clients : Len(loop'[r][d].buf) <= Buffer
  <2>1. loop \in Each(LoopState) /\ \A r \in Sides, d \in Clients : Len(loop[r][d].buf) <= Buffer
    BY DEF TypeOK, Each, LoopState
  <2> HIDE DEF LoopState
  <2> QED
    BY <1>20, <2>1 DEF Each
<1>21. Listening \in LoopState /\ Ended \in LoopState /\ Len(Listening.buf) <= Buffer /\ Len(Ended.buf) <= Buffer
  BY BufferAssumption DEF Listening, Ended, LoopState
<1>22. ASSUME NEW c \in Clients, NEW s \in Sides, Reads(s, c) PROVE TypeOK'
  <2> DEFINE n == Received(s, c)
             unit == Stream(s, c, taken[s][c], taken[s][c] + n)
             held == [at |-> "send", buf |-> unit]
  <2>1. n \in Nat /\ n <= Buffer /\ taken[s][c] + n <= written[s][c] /\ taken[s][c] + n \in Nat
        /\ taken[s][c] \in Nat
    BY <1>5 DEF TypeOK
  <2>2. unit \in Seq(Unit) /\ Len(unit) = n
    <3> HIDE DEF n
    <3> QED
      BY <2>1, StreamNext
  <2>3. taken' \in Each(Nat) /\ \A r \in Sides, d \in Clients : taken'[r][d] <= written[r][d]
    BY <1>6, <1>22, <2>1 DEF Reads
  <2>4. held \in LoopState /\ Len(held.buf) <= Buffer
    <3> HIDE DEF unit, n
    <3> QED
      BY <2>1, <2>2 DEF LoopState
  <2>5. loop' = [loop EXCEPT ![s][c] = held] \/ loop' = loop
    BY <1>22 DEF Reads
  <2> HIDE DEF held
  <2>6. loop' \in Each(LoopState) /\ \A r \in Sides, d \in Clients : Len(loop'[r][d].buf) <= Buffer
    <3>1. CASE loop' = loop
      BY <3>1 DEF TypeOK, Each, LoopState
    <3> QED
      BY <1>20, <2>4, <2>5, <3>1
  <2>7. canceled' \in [Clients -> BOOLEAN]
    BY <1>18, <1>19, <1>22 DEF Reads
  <2> QED
    BY <1>22, <2>3, <2>6, <2>7 DEF Reads, TypeOK, Each, LoopState
<1>23. ASSUME NEW c \in Clients, NEW s \in Sides, ReadsNothing(s, c) PROVE TypeOK'
  BY <1>19, <1>23 DEF ReadsNothing, sockets, TypeOK
<1>24. ASSUME NEW c \in Clients, NEW s \in Sides, ReadFails(s, c) PROVE TypeOK'
  <2>1. conn' \in Each({"none", "up", "lost", "closed"})
    <3>1. CASE UNCHANGED conn
      BY <3>1 DEF TypeOK, Each
    <3> QED
      BY <1>8, <1>24, <3>1 DEF ReadFails
  <2>2. loop' \in Each(LoopState) /\ \A r \in Sides, d \in Clients : Len(loop'[r][d].buf) <= Buffer
    BY <1>20, <1>21, <1>24 DEF ReadFails
  <2> QED
    BY <1>24, <2>1, <2>2 DEF ReadFails, TypeOK, Each, LoopState
<1>25. ASSUME NEW c \in Clients, NEW s \in Sides, NEW x \in Seq(Unit),
              got' = [got EXCEPT ![Other(s)][c] = @ \o x]
       PROVE  got' \in Each(Seq(Unit))
  <2>1. got[Other(s)][c] \in Seq(Unit)
    BY DEF TypeOK
  <2>2. got[Other(s)][c] \o x \in Seq(Unit)
    BY <2>1, ConcatProperties
  <2> QED
    BY <1>12, <1>25, <2>2
<1>26. ASSUME NEW c \in Clients, NEW s \in Sides PROVE loop[s][c].buf \in Seq(Unit)
  BY DEF TypeOK
<1>27. ASSUME NEW c \in Clients, NEW s \in Sides, Sends(s, c) PROVE TypeOK'
  <2>1. got' \in Each(Seq(Unit))
    <3>1. CASE UNCHANGED got
      BY <3>1 DEF TypeOK, Each
    <3> QED
      BY <1>25, <1>26, <1>27, <3>1 DEF Sends
  <2>2. loop' \in Each(LoopState) /\ \A r \in Sides, d \in Clients : Len(loop'[r][d].buf) <= Buffer
    BY <1>20, <1>21, <1>27 DEF Sends
  <2>3. canceled' \in [Clients -> BOOLEAN]
    BY <1>19, <1>27 DEF Sends
  <2> QED
    BY <1>27, <2>1, <2>2, <2>3 DEF Sends, TypeOK, Each, LoopState
<1>28. ASSUME NEW c \in Clients, NEW s \in Sides, SendFails(s, c) PROVE TypeOK'
  <2>1. got' \in Each(Seq(Unit))
    <3>1. CASE UNCHANGED got
      BY <3>1 DEF TypeOK, Each
    <3>2. ASSUME NEW m \in 0 .. Len(loop[s][c].buf) - 1,
                 got' = [got EXCEPT ![Other(s)][c] = @ \o SubSeq(loop[s][c].buf, 1, m)]
          PROVE  got' \in Each(Seq(Unit))
      <4>1. Len(loop[s][c].buf) \in Nat
        BY <1>26, LenProperties
      <4>2. \A i \in 1 .. m : loop[s][c].buf[i] \in Unit
        BY <1>26, <4>1, ElementOfSeq
      <4>3. SubSeq(loop[s][c].buf, 1, m) \in Seq(Unit)
        BY <4>1, <4>2, SubSeqProperties
      <4> QED
        BY <1>25, <3>2, <4>3
    <3> QED
      BY <1>28, <3>1, <3>2 DEF SendFails
  <2>2. loop' \in Each(LoopState) /\ \A r \in Sides, d \in Clients : Len(loop'[r][d].buf) <= Buffer
    BY <1>20, <1>21, <1>28 DEF SendFails
  <2>3. conn' \in Each({"none", "up", "lost", "closed"})
    <3>1. CASE UNCHANGED conn
      BY <3>1 DEF TypeOK, Each
    <3> QED
      BY <1>8, <1>28, <3>1 DEF SendFails
  <2> QED
    BY <1>28, <2>1, <2>2, <2>3 DEF SendFails, TypeOK, Each, LoopState
<1> QED
  BY <1>0, <1>1, <1>2, <1>3, <1>4, <1>7, <1>9, <1>10, <1>11, <1>13, <1>15, <1>16, <1>17, <1>22, <1>23,
     <1>24, <1>27, <1>28
     DEF Next, Manager, Handshake, Peers, Loops, Forwarding, Failing

----------------------------------------------------------------------------
(* What the actions leave alone.                                           *)

(* The connection d is as it was.                                          *)
Same(d) ==
    /\ \A s \in Sides : /\ loop'[s][d] = loop[s][d] /\ conn'[s][d] = conn[s][d]
                        /\ taken'[s][d] = taken[s][d] /\ got'[s][d] = got[s][d]
                        /\ written'[s][d] = written[s][d]
    /\ skipped'[d] = skipped[d] /\ canceled'[d] = canceled[d]

(* An update of one entry leaves the others alone.                         *)
LEMMA Elsewhere ==
    ASSUME NEW S, NEW f \in Each(S), NEW s \in Sides, NEW c \in Clients, NEW v,
           NEW g, g = [f EXCEPT ![s][c] = v] \/ g = f
    PROVE  /\ g[s][c] = v \/ g[s][c] = f[s][c]
           /\ \A r \in Sides, d \in Clients : r # s \/ d # c => g[r][d] = f[r][d]
  BY DEF Each

(* The types of the functions of sides and clients.                        *)
LEMMA Functions ==
    ASSUME TypeOK
    PROVE  /\ loop \in Each(LoopState) /\ conn \in Each({"none", "up", "lost", "closed"})
           /\ taken \in Each(Nat) /\ written \in Each(Nat) /\ got \in Each(Seq(Unit))
           /\ canceled \in [Clients -> BOOLEAN] /\ skipped \in [Clients -> Nat]
  BY DEF TypeOK, Each, LoopState

(* A step of the loop of s touches its own connection only, whose sockets  *)
(* it can but lose, and leaves the other loop alone.                       *)
LEMMA LoopFrame ==
    ASSUME TypeOK, NEW s \in Sides, NEW c \in Clients, Forwarding(s, c) \/ Failing(s, c)
    PROVE  /\ UNCHANGED <<backlog, manager, written, skipped>>
           /\ loop[s][c].at \in {"receive", "send"}
           /\ loop'[s][c].at \in {"receive", "send", "ended"}
           /\ \A d \in Clients : d # c => Same(d)
           /\ \A r \in Sides : conn'[r][c] = conn[r][c] \/ (conn[r][c] = "up" /\ conn'[r][c] = "lost")
           /\ \A r \in Sides : r # s => loop'[r][c] = loop[r][c] /\ taken'[r][c] = taken[r][c]
<1> USE OtherIs
<1> DEFINE Held == [at |-> "send", buf |-> Stream(s, c, taken[s][c], taken[s][c] + Received(s, c))]
<1>1. /\ UNCHANGED <<backlog, manager, written, skipped>>
      /\ loop[s][c].at \in {"receive", "send"}
  BY DEF Forwarding, Failing, Reads, ReadsNothing, ReadFails, Sends, SendFails, Receiving, sockets
<1>2. \E v : (v.at = "send" \/ v = Listening \/ v = Ended) /\ (loop' = [loop EXCEPT ![s][c] = v] \/ loop' = loop)
  <2>1. CASE Reads(s, c)
    <3>1. loop' = [loop EXCEPT ![s][c] = Held] \/ loop' = loop
      BY <2>1 DEF Reads
    <3>2. Held.at = "send"
      OBVIOUS
    <3> QED
      BY <3>1, <3>2
  <2>2. CASE ReadsNothing(s, c)
    BY <2>2 DEF ReadsNothing
  <2>3. CASE ReadFails(s, c) \/ SendFails(s, c)
    BY <2>3 DEF ReadFails, SendFails
  <2>4. CASE Sends(s, c)
    BY <2>4 DEF Sends
  <2> QED
    BY <2>1, <2>2, <2>3, <2>4 DEF Forwarding, Failing
<1>3. /\ loop'[s][c].at \in {"receive", "send", "ended"}
      /\ \A r \in Sides, d \in Clients : r # s \/ d # c => loop'[r][d] = loop[r][d]
  <2>1. PICK v : (v.at = "send" \/ v = Listening \/ v = Ended) /\ (loop' = [loop EXCEPT ![s][c] = v] \/ loop' = loop)
    BY <1>2
  <2>2. v.at \in {"receive", "send", "ended"}
    BY <2>1 DEF Listening, Ended
  <2>3. /\ loop'[s][c] = v \/ loop'[s][c] = loop[s][c]
        /\ \A r \in Sides, d \in Clients : r # s \/ d # c => loop'[r][d] = loop[r][d]
    <3>1. loop \in Each(LoopState)
      BY Functions
    <3> QED
      BY <2>1, <3>1 DEF Each
  <2> QED
    BY <1>1, <2>2, <2>3
<1>4. \A r \in Sides, d \in Clients : r # s \/ d # c => taken'[r][d] = taken[r][d]
  <2>1. \E v : taken' = [taken EXCEPT ![s][c] = v] \/ taken' = taken
    BY DEF Forwarding, Failing, Reads, ReadsNothing, ReadFails, Sends, SendFails, sockets
  <2>2. PICK v : taken' = [taken EXCEPT ![s][c] = v] \/ taken' = taken
    BY <2>1
  <2>3. taken \in Each(Nat)
    BY Functions
  <2> QED
    BY <2>2, <2>3 DEF Each
<1>5. \A r \in Sides, d \in Clients : d # c => got'[r][d] = got[r][d]
  <2>1. \E v : got' = [got EXCEPT ![Other(s)][c] = v] \/ got' = got
    BY DEF Forwarding, Failing, Reads, ReadsNothing, ReadFails, Sends, SendFails, sockets
  <2>2. PICK v : got' = [got EXCEPT ![Other(s)][c] = v] \/ got' = got
    BY <2>1
  <2>3. got \in Each(Seq(Unit))
    BY Functions
  <2> DEFINE o == Other(s)
  <2>4. o \in Sides /\ (got' = [got EXCEPT ![o][c] = v] \/ got' = got)
    BY <2>2
  <2> HIDE DEF o
  <2> QED
    BY <2>3, <2>4, Elsewhere
<1>6. \A d \in Clients : d # c => canceled'[d] = canceled[d]
  <2>1. \E v : canceled' = [canceled EXCEPT ![c] = v] \/ canceled' = canceled
    BY DEF Forwarding, Failing, Reads, ReadsNothing, ReadFails, Sends, SendFails, RemoteCheck
  <2> QED
    BY <2>1, Functions
<1>7. /\ \A r \in Sides, d \in Clients : d # c => conn'[r][d] = conn[r][d]
      /\ \A r \in Sides : conn'[r][c] = conn[r][c] \/ (conn[r][c] = "up" /\ conn'[r][c] = "lost")
  <2>1. \/ conn' = conn
        \/ \E o \in Sides : conn[o][c] = "up" /\ conn' = [conn EXCEPT ![o][c] = "lost"]
    BY DEF Forwarding, Failing, Reads, ReadsNothing, ReadFails, Sends, SendFails, sockets, Receiving
  <2>2. CASE conn' = conn
    BY <2>2
  <2>3. ASSUME NEW o \in Sides, conn[o][c] = "up", conn' = [conn EXCEPT ![o][c] = "lost"]
        PROVE  /\ \A r \in Sides, d \in Clients : d # c => conn'[r][d] = conn[r][d]
               /\ \A r \in Sides : conn'[r][c] = conn[r][c] \/ (conn[r][c] = "up" /\ conn'[r][c] = "lost")
    <3>1. conn \in Each({"none", "up", "lost", "closed"})
      BY Functions
    <3> QED
      BY <2>3, <3>1 DEF Each
  <2> QED
    BY <2>1, <2>2, <2>3
<1> QED
  BY <1>1, <1>3, <1>4, <1>5, <1>6, <1>7 DEF Same

(* A step of a handshake touches the connection it is for only.            *)
LEMMA HandshakeFrame ==
    ASSUME TypeOK, NEW c \in Clients, Handshake(c)
    PROVE  /\ UNCHANGED <<backlog, written>>
           /\ manager.client = c /\ manager.at \in Stages
           /\ manager' = Accepting \/ (manager'.client = c /\ manager'.at \in Stages \ {"request"})
           /\ \A d \in Clients : d # c => Same(d)
<1> USE OtherIs
<1>1. UNCHANGED <<backlog, written>> /\ manager.client = c /\ manager.at \in Stages
  BY DEF Handshake, Request, NoRequest, RequestTimeout, RequestReset, Refuse, Connect, Establish, NotEstablished,
         sockets, Stages
<1>2. manager' = Accepting \/ (manager'.client = c /\ manager'.at \in Stages \ {"request"})
  BY DEF Handshake, Request, NoRequest, RequestTimeout, RequestReset, Refuse, Connect, Establish, NotEstablished,
         Stages
<1>3. \A r \in Sides, d \in Clients : d # c => conn'[r][d] = conn[r][d]
  <2>1. \/ \E s \in Sides : \E v : conn' = [conn EXCEPT ![s][c] = v] \/ conn' = conn
        \/ conn' = [s \in Sides |-> [conn[s] EXCEPT ![c] = "closed"]]
    BY DEF Handshake, Request, NoRequest, RequestTimeout, RequestReset, Refuse, Connect, Establish, NotEstablished,
           sockets
  <2>2. CASE \E s \in Sides : \E v : conn' = [conn EXCEPT ![s][c] = v] \/ conn' = conn
    <3>0. PICK s \in Sides : \E v : conn' = [conn EXCEPT ![s][c] = v] \/ conn' = conn
      BY <2>2
    <3>1. PICK v : conn' = [conn EXCEPT ![s][c] = v] \/ conn' = conn
      BY <3>0
    <3>2. conn \in Each({"none", "up", "lost", "closed"})
      BY Functions
    <3> QED
      BY <3>1, <3>2 DEF Each
  <2>3. CASE conn' = [s \in Sides |-> [conn[s] EXCEPT ![c] = "closed"]]
    BY <2>3, Functions DEF Each
  <2> QED
    BY <2>1, <2>2, <2>3
<1>4. \A r \in Sides, d \in Clients : d # c => loop'[r][d] = loop[r][d]
  <2>1. Start(c) \/ loop' = loop
    BY DEF Handshake, Request, NoRequest, RequestTimeout, RequestReset, Refuse, Connect, Establish, NotEstablished,
           tasks
  <2>2. loop \in Each(LoopState)
    BY Functions
  <2>3. CASE loop' = [s \in Sides |-> [loop[s] EXCEPT ![c] = Listening]]
    BY <2>2, <2>3 DEF Each
  <2> QED
    BY <2>1, <2>3 DEF Start
<1>5. \A r \in Sides, d \in Clients : d # c => taken'[r][d] = taken[r][d]
  <2>1. \E v : taken' = [taken EXCEPT !["client"][c] = v] \/ taken' = taken
    BY DEF Handshake, Request, NoRequest, RequestTimeout, RequestReset, Refuse, Connect, Establish, NotEstablished,
           sockets
  <2>2. PICK v : taken' = [taken EXCEPT !["client"][c] = v] \/ taken' = taken
    BY <2>1
  <2>3. taken \in Each(Nat)
    BY Functions
  <2> QED
    BY <2>2, <2>3 DEF Each
<1>6. \A r \in Sides, d \in Clients : d # c => got'[r][d] = got[r][d]
  <2>1. \E v : got' = [got EXCEPT !["client"][c] = v] \/ got' = got
    BY DEF Handshake, Request, NoRequest, RequestTimeout, RequestReset, Refuse, Connect, Establish, NotEstablished,
           sockets
  <2>2. PICK v : got' = [got EXCEPT !["client"][c] = v] \/ got' = got
    BY <2>1
  <2>3. got \in Each(Seq(Unit))
    BY Functions
  <2>4. \A r \in Sides : got'[r] = [got[r] EXCEPT ![c] = v] \/ got'[r] = got[r]
    BY <2>2, <2>3 DEF Each
  <2> QED
    BY <2>3, <2>4 DEF Each
<1>7. \A d \in Clients : d # c => skipped'[d] = skipped[d] /\ canceled'[d] = canceled[d]
  <2>1. \E v : skipped' = [skipped EXCEPT ![c] = v] \/ skipped' = skipped
    BY DEF Handshake, Request, NoRequest, RequestTimeout, RequestReset, Refuse, Connect, Establish, NotEstablished,
           sockets
  <2>2. canceled' = canceled
    BY DEF Handshake, Request, NoRequest, RequestTimeout, RequestReset, Refuse, Connect, Establish, NotEstablished,
           tasks
  <2> QED
    BY <2>1, <2>2, Functions
<1> QED
  BY <1>1, <1>2, <1>3, <1>4, <1>5, <1>6, <1>7 DEF Same

(* What the peers do changes no more than their own counters.              *)
LEMMA PeerFrame ==
    ASSUME NEW s \in Sides, NEW c \in Clients, PeerSends(s, c) \/ PeerLeaves(s, c)
    PROVE  UNCHANGED <<backlog, manager, conn, taken, skipped, got, loop, canceled>>
  BY DEF PeerSends, PeerLeaves, tasks

----------------------------------------------------------------------------
(* The turns of the clients.                                               *)
Turn(d) ==
    /\ Waiting(d) => conn["client"][d] = "up" /\ manager.client # d
    /\ manager.client = d => conn["client"][d] = "up"
    /\ Unheard(d) => skipped[d] = 0 /\ taken["client"][d] = 0
    /\ Unheard(d) \/ manager.client = d => Unstarted(d) /\ got["client"][d] = <<>>
Distinct == \A i, j \in DOMAIN backlog : backlog[i] = backlog[j] => i = j

(* Arriving puts a new client at the end of the backlog.                   *)
LEMMA ArriveWaits ==
    ASSUME TypeOK, Distinct, NEW c \in Clients, ~Waiting(c), backlog' = Append(backlog, c)
    PROVE  Distinct' /\ \A d \in Clients : Waiting(d)' <=> Waiting(d) \/ d = c
<1>1. backlog \in Seq(Clients) /\ Len(backlog) \in Nat /\ DOMAIN backlog = 1 .. Len(backlog)
  BY LenProperties DEF TypeOK
<1>2. /\ DOMAIN backlog' = 1 .. Len(backlog) + 1
      /\ \A i \in 1 .. Len(backlog) : backlog'[i] = backlog[i]
      /\ backlog'[Len(backlog) + 1] = c
  <2>1. Append(backlog, c) \in Seq(Clients) /\ Len(Append(backlog, c)) = Len(backlog) + 1
        /\ \A i \in 1 .. Len(backlog) : Append(backlog, c)[i] = backlog[i]
        /\ Append(backlog, c)[Len(backlog) + 1] = c
    BY <1>1, AppendProperties
  <2>2. DOMAIN Append(backlog, c) = 1 .. Len(Append(backlog, c))
    BY <2>1, LenProperties
  <2> QED
    BY <2>1, <2>2
<1>3. \A i \in 1 .. Len(backlog) + 1 : i \in 1 .. Len(backlog) \/ i = Len(backlog) + 1
  BY <1>1
<1>4. Distinct'
  BY <1>1, <1>2, <1>3 DEF Distinct, Waiting
<1>5. \A d \in Clients : Waiting(d)' <=> Waiting(d) \/ d = c
  BY <1>1, <1>2, <1>3 DEF Waiting
<1> QED
  BY <1>4, <1>5

(* Accepting takes the first client off it.                                *)
LEMMA AcceptTakes ==
    ASSUME TypeOK, Distinct, Accept
    PROVE  /\ Distinct' /\ Head(backlog) \in Clients /\ Waiting(Head(backlog))
           /\ \A d \in Clients : Waiting(d)' => Waiting(d) /\ d # Head(backlog)
<1>1. backlog \in Seq(Clients) /\ backlog # <<>>
  BY DEF TypeOK, Accept
<1>2. /\ Len(backlog) \in Nat \ {0} /\ DOMAIN backlog = 1 .. Len(backlog)
      /\ Head(backlog) = backlog[1]
  BY <1>1, LenProperties, EmptySeq, HeadTailProperties
<1>3. Tail(backlog) \in Seq(Clients) /\ Len(Tail(backlog)) = Len(backlog) - 1
      /\ \A i \in 1 .. Len(backlog) - 1 : Tail(backlog)[i] = backlog[i + 1]
  BY <1>1, <1>2, HeadTailProperties
<1>4. DOMAIN backlog' = 1 .. Len(backlog) - 1
  <2>1. DOMAIN Tail(backlog) = 1 .. Len(Tail(backlog))
    BY <1>3, LenProperties
  <2> QED
    BY <1>3, <2>1 DEF Accept
<1>5. \A i \in DOMAIN backlog' : backlog'[i] = backlog[i + 1] /\ i + 1 \in DOMAIN backlog /\ i + 1 # 1
  BY <1>2, <1>3, <1>4 DEF Accept
<1>6. 1 \in DOMAIN backlog /\ Head(backlog) \in Clients
  BY <1>1, <1>2
<1>7. Distinct'
  <2>1. \A i, j \in DOMAIN backlog' : i \in Int /\ j \in Int
    BY <1>4
  <2>2. ASSUME NEW i \in DOMAIN backlog', NEW j \in DOMAIN backlog', backlog'[i] = backlog'[j] PROVE i = j
    <3>1. i + 1 = j + 1
      BY <1>5, <2>2 DEF Distinct
    <3> QED
      BY <2>1, <3>1
  <2> QED
    BY <2>2 DEF Distinct
<1>8. \A d \in Clients : Waiting(d)' => Waiting(d) /\ d # Head(backlog)
  BY <1>2, <1>5, <1>6 DEF Waiting, Distinct
<1> QED
  BY <1>2, <1>6, <1>7, <1>8 DEF Waiting

(* Every step keeps the turns.                                             *)
LEMMA TurnsKept == ASSUME TypeOK, Turns, [Next]_vars PROVE Turns'
<1> USE OtherIs
<1>1. Turns <=> Distinct /\ \A d \in Clients : Turn(d)
  BY DEF Turns, Turn, Distinct
<1>2. Distinct' /\ (\A d \in Clients : Turn(d)') => Turns'
  BY DEF Turns, Turn, Distinct
<1>3. \A d \in Clients : manager.client = d => manager \in [at : Stages, client : Clients]
  BY ClientAssumption DEF TypeOK, Accepting
<1>4. ASSUME UNCHANGED <<backlog, manager, skipped>>,
             NEW d \in Clients, conn'["client"][d] = conn["client"][d], taken'["client"][d] = taken["client"][d],
             \A s \in Sides : loop'[s][d] = loop[s][d],
             got'["client"][d] = got["client"][d]
      PROVE  Turn(d)'
  BY <1>1, <1>4 DEF Turn, Waiting, Unheard, Unstarted
<1>5. UNCHANGED backlog => Distinct'
  BY <1>1 DEF Distinct
<1>6. CASE UNCHANGED vars
  <2>1. UNCHANGED <<backlog, manager, skipped, conn, taken, loop, got>>
    BY <1>6 DEF vars
  <2> QED
    BY <1>2, <1>4, <1>5, <2>1
<1>7. ASSUME NEW s \in Sides, NEW c \in Clients, PeerSends(s, c) \/ PeerLeaves(s, c) PROVE Turns'
  <2>1. UNCHANGED <<backlog, manager, skipped, conn, taken, loop, got>>
    BY <1>7, PeerFrame
  <2> QED
    BY <1>2, <1>4, <1>5, <2>1
<1>8. ASSUME NEW c \in Clients, Arrive(c) PROVE Turns'
  <2>1. ~Waiting(c) /\ manager.client # c /\ Unheard(c)
    BY <1>1, <1>8 DEF Arrive, Turn, Unheard
  <2>2. Distinct' /\ \A d \in Clients : Waiting(d)' <=> Waiting(d) \/ d = c
    BY <1>1, <1>8, <2>1, ArriveWaits DEF Arrive
  <2>3. /\ UNCHANGED <<manager, skipped, taken, loop, got>>
        /\ conn'["client"][c] = "up"
        /\ \A d \in Clients : d # c => conn'["client"][d] = conn["client"][d]
    BY <1>8 DEF Arrive, tasks, TypeOK
  <2>4. ASSUME NEW d \in Clients PROVE Turn(d)'
    BY <1>1, <2>1, <2>2, <2>3 DEF Turn, Unheard, Unstarted
  <2> QED
    BY <1>2, <2>2, <2>4
<1>9. CASE Accept
  <2> DEFINE h == Head(backlog)
  <2>1. /\ Distinct' /\ h \in Clients /\ Waiting(h)
        /\ \A d \in Clients : Waiting(d)' => Waiting(d) /\ d # h
    BY <1>1, <1>9, AcceptTakes
  <2>2. manager' = [at |-> "request", client |-> h] /\ manager.at = "accept"
        /\ UNCHANGED <<skipped, conn, taken, loop, got>>
    BY <1>9 DEF Accept, sockets, tasks
  <2> HIDE DEF h
  <2>3. ASSUME NEW d \in Clients PROVE Turn(d)'
    <3>1. Unheard(d)' \/ manager'.client = d => Unheard(d)
      BY <2>1, <2>2 DEF Unheard
    <3>2. manager'.client = d <=> d = h
      BY <2>2
    <3> QED
      BY <1>1, <2>1, <2>2, <3>1, <3>2 DEF Turn, Unstarted
  <2> QED
    BY <1>2, <2>1, <2>3
<1>10. ASSUME NEW c \in Clients, Handshake(c) PROVE Turns'
  <2>1. /\ UNCHANGED backlog /\ manager.client = c /\ manager.at \in Stages
        /\ manager' = Accepting \/ (manager'.client = c /\ manager'.at \in Stages \ {"request"})
        /\ \A d \in Clients : d # c => Same(d)
    BY <1>10, HandshakeFrame
  <2>2. \A d \in Clients : manager'.client = d => d = c /\ manager'.at # "request"
    BY <2>1, ClientAssumption DEF Accepting
  <2>3. \A d \in Clients : manager' # [at |-> "request", client |-> d]
    BY <2>1, <2>2 DEF Accepting
  <2>4. ASSUME NEW d \in Clients, d # c PROVE Turn(d)'
    <3>1. manager'.client # d /\ (Waiting(d)' <=> Waiting(d)) /\ Same(d)
      BY <2>1, <2>2, <2>4 DEF Waiting
    <3>2. Unheard(d)' => Unheard(d)
      BY <2>3, <3>1 DEF Unheard, Same
    <3> QED
      BY <1>1, <3>1, <3>2 DEF Turn, Same, Unstarted
  <2>5. Turn(c)'
    <3>1. ~Waiting(c)' /\ conn["client"][c] = "up" /\ Unstarted(c) /\ got["client"][c] = <<>>
      BY <1>1, <2>1 DEF Turn, Waiting
    <3>2. conn'["client"][c] # "none"
      <4>1. \/ conn' = conn
            \/ \E s \in Sides, v \in {"up", "lost", "closed"} : conn' = [conn EXCEPT ![s][c] = v]
            \/ conn' = [s \in Sides |-> [conn[s] EXCEPT ![c] = "closed"]]
        BY <1>10 DEF Handshake, Request, NoRequest, RequestTimeout, RequestReset, Refuse, Connect, Establish,
                     NotEstablished, sockets
      <4>2. conn \in Each({"none", "up", "lost", "closed"})
        BY Functions
      <4>3. ASSUME NEW s \in Sides, NEW v \in {"up", "lost", "closed"}, conn' = [conn EXCEPT ![s][c] = v]
            PROVE  conn'["client"][c] # "none"
        BY <3>1, <4>2, <4>3 DEF Each
      <4>4. CASE conn' = [s \in Sides |-> [conn[s] EXCEPT ![c] = "closed"]]
        BY <4>2, <4>4 DEF Each
      <4> QED
        BY <3>1, <4>1, <4>3, <4>4
    <3>3. manager' # Accepting => conn'["client"][c] = "up" /\ UNCHANGED <<loop, got>>
      BY <1>10, <3>1 DEF Handshake, Request, NoRequest, RequestTimeout, RequestReset, Refuse, Connect, Establish,
                         NotEstablished, tasks, TypeOK
    <3>4. manager'.client = c => manager' # Accepting
      BY ClientAssumption DEF Accepting
    <3> QED
      BY <2>3, <3>1, <3>2, <3>3, <3>4 DEF Turn, Unheard, Unstarted
  <2> QED
    BY <1>2, <1>5, <2>1, <2>4, <2>5
<1>11. ASSUME NEW s \in Sides, NEW c \in Clients, Forwarding(s, c) \/ Failing(s, c) PROVE Turns'
  <2>1. /\ UNCHANGED <<backlog, manager, skipped>> /\ loop[s][c].at \in {"receive", "send"}
        /\ \A d \in Clients : d # c => Same(d)
        /\ conn'["client"][c] = conn["client"][c] \/ conn'["client"][c] = "lost"
    BY <1>11, LoopFrame
  <2>2. ASSUME NEW d \in Clients, d # c PROVE Turn(d)'
    BY <1>4, <2>1, <2>2 DEF Same
  <2>3. ~Unheard(c) /\ manager.client # c
    <3>1. ~Unstarted(c)
      BY <2>1 DEF Unstarted, Off
    <3> QED
      BY <1>1, <3>1 DEF Turn
  <2>4. ~Unheard(c)' /\ ~Waiting(c)' /\ manager'.client # c
    BY <2>1, <2>3 DEF Unheard, Waiting
  <2>5. Turn(c)'
    BY <2>4 DEF Turn
  <2> QED
    BY <1>2, <1>5, <2>1, <2>2, <2>5
<1> QED
  BY <1>6, <1>7, <1>8, <1>9, <1>10, <1>11 DEF Next, Manager, Peers, Loops

----------------------------------------------------------------------------
(* From idle to established or stillborn.                                  *)

(* During its handshake a connection is idle and has heard nothing.        *)
LEMMA HandshakeIdle ==
    ASSUME TypeOK, Turns, Phases, NEW c \in Clients, Handshake(c)
    PROVE  Unstarted(c) /\ Idle(c) /\ got["client"][c] = <<>>
<1>1. manager.client = c
  BY HandshakeFrame
<1>2. Unstarted(c) /\ got["client"][c] = <<>>
  BY <1>1 DEF Turns
<1>3. loop["client"][c].at = "off"
  BY <1>2, OtherIs DEF Unstarted, Off
<1> QED
  BY <1>2, <1>3, OtherIs DEF Phases, Phase

(* What a handshake makes of it.                                           *)
LEMMA HandshakeEnds ==
    ASSUME TypeOK, Turns, Phases, NEW c \in Clients, Handshake(c)
    PROVE  /\ canceled' = canceled
           /\ got'["target"][c] = <<>> /\ taken'["target"][c] = 0 /\ taken'["client"][c] = skipped'[c]
           /\ \/ Unstarted(c)' /\ got'["client"][c] \in {<<>>, Status(c, 403)}
              \/ (\A s \in Sides : loop'[s][c] = Listening) /\ got'["client"][c] = Status(c, 200)
              \/ Stillborn(c)'
<1> USE OtherIs
<1>1. /\ \A s \in Sides : loop[s][c] = Off
      /\ got["client"][c] = <<>> /\ got["target"][c] = <<>>
      /\ taken["target"][c] = 0 /\ taken["client"][c] = skipped[c]
  BY HandshakeIdle DEF Unstarted, Idle
<1>2. taken \in Each(Nat) /\ skipped \in [Clients -> Nat] /\ got \in Each(Seq(Unit)) /\ loop \in Each(LoopState)
      /\ conn \in Each({"none", "up", "lost", "closed"})
  BY Functions
<1>3. "client" # "target"
  OBVIOUS
<1>4. CASE Request(c)
  <2>1. UNCHANGED <<loop, got, canceled>>
    BY <1>4 DEF Request, tasks
  <2>2. taken'["client"][c] = skipped'[c] /\ taken'["target"][c] = taken["target"][c]
    <3> DEFINE n == Received("client", c)
    <3>1. taken' = [taken EXCEPT !["client"][c] = n] /\ skipped' = [skipped EXCEPT ![c] = n]
      BY <1>4 DEF Request
    <3> HIDE DEF n
    <3> QED
      BY <1>2, <1>3, <3>1 DEF Each
  <2> QED
    BY <1>1, <2>1, <2>2 DEF Unstarted
<1>5. CASE NoRequest(c) \/ RequestTimeout(c) \/ RequestReset(c) \/ Connect(c)
  <2>1. UNCHANGED <<loop, got, canceled, taken, skipped>>
    BY <1>5 DEF NoRequest, RequestTimeout, RequestReset, Connect, tasks, sockets
  <2> QED
    BY <1>1, <2>1 DEF Unstarted
<1>6. CASE Refuse(c)
  <2>1. UNCHANGED <<loop, canceled, taken, skipped>>
    BY <1>6 DEF Refuse, tasks
  <2>2. got' = got \/ got' = [got EXCEPT !["client"][c] = Status(c, 403)]
    BY <1>6 DEF Refuse
  <2>3. got'["target"][c] = got["target"][c]
        /\ (got'["client"][c] = got["client"][c] \/ got'["client"][c] = Status(c, 403))
    <3>1. CASE got' = [got EXCEPT !["client"][c] = Status(c, 403)]
      BY <1>2, <1>3, <3>1 DEF Each
    <3> QED
      BY <2>2, <3>1
  <2> QED
    BY <1>1, <2>1, <2>3 DEF Unstarted
<1>7. Start(c) => \A s \in Sides : loop'[s][c] = Listening
  BY <1>2 DEF Start, Each
<1>8. CASE Establish(c)
  <2>1. UNCHANGED <<canceled, taken, skipped>> /\ Start(c) /\ got' = [got EXCEPT !["client"][c] = Status(c, 200)]
    BY <1>8 DEF Establish
  <2>2. got'["target"][c] = got["target"][c] /\ got'["client"][c] = Status(c, 200)
    BY <1>2, <1>3, <2>1 DEF Each
  <2> QED
    BY <1>1, <1>7, <2>1, <2>2
<1>9. CASE NotEstablished(c)
  <2>1. UNCHANGED <<canceled, taken, skipped, got>> /\ Start(c)
        /\ conn' = [s \in Sides |-> [conn[s] EXCEPT ![c] = "closed"]]
    BY <1>9 DEF NotEstablished
  <2>2. \A s \in Sides : conn'[s][c] = "closed"
    BY <1>2, <2>1 DEF Each
  <2>3. \A s \in Sides : got[s][c] = <<>>
    BY <1>1 DEF Sides
  <2> QED
    BY <1>1, <1>7, <2>1, <2>2, <2>3 DEF Stillborn
<1> QED
  BY <1>4, <1>5, <1>6, <1>8, <1>9 DEF Handshake

(* The loop of s passes m units of its buffer on.                          *)
PassesOn(s, c, m) ==
    /\ loop[s][c].at = "send" /\ conn[Other(s)][c] = "up"
    /\ got'[Other(s)][c] = got[Other(s)][c] \o SubSeq(loop[s][c].buf, 1, m)
    /\ UNCHANGED <<conn, taken>>
    /\ \/ loop'[s][c] = Ended
       \/ loop'[s][c] = Listening /\ m = Len(loop[s][c].buf)

(* A loop only adds to what the other peer has got.                        *)
LEMMA LoopPasses ==
    ASSUME TypeOK, NEW s \in Sides, NEW c \in Clients, Forwarding(s, c) \/ Failing(s, c)
    PROVE  /\ got'[s][c] = got[s][c]
           /\ \/ got'[Other(s)][c] = got[Other(s)][c] /\ ~(Sends(s, c) /\ conn[Other(s)][c] = "up")
              \/ \E m \in 0 .. Len(loop[s][c].buf) : PassesOn(s, c, m)
<1> USE OtherIs
<1> DEFINE o == Other(s)
           b == loop[s][c].buf
<1>1. o \in Sides /\ o # s
  OBVIOUS
<1>2. got \in Each(Seq(Unit)) /\ loop \in Each(LoopState)
  BY Functions
<1>3. b \in Seq(Unit) /\ Len(b) \in Nat
  <2>1. b \in Seq(Unit)
    BY DEF TypeOK
  <2> QED
    BY <2>1, LenProperties
<1>4. SubSeq(b, 1, Len(b)) = b
  BY <1>3, SubSeqFull
<1>5. CASE got' = got /\ ~(Sends(s, c) /\ conn[o][c] = "up")
  BY <1>5
<1>6. ASSUME NEW x, got' = [got EXCEPT ![o][c] = @ \o x]
      PROVE  got'[s][c] = got[s][c] /\ got'[o][c] = got[o][c] \o x
  <2> HIDE DEF o
  <2> QED
    BY <1>1, <1>2, <1>6 DEF Each
<1>7. ASSUME NEW l, loop' = [loop EXCEPT ![s][c] = l] PROVE loop'[s][c] = l
  BY <1>2, <1>7 DEF Each
<1>8. CASE Sends(s, c) /\ conn[o][c] = "up"
  <2>1. /\ loop[s][c].at = "send" /\ conn[o][c] = "up" /\ UNCHANGED <<conn, taken>>
        /\ got' = [got EXCEPT ![o][c] = @ \o b] /\ loop' = [loop EXCEPT ![s][c] = Listening]
    BY <1>8 DEF Sends
  <2>2. loop'[s][c] = Listening
    BY <1>7, <2>1
  <2>3. got'[s][c] = got[s][c] /\ got'[o][c] = got[o][c] \o SubSeq(b, 1, Len(b))
    BY <1>4, <1>6, <2>1
  <2>4. Len(b) \in 0 .. Len(b)
    BY <1>3
  <2> HIDE DEF b
  <2> QED
    BY <2>1, <2>2, <2>3, <2>4 DEF b, PassesOn
<1>9. CASE got' # got /\ SendFails(s, c)
  <2>1. PICK m \in 0 .. Len(b) - 1 : got' = [got EXCEPT ![o][c] = @ \o SubSeq(b, 1, m)]
    BY <1>9 DEF SendFails
  <2>2. loop[s][c].at = "send" /\ conn[o][c] = "up" /\ UNCHANGED <<conn, taken>>
        /\ loop' = [loop EXCEPT ![s][c] = Ended]
    BY <1>9 DEF SendFails
  <2>3. loop'[s][c] = Ended
    BY <1>7, <2>2
  <2>4. got'[s][c] = got[s][c] /\ got'[o][c] = got[o][c] \o SubSeq(b, 1, m)
    BY <1>6, <2>1
  <2>5. m \in 0 .. Len(b)
    BY <1>3
  <2> HIDE DEF b
  <2> QED
    BY <2>2, <2>3, <2>4, <2>5 DEF b, PassesOn
<1> QED
  <2>1. got' = got \/ SendFails(s, c) \/ (Sends(s, c) /\ conn[o][c] = "up")
    BY DEF Forwarding, Failing, Reads, ReadsNothing, ReadFails, Sends, sockets
  <2> QED
    BY <1>5, <1>8, <1>9, <2>1

(* Every step keeps the phases.                                            *)
LEMMA PhasesKept == ASSUME TypeOK, Turns, Phases, [Next]_vars PROVE Phases'
<1> USE OtherIs
<1>1. ASSUME NEW d \in Clients, Same(d) PROVE Phase(d)'
  <2>1. Phase(d)
    BY DEF Phases
  <2> QED
    BY <1>1, <2>1 DEF Same, Phase, Unstarted, Idle, Established, Stillborn
<1>2. ASSUME UNCHANGED <<loop, canceled, got, taken, skipped>>,
             NEW d \in Clients, \A s \in Sides : conn[s][d] = "closed" => conn'[s][d] = "closed"
      PROVE  Phase(d)'
  BY <1>2 DEF Phases, Phase, Unstarted, Idle, Established, Stillborn
<1>3. CASE UNCHANGED vars
  BY <1>2, <1>3 DEF vars, Phases
<1>4. CASE Accept
  BY <1>2, <1>4 DEF Accept, sockets, tasks, Phases
<1>5. ASSUME NEW s \in Sides, NEW c \in Clients, PeerSends(s, c) \/ PeerLeaves(s, c) PROVE Phases'
  <2>1. UNCHANGED <<conn, taken, skipped, got, loop, canceled>>
    BY <1>5, PeerFrame
  <2> QED
    BY <1>2, <2>1 DEF Phases
<1>6. ASSUME NEW c \in Clients, Arrive(c) PROVE Phases'
  <2>1. UNCHANGED <<loop, canceled, got, taken, skipped>>
    BY <1>6 DEF Arrive, tasks
  <2>2. conn' = [conn EXCEPT !["client"][c] = "up"] /\ conn["client"][c] = "none"
    BY <1>6 DEF Arrive
  <2>3. conn \in Each({"none", "up", "lost", "closed"})
    BY Functions
  <2>4. \A s \in Sides, d \in Clients : conn[s][d] = "closed" => conn'[s][d] = "closed"
    BY <2>2, <2>3 DEF Each
  <2> QED
    BY <1>2, <2>1, <2>4 DEF Phases
<1>7. ASSUME NEW c \in Clients, Handshake(c) PROVE Phases'
  <2>1. \A d \in Clients : d # c => Phase(d)'
    BY <1>1, <1>7, HandshakeFrame
  <2>2. ~canceled'[c]
    BY <1>7, HandshakeIdle, HandshakeEnds DEF Idle
  <2>3. ASSUME Unstarted(c)' /\ got'["client"][c] \in {<<>>, Status(c, 403)} PROVE Phase(c)'
    BY <1>7, <2>2, <2>3, HandshakeEnds DEF Phase, Idle
  <2>4. ASSUME (\A s \in Sides : loop'[s][c] = Listening) /\ got'["client"][c] = Status(c, 200) PROVE Phase(c)'
    <3>1. \A s \in Sides : loop'[s][c].at # "off"
      BY <2>4 DEF Listening
    <3>2. Status(c, 200) # <<>> /\ Status(c, 200)[1] = <<"node", c, 200>>
      BY DEF Status
    <3> QED
      BY <2>4, <3>1, <3>2 DEF Phase, Established
  <2>5. ASSUME Stillborn(c)' PROVE Phase(c)'
    <3>1. \A s \in Sides : loop'[s][c].at # "off"
      BY <2>5 DEF Stillborn, Listening
    <3> QED
      BY <2>5, <3>1 DEF Phase
  <2>6. Phase(c)'
    BY <1>7, <2>3, <2>4, <2>5, HandshakeEnds
  <2> QED
    BY <2>1, <2>6 DEF Phases
<1>8. ASSUME NEW s \in Sides, NEW c \in Clients, Forwarding(s, c) \/ Failing(s, c) PROVE Phases'
  <2>1. /\ loop[s][c].at \in {"receive", "send"} /\ loop'[s][c].at \in {"receive", "send", "ended"}
        /\ \A d \in Clients : d # c => Same(d)
        /\ \A r \in Sides : r # s => loop'[r][c] = loop[r][c]
    BY <1>8, LoopFrame
  <2>2. (\A r \in Sides : loop[r][c].at # "off") /\ (Established(c) \/ Stillborn(c))
    BY <2>1 DEF Phases, Phase, Unstarted, Off
  <2>3. \A r \in Sides : loop'[r][c].at # "off"
    BY <2>1, <2>2
  <2>4. ASSUME Established(c) PROVE Phase(c)'
    <3>1. \/ got'["client"][c] = got["client"][c]
          \/ \E x \in Seq(Unit) : got'["client"][c] = got["client"][c] \o x
      <4>1. CASE s = "client"
        <5>1. got'[s][c] = got[s][c]
          BY <1>8, LoopPasses
        <5> QED
          BY <4>1, <5>1
      <4>2. CASE s = "target"
        <5>1. Other(s) = "client"
          BY <4>2 DEF Other
        <5>2. \A m \in 0 .. Len(loop[s][c].buf) : SubSeq(loop[s][c].buf, 1, m) \in Seq(Unit)
          <6>1. loop[s][c].buf \in Seq(Unit)
            BY DEF TypeOK
          <6>2. Len(loop[s][c].buf) \in Nat
            BY <6>1, LenProperties
          <6>3. \A m \in 0 .. Len(loop[s][c].buf) : \A i \in 1 .. m : loop[s][c].buf[i] \in Unit
            BY <6>1, <6>2, ElementOfSeq
          <6> QED
            BY <6>2, <6>3, SubSeqProperties
        <5>3. \/ got'[Other(s)][c] = got[Other(s)][c]
              \/ \E m \in 0 .. Len(loop[s][c].buf) : PassesOn(s, c, m)
          BY <1>8, LoopPasses
        <5> QED
          BY <5>1, <5>2, <5>3 DEF PassesOn
      <4> QED
        BY <4>1, <4>2 DEF Sides
    <3>2. got["client"][c] \in Seq(Unit)
      BY DEF TypeOK
    <3>3. Len(got["client"][c]) \in Nat \ {0}
      BY <2>4, <3>2, EmptySeq DEF Established
    <3>4. ASSUME NEW x \in Seq(Unit), got'["client"][c] = got["client"][c] \o x PROVE Established(c)'
      <4>1. Len(got["client"][c] \o x) # 0
        BY <3>2, <3>3, Parts, LenProperties
      <4>2. (got["client"][c] \o x)[1] = got["client"][c][1]
        BY <3>2, <3>3, Parts
      <4>3. got["client"][c] \o x # <<>>
        BY <4>1, EmptySeq
      <4> QED
        BY <2>4, <3>4, <4>2, <4>3 DEF Established
    <3>5. Established(c)'
      BY <2>4, <3>1, <3>4 DEF Established
    <3> QED
      BY <2>3, <3>5 DEF Phase
  <2>5. ASSUME Stillborn(c) PROVE Phase(c)'
    <3>1. loop[s][c].at = "receive" /\ \A r \in Sides : conn[r][c] # "up"
      BY <2>5 DEF Stillborn, Listening
    <3>2. ReadsNothing(s, c)
      BY <1>8, <3>1 DEF Forwarding, Failing, Reads, ReadFails, Sends, SendFails, Receiving
    <3>3. UNCHANGED <<conn, got, loop>>
      BY <3>2 DEF ReadsNothing, sockets
    <3> QED
      BY <2>3, <2>5, <3>3 DEF Phase, Stillborn
  <2>6. Phase(c)'
    BY <2>2, <2>4, <2>5
  <2> QED
    BY <1>1, <2>1, <2>6 DEF Phases
<1> QED
  BY <1>3, <1>4, <1>5, <1>6, <1>7, <1>8 DEF Next, Manager, Peers, Loops

----------------------------------------------------------------------------
(* The streams.                                                            *)

(* Conveys, from the parts it is made of.                                  *)
LEMMA Carried ==
    ASSUME NEW s \in Sides, NEW c \in Clients, NEW base \in Nat, NEW sink, NEW l, NEW t \in Nat, NEW to,
           NEW n \in Nat, NEW k \in Nat,
           sink = Stream(s, c, base, base + n),
           l.buf = Stream(s, c, t - k, t), k <= t,
           l.at # "send" => k = 0,
           base + n + k <= t,
           l.at \in {"receive", "send"} /\ to = "up" => base + n + k = t
    PROVE  Conveys(s, c, base, sink, l, t, to)
<1>1. Len(sink) = n
  BY StreamNext
<1>2. t - k \in Nat /\ (t - k) + k = t
  OBVIOUS
<1>3. Len(l.buf) = k
  <2>1. Len(Stream(s, c, t - k, (t - k) + k)) = k
    <3> DEFINE u == t - k
    <3>1. u \in Nat
      BY <1>2
    <3> HIDE DEF u
    <3>2. Len(Stream(s, c, u, u + k)) = k
      BY <3>1, StreamNext
    <3> QED
      BY <3>2 DEF u
  <2> QED
    BY <1>2, <2>1
<1>4. k = 0 => l.buf = <<>>
  BY <1>2, StreamEmpty
<1> QED
  BY <1>1, <1>3, <1>4 DEF Conveys

(* A loop that holds nothing, and whose peer's units have all passed.      *)
LEMMA CarriedNothing ==
    ASSUME NEW s \in Sides, NEW c \in Clients, NEW base \in Nat, NEW sink, NEW l, NEW to,
           sink = <<>>, l \in {Off, Listening}
    PROVE  Conveys(s, c, base, sink, l, base, to)
<1>1. l.buf = <<>> /\ l.at # "send"
  BY DEF Off, Listening
<1>2. Stream(s, c, base, base) = <<>>
  BY StreamEmpty
<1>3. sink = Stream(s, c, base, base + 0) /\ l.buf = Stream(s, c, base - 0, base)
  BY <1>1, <1>2
<1>4. 0 <= base /\ base + 0 + 0 <= base /\ base + 0 + 0 = base
  OBVIOUS
<1> QED
  BY <1>1, <1>3, <1>4, Carried

(* The parts, from Carries.                                                *)
LEMMA Carrying ==
    ASSUME TypeOK, NEW s \in Sides, NEW c \in Clients, Carries(s, c)
    PROVE  \E n, k \in Nat :
             /\ Base(s, c) \in Nat /\ taken[s][c] \in Nat
             /\ n = Len(Sink(s, c)) /\ k = Len(loop[s][c].buf)
             /\ Sink(s, c) = Stream(s, c, Base(s, c), Base(s, c) + n)
             /\ loop[s][c].buf = Stream(s, c, taken[s][c] - k, taken[s][c]) /\ k <= taken[s][c]
             /\ loop[s][c].at # "send" => k = 0
             /\ Base(s, c) + n + k <= taken[s][c]
             /\ loop[s][c].at \in {"receive", "send"} /\ conn[Other(s)][c] = "up" => Base(s, c) + n + k = taken[s][c]
<1> DEFINE n == Len(Sink(s, c))
           k == Len(loop[s][c].buf)
<1>1. Base(s, c) \in Nat /\ taken[s][c] \in Nat
  BY DEF Base, TypeOK
<1>2. Sink(s, c) \in Seq(Unit)
  <2>1. \A r \in Sides : got[r][c] \in Seq(Unit)
    BY DEF TypeOK
  <2>2. got["client"][c] # <<>> => Tail(got["client"][c]) \in Seq(Unit)
    BY <2>1, OtherIs, HeadTailProperties
  <2>3. <<>> \in Seq(Unit)
    BY EmptySeq
  <2> QED
    BY <2>1, <2>2, <2>3, OtherIs DEF Sink
<1>3. n \in Nat
  BY <1>2, LenProperties
<1>4. loop[s][c].buf \in Seq(Unit)
  BY DEF TypeOK
<1>5. k \in Nat
  BY <1>4, LenProperties
<1>6. loop[s][c].at # "send" => k = 0
  BY EmptySeq DEF Carries, Conveys
<1>7. /\ Sink(s, c) = Stream(s, c, Base(s, c), Base(s, c) + n)
      /\ loop[s][c].buf = Stream(s, c, taken[s][c] - k, taken[s][c])
      /\ Base(s, c) + n + k <= taken[s][c]
      /\ loop[s][c].at \in {"receive", "send"} /\ conn[Other(s)][c] = "up" => Base(s, c) + n + k = taken[s][c]
  BY DEF Carries, Conveys
<1>8. k <= taken[s][c]
  <2> HIDE DEF n, k
  <2> QED
    BY <1>1, <1>3, <1>5, <1>7
<1> QED
  BY <1>1, <1>3, <1>5, <1>6, <1>7, <1>8

(* The tail of a concatenation.                                            *)
LEMMA TailConcat ==
    ASSUME NEW S, NEW x \in Seq(S), NEW y \in Seq(S), x # <<>>
    PROVE  x \o y # <<>> /\ Tail(x \o y) = Tail(x) \o y
<1> DEFINE z == x \o y
           l == Tail(z)
           r == Tail(x) \o y
<1>1. Len(x) \in Nat /\ Len(x) > 0 /\ Len(y) \in Nat
  BY LenProperties, EmptySeq
<1>2. /\ z \in Seq(S) /\ Len(z) = Len(x) + Len(y)
      /\ \A i \in 1 .. Len(x) : z[i] = x[i]
      /\ \A i \in Len(x) + 1 .. Len(x) + Len(y) : z[i] = y[i - Len(x)]
  BY Parts
<1> HIDE DEF z
<1>3. z # <<>>
  BY <1>1, <1>2, EmptySeq
<1>4. l \in Seq(S) /\ Len(l) = Len(z) - 1 /\ \A i \in 1 .. Len(z) - 1 : l[i] = z[i + 1]
  BY <1>2, <1>3, HeadTailProperties
<1>5. Tail(x) \in Seq(S) /\ Len(Tail(x)) = Len(x) - 1 /\ \A i \in 1 .. Len(x) - 1 : Tail(x)[i] = x[i + 1]
  BY HeadTailProperties
<1>6. /\ r \in Seq(S) /\ Len(r) = Len(Tail(x)) + Len(y)
      /\ \A i \in 1 .. Len(Tail(x)) : r[i] = Tail(x)[i]
      /\ \A i \in Len(Tail(x)) + 1 .. Len(Tail(x)) + Len(y) : r[i] = y[i - Len(Tail(x))]
  BY <1>5, Parts
<1> HIDE DEF l, r
<1>7. ASSUME NEW i \in 1 .. Len(l) PROVE l[i] = r[i]
  <2>1. i \in 1 .. Len(z) - 1 /\ l[i] = z[i + 1]
    BY <1>4
  <2>2. CASE i <= Len(x) - 1
    <3>1. i \in 1 .. Len(x) - 1 /\ i + 1 \in 1 .. Len(x)
      BY <1>1, <2>1, <2>2
    <3> QED
      BY <1>2, <1>5, <1>6, <2>1, <3>1
  <2>3. CASE i > Len(x) - 1
    <3>1. /\ i + 1 \in Len(x) + 1 .. Len(x) + Len(y) /\ i \in Len(x) - 1 + 1 .. Len(x) - 1 + Len(y)
          /\ (i + 1) - Len(x) = i - (Len(x) - 1)
      BY <1>1, <1>2, <2>1, <2>3
    <3> QED
      BY <1>2, <1>5, <1>6, <2>1, <3>1
  <2>4. i <= Len(x) - 1 \/ i > Len(x) - 1
    BY <1>1, <2>1
  <2> QED
    BY <2>2, <2>3, <2>4
<1>8. Len(l) = Len(r)
  BY <1>1, <1>2, <1>4, <1>5, <1>6
<1>9. l = r
  BY <1>4, <1>6, <1>7, <1>8, SeqEqual
<1> QED
  BY <1>3, <1>9 DEF l, r, z

(* What passes on is put at the end of the sink.                           *)
LEMMA SinkGrows ==
    ASSUME TypeOK, Phases, NEW s \in Sides, NEW c \in Clients,
           NEW m \in 0 .. Len(loop[s][c].buf), PassesOn(s, c, m)
    PROVE  Sink(s, c)' = Sink(s, c) \o SubSeq(loop[s][c].buf, 1, m)
<1> DEFINE x == SubSeq(loop[s][c].buf, 1, m)
<1>1. x \in Seq(Unit)
  <2>1. loop[s][c].buf \in Seq(Unit)
    BY DEF TypeOK
  <2>2. Len(loop[s][c].buf) \in Nat
    BY <2>1, LenProperties
  <2>3. \A i \in 1 .. m : loop[s][c].buf[i] \in Unit
    BY <2>1, <2>2, ElementOfSeq
  <2> QED
    BY <2>2, <2>3, SubSeqProperties
<1>2. got'[Other(s)][c] = got[Other(s)][c] \o x /\ loop[s][c].at = "send" /\ conn[Other(s)][c] = "up"
  BY DEF PassesOn
<1> HIDE DEF x
<1>3. ASSUME s = "client" PROVE Sink(s, c)' = Sink(s, c) \o x
  BY <1>2, <1>3 DEF Sink, Other
<1>4. ASSUME s = "target" PROVE Sink(s, c)' = Sink(s, c) \o x
  <2>1. conn["client"][c] = "up" /\ got'["client"][c] = got["client"][c] \o x
    BY <1>2, <1>4 DEF Other
  <2>2. ~Stillborn(c) /\ ~Unstarted(c)
    BY <1>2, <2>1, OtherIs DEF Stillborn, Unstarted, Off
  <2>3. got["client"][c] # <<>>
    BY <2>2 DEF Phases, Phase, Established
  <2>4. got["client"][c] \in Seq(Unit)
    BY OtherIs DEF TypeOK
  <2>5. got["client"][c] \o x # <<>> /\ Tail(got["client"][c] \o x) = Tail(got["client"][c]) \o x
    BY <1>1, <2>3, <2>4, TailConcat
  <2> QED
    BY <1>4, <2>1, <2>3, <2>5 DEF Sink
<1>5. Sink(s, c)' = Sink(s, c) \o x
  BY <1>3, <1>4 DEF Sides
<1> QED
  BY <1>5 DEF x

(* The sink, from what the other peer has got.                             *)
LEMMA SinkSame ==
    ASSUME NEW s \in Sides, NEW c \in Clients, got'[Other(s)][c] = got[Other(s)][c]
    PROVE  Sink(s, c)' = Sink(s, c)
<1>1. ASSUME s = "client" PROVE Sink(s, c)' = Sink(s, c)
  BY <1>1 DEF Sink, Other
<1>2. ASSUME s = "target" PROVE Sink(s, c)' = Sink(s, c)
  BY <1>2 DEF Sink, Other
<1> QED
  BY <1>1, <1>2 DEF Sides

(* A step of its own keeps what a loop carries.                            *)
LEMMA OwnCarries ==
    ASSUME TypeOK, Phases, NEW s \in Sides, NEW c \in Clients, Carries(s, c), Forwarding(s, c) \/ Failing(s, c)
    PROVE  Carries(s, c)'
<1> DEFINE o == Other(s)
           t == taken[s][c]
           base == Base(s, c)
           b == loop[s][c].buf
<1>1. PICK n, k \in Nat :
        /\ base \in Nat /\ t \in Nat /\ n = Len(Sink(s, c)) /\ k = Len(b)
        /\ Sink(s, c) = Stream(s, c, base, base + n)
        /\ b = Stream(s, c, t - k, t) /\ k <= t
        /\ loop[s][c].at # "send" => k = 0
        /\ base + n + k <= t
        /\ loop[s][c].at \in {"receive", "send"} /\ conn[o][c] = "up" => base + n + k = t
  BY Carrying
<1>2. Base(s, c)' = base /\ loop[s][c].at \in {"receive", "send"}
  BY LoopFrame DEF Base
<1>3. loop \in Each(LoopState) /\ taken \in Each(Nat)
  BY Functions
<1>4. ASSUME NEW u \in Nat, taken'[s][c] = u, t <= u, Sink(s, c)' = Sink(s, c), loop'[s][c].buf = <<>>,
             loop'[s][c].at = "ended" \/ (loop'[s][c].at = "receive" /\ conn'[o][c] # "up")
      PROVE  Carries(s, c)'
  <2>1. base + n + 0 <= u /\ 0 <= u /\ u - 0 = u
    BY <1>1, <1>4
  <2>2. loop'[s][c].buf = Stream(s, c, u - 0, u)
    BY <1>4, <2>1, StreamEmpty
  <2>3. loop'[s][c].at # "send" /\ ~(loop'[s][c].at \in {"receive", "send"} /\ conn'[o][c] = "up")
    BY <1>4
  <2> HIDE DEF t, base, b, o
  <2>4. Conveys(s, c, base, Sink(s, c)', loop'[s][c], u, conn'[o][c])
    BY <1>1, <1>4, <2>1, <2>2, <2>3, Carried
  <2> QED
    BY <1>2, <1>4, <2>4 DEF Carries, o
<1>5. ASSUME NEW m \in 0 .. Len(b), PassesOn(s, c, m) PROVE Carries(s, c)'
  <2>1. /\ loop[s][c].at = "send" /\ conn[o][c] = "up" /\ UNCHANGED <<conn, taken>>
        /\ loop'[s][c] = Ended \/ (loop'[s][c] = Listening /\ m = k)
    BY <1>1, <1>5 DEF PassesOn
  <2>2. Sink(s, c)' = Sink(s, c) \o SubSeq(b, 1, m)
    BY <1>5, SinkGrows
  <2> HIDE DEF t, base, b, o
  <2>3. base \in Nat /\ t \in Nat /\ m \in Nat /\ m <= k /\ base + n + k = t
    BY <1>1, <1>5, <2>1
  <2>4. SubSeq(b, 1, m) = Stream(s, c, base + n, base + n + m)
    <3> DEFINE a == base + n
    <3>1. a \in Nat /\ t - k = a /\ a <= t /\ m \in 0 .. t - a
      BY <2>3
    <3>2. b = Stream(s, c, t - k, t)
      BY <1>1
    <3> HIDE DEF a
    <3>3. SubSeq(Stream(s, c, a, t), 1, m) = Stream(s, c, a, a + m)
      BY <2>3, <3>1, StreamFront
    <3> QED
      BY <3>1, <3>2, <3>3 DEF a
  <2>5. Sink(s, c)' = Stream(s, c, base, base + (n + m))
    <3>1. /\ base + n \in Nat /\ base + n + m \in Nat /\ base <= base + n /\ base + n <= base + n + m
          /\ base + n + m = base + (n + m)
      BY <2>3
    <3>2. Stream(s, c, base, base + n) \o Stream(s, c, base + n, base + n + m) = Stream(s, c, base, base + n + m)
      BY <2>3, <3>1, StreamJoin
    <3>3. Sink(s, c) = Stream(s, c, base, base + n)
      BY <1>1
    <3> QED
      BY <2>2, <2>4, <3>1, <3>2, <3>3
  <2>6. loop'[s][c].buf = <<>> /\ loop'[s][c].at # "send" /\ (loop'[s][c].at = "receive" => m = k)
    BY <2>1 DEF Ended, Listening
  <2>7. n + m \in Nat /\ base + (n + m) + 0 <= t /\ (m = k => base + (n + m) + 0 = t) /\ 0 <= t /\ t - 0 = t
    BY <2>3
  <2>8. loop'[s][c].buf = Stream(s, c, t - 0, t)
    BY <2>3, <2>6, <2>7, StreamEmpty
  <2>9. loop'[s][c].at \in {"receive", "send"} => base + (n + m) + 0 = t
    BY <2>6, <2>7
  <2>10. Conveys(s, c, base, Sink(s, c)', loop'[s][c], t, conn'[o][c])
    BY <2>3, <2>5, <2>6, <2>7, <2>8, <2>9, Carried
  <2>11. taken'[s][c] = t
    BY <2>1 DEF t
  <2> QED
    BY <1>2, <2>10, <2>11 DEF Carries, o
<1>6. ASSUME got'[o][c] = got[o][c], ~(Sends(s, c) /\ conn[o][c] = "up") PROVE Carries(s, c)'
  <2>1. Sink(s, c)' = Sink(s, c)
    BY <1>6, SinkSame
  <2>2. ASSUME NEW l, loop' = [loop EXCEPT ![s][c] = l] PROVE loop'[s][c] = l
    BY <1>3, <2>2 DEF Each
  <2>3. CASE Reads(s, c)
    <3> DEFINE r == Received(s, c)
               u == t + r
    <3>1. r \in Nat /\ taken'[s][c] = u
      <4>1. written[s][c] \in Nat /\ t \in Nat /\ t <= written[s][c]
        BY DEF TypeOK
      <4>2. r \in Nat
        BY <4>1, BufferAssumption DEF Received, Pending
      <4> HIDE DEF r
      <4>3. taken' = [taken EXCEPT ![s][c] = @ + r]
        BY <2>3 DEF Reads, r
      <4> QED
        BY <1>3, <4>2, <4>3 DEF Each
    <3>2. conn' = conn /\ loop[s][c].at = "receive"
      BY <2>3 DEF Reads, Receiving
    <3>3. CASE conn[o][c] = "up"
      <4>1. loop'[s][c] = [at |-> "send", buf |-> Stream(s, c, t, u)]
        BY <2>2, <2>3, <3>3 DEF Reads
      <4>2. k = 0 /\ base + n + k = t
        BY <1>1, <3>2, <3>3
      <4> HIDE DEF t, base, b, o, r
      <4>3. u \in Nat /\ u - r = t /\ r <= u /\ base + n + r <= u /\ base + n + r = u
        BY <1>1, <3>1, <4>2
      <4> HIDE DEF u
      <4>4. loop'[s][c].buf = Stream(s, c, u - r, u) /\ loop'[s][c].at = "send"
        BY <4>1, <4>3
      <4>5. Conveys(s, c, base, Sink(s, c)', loop'[s][c], u, conn'[o][c])
        BY <1>1, <2>1, <3>1, <4>3, <4>4, Carried
      <4> QED
        BY <1>2, <3>1, <4>5 DEF Carries, o
    <3>4. CASE conn[o][c] # "up"
      <4>1. loop' = loop
        BY <2>3, <3>4 DEF Reads
      <4>2. u \in Nat /\ t <= u
        <5>1. t \in Nat
          BY <1>1
        <5> HIDE DEF r, t
        <5> QED
          BY <3>1, <5>1
      <4>3. b = <<>>
        <5>1. k = 0 /\ t - k = t
          BY <1>1, <3>2
        <5> QED
          BY <1>1, <5>1, StreamEmpty
      <4> HIDE DEF u
      <4> QED
        BY <1>4, <2>1, <3>1, <3>2, <3>4, <4>1, <4>2, <4>3
    <3> QED
      BY <3>3, <3>4
  <2>4. CASE ReadsNothing(s, c)
    BY <1>2, <2>1, <2>4 DEF ReadsNothing, sockets, Carries
  <2>5. CASE ReadFails(s, c) \/ SendFails(s, c)
    <3>1. taken' = taken /\ loop' = [loop EXCEPT ![s][c] = Ended]
      BY <2>5 DEF ReadFails, SendFails
    <3>2. loop'[s][c] = Ended
      BY <2>2, <3>1
    <3>3. loop'[s][c].at = "ended" /\ loop'[s][c].buf = <<>>
      BY <3>2 DEF Ended
    <3>4. t \in Nat /\ taken'[s][c] = t /\ t <= t
      BY <1>1, <3>1
    <3> QED
      BY <1>4, <2>1, <3>3, <3>4
  <2>6. CASE Sends(s, c)
    <3>1. taken' = taken /\ loop' = [loop EXCEPT ![s][c] = Listening] /\ conn' = conn
      BY <2>6 DEF Sends
    <3>2. loop'[s][c] = Listening
      BY <2>2, <3>1
    <3>3. loop'[s][c].at = "receive" /\ loop'[s][c].buf = <<>>
      BY <3>2 DEF Listening
    <3>4. t \in Nat /\ taken'[s][c] = t /\ t <= t
      BY <1>1, <3>1
    <3> QED
      BY <1>4, <1>6, <2>1, <2>6, <3>1, <3>3, <3>4
  <2> QED
    BY <2>3, <2>4, <2>5, <2>6 DEF Forwarding, Failing
<1> QED
  BY <1>5, <1>6, LoopPasses

(* Every step keeps what the loops carry.                                  *)
LEMMA StreamsKept == ASSUME TypeOK, Turns, Phases, Streams, [Next]_vars PROVE Streams'
<1> USE OtherIs
<1>1. ASSUME NEW d \in Clients, Same(d) PROVE \A s \in Sides : Carries(s, d)'
  BY <1>1 DEF Streams, Carries, Same, Sink, Base
<1>2. ASSUME UNCHANGED <<conn, taken, skipped, got, loop>> PROVE Streams'
  BY <1>2 DEF Streams, Carries, Sink, Base
<1>3. CASE UNCHANGED vars \/ Accept
  BY <1>2, <1>3 DEF vars, Accept, sockets, tasks
<1>4. ASSUME NEW s \in Sides, NEW c \in Clients, PeerSends(s, c) \/ PeerLeaves(s, c) PROVE Streams'
  BY <1>2, <1>4, PeerFrame
<1>5. ASSUME NEW c \in Clients, Arrive(c) PROVE Streams'
  <2>1. UNCHANGED <<taken, skipped, got, loop>> /\ conn["client"][c] = "none"
        /\ conn' = [conn EXCEPT !["client"][c] = "up"]
    BY <1>5 DEF Arrive, tasks
  <2>2. \A r \in Sides, d \in Clients : d # c => conn'[r][d] = conn[r][d]
    BY <2>1, Functions DEF Each
  <2>3. \A s \in Sides : loop[s][c].at = "off"
    BY <2>1 DEF Turns, Unheard, Unstarted, Off
  <2>4. ASSUME NEW s \in Sides, NEW d \in Clients, d # c PROVE Carries(s, d)'
    BY <2>1, <2>2, <2>4 DEF Streams, Carries, Sink, Base
  <2>5. ASSUME NEW s \in Sides PROVE Carries(s, c)'
    <3>1. Conveys(s, c, Base(s, c), Sink(s, c), loop[s][c], taken[s][c], conn[Other(s)][c])
      BY DEF Streams, Carries
    <3>2. Conveys(s, c, Base(s, c), Sink(s, c), loop[s][c], taken[s][c], conn'[Other(s)][c])
      BY <2>3, <3>1 DEF Conveys
    <3> QED
      BY <2>1, <3>2 DEF Carries, Sink, Base
  <2> QED
    BY <2>4, <2>5 DEF Streams
<1>6. ASSUME NEW c \in Clients, Handshake(c) PROVE Streams'
  <2>1. \A s \in Sides, d \in Clients : d # c => Carries(s, d)'
    BY <1>1, <1>6, HandshakeFrame
  <2>2. /\ got'["target"][c] = <<>> /\ taken'["target"][c] = 0 /\ taken'["client"][c] = skipped'[c]
        /\ \A s \in Sides : loop'[s][c] \in {Off, Listening}
        /\ got'["client"][c] = <<>> \/ \E code : got'["client"][c] = Status(c, code)
    BY <1>6, HandshakeEnds DEF Unstarted, Stillborn
  <2>3. \A code : Tail(Status(c, code)) = <<>>
    BY DEF Status
  <2>4. \A s \in Sides : Sink(s, c)' = <<>>
    BY <2>2, <2>3 DEF Sink
  <2>5. \A s \in Sides : taken'[s][c] = Base(s, c)' /\ Base(s, c)' \in Nat
    <3>1. TypeOK'
      BY TypeKept
    <3>2. skipped'[c] \in Nat
      BY <3>1 DEF TypeOK
    <3> QED
      BY <2>2, <3>2 DEF Base, Sides
  <2>6. ASSUME NEW s \in Sides PROVE Carries(s, c)'
    <3>1. Conveys(s, c, Base(s, c)', Sink(s, c)', loop'[s][c], Base(s, c)', conn'[Other(s)][c])
      BY <2>2, <2>4, <2>5, CarriedNothing
    <3> QED
      BY <2>5, <3>1 DEF Carries
  <2> QED
    BY <2>1, <2>6 DEF Streams
<1>7. ASSUME NEW s \in Sides, NEW c \in Clients, Forwarding(s, c) \/ Failing(s, c) PROVE Streams'
  <2>1. \A r \in Sides, d \in Clients : d # c => Carries(r, d)'
    BY <1>1, <1>7, LoopFrame
  <2>2. Carries(s, c)'
    BY <1>7, OwnCarries DEF Streams
  <2>3. ASSUME NEW r \in Sides, r # s PROVE Carries(r, c)'
    <3>1. Other(r) = s
      BY <2>3 DEF Sides, Other
    <3>2. loop'[r][c] = loop[r][c] /\ taken'[r][c] = taken[r][c] /\ skipped' = skipped
          /\ (conn'[s][c] = conn[s][c] \/ (conn[s][c] = "up" /\ conn'[s][c] = "lost"))
      BY <1>7, <2>3, LoopFrame
    <3>3. Sink(r, c)' = Sink(r, c)
      BY <1>7, <3>1, LoopPasses, SinkSame
    <3>4. Conveys(r, c, Base(r, c), Sink(r, c), loop[r][c], taken[r][c], conn[s][c])
      BY <3>1 DEF Streams, Carries
    <3>5. Conveys(r, c, Base(r, c), Sink(r, c), loop[r][c], taken[r][c], conn'[s][c])
      BY <3>2, <3>4 DEF Conveys
    <3> QED
      BY <3>1, <3>2, <3>3, <3>5 DEF Carries, Base
  <2> QED
    BY <2>1, <2>2, <2>3 DEF Streams
<1> QED
  BY <1>3, <1>4, <1>5, <1>6, <1>7 DEF Next, Manager, Peers, Loops

----------------------------------------------------------------------------
(* The late cancellation.                                                  *)

(* A loop that finds a socket lost ends.                                   *)
LEMMA LoopLoses ==
    ASSUME TypeOK, NEW s \in Sides, NEW c \in Clients, Forwarding(s, c) \/ Failing(s, c)
    PROVE  conn' = conn \/ loop'[s][c].at = "ended"
<1>1. CASE ReadFails(s, c) \/ SendFails(s, c)
  <2>1. loop' = [loop EXCEPT ![s][c] = Ended]
    BY <1>1 DEF ReadFails, SendFails
  <2>2. loop'[s][c] = Ended
    BY <2>1, Functions DEF Each
  <2> QED
    BY <2>2 DEF Ended
<1> QED
  BY <1>1 DEF Forwarding, Failing, Reads, ReadsNothing, Sends, sockets

(* Every step keeps the target of an answered client connected.            *)
LEMMA ReachedKept == ASSUME TypeOK, Turns, Reached, [Next]_vars PROVE Reached'
<1> USE OtherIs
<1>1. CASE UNCHANGED vars
  BY <1>1 DEF vars, Reached
<1>2. CASE Accept
  BY <1>2 DEF Accept, Reached
<1>3. ASSUME NEW s \in Sides, NEW c \in Clients, PeerSends(s, c) \/ PeerLeaves(s, c) PROVE Reached'
  BY <1>3, PeerFrame DEF Reached
<1>4. ASSUME NEW c \in Clients, Arrive(c) PROVE Reached'
  <2>1. manager' = manager /\ conn' = [conn EXCEPT !["client"][c] = "up"]
    BY <1>4 DEF Arrive
  <2>2. \A d \in Clients : conn'["target"][d] = conn["target"][d]
    BY <2>1, Functions DEF Each
  <2> QED
    BY <2>1, <2>2 DEF Reached
<1>5. ASSUME NEW c \in Clients, Handshake(c) PROVE Reached'
  <2>1. CASE Connect(c)
    <3>1. conn' = [conn EXCEPT !["target"][c] = "up"] /\ manager'.client = c
      BY <2>1 DEF Connect
    <3>2. conn'["target"][c] = "up"
      BY <3>1, Functions DEF Each
    <3> QED
      BY <3>1, <3>2 DEF Reached
  <2>2. CASE ~Connect(c)
    <3>1. manager'.at # "establish"
      BY <1>5, <2>2 DEF Handshake, Request, NoRequest, RequestTimeout, RequestReset, Refuse, Establish,
                        NotEstablished, Accepting
    <3> QED
      BY <3>1 DEF Reached
  <2> QED
    BY <2>1, <2>2
<1>6. ASSUME NEW s \in Sides, NEW c \in Clients, Forwarding(s, c) \/ Failing(s, c) PROVE Reached'
  <2>1. manager' = manager /\ (\A d \in Clients : d # c => Same(d)) /\ loop[s][c].at \in {"receive", "send"}
    BY <1>6, LoopFrame
  <2>2. manager.client # c
    BY <2>1 DEF Turns, Unstarted, Off
  <2> QED
    BY <2>1, <2>2 DEF Reached, Same
<1> QED
  BY <1>1, <1>2, <1>3, <1>4, <1>5, <1>6 DEF Next, Manager, Peers, Loops

(* Every step keeps the order in which the loops outlive each other, and   *)
(* the lateness of the cancellation.                                       *)
LEMMA CancelKept ==
    ASSUME TypeOK, Turns, Phases, Reached, Outlived, CancelComesLate, [Next]_vars
    PROVE  Outlived' /\ CancelComesLate'
<1> USE OtherIs
<1> DEFINE Late(d) == loop["client"][d].at = "ended" \/ conn["client"][d] = "closed"
           Out(d) == loop["target"][d].at \in {"receive", "send"} /\ conn["target"][d] # "up" => Late(d)
           Cancel(d) == canceled[d] => Late(d)
<1>1. \A d \in Clients : Out(d) /\ Cancel(d)
  BY DEF Outlived, CancelComesLate
<1>2. SUFFICES \A d \in Clients : Out(d)' /\ Cancel(d)'
  BY DEF Outlived, CancelComesLate
<1>3. ASSUME NEW d \in Clients, Same(d) PROVE Out(d)' /\ Cancel(d)'
  BY <1>1, <1>3 DEF Same
<1>4. CASE UNCHANGED <<conn, loop, canceled>>
  BY <1>1, <1>4
<1>5. CASE UNCHANGED vars \/ Accept
  BY <1>4, <1>5 DEF vars, Accept, sockets, tasks
<1>6. ASSUME NEW s \in Sides, NEW c \in Clients, PeerSends(s, c) \/ PeerLeaves(s, c)
      PROVE  \A d \in Clients : Out(d)' /\ Cancel(d)'
  BY <1>4, <1>6, PeerFrame
<1>7. ASSUME NEW c \in Clients, Arrive(c) PROVE \A d \in Clients : Out(d)' /\ Cancel(d)'
  <2>1. UNCHANGED <<loop, canceled>> /\ conn["client"][c] = "none" /\ conn' = [conn EXCEPT !["client"][c] = "up"]
    BY <1>7 DEF Arrive, tasks
  <2>2. \A d \in Clients : /\ conn'["target"][d] = conn["target"][d]
                           /\ conn["client"][d] = "closed" => conn'["client"][d] = "closed"
    BY <2>1, Functions DEF Each
  <2> QED
    BY <1>1, <2>1, <2>2
<1>8. ASSUME NEW c \in Clients, Handshake(c) PROVE \A d \in Clients : Out(d)' /\ Cancel(d)'
  <2>1. \A d \in Clients : d # c => Out(d)' /\ Cancel(d)'
    BY <1>3, <1>8, HandshakeFrame
  <2>2. ~canceled'[c]
    BY <1>8, HandshakeIdle, HandshakeEnds DEF Idle
  <2>3. CASE Establish(c)
    <3>1. conn' = conn /\ conn["target"][c] = "up"
      BY <2>3 DEF Establish, Reached
    <3> QED
      BY <2>1, <2>2, <3>1
  <2>4. CASE NotEstablished(c)
    <3>1. conn' = [s \in Sides |-> [conn[s] EXCEPT ![c] = "closed"]]
      BY <2>4 DEF NotEstablished
    <3>2. conn'["client"][c] = "closed"
      BY <3>1, Functions DEF Each
    <3> QED
      BY <2>1, <2>2, <3>2
  <2>5. CASE ~Establish(c) /\ ~NotEstablished(c)
    <3>1. loop' = loop
      BY <1>8, <2>5 DEF Handshake, Request, NoRequest, RequestTimeout, RequestReset, Refuse, Connect, tasks
    <3>2. loop'["target"][c].at = "off"
      BY <1>8, <3>1, HandshakeIdle DEF Unstarted, Off
    <3> QED
      BY <2>1, <2>2, <3>2
  <2> QED
    BY <2>3, <2>4, <2>5
<1>9. ASSUME NEW s \in Sides, NEW c \in Clients, Forwarding(s, c) \/ Failing(s, c)
      PROVE  \A d \in Clients : Out(d)' /\ Cancel(d)'
  <2>1. /\ loop[s][c].at \in {"receive", "send"} /\ loop'[s][c].at \in {"receive", "send", "ended"}
        /\ \A d \in Clients : d # c => Same(d)
        /\ \A r \in Sides : conn'[r][c] = conn[r][c] \/ (conn[r][c] = "up" /\ conn'[r][c] = "lost")
        /\ \A r \in Sides : r # s => loop'[r][c] = loop[r][c]
    BY <1>9, LoopFrame
  <2>2. \A d \in Clients : d # c => Out(d)' /\ Cancel(d)'
    BY <1>3, <2>1
  <2>3. conn' = conn \/ loop'[s][c].at = "ended"
    BY <1>9, LoopLoses
  <2>4. Late(c) => Late(c)'
    BY <2>1
  <2>5. canceled'[c] => canceled[c] \/ (s = "target" /\ conn["target"][c] # "up")
    <3>1. \/ canceled' = canceled
          \/ canceled' = [canceled EXCEPT ![c] = @ \/ (s = "target" /\ conn["target"][c] # "up")]
      BY <1>9 DEF Forwarding, Failing, Reads, ReadsNothing, ReadFails, Sends, SendFails, RemoteCheck
    <3>2. canceled \in [Clients -> BOOLEAN]
      BY Functions
    <3> QED
      BY <3>1, <3>2, Zenon
  <2>6. Cancel(c)'
    BY <1>1, <2>1, <2>4, <2>5
  <2>7. ASSUME s = "client" PROVE Out(c)'
    BY <1>1, <2>1, <2>3, <2>4, <2>7
  <2>8. ASSUME s = "target" PROVE Out(c)'
    BY <1>1, <2>1, <2>3, <2>4, <2>8
  <2> QED
    BY <2>2, <2>6, <2>7, <2>8 DEF Sides
<1> QED
  BY <1>5, <1>6, <1>7, <1>8, <1>9 DEF Next, Manager, Peers, Loops

----------------------------------------------------------------------------
(* The invariant.                                                          *)

(* The invariant holds at first.                                           *)
LEMMA Initially == Init => IInv
<1> SUFFICES ASSUME Init PROVE IInv
  OBVIOUS
<1> USE OtherIs
<1>1. TypeOK
  <2>1. conn \in [Sides -> [Clients -> {"none", "up", "lost", "closed"}]]
        /\ peer \in [Sides -> [Clients -> {"open", "fin", "reset"}]]
    BY DEF Init
  <2>2. /\ written \in [Sides -> [Clients -> Nat]] /\ taken \in [Sides -> [Clients -> Nat]]
        /\ skipped \in [Clients -> Nat] /\ canceled \in [Clients -> BOOLEAN]
    BY DEF Init
  <2>3. backlog \in Seq(Clients) /\ got \in [Sides -> [Clients -> Seq(Unit)]]
    <3>1. <<>> \in Seq(Clients) /\ <<>> \in Seq(Unit)
      BY EmptySeq
    <3> QED
      BY <3>1 DEF Init
  <2>4. loop \in [Sides -> [Clients -> [at : {"off", "receive", "send", "ended"}, buf : Seq(Unit)]]]
    <3>1. Off \in [at : {"off", "receive", "send", "ended"}, buf : Seq(Unit)]
      BY EmptySeq DEF Off
    <3> QED
      BY <3>1 DEF Init
  <2>5. \A s \in Sides, c \in Clients : taken[s][c] <= written[s][c] /\ Len(loop[s][c].buf) <= Buffer
    <3>1. \A s \in Sides, c \in Clients : taken[s][c] = 0 /\ written[s][c] = 0 /\ loop[s][c].buf = <<>>
      BY DEF Init, Off
    <3> QED
      BY <3>1, EmptySeq, BufferAssumption
  <2> QED
    BY <2>1, <2>2, <2>3, <2>4, <2>5 DEF Init, TypeOK
<1>2. Turns
  <2>1. \A c \in Clients : ~Waiting(c) /\ manager.client # c
    BY ClientAssumption DEF Init, Waiting, Accepting
  <2> QED
    BY <2>1 DEF Init, Turns, Unheard, Unstarted
<1>3. Phases
  BY DEF Init, Phases, Phase, Unstarted, Idle
<1>4. Streams
  <2>1. ASSUME NEW s \in Sides, NEW c \in Clients PROVE Carries(s, c)
    <3>1. Base(s, c) = 0 /\ Sink(s, c) = <<>> /\ loop[s][c] = Off /\ taken[s][c] = 0
      BY DEF Init, Base, Sink
    <3>2. Conveys(s, c, 0, <<>>, Off, 0, conn[Other(s)][c])
      BY CarriedNothing
    <3> QED
      BY <3>1, <3>2 DEF Carries
  <2> QED
    BY <2>1 DEF Streams
<1>5. Reached
  BY DEF Init, Reached, Accepting
<1>6. Outlived /\ CancelComesLate
  BY DEF Init, Outlived, CancelComesLate, Off
<1> QED
  BY <1>1, <1>2, <1>3, <1>4, <1>5, <1>6 DEF IInv

(* Every reachable state satisfies the invariant.                          *)
LEMMA Invariance == Spec => []IInv
<1>1. Init => IInv
  BY Initially
<1>2. IInv /\ [Next]_vars => IInv'
  BY TypeKept, TurnsKept, PhasesKept, StreamsKept, ReachedKept, CancelKept DEF IInv
<1> QED
  BY <1>1, <1>2, PTL DEF Spec

(* Every variable has its type, and the node takes no more from a peer     *)
(* than it has sent nor more at once than its buffer holds.                *)
THEOREM TypeCorrect == Spec => []TypeOK
<1>1. IInv => TypeOK
  BY DEF IInv
<1> QED
  BY <1>1, Invariance, PTL

(* The cancellation of an executor never stops a client loop that could    *)
(* still deliver (SocketTunnelExecutor.cs:193).                            *)
THEOREM CancelIsLate == Spec => []CancelComesLate
<1>1. IInv => CancelComesLate
  BY DEF IInv
<1> QED
  BY <1>1, Invariance, PTL

(* What a client hears of its target starts right after the status.        *)
LEMMA HeardIs ==
    ASSUME TypeOK, Streams, NEW c \in Clients, got["client"][c] # <<>>
    PROVE  \A i \in 2 .. Len(got["client"][c]) : got["client"][c][i][1] = "target"
<1> DEFINE heard == got["client"][c]
           tail == Tail(heard)
<1>1. heard \in Seq(Unit)
  BY OtherIs DEF TypeOK
<1> HIDE DEF heard
<1>2. Len(heard) \in Nat
  BY <1>1, LenProperties
<1>3. tail \in Seq(Unit) /\ Len(tail) = Len(heard) - 1 /\ \A j \in 1 .. Len(heard) - 1 : tail[j] = heard[j + 1]
  BY <1>1, HeadTailProperties DEF heard
<1>4. Sink("target", c) = tail /\ Base("target", c) = 0
  BY DEF Sink, Base, heard
<1> HIDE DEF tail
<1>5. tail = Stream("target", c, 0, 0 + Len(tail))
  BY <1>4, OtherIs DEF Streams, Carries, Conveys
<1>6. Len(tail) \in Nat
  BY <1>3, LenProperties
<1>7. \A j \in 1 .. Len(tail) : tail[j][1] = "target"
  <2>1. \A j \in 1 .. Len(tail) : Stream("target", c, 0, 0 + Len(tail))[j] = <<"target", c, 0 + j>>
    BY <1>6 DEF Stream
  <2> QED
    BY <1>5, <2>1
<1>8. ASSUME NEW i \in 2 .. Len(heard) PROVE heard[i][1] = "target"
  <2>1. i - 1 \in 1 .. Len(heard) - 1 /\ (i - 1) + 1 = i
    BY <1>2
  <2>2. heard[i] = tail[i - 1]
    BY <1>3, <2>1
  <2> QED
    BY <1>3, <1>7, <2>1, <2>2
<1> QED
  BY <1>8 DEF heard

(* A client hears one status, first; nothing passes unless it was 200.     *)
THEOREM StatusComesFirst == Spec => []StatusFirst
<1>1. ASSUME IInv, NEW c \in Clients
      PROVE  LET heard == got["client"][c] IN
             /\ heard # <<>> => heard[1] \in {<<"node", c, 200>>, <<"node", c, 403>>}
             /\ \A i \in 2 .. Len(heard) : heard[i][1] = "target"
             /\ Len(heard) > 1 \/ got["target"][c] # <<>> => heard # <<>> /\ heard[1] = <<"node", c, 200>>
  <2>1. Len(<<>>) = 0
    BY EmptySeq
  <2>2. Len(Status(c, 403)) = 1 /\ Status(c, 403)[1] = <<"node", c, 403>>
    BY DEF Status
  <2>3. got["client"][c] # <<>> => \A i \in 2 .. Len(got["client"][c]) : got["client"][c][i][1] = "target"
    BY <1>1, HeardIs DEF IInv
  <2>4. ASSUME Unstarted(c) /\ Idle(c)
        PROVE  got["target"][c] = <<>> /\ got["client"][c] \in {<<>>, Status(c, 403)}
    BY <2>4 DEF Idle
  <2>5. ASSUME Stillborn(c) PROVE got["target"][c] = <<>> /\ got["client"][c] = <<>>
    BY <2>5, OtherIs DEF Stillborn
  <2>6. Phase(c)
    BY <1>1 DEF IInv, Phases
  <2>7. CASE Established(c)
    BY <2>3, <2>7 DEF Established
  <2>8. CASE got["target"][c] = <<>> /\ got["client"][c] = <<>>
    BY <2>1, <2>8
  <2>9. CASE got["target"][c] = <<>> /\ got["client"][c] = Status(c, 403)
    <3>1. Len(got["client"][c]) = 1 /\ got["client"][c][1] = <<"node", c, 403>>
      BY <2>2, <2>9
    <3>2. \A i \in 2 .. Len(got["client"][c]) : FALSE
      BY <3>1
    <3>3. ~(Len(got["client"][c]) > 1)
      BY <3>1
    <3>4. got["target"][c] = <<>>
      BY <2>9
    <3> QED
      BY <3>1, <3>2, <3>3, <3>4, Zenon
  <2> QED
    BY <2>4, <2>5, <2>6, <2>7, <2>8, <2>9 DEF Phase
<1>2. IInv => StatusFirst
  BY <1>1 DEF StatusFirst
<1> QED
  BY <1>2, Invariance, PTL

----------------------------------------------------------------------------
(* The directions of the tunnels are pipes.                                *)
PipeLanes == Sides \X Clients
Source == [l \in Sides \X Clients |-> Stream(l[1], l[2], 0, written[l[1]][l[2]])]
Kept == [l \in Sides \X Clients |-> Base(l[1], l[2])]
Out == [l \in Sides \X Clients |-> Sink(l[1], l[2])]

(* The variables of the pipes at a lane, and what leaves them unchanged.   *)
LEMMA LaneIs ==
    /\ \A l \in PipeLanes : \E s \in Sides, c \in Clients : l = <<s, c>>
    /\ \A s \in Sides, c \in Clients :
          /\ <<s, c>> \in PipeLanes
          /\ Source[<<s, c>>] = Stream(s, c, 0, written[s][c])
          /\ Kept[<<s, c>>] = Base(s, c) /\ Out[<<s, c>>] = Sink(s, c)
    /\ \A s \in Sides, c \in Clients :
          /\ Source'[<<s, c>>] = Stream(s, c, 0, written'[s][c])
          /\ Kept'[<<s, c>>] = Base(s, c)' /\ Out'[<<s, c>>] = Sink(s, c)'
    /\ written' = written => Source' = Source
    /\ skipped' = skipped => Kept' = Kept
    /\ (\A s \in Sides, c \in Clients : Sink(s, c)' = Sink(s, c)) => Out' = Out
  BY DEF PipeLanes, Source, Kept, Out, Base

(* A function of the lanes that changes at one of them.                    *)
LEMMA LaneUpdate ==
    ASSUME NEW f, NEW g, f = [l \in PipeLanes |-> f[l]], g = [l \in PipeLanes |-> g[l]],
           NEW k \in PipeLanes, \A l \in PipeLanes : l # k => g[l] = f[l]
    PROVE  g = [f EXCEPT ![k] = g[k]]
  OBVIOUS

(* A window of a stream.                                                   *)
LEMMA WindowIs ==
    ASSUME NEW s \in Sides, NEW c \in Clients, NEW w \in Nat, NEW a \in Nat, NEW n \in Nat, a + n <= w
    PROVE  P!Window(Stream(s, c, 0, w), a, n) = Stream(s, c, a, a + n)
<1>1. \A i \in 1 .. n : a + i \in 1 .. w - 0 /\ 0 + (a + i) = a + i
  OBVIOUS
<1>2. \A i \in 1 .. n : Stream(s, c, 0, w)[a + i] = <<s, c, a + i>>
  BY <1>1 DEF Stream
<1>3. (a + n) - a = n
  OBVIOUS
<1> QED
  BY <1>2, <1>3 DEF Stream, P!Window

(* All that a peer has sent.                                               *)
LEMMA StreamWhole ==
    ASSUME NEW s \in Sides, NEW c \in Clients, NEW w \in Nat
    PROVE  Len(Stream(s, c, 0, w)) = w
<1>1. 0 \in Nat /\ 0 <= w /\ w - 0 = w
  OBVIOUS
<1> QED
  BY <1>1, StreamIs

(* What a peer sends is written to its lane.                               *)
LEMMA SendsWrite ==
    ASSUME TypeOK, NEW s \in Sides, NEW c \in Clients, PeerSends(s, c)
    PROVE  P!Write(<<s, c>>)
<1> DEFINE l == <<s, c>>
           w == written[s][c]
<1>1. written \in Each(Nat) /\ w \in Nat
  BY Functions DEF Each
<1>2. written' = [written EXCEPT ![s][c] = @ + 1] /\ UNCHANGED <<skipped, got>>
  BY DEF PeerSends
<1>3. written'[s][c] = w + 1 /\ \A r \in Sides, d \in Clients : r # s \/ d # c => written'[r][d] = written[r][d]
  BY <1>1, <1>2 DEF Each
<1>4. l \in PipeLanes /\ Source[l] = Stream(s, c, 0, w) /\ Source'[l] = Stream(s, c, 0, w + 1)
  BY <1>3, LaneIs
<1>5. Kept' = Kept /\ Out' = Out
  BY <1>2, LaneIs DEF Sink
<1>6. \A k \in PipeLanes : k # l => Source'[k] = Source[k]
  <2>1. ASSUME NEW r \in Sides, NEW d \in Clients, <<r, d>> # l PROVE Source'[<<r, d>>] = Source[<<r, d>>]
    <3>1. written'[r][d] = written[r][d]
      BY <1>3, <2>1
    <3> QED
      BY <3>1, LaneIs
  <2> QED
    BY <2>1, LaneIs
<1>7. Source' = [Source EXCEPT ![l] = Source'[l]]
  <2>1. Source = [k \in PipeLanes |-> Source[k]] /\ Source' = [k \in PipeLanes |-> Source'[k]]
    BY DEF Source, PipeLanes
  <2> HIDE DEF l
  <2> QED
    BY <1>4, <1>6, <2>1, LaneUpdate
<1>8. Len(Source[l]) = w /\ Len(Source'[l]) = w + 1
  <2>1. w + 1 \in Nat
    BY <1>1
  <2> HIDE DEF l, w
  <2> QED
    BY <1>1, <1>4, <2>1, StreamWhole
<1>9. P!Window(Source'[l], 0, Len(Source[l])) = Source[l]
  <2>1. w + 1 \in Nat /\ 0 + w <= w + 1 /\ 0 + w = w
    BY <1>1
  <2> QED
    BY <1>1, <1>4, <1>8, <2>1, WindowIs
<1> QED
  BY <1>5, <1>7, <1>8, <1>9 DEF P!Write, Source, Kept, Out

(* The request skips what it takes.                                        *)
LEMMA RequestSkips ==
    ASSUME TypeOK, Turns, Phases, NEW c \in Clients, Request(c)
    PROVE  P!Skip(<<"client", c>>)
<1> USE OtherIs
<1> DEFINE l == <<"client", c>>
           n == Received("client", c)
           w == written["client"][c]
<1>1. /\ skipped[c] = 0 /\ taken["client"][c] = 0 /\ got["target"][c] = <<>>
      /\ skipped' = [skipped EXCEPT ![c] = n] /\ UNCHANGED <<written, got>> /\ Pending("client", c) > 0
  <2>1. Unheard(c)
    BY DEF Request, Unheard
  <2>2. Handshake(c)
    BY DEF Handshake
  <2>3. got["target"][c] = <<>>
    BY <2>2, HandshakeIdle DEF Idle
  <2> QED
    BY <2>1, <2>3 DEF Turns, Request
<1>2. skipped \in [Clients -> Nat] /\ w \in Nat
  BY Functions DEF Each
<1>3. n \in 1 .. w
  <2>1. w > 0 /\ w - 0 = w
    BY <1>1, <1>2 DEF Pending
  <2> QED
    BY <1>1, <1>2, <2>1, BufferAssumption DEF Received, Pending
<1>4. Source' = Source /\ Out' = Out
  BY <1>1, LaneIs DEF Sink
<1>5. l \in PipeLanes /\ Kept[l] = 0 /\ Out[l] = <<>> /\ Source[l] = Stream("client", c, 0, w)
  BY <1>1, LaneIs DEF Base, Sink
<1>6. Len(Source[l]) = w
  BY <1>2, <1>5, StreamWhole
<1> HIDE DEF n
<1>7. Kept'[l] = n
  BY <1>1, <1>2, LaneIs DEF Base
<1>8. \A k \in PipeLanes : k # l => Kept'[k] = Kept[k]
  <2>1. ASSUME NEW r \in Sides, NEW d \in Clients, <<r, d>> # l PROVE Base(r, d)' = Base(r, d)
    BY <1>1, <1>2, <2>1 DEF Base
  <2> QED
    BY <2>1, LaneIs
<1>9. Kept' = [Kept EXCEPT ![l] = n]
  <2>1. Kept = [k \in PipeLanes |-> Kept[k]] /\ Kept' = [k \in PipeLanes |-> Kept'[k]]
    BY DEF Kept, PipeLanes
  <2> HIDE DEF l
  <2> QED
    BY <1>5, <1>7, <1>8, <2>1, LaneUpdate
<1> QED
  BY <1>3, <1>4, <1>5, <1>6, <1>9 DEF P!Skip, Source, Kept, Out

(* A loop that passes something on delivers it.                            *)
LEMMA PassingDelivers ==
    ASSUME IInv, IInv', NEW s \in Sides, NEW c \in Clients, Forwarding(s, c) \/ Failing(s, c)
    PROVE  P!Deliver(<<s, c>>) \/ UNCHANGED <<Source, Kept, Out>>
<1> USE OtherIs
<1> DEFINE l == <<s, c>>
           w == written[s][c]
           n == Len(Sink(s, c))
           m == Len(Sink(s, c)')
           base == Base(s, c)
<1>1. Source' = Source /\ Kept' = Kept /\ skipped' = skipped
  BY LoopFrame, LaneIs DEF IInv
<1>2. \A r \in Sides, d \in Clients : <<r, d>> # l => Sink(r, d)' = Sink(r, d)
  <2>1. ASSUME NEW r \in Sides, NEW d \in Clients, d # c PROVE Sink(r, d)' = Sink(r, d)
    <3>1. Same(d)
      BY <2>1, LoopFrame DEF IInv
    <3> QED
      BY <3>1, SinkSame DEF Same
  <2>2. ASSUME NEW r \in Sides, r # s PROVE Sink(r, c)' = Sink(r, c)
    <3>1. Other(r) = s
      BY <2>2 DEF Sides, Other
    <3> QED
      BY <3>1, LoopPasses, SinkSame DEF IInv
  <2> QED
    BY <2>1, <2>2
<1>3. CASE Sink(s, c)' = Sink(s, c)
  <2>1. \A r \in Sides, d \in Clients : Sink(r, d)' = Sink(r, d)
    BY <1>2, <1>3
  <2> QED
    BY <1>1, <2>1, LaneIs
<1>4. CASE Sink(s, c)' # Sink(s, c)
  <2>1. /\ base \in Nat /\ w \in Nat /\ n \in Nat /\ Sink(s, c) = Stream(s, c, base, base + n)
    <3>1. TypeOK /\ Carries(s, c)
      BY DEF IInv, Streams
    <3>2. written[s][c] \in Nat
      BY <3>1 DEF TypeOK
    <3> QED
      BY <3>1, <3>2, Carrying
  <2>2. m \in Nat /\ Sink(s, c)' = Stream(s, c, base, base + m) /\ base + m <= w
    <3>1. Base(s, c)' = base /\ written' = written
      BY <1>1, LoopFrame DEF IInv, Base
    <3>2. Conveys(s, c, base, Sink(s, c)', loop'[s][c], taken'[s][c], conn'[Other(s)][c])
      BY <3>1 DEF IInv, Streams, Carries
    <3>3. taken'[s][c] <= w /\ taken'[s][c] \in Nat /\ loop'[s][c].buf \in Seq(Unit)
      BY <3>1 DEF IInv, TypeOK
    <3>4. Len(loop'[s][c].buf) \in Nat
      BY <3>3, LenProperties
    <3>5. m \in Nat
      <4>1. \A r \in Sides : got'[r][c] \in Seq(Unit)
        BY DEF IInv, TypeOK
      <4>2. got'["client"][c] # <<>> => Tail(got'["client"][c]) \in Seq(Unit)
        BY <4>1, HeadTailProperties
      <4>3. <<>> \in Seq(Unit)
        BY EmptySeq
      <4>4. Sink(s, c)' \in Seq(Unit)
        BY <4>1, <4>2, <4>3 DEF Sink
      <4> QED
        BY <4>4, LenProperties
    <3> HIDE DEF w, base, m
    <3>6. Sink(s, c)' = Stream(s, c, base, base + m) /\ base + m + Len(loop'[s][c].buf) <= taken'[s][c]
      BY <3>2 DEF Conveys, m
    <3>7. base + m <= w
      <4> DEFINE held == Len(loop'[s][c].buf)
                 u == taken'[s][c]
      <4>1. base \in Nat /\ w \in Nat /\ held \in Nat /\ u \in Nat /\ u <= w /\ base + m + held <= u
        BY <2>1, <3>3, <3>4, <3>6
      <4> HIDE DEF held, u
      <4> QED
        BY <3>5, <4>1
    <3> QED
      BY <3>5, <3>6, <3>7
  <2>3. n <= m
    <3>1. PICK k \in 0 .. Len(loop[s][c].buf) : PassesOn(s, c, k)
      <4>1. ~(got'[Other(s)][c] = got[Other(s)][c])
        BY <1>4, SinkSame
      <4> QED
        BY <4>1, LoopPasses DEF IInv
    <3>2. Sink(s, c)' = Sink(s, c) \o SubSeq(loop[s][c].buf, 1, k)
      BY <3>1, SinkGrows DEF IInv
    <3>3. loop[s][c].buf \in Seq(Unit)
      BY DEF IInv, TypeOK
    <3>4. SubSeq(loop[s][c].buf, 1, k) \in Seq(Unit)
      <4>1. Len(loop[s][c].buf) \in Nat
        BY <3>3, LenProperties
      <4>2. \A i \in 1 .. k : loop[s][c].buf[i] \in Unit
        BY <3>3, <4>1, ElementOfSeq
      <4> QED
        BY <4>1, <4>2, SubSeqProperties
    <3>5. Sink(s, c) \in Seq(Unit)
      BY <2>1, StreamNext
    <3>6. m = n + Len(SubSeq(loop[s][c].buf, 1, k)) /\ Len(SubSeq(loop[s][c].buf, 1, k)) \in Nat
      BY <3>2, <3>4, <3>5, Parts, LenProperties
    <3> HIDE DEF n, m
    <3> QED
      BY <2>1, <2>2, <3>6
  <2>4. n # m
    BY <1>4, <2>1, <2>2
  <2>5. Source[l] = Stream(s, c, 0, w) /\ Len(Source[l]) = w /\ Kept[l] = base /\ Out[l] = Sink(s, c)
        /\ Out'[l] = Sink(s, c)' /\ l \in PipeLanes
    BY <2>1, LaneIs, StreamWhole
  <2>6. m \in n + 1 .. w - base
    <3> HIDE DEF n, m, w, base
    <3> QED
      BY <2>1, <2>2, <2>3, <2>4
  <2>7. P!Window(Source[l], base, m) = Sink(s, c)'
    <3> HIDE DEF n, m, w, base
    <3> QED
      BY <2>1, <2>2, <2>5, WindowIs
  <2>8. Out' = [Out EXCEPT ![l] = Out'[l]]
    <3>1. Out = [k \in PipeLanes |-> Out[k]] /\ Out' = [k \in PipeLanes |-> Out'[k]]
      BY DEF Out, PipeLanes
    <3>2. \A k \in PipeLanes : k # l => Out'[k] = Out[k]
      BY <1>2, LaneIs
    <3> HIDE DEF l
    <3> QED
      BY <2>5, <3>1, <3>2, LaneUpdate
  <2>9. m \in Len(Out[l]) + 1 .. Len(Source[l]) - Kept[l] /\ Out' = [Out EXCEPT ![l] = P!Window(Source[l], Kept[l], m)]
    BY <2>5, <2>6, <2>7, <2>8
  <2>10. \E i \in Len(Out[l]) + 1 .. Len(Source[l]) - Kept[l] :
           Out' = [Out EXCEPT ![l] = P!Window(Source[l], Kept[l], i)]
    <3> HIDE DEF m
    <3> QED
      BY <2>9
  <2> QED
    BY <1>1, <2>10 DEF P!Deliver, Source, Kept, Out
<1> QED
  BY <1>3, <1>4

(* The other steps of a handshake change no pipe.                          *)
LEMMA HandshakeQuiet ==
    ASSUME TypeOK, Turns, Phases, NEW c \in Clients, Handshake(c), ~Request(c)
    PROVE  UNCHANGED <<Source, Kept, Out>>
<1> USE OtherIs
<1>1. written' = written /\ skipped' = skipped
  BY DEF Handshake, NoRequest, RequestTimeout, RequestReset, Refuse, Connect, Establish, NotEstablished, sockets
<1>2. ASSUME NEW s \in Sides, NEW d \in Clients, d # c PROVE Sink(s, d)' = Sink(s, d)
  <2>1. Same(d)
    BY <1>2, HandshakeFrame
  <2> QED
    BY <2>1, SinkSame DEF Same
<1>3. got["client"][c] = <<>> /\ got["target"][c] = <<>>
  BY HandshakeIdle DEF Idle
<1>4. got'["target"][c] = <<>> /\ (got'["client"][c] = <<>> \/ \E code : got'["client"][c] = Status(c, code))
  BY HandshakeEnds DEF Stillborn
<1>5. \A code : Tail(Status(c, code)) = <<>>
  BY DEF Status
<1>6. \A s \in Sides : Sink(s, c)' = Sink(s, c)
  BY <1>3, <1>4, <1>5 DEF Sink
<1> QED
  BY <1>1, <1>2, <1>6, LaneIs

(* Every step of the tunnel is a step of the pipes, or none.               *)
LEMMA StepIsPipes == ASSUME IInv, IInv', [Next]_vars PROVE [P!Next]_(P!pipes)
<1> USE OtherIs
<1>1. UNCHANGED <<Source, Kept, Out>> => UNCHANGED P!pipes
  BY DEF P!pipes, Source, Kept, Out
<1>2. ASSUME NEW s \in Sides, NEW c \in Clients, P!Write(<<s, c>>) \/ P!Skip(<<s, c>>) \/ P!Deliver(<<s, c>>)
      PROVE  P!Next
  <2>1. <<s, c>> \in Sides \X Clients
    OBVIOUS
  <2> QED
    BY <1>2, <2>1 DEF P!Next
<1>3. ASSUME UNCHANGED <<written, skipped, got>> PROVE UNCHANGED <<Source, Kept, Out>>
  BY <1>3, LaneIs DEF Sink
<1>4. CASE UNCHANGED vars \/ Accept
  BY <1>1, <1>3, <1>4 DEF vars, Accept, sockets
<1>5. ASSUME NEW s \in Sides, NEW c \in Clients, PeerSends(s, c) PROVE P!Next
  BY <1>2, <1>5, SendsWrite DEF IInv
<1>6. ASSUME NEW s \in Sides, NEW c \in Clients, PeerLeaves(s, c) PROVE UNCHANGED P!pipes
  BY <1>1, <1>3, <1>6 DEF PeerLeaves
<1>7. ASSUME NEW c \in Clients, Arrive(c) PROVE UNCHANGED P!pipes
  BY <1>1, <1>3, <1>7 DEF Arrive
<1>8. ASSUME NEW c \in Clients, Handshake(c) PROVE [P!Next]_(P!pipes)
  <2>1. CASE Request(c)
    BY <1>2, <2>1, RequestSkips DEF IInv
  <2>2. CASE ~Request(c)
    BY <1>1, <1>8, <2>2, HandshakeQuiet DEF IInv
  <2> QED
    BY <2>1, <2>2
<1>9. ASSUME NEW s \in Sides, NEW c \in Clients, Forwarding(s, c) \/ Failing(s, c) PROVE [P!Next]_(P!pipes)
  BY <1>1, <1>2, <1>9, PassingDelivers
<1> QED
  BY <1>4, <1>5, <1>6, <1>7, <1>8, <1>9 DEF Next, Manager, Peers, Loops

(* Each direction of each tunnel is a pipe: what a peer gets is a window of *)
(* what the other has sent, after the request, in order and without a gap. *)
THEOREM TunnelsArePipes == Spec => Piped
<1>1. Init => P!Init
  <2> SUFFICES ASSUME Init PROVE P!Init
    OBVIOUS
  <2>1. ASSUME NEW l \in Sides \X Clients
        PROVE  Stream(l[1], l[2], 0, written[l[1]][l[2]]) = <<>> /\ Base(l[1], l[2]) = 0 /\ Sink(l[1], l[2]) = <<>>
    <3>1. written[l[1]][l[2]] = 0 /\ l[1] \in Sides /\ l[2] \in Clients
      BY DEF Init
    <3>2. Stream(l[1], l[2], 0, 0) = <<>>
      BY <3>1, StreamEmpty
    <3> QED
      BY <3>1, <3>2, OtherIs DEF Init, Base, Sink
  <2> QED
    BY <2>1 DEF P!Init
<1>2. IInv /\ IInv' /\ [Next]_vars => [P!Next]_(P!pipes)
  BY StepIsPipes
<1> QED
  BY <1>1, <1>2, Invariance, PTL DEF Spec, Piped, P!Spec
=============================================================================
