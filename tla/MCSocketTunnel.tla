--------------------------- MODULE MCSocketTunnel ---------------------------
(* Two clients.  The first unit of each is its whole CONNECT, or the first *)
(* line only: then the request may be split after one line, which is too   *)
(* little, or after two, which is enough, and its rest goes to the target. *)
(* c1 sends more units than that, so that some come as data.               *)
EXTENDS SocketTunnel

CONSTANTS c1, c2

MCClients == {c1, c2}
Whole == [method |-> "CONNECT", lines |-> 2, host |-> TRUE, port |-> 443, version |-> "HTTP/1.1", crlf |-> TRUE]
MCLines == {Whole, [Whole EXCEPT !.lines = 1]}
MCLimit == [s \in Sides |-> [c \in Clients |-> IF s = "client" /\ c = c1 THEN 3 ELSE 1]]
=============================================================================
