-------------------------------- MODULE Pipes -------------------------------
(***************************************************************************)
(* What the tunnels promise, each of their directions a lane.  A source is *)
(* written at one end; the reader may take some units off its front for    *)
(* itself, once and before it passes anything on; from then on the sink is *)
(* a window of the source that starts right after them and only grows:     *)
(* nothing is lost in the middle, repeated, reordered or taken from        *)
(* another lane.  The sink may stop growing at any time.                   *)
(***************************************************************************)
EXTENDS Naturals, Sequences

CONSTANT Lanes

VARIABLES source, \* what was written on each lane, in order
          skipped, \* how many units of it the reader kept for itself
          sink \* what came out at the other end

pipes == <<source, skipped, sink>>

\* The n units of s that follow the first `from`.
Window(s, from, n) == [i \in 1 .. n |-> s[from + i]]

Init == /\ source = [l \in Lanes |-> <<>>]
        /\ skipped = [l \in Lanes |-> 0]
        /\ sink = [l \in Lanes |-> <<>>]

Write(l) ==
    LET s == source'[l] IN
    /\ Len(s) = Len(source[l]) + 1 /\ Window(s, 0, Len(source[l])) = source[l]
    /\ source' = [source EXCEPT ![l] = s]
    /\ UNCHANGED <<skipped, sink>>

Skip(l) ==
    /\ skipped[l] = 0 /\ sink[l] = <<>>
    /\ \E n \in 1 .. Len(source[l]) : skipped' = [skipped EXCEPT ![l] = n]
    /\ UNCHANGED <<source, sink>>

Deliver(l) ==
    /\ \E n \in Len(sink[l]) + 1 .. Len(source[l]) - skipped[l] :
          sink' = [sink EXCEPT ![l] = Window(source[l], skipped[l], n)]
    /\ UNCHANGED <<source, skipped>>

Next == \E l \in Lanes : Write(l) \/ Skip(l) \/ Deliver(l)

Spec == Init /\ [][Next]_pipes
=============================================================================
