--------------------------- MODULE MCRegistration ---------------------------
(***************************************************************************)
(* A tab in each of two browsers; two addresses in order, one that matches *)
(* the pattern and is refused as a user name, and one that does not match. *)
(***************************************************************************)
EXTENDS Registration, TLC

CONSTANTS t1, t2, b1, b2, a1, a2, odd, bad

MCBrowser == t1 :> b1 @@ t2 :> b2

(* No action tells the two addresses in order apart.                       *)
MCSymmetry == Permutations({a1, a2})
=============================================================================
