------------------------- MODULE MCIdentityService -------------------------
(* Small instances of the identity service: two Create commands.           *)
EXTENDS IdentityService

CONSTANTS c1, c2

TwoCreates == {c1, c2}
=============================================================================
