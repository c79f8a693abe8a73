---------------------- MODULE MCUnobtrusiveValidation ----------------------
(***************************************************************************)
(* A form with an optional address and its required confirmation.  Either  *)
(* may be missing when the page is loaded and be added by a script, the    *)
(* confirmation may be hidden, the address disabled.                       *)
(***************************************************************************)
EXTENDS UnobtrusiveValidation

MCEmail == <<"Input", "Email">>
MCConfirm == <<"Input", "Confirm">>

MCElements ==
    MCEmail :> [name |-> MCEmail, type |-> "text",
                attrs |-> <<"email">> :> "no address"]
    @@ MCConfirm :> [name |-> MCConfirm, type |-> "text",
                     attrs |-> <<"required">> :> ""
                               @@ <<"equalto">> :> "not the same"
                               @@ <<"equalto", "other">> :> <<"*", "Email">>]

MCHideable == {MCConfirm}
MCDisableable == {MCEmail}
MCReplaces == {MCEmail}

(* "x" is no address, "y" is one.                                          *)
MCValues == {"", "x", "y"}
MCBreaks == {<<"email", <<"true">>, "x">>}
=============================================================================
