---------------------------- MODULE KeySelection ----------------------------
(***************************************************************************)
(* What a key search promises its caller, without saying how it is run:    *)
(* at most one key is ever chosen, a search returns only when it has a key *)
(* or was asked to give up, and it may fail instead.  A request to give up *)
(* does not forbid a key from being chosen before the search returns; but  *)
(* a search that was asked before it began is doomed to choose none, and   *)
(* any other may come to the point from which it chooses none.             *)
(* KeySearch (the worker threads) implements this module, and              *)
(* IdentityService uses one such search for every Create command.          *)
(***************************************************************************)
CONSTANTS Keys,    \* the keys a search may deliver
          NoKey    \* "nothing chosen yet", not a key: a null field of the builder

VARIABLES chosen,      \* the key the search will deliver
          cancelled,   \* whether the caller has cancelled the search's token
          phase        \* how far the call has got

selectionVars == <<chosen, cancelled, phase>>

UnderWay == {"searching", "doomed"}

SelectionTypeOK ==
    /\ chosen \in Keys \cup {NoKey}
    /\ cancelled \in BOOLEAN
    /\ phase \in {"idle", "returned", "threw"} \cup UnderWay

SelectionInit ==
    /\ chosen = NoKey
    /\ cancelled = FALSE
    /\ phase = "idle"

Begin ==
    /\ phase = "idle"
    /\ phase' = IF cancelled THEN "doomed" ELSE "searching"
    /\ UNCHANGED <<chosen, cancelled>>

Doom ==
    /\ phase = "searching"
    /\ chosen = NoKey
    /\ phase' = "doomed"
    /\ UNCHANGED <<chosen, cancelled>>

Choose(k) ==
    /\ phase = "searching"
    /\ chosen = NoKey
    /\ chosen' = k
    /\ UNCHANGED <<cancelled, phase>>

RequestCancel ==
    /\ cancelled' = TRUE
    /\ UNCHANGED <<chosen, phase>>

Finish ==
    /\ phase \in UnderWay
    /\ chosen # NoKey \/ cancelled
    /\ phase' = "returned"
    /\ UNCHANGED <<chosen, cancelled>>

Fail ==
    /\ phase \in UnderWay
    /\ phase' = "threw"
    /\ UNCHANGED <<chosen, cancelled>>

SelectionNext ==
    \/ Begin \/ Doom
    \/ \E k \in Keys : Choose(k)
    \/ RequestCancel
    \/ Finish
    \/ Fail

SelectionSafety == SelectionInit /\ [][SelectionNext]_selectionVars

(* A search that has a key, or was cancelled, does not run for ever.       *)
SelectionSpec == SelectionSafety /\ WF_selectionVars(Finish)
=============================================================================
