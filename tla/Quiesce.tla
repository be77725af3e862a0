-------------------------------- MODULE Quiesce --------------------------------
(***************************************************************************)
(* What waiting for a session to drain promises: guards come only from     *)
(* other guards, and the wait is over some time after the last is dropped. *)
(***************************************************************************)
CONSTANTS Guards   \* Activity guards of one cancelled session

VARIABLES live,    \* the guards that exist
          waiting  \* whether the caller is still waiting

vars == <<live, waiting>>

Init == live \subseteq Guards /\ waiting = TRUE

Clone(g, h) ==
    /\ g \in live /\ h \in Guards \ live
    /\ live' = live \cup {h}
    /\ UNCHANGED waiting

Drop(g) ==
    /\ g \in live
    /\ live' = live \ {g}
    /\ UNCHANGED waiting

Return ==
    /\ waiting /\ live = {}
    /\ waiting' = FALSE
    /\ UNCHANGED live

Next == Return \/ \E g \in Guards : Drop(g) \/ \E h \in Guards : Clone(g, h)

Spec == Init /\ [][Next]_vars /\ WF_vars(Return)
=============================================================================
