---------------------------------- MODULE Sink ----------------------------------
(***************************************************************************)
(* What streaming a file to a remote promises to the plugin: success means *)
(* that the whole file is there, and nothing this stream started changes   *)
(* it any more.  An error promises nothing: the remote may keep a part of  *)
(* the file, now or later, or all of it.                                   *)
(***************************************************************************)
VARIABLES target,   \* what the remote has: the old file, a torn or the whole new one
          outcome   \* what the caller of the stream was told

vars == <<target, outcome>>

Init == target = "old" /\ outcome = "open"

Store ==
    /\ outcome # "done"
    /\ target' \in {"torn", "whole"}
    /\ UNCHANGED outcome

Succeed ==
    /\ outcome = "open" /\ target = "whole"
    /\ outcome' = "done"
    /\ UNCHANGED target

Fail ==
    /\ outcome = "open"
    /\ outcome' = "failed"
    /\ UNCHANGED target

Next == Store \/ Succeed \/ Fail

Spec == Init /\ [][Next]_vars
=============================================================================
