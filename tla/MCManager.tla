------------------------------- MODULE MCManager -------------------------------
(***************************************************************************)
(* What stands between the user and the plugin, for TLC: a view of the     *)
(* window (Manager), with the preview on display, the one that replaces it *)
(* and one more; or the development host (Sidecar), with two connections.  *)
(* One of them is chosen in the beginning, the other stays as it is.       *)
(***************************************************************************)
EXTENDS Manager

CONSTANTS p1, p2, p3, a, b,
          Connections, MaxRequests, Nobody

VARIABLES
    part,    \* the one that is chosen
    child, state, sequence, pending, calls, answers, linked, connected, serial, doubted

host == <<child, state, sequence, pending, calls, answers, linked, connected, serial, doubted>>

S == INSTANCE Sidecar

ASSUME HostAssumption == S!SidecarAssumption

MCInit == part \in {"view", "host"} /\ Init /\ S!Init

MCNext ==
    /\ UNCHANGED part
    /\ \/ part = "view" /\ Next /\ UNCHANGED host
       \/ part = "host" /\ S!Next /\ UNCHANGED vars

MCSpec ==
    /\ MCInit /\ [][MCNext]_<<part, vars, host>>
    /\ part = "view" => Fairness
    /\ part = "host" => S!Fairness

-----------------------------------------------------------------------------
(* What the host takes for connected is connected in the process of the    *)
(* plugin that runs, except where an answer did not come (Sidecar).        *)
ConnectionsAreKnown == S!ConnectionsAreKnown

(* Operations of the host end, whatever the plugin does (Sidecar).         *)
HostAnswers == S!HostAnswers
=============================================================================
