-------------------------------- MODULE Sidecar --------------------------------
(***************************************************************************)
(* The development host (devtools/mock-host): the requests it sends to the *)
(* plugin process (sidecar.mjs) and the connections it takes for connected *)
(* (server.mjs).                                                           *)
(*                                                                         *)
(* Windows send requests whenever they like; connecting, disconnecting and *)
(* restarting go through serialize, one at a time.  An answer finds its    *)
(* request by number; a request whose time is over is forgotten and may be *)
(* carried out all the same.  The process may end at any moment, and its   *)
(* last output is read after its end was noticed.                          *)
(***************************************************************************)
EXTENDS Naturals

CONSTANTS
    Connections,  \* saved connections
    MaxRequests,  \* bound: nothing new is begun after so many requests
    Nobody        \* a request about no connection

(* Assumed by the modules that instantiate this one.                       *)
SidecarAssumption == Nobody \notin Connections

VARIABLES
    child,      \* this.child is set
    state,      \* of the sidecar
    sequence,   \* the number of the last request
    pending,    \* the numbers of the requests that wait
    calls,      \* the requests the process has not answered
    answers,    \* its answers that were not read yet
    linked,     \* the connections of the process
    connected,  \* the connections the host takes for connected
    serial,     \* where the serialized operation is, and what it waits for
    doubted     \* connections with a request that timed out (observer)

wire == <<calls, answers, linked>>
vars == <<child, state, sequence, pending, wire, connected, serial, doubted>>

Waiting(place, c, id) == [place |-> place, of |-> c, id |-> id]
At(place) == Waiting(place, Nobody, 0)
Idle == At("idle")

(* The host after a start that succeeded.                                  *)
Init ==
    /\ child = TRUE /\ state = "ready"
    /\ sequence = 1
    /\ pending = {} /\ calls = {} /\ answers = {}
    /\ linked = {} /\ connected = {}
    /\ serial = Idle
    /\ doubted = {}

-----------------------------------------------------------------------------
(* request and write: numbered, remembered and written.  Requests that are *)
(* refused (256 pending, a full pipe, no process) change nothing.          *)
Send(kind, c) ==
    /\ child /\ state \in {"starting", "ready"}
    /\ sequence' = sequence + 1
    /\ pending' = pending \cup {sequence'}
    /\ calls' = calls \cup {[id |-> sequence', kind |-> kind, of |-> c]}
    /\ UNCHANGED <<answers, linked>>

New == serial = Idle /\ sequence < MaxRequests

(* backend.invoke of a window, for which a process that starts will do.    *)
Invoke ==
    /\ sequence < MaxRequests
    /\ Send("invoke", Nobody)
    /\ UNCHANGED <<child, state, connected, serial, doubted>>

Connect(c) ==
    /\ New /\ state = "ready" /\ c \notin connected
    /\ Send("connect", c)
    /\ serial' = Waiting("connect", c, sequence')
    /\ UNCHANGED <<child, state, connected, doubted>>

(* Without a ready process there is nothing to ask.                        *)
Disconnect(c) ==
    /\ New /\ c \in connected
    /\ \/ /\ state = "ready" /\ Send("disconnect", c)
          /\ serial' = Waiting("disconnect", c, sequence')
          /\ UNCHANGED connected
       \/ /\ state # "ready"
          /\ connected' = connected \ {c}
          /\ UNCHANGED <<sequence, pending, wire, serial>>
    /\ UNCHANGED <<child, state, doubted>>

Restart ==
    /\ New
    /\ serial' = At("leave")
    /\ UNCHANGED <<child, state, sequence, pending, wire, connected, doubted>>

(* Every connection is disconnected, or forgotten if that fails.           *)
Leave ==
    /\ serial = At("leave")
    /\ \/ /\ connected = {}
          /\ serial' = At("stop")
          /\ UNCHANGED <<sequence, pending, wire, connected>>
       \/ \E c \in connected :
             \/ /\ state = "ready" /\ Send("disconnect", c)
                /\ serial' = Waiting("leave", c, sequence')
                /\ UNCHANGED connected
             \/ /\ connected' = connected \ {c}
                /\ UNCHANGED <<sequence, pending, wire, serial>>
    /\ UNCHANGED <<child, state, doubted>>

-----------------------------------------------------------------------------
(* What the serialized operation does when its request is answered (ok) or *)
(* rejected, with the state and the connections it finds then.             *)
Resume(ok, st, known) ==
    LET place == serial.place  c == serial.of IN
    /\ serial' = CASE place = "leave" -> At("leave")
                   [] place = "start" /\ ~ok -> At("abandon")
                   [] OTHER -> Idle
    /\ connected' = CASE place = "connect" /\ ok -> known \cup {c}
                      [] place = "leave" \/ (place = "disconnect" /\ ok) -> known \ {c}
                      [] OTHER -> known
    /\ state' = IF place = "start" /\ ok THEN "ready" ELSE st

(* fail: every request is rejected; with the state the connections go.     *)
Fail ==
    /\ pending' = {}
    /\ IF serial.id \in pending
       THEN Resume(FALSE, "failed", {})
       ELSE state' = "failed" /\ connected' = {} /\ UNCHANGED serial

(* An answer for which nobody waits is dropped.  What follows it in the    *)
(* same chunk may be no frame: then everything fails before the operation  *)
(* goes on with the answer it has.                                         *)
Deliver(a) ==
    /\ answers' = answers \ {a}
    /\ \/ /\ a.id \in pending
          /\ \/ pending' = pending \ {a.id}
                /\ IF a.id = serial.id THEN Resume(a.ok, state, connected)
                   ELSE UNCHANGED <<serial, connected, state>>
             \/ a.id = serial.id /\ pending' = {} /\ Resume(a.ok, "failed", {})
       \/ a.id \notin pending /\ UNCHANGED <<pending, serial, connected, state>>
    /\ UNCHANGED <<child, sequence, calls, linked, doubted>>

(* Mutant of Timeout: the request is forgotten and not rejected.           *)
TimeoutSilent(id) ==
    /\ id \in pending
    /\ pending' = pending \ {id}
    /\ UNCHANGED <<serial, connected, state>>
    /\ doubted' = IF id = serial.id THEN doubted \cup {serial.of} ELSE doubted
    /\ UNCHANGED <<child, sequence, wire>>

Timeout(id) ==
    /\ id \in pending
    /\ pending' = pending \ {id}
    /\ IF id = serial.id THEN Resume(FALSE, state, connected)
       ELSE UNCHANGED <<serial, connected, state>>
    /\ doubted' = IF id = serial.id THEN doubted \cup {serial.of} ELSE doubted
    /\ UNCHANGED <<child, sequence, wire>>

(* Output that is no frame.  The process is told to end, which it may do.  *)
BadFrame ==
    /\ child \/ answers # {}
    /\ Fail
    /\ UNCHANGED <<child, sequence, wire, doubted>>

-----------------------------------------------------------------------------
(* The plugin, which handles requests in any order.                        *)
Handle(call) ==
    \E ok \in BOOLEAN :
        /\ call.kind = "disconnect" => ok
        /\ linked' = IF call.kind = "connect" /\ ok THEN linked \cup {call.of}
                     ELSE linked \ {call.of}
        /\ calls' = calls \ {call}
        /\ answers' = answers \cup {[id |-> call.id, ok |-> ok]}
        /\ UNCHANGED <<child, state, sequence, pending, connected, serial, doubted>>

(* Its end, by itself or by a signal; a stop waits for it.                 *)
Exit ==
    /\ child /\ child' = FALSE
    /\ calls' = {} /\ linked' = {} /\ doubted' = {}
    /\ IF serial.place \in {"stopping", "abandoning"}
       THEN /\ pending' = {} /\ connected' = {}
            /\ serial' = IF serial.place = "stopping" THEN At("build") ELSE Idle
            /\ state' = IF serial.place = "stopping" /\ state = "stopping" THEN "stopped"
                        ELSE "failed"
       ELSE Fail
    /\ UNCHANGED <<sequence, answers>>

(* stop: everything that waits is rejected; the input is closed, and two   *)
(* signals follow.  The start that failed stops what it has started.       *)
Stop ==
    /\ serial \in {At("stop"), At("abandon")}
    /\ \/ /\ child
          /\ pending' = {} /\ connected' = {}
          /\ state' = "stopping"
          /\ serial' = At(IF serial.place = "stop" THEN "stopping" ELSE "abandoning")
       \/ /\ ~child /\ serial.place = "stop"
          /\ serial' = At("build")
          /\ UNCHANGED <<pending, connected, state>>
       \/ /\ ~child /\ serial.place = "abandon"
          /\ pending' = {} /\ connected' = {}
          /\ state' = "failed"
          /\ serial' = Idle
    /\ UNCHANGED <<child, sequence, wire, doubted>>

(* A build that fails starts nothing; the host that is closed neither.     *)
BuildFails ==
    /\ serial = At("build")
    /\ serial' = Idle
    /\ UNCHANGED <<child, state, sequence, pending, wire, connected, doubted>>

(* Mutant of Start: every process counts its requests from the beginning.  *)
StartAtOne ==
    /\ serial = At("build")
    /\ child' = TRUE /\ state' = "starting" /\ connected' = {}
    /\ sequence' = 1
    /\ pending' = {sequence'}
    /\ calls' = {[id |-> sequence', kind |-> "initialize", of |-> Nobody]}
    /\ serial' = Waiting("start", Nobody, sequence')
    /\ UNCHANGED <<answers, linked, doubted>>

(* start: a process that has to identify itself within ten seconds.        *)
Start ==
    /\ serial = At("build")
    /\ child' = TRUE /\ state' = "starting" /\ connected' = {}
    /\ sequence' = sequence + 1
    /\ pending' = {sequence'}
    /\ calls' = {[id |-> sequence', kind |-> "initialize", of |-> Nobody]}
    /\ serial' = Waiting("start", Nobody, sequence')
    /\ UNCHANGED <<answers, linked, doubted>>

Next ==
    \/ Invoke \/ Restart \/ Leave \/ BadFrame \/ Exit \/ Stop \/ BuildFails \/ Start
    \/ \E c \in Connections : Connect(c) \/ Disconnect(c)
    \/ \E a \in answers : Deliver(a)
    \/ \E id \in pending : Timeout(id)
    \/ \E call \in calls : Handle(call)

(* Node goes on with what is ready, its timers fire, and the second signal *)
(* of a stop ends every process.  Builds end; nothing is assumed of the    *)
(* plugin.                                                                 *)
Fairness ==
    /\ WF_vars(Leave) /\ WF_vars(Stop) /\ WF_vars(Start \/ BuildFails)
    /\ WF_vars(serial.id \in pending /\ Timeout(serial.id))
    /\ WF_vars(serial.place \in {"stopping", "abandoning"} /\ Exit)

Spec == Init /\ [][Next]_vars /\ Fairness

-----------------------------------------------------------------------------
(* Properties.                                                             *)

(* What the host takes for connected is connected in the process that runs *)
(* now, and nothing else is: a crash, a restart, output read too late or   *)
(* answers in another order do not deceive it.  Only where the answer to a *)
(* request did not come in time it may be wrong ("超时不等于后端已取消操作", *)
(* devtools/mock-host/README.md:76).                                       *)
ConnectionsAreKnown ==
    state = "ready" /\ serial = Idle => connected \ doubted = linked \ doubted

(* Connecting, disconnecting and restarting end, whatever the plugin does  *)
(* or leaves undone, so that the next operation can be served.             *)
HostAnswers == serial # Idle ~> serial = Idle
=============================================================================
