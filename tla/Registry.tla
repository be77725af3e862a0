-------------------------------- MODULE Registry --------------------------------
(***************************************************************************)
(* What the plugin promises about its connections, without sessions,       *)
(* locks and waiting: a call goes to the configuration its connection has  *)
(* at that moment, a transfer to that of its call; a configuration is      *)
(* replaced only when nobody uses the old one any more; a connection that  *)
(* is gone is quiet by the time somebody is told so; nothing comes after   *)
(* shutdown.                                                               *)
(***************************************************************************)
CONSTANTS Clients, Conns, Configs, NoConfig

VARIABLES
    described,  \* connection -> its configuration, or NoConfig
    calls,      \* client -> the connection and configuration its call uses, if any
    transfers,  \* client -> those its transfer uses, if any
    changing,   \* whether a change of the connections is under way
    stopped     \* whether the plugin was shut down

vars == <<described, calls, transfers, changing, stopped>>

Used == UNION {calls[r] \cup transfers[r] : r \in Clients}

Quiet(c) == \A x \in Used : x.conn # c

Settled == \A c \in Conns : described[c] = NoConfig => Quiet(c)

Init ==
    /\ described = [c \in Conns |-> NoConfig]
    /\ calls = [r \in Clients |-> {}]
    /\ transfers = [r \in Clients |-> {}]
    /\ changing = FALSE
    /\ stopped = FALSE

(* A change is over when its connections are what they are said to be.     *)
Answered == changing /\ changing' = FALSE /\ Settled'

Enter(r) ==
    /\ calls[r] = {}
    /\ \E c \in Conns :
          /\ described[c] # NoConfig
          /\ calls' = [calls EXCEPT ![r] = {[conn |-> c, config |-> described[c]]}]
    /\ UNCHANGED <<described, transfers, stopped>>
    /\ Answered \/ UNCHANGED changing

Leave(r) ==
    /\ calls' = [calls EXCEPT ![r] = {}]
    /\ UNCHANGED <<described, transfers, changing, stopped>>

Transfer(r) ==
    /\ transfers[r] = {}
    /\ transfers' = [transfers EXCEPT ![r] = calls[r]]
    /\ UNCHANGED <<described, calls, changing, stopped>>

End(r) ==
    /\ transfers' = [transfers EXCEPT ![r] = {}]
    /\ UNCHANGED <<described, calls, changing, stopped>>

Change ==
    /\ ~changing /\ changing' = TRUE
    /\ UNCHANGED <<described, calls, transfers, stopped>>

Forget ==
    /\ changing
    /\ \E gone \in SUBSET Conns :
          described' = [c \in Conns |-> IF c \in gone THEN NoConfig ELSE described[c]]
    /\ UNCHANGED <<calls, transfers, changing, stopped>>

Describe ==
    /\ changing /\ ~stopped
    /\ \E c \in Conns, k \in Configs :
          /\ described[c] = NoConfig /\ Quiet(c)
          /\ described' = [described EXCEPT ![c] = k]
    /\ UNCHANGED <<calls, transfers, changing, stopped>>

Answer ==
    /\ Answered
    /\ UNCHANGED <<described, calls, transfers>>
    /\ \/ UNCHANGED stopped
       \/ stopped' = TRUE /\ \A c \in Conns : described[c] = NoConfig

Next ==
    \/ \E r \in Clients : Enter(r) \/ Leave(r) \/ Transfer(r) \/ End(r)
    \/ Change \/ Forget \/ Describe \/ Answer

Spec == Init /\ [][Next]_vars

(* Whoever uses a connection uses the configuration it is described by,    *)
(* or was before it was forgotten, and all use the same.                   *)
OneConfiguration ==
    /\ \A x \in Used : described[x.conn] \in {NoConfig, x.config}
    /\ \A x, y \in Used : x.conn = y.conn => x = y
=============================================================================
