---------------------------- MODULE Manager_proofs -----------------------------
(***************************************************************************)
(* Proofs about what stands between the user and the plugin: a view of the *)
(* window (Manager), for every set of previews, and the development host   *)
(* (Sidecar), for every set of connections and every number of requests.   *)
(***************************************************************************)
EXTENDS MCManager, TLAPS

(* What an operation that has begun may rely on, whatever happens beside   *)
(* it: the preview it replaces is on display or gone, no other preview is  *)
(* kept, and edits that it will give up were agreed to or are the text     *)
(* being saved.                                                            *)
ViewInv ==
    /\ TypeOK
    /\ live \subseteq {fresh} \cup (IF mounted THEN {preview} ELSE {})
    /\ fresh # NoToken => pc = "chunks"
    /\ pc = "chunks" => kind = "open"
    /\ pc \in {"discard", "call", "chunks"} /\ kind = "open" => preview \in {previous, NoToken}
    /\ question = "operation" => pc \in {"discard", "overwrite"}
    /\ pc = "discard" => kind \in {"open", "leave"}
    /\ pc = "overwrite" => kind = "save"
    /\ pc \in {"call", "chunks"} /\ kind \in {"open", "leave"} /\ dirty => agreed
    /\ pc \in {"call", "overwrite", "forced"} /\ kind = "save" => staged

(* A view begins with nothing in its hands.                                *)
LEMMA ViewInit == Init => ViewInv
BY ManagerAssumption DEF Init, ViewInv, TypeOK

(* Steps of the user.                                                      *)
LEMMA UserKeepsView ==
    ASSUME ViewInv,
           \/ \E k \in {"open", "leave", "save", "other"} : Begin(k)
           \/ Reply \/ Close \/ CloseReply \/ CopyFails \/ NoticeReply \/ Edit \/ Unmount
    PROVE  ViewInv'
<1> USE ManagerAssumption DEF ViewInv, TypeOK, text, op, polling
<1>1. ASSUME NEW k \in {"open", "leave", "save", "other"}, Begin(k) PROVE ViewInv'
  BY <1>1 DEF Begin
<1>2. CASE Reply
  BY <1>2 DEF Reply, End
<1>3. CASE Close
  BY <1>3 DEF Close, Release
<1>4. CASE CloseReply
  <2>1. CASE Release /\ agreed' = TRUE
    BY <1>4, <2>1 DEF CloseReply, Release
  <2>2. CASE UNCHANGED <<preview, dirty, live, agreed>>
    BY <1>4, <2>2 DEF CloseReply
  <2> QED
    BY <1>4, <2>1, <2>2 DEF CloseReply
<1>5. CASE CopyFails \/ NoticeReply
  BY <1>5 DEF CopyFails, NoticeReply
<1>6. CASE Edit
  BY <1>6 DEF Edit
<1>7. CASE Unmount
  BY <1>7 DEF Unmount, Release, End
<1> QED
  BY <1>1, <1>2, <1>3, <1>4, <1>5, <1>6, <1>7

(* Answers to the operation.                                               *)
LEMMA AnswersKeepView ==
    ASSUME ViewInv,
           CallFails \/ PreviewOpened \/ ChunksArrive \/ Left \/ Saved \/ Conflict \/ Done
    PROVE  ViewInv'
<1> USE ManagerAssumption DEF ViewInv, TypeOK, text, op, polling
<1>1. CASE CallFails
  BY <1>1 DEF CallFails, End
<1>2. CASE PreviewOpened
  BY <1>2 DEF PreviewOpened
<1>3. CASE ChunksArrive
  BY <1>3 DEF ChunksArrive, End
<1>4. CASE Left
  BY <1>4 DEF Left, Release
<1>5. CASE Saved
  BY <1>5 DEF Saved
<1>6. CASE Conflict
  BY <1>6 DEF Conflict
<1>7. CASE Done
  BY <1>7 DEF Done, End
<1> QED
  BY <1>1, <1>2, <1>3, <1>4, <1>5, <1>6, <1>7

(* The timer, the polls of an operation and the transfer itself.           *)
LEMMA PollingKeepsView ==
    ASSUME ViewInv,
           \/ OperationPolls \/ OperationPolled
           \/ TimerFires \/ TimerPolls \/ TimerPolled \/ TimerFails \/ Reloaded \/ TransferEnds
           \/ UNCHANGED vars
    PROVE  ViewInv'
<1> USE ManagerAssumption DEF ViewInv, TypeOK, text, op, polling
<1>1. CASE OperationPolls
  BY <1>1 DEF OperationPolls, Look
<1>2. CASE OperationPolled
  BY <1>2 DEF OperationPolled
<1>3. CASE TimerFires \/ TimerFails \/ Reloaded
  BY <1>3 DEF TimerFires, TimerFails, Reloaded, Off
<1>4. CASE TimerPolls
  BY <1>4 DEF TimerPolls, Look
<1>5. CASE TimerPolled
  BY <1>5 DEF TimerPolled, Off
<1>6. CASE TransferEnds
  BY <1>6 DEF TransferEnds
<1>7. CASE UNCHANGED vars
  BY <1>7 DEF vars
<1> QED
  BY <1>1, <1>2, <1>3, <1>4, <1>5, <1>6, <1>7

(* Every step of the view keeps what is known of it.                       *)
LEMMA ViewNext ==
    ViewInv /\ [Next]_vars => ViewInv'
BY UserKeepsView, AnswersKeepView, PollingKeepsView DEF Next

(* What is known of the view holds.                                        *)
LEMMA ViewInvariant == Spec => []ViewInv
BY ViewInit, ViewNext, PTL DEF Spec

(* No preview is left behind in the plugin when an opening overtakes a     *)
(* closing, fails half way or outlives its view (useManager.ts, open and   *)
(* closePreview).                                                          *)
THEOREM PreviewsAreGivenBack ==
    Spec => []TokensAreReleased
<1>1. ViewInv => TokensAreReleased
  BY DEF ViewInv, TokensAreReleased
<1> QED
  BY <1>1, ViewInvariant, PTL

(* Edits leave a view that stays open only when the user has agreed or     *)
(* when they, and nothing older, have been saved.                          *)
THEOREM DraftsAreKept ==
    Spec => DraftIsKept
<1>1. ViewInv /\ [Next]_vars
      => [mounted' /\ dirty /\ ~dirty' => agreed \/ agreed' \/ stored']_vars
  <2> SUFFICES ASSUME ViewInv, Next, mounted', dirty, ~dirty'
               PROVE  agreed \/ agreed' \/ stored'
    OBVIOUS
  <2>1. \/ CloseReply \/ ChunksArrive \/ Left \/ Saved
    BY DEF Next, Begin, Reply, Close, CopyFails, NoticeReply, Edit, CallFails, PreviewOpened,
           Conflict, Done, OperationPolls, OperationPolled, TimerFires, TimerPolls,
           TimerPolled, TimerFails, Reloaded, TransferEnds, Unmount, text
  <2>2. CASE CloseReply
    BY <2>2 DEF CloseReply
  <2>3. CASE ChunksArrive
    BY <2>3 DEF ChunksArrive, ViewInv
  <2>4. CASE Left
    BY <2>4 DEF Left, ViewInv
  <2>5. CASE Saved
    BY <2>5 DEF Saved, ViewInv
  <2> QED
    BY <2>1, <2>2, <2>3, <2>4, <2>5
<1> QED
  BY <1>1, ViewInvariant, PTL DEF Spec, DraftIsKept

-----------------------------------------------------------------------------
(* The development host.                                                   *)

HostStates == {"starting", "ready", "stopping", "stopped", "failed"}
Waits == {"connect", "disconnect", "leave", "start"}
Moments == {"idle", "leave", "stop", "stopping", "build", "abandon", "abandoning"}
Somebody == Connections \cup {Nobody}

HostTypeOK ==
    /\ child \in BOOLEAN
    /\ state \in HostStates
    /\ sequence \in Nat
    /\ pending \subseteq 1 .. sequence
    /\ calls \subseteq
          [id : 1 .. sequence, kind : {"invoke", "initialize", "connect", "disconnect"},
           of : Somebody]
    /\ answers \subseteq [id : 1 .. sequence, ok : BOOLEAN]
    /\ linked \subseteq Connections
    /\ connected \subseteq Connections
    /\ serial \in [place : Waits \cup Moments, of : Somebody, id : Nat]
    /\ doubted \subseteq Somebody

(* A request is unanswered or answered, and that once; what connects is a  *)
(* request about a connection.                                             *)
OneAnswer ==
    /\ \A x \in calls : x.kind = "connect" => x.of # Nobody
    /\ \A x, y \in calls : x.id = y.id => x = y
    /\ \A x, y \in answers : x.id = y.id => x = y
    /\ \A x \in calls, y \in answers : x.id # y.id

(* What a serialized operation waits for is still pending, and about whom. *)
WaitsForOne ==
    \/ serial.place \in Moments /\ serial.of = Nobody /\ serial.id = 0
    \/ serial.place \in Waits \ {"start"} /\ serial.of \in Connections /\ serial.id \in pending
    \/ serial.place = "start" /\ serial.of = Nobody /\ serial.id \in pending

(* Without a process nothing is left of it but answers; a process that     *)
(* starts knows no connection yet.                                         *)
ProcessesAreNew ==
    /\ ~child => /\ calls = {} /\ linked = {} /\ pending = {} /\ connected = {}
                 /\ doubted = {} /\ state \notin {"starting", "ready"}
    /\ serial.place = "build" => ~child
    /\ serial.place = "start" => /\ state = "starting" /\ linked = {} /\ connected = {}
                                 /\ \A x \in calls : x.of = Nobody

Serving == state = "ready" /\ serial.place \in {"idle", "connect", "disconnect"}

(* Nothing is under way about a connection, and it is known.               *)
Settled(c) ==
    /\ c \in connected <=> c \in linked
    /\ \A x \in calls : x.of # c

(* The serialized operation is about the connection, and the one request   *)
(* about it is its; the answer tells what has become of the connection.    *)
UnderWay(c) ==
    /\ \A x \in calls : /\ x.of = c <=> x.id = serial.id
                        /\ x.of = c => x.kind = serial.place
    /\ c \in connected <=> serial.place = "disconnect"
    /\ \A y \in answers : y.id = serial.id =>
          /\ y.ok <=> (c \in linked <=> serial.place = "connect")
          /\ serial.place = "disconnect" => y.ok

ServedAreKnown ==
    Serving => \A c \in Connections \ doubted :
                  /\ serial.of # c => Settled(c)
                  /\ serial.of = c => UnderWay(c)

HostInv == HostTypeOK /\ OneAnswer /\ WaitsForOne /\ ProcessesAreNew /\ ServedAreKnown

(* Nothing is connected.                                                   *)
LEMMA HostInit == S!Init => HostInv
<1> SUFFICES ASSUME S!Init PROVE HostInv
  OBVIOUS
<1> USE HostAssumption DEF S!SidecarAssumption, S!Init, S!Idle, S!At, S!Waiting
<1>1. HostTypeOK
  BY DEF HostTypeOK, HostStates, Waits, Moments, Somebody
<1>2. OneAnswer /\ WaitsForOne /\ ProcessesAreNew
  BY DEF OneAnswer, WaitsForOne, ProcessesAreNew, Moments
<1>3. ServedAreKnown
  BY DEF ServedAreKnown, Serving, Settled
<1> QED
  BY <1>1, <1>2, <1>3 DEF HostInv

-----------------------------------------------------------------------------
(* A new request has a number of its own.                                  *)
LEMMA SendIsNew ==
    ASSUME HostInv, NEW what \in {"invoke", "connect", "disconnect"}, NEW c \in Somebody,
           S!Send(what, c), what = "connect" => c # Nobody
    PROVE  /\ sequence' \in Nat /\ sequence' = sequence + 1
           /\ pending' \subseteq 1 .. sequence' /\ sequence' \in pending'
           /\ pending \subseteq pending'
           /\ calls' \subseteq
                 [id : 1 .. sequence',
                  kind : {"invoke", "initialize", "connect", "disconnect"}, of : Somebody]
           /\ answers' \subseteq [id : 1 .. sequence', ok : BOOLEAN]
           /\ OneAnswer'
           /\ \A x \in calls' : \/ x \in calls /\ x.id # sequence'
                                \/ x.id = sequence' /\ x.kind = what /\ x.of = c
           /\ \A y \in answers' : y \in answers /\ y.id # sequence'
           /\ UNCHANGED <<answers, linked>>
           /\ child /\ state \in {"starting", "ready"}
<1> DEFINE new == [id |-> sequence + 1, kind |-> what, of |-> c]
<1>1. /\ sequence \in Nat /\ pending \subseteq 1 .. sequence
      /\ calls \subseteq
            [id : 1 .. sequence, kind : {"invoke", "initialize", "connect", "disconnect"},
             of : Somebody]
      /\ answers \subseteq [id : 1 .. sequence, ok : BOOLEAN]
      /\ OneAnswer
  BY DEF HostInv, HostTypeOK
<1>2. /\ sequence' = sequence + 1 /\ pending' = pending \cup {sequence + 1}
      /\ calls' = calls \cup {new} /\ answers' = answers /\ linked' = linked
      /\ child /\ state \in {"starting", "ready"}
  BY DEF S!Send
<1>3. /\ sequence' \in Nat /\ pending' \subseteq 1 .. sequence'
      /\ \A n \in 1 .. sequence : n \in 1 .. sequence' /\ n # sequence'
  BY <1>1, <1>2
<1>4. new \in [id : 1 .. sequence',
               kind : {"invoke", "initialize", "connect", "disconnect"}, of : Somebody]
  BY <1>1, <1>2
<1>5. \A x \in calls : /\ x \in [id : 1 .. sequence',
                                kind : {"invoke", "initialize", "connect", "disconnect"},
                                of : Somebody]
                      /\ x.id # sequence'
  BY <1>1, <1>3
<1>6. \A y \in answers : y \in [id : 1 .. sequence', ok : BOOLEAN] /\ y.id # sequence'
  BY <1>1, <1>3
<1>7. OneAnswer'
  BY <1>1, <1>2, <1>5, <1>6 DEF OneAnswer
<1> QED
  BY <1>2, <1>3, <1>4, <1>5, <1>6, <1>7

(* What stays when a window asks something.                                *)
LEMMA InvokeKeeps ==
    ASSUME HostInv, S!Invoke
    PROVE  HostInv'
<1>1. Nobody \in Somebody /\ S!Send("invoke", Nobody)
      /\ UNCHANGED <<child, state, connected, serial, doubted>>
  BY DEF S!Invoke, Somebody
<1>2. /\ sequence' \in Nat /\ pending' \subseteq 1 .. sequence' /\ pending \subseteq pending'
      /\ calls' \subseteq
            [id : 1 .. sequence',
             kind : {"invoke", "initialize", "connect", "disconnect"}, of : Somebody]
      /\ answers' \subseteq [id : 1 .. sequence', ok : BOOLEAN]
      /\ OneAnswer'
      /\ \A x \in calls' : \/ x \in calls /\ x.id # sequence'
                           \/ x.id = sequence' /\ x.kind = "invoke" /\ x.of = Nobody
      /\ UNCHANGED <<answers, linked>>
      /\ child
  BY <1>1, SendIsNew
<1>3. HostTypeOK'
  BY <1>1, <1>2 DEF HostInv, HostTypeOK
<1>4. WaitsForOne'
  BY <1>1, <1>2 DEF HostInv, WaitsForOne
<1>5. ProcessesAreNew'
  BY <1>1, <1>2 DEF HostInv, ProcessesAreNew
<1>6. ServedAreKnown'
  <2> SUFFICES ASSUME Serving, NEW c \in Connections \ doubted
               PROVE  /\ serial.of # c => Settled(c)'
                      /\ serial.of = c => UnderWay(c)'
    BY <1>1 DEF ServedAreKnown, Serving
  <2>1. /\ serial.of # c => Settled(c)
        /\ serial.of = c => UnderWay(c)
        /\ c # Nobody
    BY HostAssumption DEF S!SidecarAssumption, HostInv, ServedAreKnown
  <2>2. serial.of # c => Settled(c)'
    BY <1>1, <1>2, <2>1 DEF Settled
  <2>3. serial.of = c => serial.id # sequence'
    <3>1. serial.of = c => serial.id \in 1 .. sequence
      BY <2>1 DEF HostInv, HostTypeOK, WaitsForOne
    <3>2. sequence' = sequence + 1 /\ sequence \in Nat
      BY <1>1 DEF S!Send, HostInv, HostTypeOK
    <3> QED
      BY <3>1, <3>2
  <2>4. serial.of = c => UnderWay(c)'
    BY <1>1, <1>2, <2>1, <2>3 DEF UnderWay
  <2> QED
    BY <2>2, <2>4
<1> QED
  BY <1>2, <1>3, <1>4, <1>5, <1>6 DEF HostInv

(* An operation that asks about a settled connection has it under way.     *)
LEMMA AskKeeps ==
    ASSUME HostInv, NEW what \in {"connect", "disconnect"}, NEW c \in Connections,
           serial = S!Idle, state = "ready", S!Send(what, c),
           serial' = S!Waiting(what, c, sequence'),
           c \in connected <=> what = "disconnect",
           UNCHANGED <<child, state, connected, doubted>>
    PROVE  HostInv'
<1>1. c \in Somebody /\ c # Nobody
  BY HostAssumption DEF S!SidecarAssumption, Somebody
<1>2. /\ sequence' \in Nat /\ pending' \subseteq 1 .. sequence' /\ sequence' \in pending'
      /\ calls' \subseteq
            [id : 1 .. sequence',
             kind : {"invoke", "initialize", "connect", "disconnect"}, of : Somebody]
      /\ answers' \subseteq [id : 1 .. sequence', ok : BOOLEAN]
      /\ OneAnswer'
      /\ \A x \in calls' : \/ x \in calls /\ x.id # sequence'
                           \/ x.id = sequence' /\ x.kind = what /\ x.of = c
      /\ \A y \in answers' : y \in answers /\ y.id # sequence'
      /\ UNCHANGED <<answers, linked>>
      /\ child
  BY <1>1, SendIsNew
<1>3. /\ serial' = [place |-> what, of |-> c, id |-> sequence']
      /\ serial.place = "idle" /\ serial.of = Nobody
  BY DEF S!Waiting, S!Idle, S!At
<1>4. HostTypeOK'
  BY <1>1, <1>2, <1>3 DEF HostInv, HostTypeOK, Waits, Moments
<1>5. WaitsForOne'
  BY <1>2, <1>3 DEF WaitsForOne, Waits
<1>6. ProcessesAreNew'
  BY <1>2, <1>3 DEF ProcessesAreNew
<1>7. \A d \in Connections \ doubted : Settled(d)
  BY <1>3, HostAssumption DEF S!SidecarAssumption, HostInv, ServedAreKnown, Serving
<1>8. ASSUME NEW d \in Connections \ doubted
      PROVE  d # c => Settled(d)'
  BY <1>2, <1>7 DEF Settled
<1>9. ASSUME c \notin doubted
      PROVE  UnderWay(c)'
  BY <1>2, <1>3, <1>7, <1>9 DEF Settled, UnderWay
<1>10. ServedAreKnown'
  BY <1>3, <1>8, <1>9 DEF ServedAreKnown
<1> QED
  BY <1>2, <1>4, <1>5, <1>6, <1>10 DEF HostInv

(* A connect is asked of the process that runs.                            *)
LEMMA ConnectKeeps ==
    ASSUME HostInv, NEW c \in Connections, S!Connect(c)
    PROVE  HostInv'
BY AskKeeps DEF S!Connect, S!New

(* A disconnect is asked of a process that is ready, or forgotten at once. *)
LEMMA DisconnectKeeps ==
    ASSUME HostInv, NEW c \in Connections, S!Disconnect(c)
    PROVE  HostInv'
<1>1. CASE state = "ready"
  BY <1>1, AskKeeps DEF S!Disconnect, S!New
<1>2. CASE /\ state # "ready" /\ connected' = connected \ {c}
           /\ UNCHANGED <<sequence, pending, calls, answers, linked, serial, child, state,
                          doubted>>
  <2>1. HostTypeOK'
    BY <1>2 DEF HostInv, HostTypeOK
  <2>2. OneAnswer' /\ WaitsForOne' /\ ProcessesAreNew'
    BY <1>2 DEF HostInv, OneAnswer, WaitsForOne, ProcessesAreNew
  <2>3. ServedAreKnown'
    BY <1>2 DEF ServedAreKnown, Serving
  <2> QED
    BY <2>1, <2>2, <2>3 DEF HostInv
<1> QED
  BY <1>1, <1>2 DEF S!Disconnect, S!wire

(* While a restart is under way nothing is served.                         *)
LEMMA LeavingKeeps ==
    ASSUME HostInv, S!Restart \/ S!Leave
    PROVE  HostInv'
<1>1. CASE /\ serial.place \in {"idle", "leave"}
           /\ serial' \in {S!At("leave"), S!At("stop")}
           /\ connected' \subseteq connected
           /\ UNCHANGED <<child, state, sequence, pending, calls, answers, linked, doubted>>
  <2>1. serial' = [place |-> "leave", of |-> Nobody, id |-> 0]
        \/ serial' = [place |-> "stop", of |-> Nobody, id |-> 0]
    BY <1>1 DEF S!At, S!Waiting
  <2>2. HostTypeOK'
    BY <1>1, <2>1 DEF HostInv, HostTypeOK, Somebody, Moments
  <2>3. OneAnswer' /\ WaitsForOne' /\ ProcessesAreNew' /\ ServedAreKnown'
    BY <1>1, <2>1
       DEF HostInv, OneAnswer, WaitsForOne, ProcessesAreNew, ServedAreKnown, Serving, Moments
  <2> QED
    BY <2>2, <2>3 DEF HostInv
<1>2. ASSUME NEW c \in connected, S!Send("disconnect", c),
             serial' = S!Waiting("leave", c, sequence'),
             UNCHANGED <<connected, child, state, doubted>>
      PROVE  HostInv'
  <2>1. c \in Somebody /\ c \in Connections
    BY DEF Somebody, HostInv, HostTypeOK
  <2>2. /\ sequence' \in Nat /\ pending' \subseteq 1 .. sequence' /\ sequence' \in pending'
        /\ calls' \subseteq
              [id : 1 .. sequence',
               kind : {"invoke", "initialize", "connect", "disconnect"}, of : Somebody]
        /\ answers' \subseteq [id : 1 .. sequence', ok : BOOLEAN]
        /\ OneAnswer'
        /\ UNCHANGED linked
        /\ child
    BY <1>2, <2>1, SendIsNew
  <2>3. serial' = [place |-> "leave", of |-> c, id |-> sequence']
    BY <1>2 DEF S!Waiting
  <2>4. HostTypeOK'
    BY <1>2, <2>1, <2>2, <2>3 DEF HostInv, HostTypeOK, Waits
  <2>5. WaitsForOne' /\ ProcessesAreNew' /\ ServedAreKnown'
    BY <1>2, <2>1, <2>2, <2>3
       DEF WaitsForOne, ProcessesAreNew, ServedAreKnown, Serving, Waits
  <2> QED
    BY <2>2, <2>4, <2>5 DEF HostInv
<1>3. CASE S!Restart
  BY <1>1, <1>3 DEF S!Restart, S!New, S!Idle, S!At, S!Waiting, S!wire
<1>4. CASE S!Leave
  <2>1. serial.place = "leave"
    BY <1>4 DEF S!Leave, S!At, S!Waiting
  <2> QED
    BY <1>1, <1>2, <1>4, <2>1 DEF S!Leave, S!wire
<1> QED
  BY <1>3, <1>4

-----------------------------------------------------------------------------
(* An operation that waits goes on in one of four ways.                    *)
LEMMA Resumption ==
    ASSUME HostInv, serial.id \in pending, NEW ok \in BOOLEAN, NEW st, NEW known,
           S!Resume(ok, st, known)
    PROVE  \/ /\ serial.place = "leave"
              /\ serial' = [place |-> "leave", of |-> Nobody, id |-> 0]
              /\ connected' = known \ {serial.of} /\ state' = st
           \/ /\ serial.place = "start" /\ ok
              /\ serial' = [place |-> "idle", of |-> Nobody, id |-> 0]
              /\ connected' = known /\ state' = "ready"
           \/ /\ serial.place = "start" /\ ~ok
              /\ serial' = [place |-> "abandon", of |-> Nobody, id |-> 0]
              /\ connected' = known /\ state' = st
           \/ /\ serial.place \in {"connect", "disconnect"} /\ serial.of \in Connections
              /\ serial' = [place |-> "idle", of |-> Nobody, id |-> 0]
              /\ connected' = IF ~ok THEN known
                              ELSE IF serial.place = "connect" THEN known \cup {serial.of}
                              ELSE known \ {serial.of}
              /\ state' = st
<1>1. \/ serial.place \in {"connect", "disconnect", "leave"} /\ serial.of \in Connections
      \/ serial.place = "start"
  BY DEF HostInv, HostTypeOK, WaitsForOne, Waits
<1> QED
  BY <1>1 DEF S!Resume, S!Idle, S!At, S!Waiting

(* Whoever waits is waiting for a request, and stops waiting with it.      *)
LEMMA WaitersWait ==
    ASSUME HostInv
    PROVE  /\ serial.id \in pending => serial.place \in Waits
           /\ serial.id \notin pending => /\ serial.place \in Moments
                                          /\ serial.of = Nobody /\ serial.id = 0
<1>1. 0 \notin pending /\ WaitsForOne
  BY DEF HostInv, HostTypeOK
<1> QED
  BY <1>1 DEF WaitsForOne, Waits

(* After a failure nothing waits and nothing is connected.                 *)
LEMMA Failure ==
    ASSUME HostInv, S!Fail
    PROVE  /\ pending' = {} /\ connected' = {} /\ state' = "failed"
           /\ serial' \in [place : Moments, of : {Nobody}, id : {0}]
           /\ serial'.place # "start"
           /\ serial'.place = "build" => serial.place = "build"
<1>1. CASE serial.id \in pending
  <2>1. S!Resume(FALSE, "failed", {}) /\ pending' = {}
    BY <1>1 DEF S!Fail
  <2>2. /\ \/ serial' = [place |-> "leave", of |-> Nobody, id |-> 0]
           \/ serial' = [place |-> "abandon", of |-> Nobody, id |-> 0]
           \/ serial' = [place |-> "idle", of |-> Nobody, id |-> 0]
        /\ connected' = {} \/ connected' = {} \ {serial.of}
        /\ state' = "failed"
    BY <1>1, <2>1, Resumption
  <2> QED
    BY <2>1, <2>2 DEF Moments
<1>2. CASE serial.id \notin pending
  <2>1. pending' = {} /\ state' = "failed" /\ connected' = {} /\ serial' = serial
    BY <1>2 DEF S!Fail
  <2>2. serial \in [place : Waits \cup Moments, of : Somebody, id : Nat]
    BY DEF HostInv, HostTypeOK
  <2>3. serial.place \in Moments /\ serial.of = Nobody /\ serial.id = 0
    BY <1>2, WaitersWait
  <2> QED
    BY <2>1, <2>2, <2>3 DEF Moments
<1> QED
  BY <1>1, <1>2

(* A frame that cannot be read fails all that waits.                       *)
LEMMA BadFrameKeeps ==
    ASSUME HostInv, S!BadFrame
    PROVE  HostInv'
<1>1. S!Fail /\ UNCHANGED <<child, sequence, calls, answers, linked, doubted>>
  BY DEF S!BadFrame, S!wire
<1>2. /\ pending' = {} /\ connected' = {} /\ state' = "failed"
      /\ serial' \in [place : Moments, of : {Nobody}, id : {0}]
      /\ serial'.place # "start"
      /\ serial'.place = "build" => serial.place = "build"
  BY <1>1, Failure
<1>3. HostTypeOK'
  BY <1>1, <1>2 DEF HostInv, HostTypeOK, HostStates, Moments, Somebody
<1>4. OneAnswer' /\ WaitsForOne'
  BY <1>1, <1>2 DEF HostInv, OneAnswer, WaitsForOne, Moments
<1>5. ProcessesAreNew' /\ ServedAreKnown'
  BY <1>1, <1>2 DEF HostInv, ProcessesAreNew, ServedAreKnown, Serving
<1> QED
  BY <1>3, <1>4, <1>5 DEF HostInv

(* Nothing of a process survives it.                                       *)
LEMMA ExitKeeps ==
    ASSUME HostInv, S!Exit
    PROVE  HostInv'
<1>1. /\ child' = FALSE /\ calls' = {} /\ linked' = {} /\ doubted' = {}
      /\ UNCHANGED <<sequence, answers>>
  BY DEF S!Exit
<1>2. /\ pending' = {} /\ connected' = {} /\ state' \in {"stopped", "failed"}
      /\ serial' \in [place : Moments, of : {Nobody}, id : {0}]
  <2>1. CASE serial.place \in {"stopping", "abandoning"}
    BY <2>1 DEF S!Exit, S!Idle, S!At, S!Waiting, Moments
  <2>2. CASE serial.place \notin {"stopping", "abandoning"}
    BY <2>2, Failure DEF S!Exit
  <2> QED
    BY <2>1, <2>2
<1>3. HostTypeOK'
  <2>1. sequence \in Nat /\ answers \subseteq [id : 1 .. sequence, ok : BOOLEAN]
    BY DEF HostInv, HostTypeOK
  <2>2. serial' \in [place : Waits \cup Moments, of : Somebody, id : Nat]
    BY <1>2 DEF Somebody
  <2> QED
    BY <1>1, <1>2, <2>1, <2>2 DEF HostTypeOK, HostStates
<1>4. OneAnswer' /\ WaitsForOne'
  BY <1>1, <1>2 DEF HostInv, OneAnswer, WaitsForOne, Moments
<1>5. ProcessesAreNew' /\ ServedAreKnown'
  BY <1>1, <1>2 DEF ProcessesAreNew, ServedAreKnown, Serving, Moments
<1> QED
  BY <1>3, <1>4, <1>5 DEF HostInv

-----------------------------------------------------------------------------
(* An operation whose time is over goes on, in doubt about its connection. *)
LEMMA TimeoutKeeps ==
    ASSUME HostInv, NEW id \in pending, S!Timeout(id)
    PROVE  HostInv'
<1>1. /\ pending' = pending \ {id}
      /\ UNCHANGED <<child, sequence, calls, answers, linked>>
  BY DEF S!Timeout, S!wire
<1>2. HostTypeOK /\ OneAnswer /\ WaitsForOne /\ ProcessesAreNew /\ ServedAreKnown
  BY DEF HostInv
<1>3. OneAnswer'
  BY <1>1, <1>2 DEF OneAnswer
<1>4. child
  BY <1>2 DEF ProcessesAreNew, HostTypeOK
<1>5. CASE id # serial.id
  <2>1. UNCHANGED <<serial, connected, state, doubted>>
    BY <1>5 DEF S!Timeout
  <2>2. HostTypeOK'
    BY <1>1, <1>2, <2>1 DEF HostTypeOK
  <2>3. WaitsForOne' /\ ProcessesAreNew'
    BY <1>1, <1>2, <1>4, <1>5, <2>1 DEF WaitsForOne, ProcessesAreNew
  <2>4. ServedAreKnown'
    BY <1>1, <1>2, <2>1 DEF ServedAreKnown, Serving, Settled, UnderWay
  <2> QED
    BY <1>3, <2>2, <2>3, <2>4 DEF HostInv
<1>6. CASE id = serial.id
  <2>1. S!Resume(FALSE, state, connected) /\ doubted' = doubted \cup {serial.of}
    BY <1>6 DEF S!Timeout
  <2>2. \/ /\ serial.place = "leave"
           /\ serial' = [place |-> "leave", of |-> Nobody, id |-> 0]
           /\ connected' = connected \ {serial.of} /\ state' = state
        \/ /\ serial.place = "start"
           /\ serial' = [place |-> "abandon", of |-> Nobody, id |-> 0]
           /\ connected' = connected /\ state' = state
        \/ /\ serial.place \in {"connect", "disconnect"} /\ serial.of \in Connections
           /\ serial' = [place |-> "idle", of |-> Nobody, id |-> 0]
           /\ connected' = connected /\ state' = state
    BY <1>6, <2>1, Resumption
  <2>3. HostTypeOK'
    <3>1. serial' \in [place : Waits \cup Moments, of : Somebody, id : Nat]
      BY <2>2 DEF Moments, Somebody
    <3>2. doubted' \subseteq Somebody /\ connected' \subseteq Connections /\ state' = state
      BY <1>2, <2>1, <2>2 DEF HostTypeOK
    <3> QED
      BY <1>1, <1>2, <3>1, <3>2 DEF HostTypeOK
  <2>4. WaitsForOne' /\ ProcessesAreNew'
    BY <1>1, <1>4, <2>2 DEF WaitsForOne, ProcessesAreNew, Moments
  <2>5. ServedAreKnown'
    <3>1. CASE serial.place \in {"connect", "disconnect"}
      <4>1. /\ serial'.place = "idle" /\ serial'.of = Nobody
            /\ connected' = connected /\ state' = state
        BY <2>2, <3>1
      <4>2. \A c \in Connections \ doubted' : c \notin doubted /\ serial.of # c
        BY <2>1
      <4>3. Serving' => \A c \in Connections \ doubted' : Settled(c)
        BY <1>2, <3>1, <4>1, <4>2 DEF ServedAreKnown, Serving
      <4>4. \A c \in Connections : c # Nobody /\ (Settled(c) => Settled(c)')
        BY <1>1, <4>1, HostAssumption DEF S!SidecarAssumption, Settled
      <4> QED
        BY <4>1, <4>3, <4>4 DEF ServedAreKnown
    <3>2. CASE serial.place \notin {"connect", "disconnect"}
      BY <2>2, <3>2 DEF ServedAreKnown, Serving
    <3> QED
      BY <3>1, <3>2
  <2> QED
    BY <1>3, <2>3, <2>4, <2>5 DEF HostInv
<1> QED
  BY <1>5, <1>6

(* The plugin does what it is asked, or not, and says so.                  *)
LEMMA HandleKeeps ==
    ASSUME HostInv, NEW call \in calls, S!Handle(call)
    PROVE  HostInv'
<1>1. PICK ok \in BOOLEAN :
        /\ call.kind = "disconnect" => ok
        /\ linked' = IF call.kind = "connect" /\ ok THEN linked \cup {call.of}
                     ELSE linked \ {call.of}
        /\ calls' = calls \ {call}
        /\ answers' = answers \cup {[id |-> call.id, ok |-> ok]}
        /\ UNCHANGED <<child, state, sequence, pending, connected, serial, doubted>>
  BY DEF S!Handle
<1>2. HostTypeOK /\ OneAnswer /\ WaitsForOne /\ ProcessesAreNew /\ ServedAreKnown
  BY DEF HostInv
<1> DEFINE new == [id |-> call.id, ok |-> ok]
<1>3. /\ call.id \in 1 .. sequence /\ call.of \in Somebody
      /\ call.kind \in {"invoke", "initialize", "connect", "disconnect"}
      /\ new \in [id : 1 .. sequence, ok : BOOLEAN]
  BY <1>2 DEF HostTypeOK
<1>4. call.kind = "connect" => call.of \in Connections
  BY <1>2, <1>3 DEF OneAnswer, Somebody
<1>5. HostTypeOK'
  <2>1. linked' \subseteq Connections
    BY <1>1, <1>2, <1>4 DEF HostTypeOK
  <2>2. answers' \subseteq [id : 1 .. sequence', ok : BOOLEAN]
    BY <1>1, <1>2, <1>3 DEF HostTypeOK
  <2> QED
    BY <1>1, <1>2, <2>1, <2>2 DEF HostTypeOK
<1>6. OneAnswer'
  BY <1>1, <1>2 DEF OneAnswer
<1>7. child
  BY <1>2 DEF ProcessesAreNew, HostTypeOK
<1>8. WaitsForOne' /\ ProcessesAreNew'
  BY <1>1, <1>2, <1>4, <1>7, HostAssumption
     DEF S!SidecarAssumption, WaitsForOne, ProcessesAreNew
<1>9. ServedAreKnown'
  <2> SUFFICES ASSUME Serving, NEW c \in Connections \ doubted
               PROVE  /\ serial.of # c => Settled(c)'
                      /\ serial.of = c => UnderWay(c)'
    BY <1>1 DEF ServedAreKnown, Serving
  <2>1. /\ serial.of # c => Settled(c)
        /\ serial.of = c => UnderWay(c)
    BY <1>2 DEF ServedAreKnown
  <2>2. ASSUME call.of # c PROVE c \in linked' <=> c \in linked
    BY <1>1, <2>2
  <2>3. CASE serial.of # c
    BY <1>1, <2>1, <2>2, <2>3 DEF Settled
  <2>4. CASE serial.of = c /\ call.of # c
    <3>1. call.id # serial.id
      BY <2>1, <2>4 DEF UnderWay
    <3> QED
      BY <1>1, <2>1, <2>2, <2>4, <3>1 DEF UnderWay
  <2>5. CASE serial.of = c /\ call.of = c
    <3>1. call.id = serial.id /\ call.kind = serial.place
      BY <2>1, <2>5 DEF UnderWay
    <3>2. serial.place \in {"connect", "disconnect"}
      BY <1>3, <2>5, <3>1, HostAssumption
         DEF S!SidecarAssumption, Serving, UnderWay
    <3>3. \A y \in answers' : y.id = serial.id => y = new
      BY <1>1, <1>2, <3>1 DEF OneAnswer
    <3>4. ok <=> (c \in linked' <=> serial.place = "connect")
      BY <1>1, <2>5, <3>1, <3>2
    <3>5. serial.place = "disconnect" => ok
      BY <1>1, <3>1
    <3>6. \A x \in calls' : x.of # c /\ x.id # serial.id
      BY <1>1, <1>2, <2>1, <2>5, <3>1 DEF OneAnswer, UnderWay
    <3> QED
      BY <1>1, <2>1, <2>5, <3>3, <3>4, <3>5, <3>6 DEF UnderWay
  <2> QED
    BY <2>3, <2>4, <2>5
<1> QED
  BY <1>5, <1>6, <1>8, <1>9 DEF HostInv

(* An answer nobody waits for changes nothing; the answer to the           *)
(* serialized operation tells the truth about its connection.              *)
LEMMA DeliverKeeps ==
    ASSUME HostInv, NEW y \in answers, S!Deliver(y)
    PROVE  HostInv'
<1>1. answers' = answers \ {y} /\ UNCHANGED <<child, sequence, calls, linked, doubted>>
  BY DEF S!Deliver
<1>2. HostTypeOK /\ OneAnswer /\ WaitsForOne /\ ProcessesAreNew /\ ServedAreKnown
  BY DEF HostInv
<1>3. OneAnswer'
  BY <1>1, <1>2 DEF OneAnswer
<1>4. y.ok \in BOOLEAN
  BY <1>2 DEF HostTypeOK
<1>5. CASE y.id # serial.id \/ y.id \notin pending
  <2>1. /\ UNCHANGED <<serial, connected, state>>
        /\ \/ pending' = pending
           \/ pending' = pending \ {y.id} /\ y.id # serial.id
    BY <1>5 DEF S!Deliver
  <2>2. HostTypeOK'
    BY <1>1, <1>2, <2>1 DEF HostTypeOK
  <2>3. WaitsForOne' /\ ProcessesAreNew'
    BY <1>1, <1>2, <2>1 DEF WaitsForOne, ProcessesAreNew
  <2>4. ServedAreKnown'
    BY <1>1, <1>2, <2>1 DEF ServedAreKnown, Serving, Settled, UnderWay
  <2> QED
    BY <1>3, <2>2, <2>3, <2>4 DEF HostInv
<1>6. CASE y.id = serial.id /\ y.id \in pending
  <2>1. PICK st \in {state, "failed"}, known \in {connected, {}} :
          /\ S!Resume(y.ok, st, known)
          /\ \/ st = state /\ known = connected
             \/ st = "failed" /\ known = {}
    BY <1>6 DEF S!Deliver
  <2>2. pending' \subseteq pending
    BY <1>6 DEF S!Deliver
  <2>3. \/ /\ serial.place = "leave"
           /\ serial' = [place |-> "leave", of |-> Nobody, id |-> 0]
           /\ connected' = known \ {serial.of} /\ state' = st
        \/ /\ serial.place = "start" /\ y.ok
           /\ serial' = [place |-> "idle", of |-> Nobody, id |-> 0]
           /\ connected' = known /\ state' = "ready"
        \/ /\ serial.place = "start" /\ ~y.ok
           /\ serial' = [place |-> "abandon", of |-> Nobody, id |-> 0]
           /\ connected' = known /\ state' = st
        \/ /\ serial.place \in {"connect", "disconnect"} /\ serial.of \in Connections
           /\ serial' = [place |-> "idle", of |-> Nobody, id |-> 0]
           /\ connected' = IF ~y.ok THEN known
                           ELSE IF serial.place = "connect" THEN known \cup {serial.of}
                           ELSE known \ {serial.of}
           /\ state' = st
    BY <1>4, <1>6, <2>1, Resumption
  <2>4. child
    BY <1>2, <1>6 DEF ProcessesAreNew, HostTypeOK
  <2>5. HostTypeOK'
    <3>1. serial' \in [place : Waits \cup Moments, of : Somebody, id : Nat]
      BY <2>3 DEF Moments, Somebody
    <3>2. connected' \subseteq Connections
      BY <1>2, <2>1, <2>3 DEF HostTypeOK
    <3>3. state' \in HostStates
      BY <1>2, <2>1, <2>3 DEF HostTypeOK, HostStates
    <3> QED
      BY <1>1, <1>2, <2>2, <3>1, <3>2, <3>3 DEF HostTypeOK
  <2>6. WaitsForOne' /\ ProcessesAreNew'
    BY <1>1, <2>3, <2>4 DEF WaitsForOne, ProcessesAreNew, Moments
  <2>7. ServedAreKnown'
    <3>1. CASE serial.place = "leave"
      BY <2>3, <3>1 DEF ServedAreKnown, Serving
    <3>2. CASE serial.place = "start"
      <4>1. linked' = {} /\ connected' = {} /\ \A x \in calls' : x.of = Nobody
        BY <1>1, <1>2, <2>1, <2>3, <3>2 DEF ProcessesAreNew
      <4>2. serial'.of = Nobody
        BY <2>3, <3>2
      <4> QED
        BY <4>1, <4>2, HostAssumption DEF S!SidecarAssumption, ServedAreKnown, Settled
    <3>3. CASE serial.place \in {"connect", "disconnect"}
      <4> SUFFICES ASSUME Serving', NEW c \in Connections \ doubted
                   PROVE  Settled(c)'
        BY <1>1, <2>3, <3>3, HostAssumption DEF S!SidecarAssumption, ServedAreKnown
      <4>1. state = "ready" /\ known = connected /\ Serving
        BY <2>1, <2>3, <3>3 DEF Serving
      <4>2. /\ serial.of # c => Settled(c)
            /\ serial.of = c => UnderWay(c)
        BY <1>2, <4>1 DEF ServedAreKnown
      <4>3. CASE serial.of # c
        BY <1>1, <2>3, <3>3, <4>1, <4>2, <4>3 DEF Settled
      <4>4. CASE serial.of = c
        <5>1. \A x \in calls : x.of # c
          BY <1>2, <1>6, <4>2, <4>4 DEF OneAnswer, UnderWay
        <5>2. /\ c \in connected <=> serial.place = "disconnect"
              /\ y.ok <=> (c \in linked <=> serial.place = "connect")
              /\ serial.place = "disconnect" => y.ok
          BY <1>6, <4>2, <4>4 DEF UnderWay
        <5>3. connected' = IF ~y.ok THEN connected
                           ELSE IF serial.place = "connect" THEN connected \cup {c}
                           ELSE connected \ {c}
          BY <2>3, <3>3, <4>1, <4>4
        <5>4. c \in connected' <=> c \in linked
          BY <1>4, <3>3, <5>2, <5>3
        <5> QED
          BY <1>1, <5>1, <5>4 DEF Settled
      <4> QED
        BY <4>3, <4>4
    <3> QED
      BY <2>3, <3>1, <3>2, <3>3
  <2> QED
    BY <1>3, <2>5, <2>6, <2>7 DEF HostInv
<1> QED
  BY <1>5, <1>6

-----------------------------------------------------------------------------
(* Stopping, building and starting.                                        *)
LEMMA StopKeeps ==
    ASSUME HostInv, S!Stop
    PROVE  HostInv'
<1>1. /\ UNCHANGED <<child, sequence, calls, answers, linked, doubted>>
      /\ serial.place \in {"stop", "abandon"}
  BY DEF S!Stop, S!wire, S!At, S!Waiting
<1>2. HostTypeOK /\ OneAnswer /\ WaitsForOne /\ ProcessesAreNew
  BY DEF HostInv
<1>3. /\ pending' \in {{}, pending} /\ connected' \in {{}, connected}
      /\ \/ /\ child /\ pending' = {} /\ connected' = {} /\ state' = "stopping"
            /\ \/ serial' = [place |-> "stopping", of |-> Nobody, id |-> 0]
               \/ serial' = [place |-> "abandoning", of |-> Nobody, id |-> 0]
         \/ /\ ~child /\ state' = state
            /\ serial' = [place |-> "build", of |-> Nobody, id |-> 0]
         \/ /\ ~child /\ state' = "failed"
            /\ serial' = [place |-> "idle", of |-> Nobody, id |-> 0]
  BY DEF S!Stop, S!Idle, S!At, S!Waiting
<1>4. HostTypeOK'
  <2>1. serial' \in [place : Waits \cup Moments, of : Somebody, id : Nat]
    BY <1>3 DEF Moments, Somebody
  <2>2. state' \in HostStates /\ pending' \subseteq 1 .. sequence' /\ connected' \subseteq Connections
    BY <1>1, <1>2, <1>3 DEF HostTypeOK, HostStates
  <2> QED
    BY <1>1, <1>2, <2>1, <2>2 DEF HostTypeOK
<1>5. OneAnswer' /\ WaitsForOne'
  BY <1>1, <1>2, <1>3 DEF OneAnswer, WaitsForOne, Moments
<1>6. ProcessesAreNew' /\ ServedAreKnown'
  BY <1>1, <1>2, <1>3 DEF ProcessesAreNew, ServedAreKnown, Serving
<1> QED
  BY <1>4, <1>5, <1>6 DEF HostInv

(* Without a build there is no new process.                                *)
LEMMA BuildFailsKeeps ==
    ASSUME HostInv, S!BuildFails
    PROVE  HostInv'
<1>1. /\ UNCHANGED <<child, state, sequence, pending, calls, answers, linked, connected,
                     doubted>>
      /\ serial.place = "build"
      /\ serial' = [place |-> "idle", of |-> Nobody, id |-> 0]
  BY DEF S!BuildFails, S!wire, S!Idle, S!At, S!Waiting
<1>2. HostTypeOK'
  BY <1>1 DEF HostInv, HostTypeOK, Moments, Somebody
<1>3. OneAnswer' /\ WaitsForOne' /\ ProcessesAreNew' /\ ServedAreKnown'
  BY <1>1
     DEF HostInv, OneAnswer, WaitsForOne, Moments, ProcessesAreNew, ServedAreKnown, Serving
<1> QED
  BY <1>2, <1>3 DEF HostInv

(* A new process knows no connection yet.                                  *)
LEMMA StartKeeps ==
    ASSUME HostInv, S!Start
    PROVE  HostInv'
<1> DEFINE new == [id |-> sequence + 1, kind |-> "initialize", of |-> Nobody]
<1>1. /\ child' = TRUE /\ state' = "starting" /\ connected' = {}
      /\ sequence' = sequence + 1 /\ pending' = {sequence + 1} /\ calls' = {new}
      /\ serial' = [place |-> "start", of |-> Nobody, id |-> sequence + 1]
      /\ UNCHANGED <<answers, linked, doubted>>
      /\ serial.place = "build"
  BY DEF S!Start, S!At, S!Waiting
<1>2. HostTypeOK /\ OneAnswer /\ ProcessesAreNew
  BY DEF HostInv
<1>3. sequence \in Nat /\ linked = {} /\ \A y \in answers : y.id # sequence + 1
  BY <1>1, <1>2 DEF HostTypeOK, ProcessesAreNew
<1>4. HostTypeOK'
  <2>1. serial' \in [place : Waits \cup Moments, of : Somebody, id : Nat]
    BY <1>1, <1>3 DEF Waits, Somebody
  <2>2. /\ pending' \subseteq 1 .. sequence'
        /\ calls' \subseteq
              [id : 1 .. sequence',
               kind : {"invoke", "initialize", "connect", "disconnect"}, of : Somebody]
    BY <1>1, <1>3 DEF Somebody
  <2>3. answers' \subseteq [id : 1 .. sequence', ok : BOOLEAN]
    BY <1>1, <1>2 DEF HostTypeOK
  <2> QED
    BY <1>1, <1>2, <1>3, <2>1, <2>2, <2>3 DEF HostTypeOK, HostStates
<1>5. OneAnswer'
  BY <1>1, <1>2, <1>3 DEF OneAnswer
<1>6. WaitsForOne' /\ ProcessesAreNew' /\ ServedAreKnown'
  BY <1>1, <1>3 DEF WaitsForOne, ProcessesAreNew, ServedAreKnown, Serving
<1> QED
  BY <1>4, <1>5, <1>6 DEF HostInv

(* Every step of the host keeps what is known of it.                       *)
LEMMA HostNext == HostInv /\ [S!Next]_S!vars => HostInv'
<1> SUFFICES ASSUME HostInv, [S!Next]_S!vars PROVE HostInv'
  OBVIOUS
<1>1. CASE UNCHANGED S!vars
  <2>1. UNCHANGED <<child, state, sequence, pending, calls, answers, linked, connected, serial,
                    doubted>>
    BY <1>1 DEF S!vars, S!wire
  <2> QED
    BY <2>1 DEF HostInv, HostTypeOK, OneAnswer, WaitsForOne, ProcessesAreNew, ServedAreKnown,
                Serving, Settled, UnderWay
<1>2. CASE S!Next
  BY <1>2, InvokeKeeps, ConnectKeeps, DisconnectKeeps, LeavingKeeps, BadFrameKeeps, ExitKeeps,
     StopKeeps, BuildFailsKeeps, StartKeeps, DeliverKeeps, TimeoutKeeps, HandleKeeps DEF S!Next
<1> QED
  BY <1>1, <1>2

(* What is known of the host holds.                                        *)
LEMMA HostInvariant == S!Spec => []HostInv
BY HostInit, HostNext, PTL DEF S!Spec

(* A crash, a restart, output read too late or answers in another order do *)
(* not deceive the host about what its plugin is connected to (server.mjs, *)
(* sidecar.mjs); only an answer that did not come in time does.            *)
THEOREM HostKnowsConnections ==
    S!Spec => []ConnectionsAreKnown
<1>1. HostInv => ConnectionsAreKnown
  <2> SUFFICES ASSUME HostInv, state = "ready", serial = S!Idle
               PROVE  connected \ doubted = linked \ doubted
    BY DEF ConnectionsAreKnown, S!ConnectionsAreKnown
  <2>1. serial.place = "idle" /\ serial.of = Nobody
    BY DEF S!Idle, S!At, S!Waiting
  <2>2. \A c \in Connections \ doubted : Settled(c)
    BY <2>1, HostAssumption DEF S!SidecarAssumption, HostInv, ServedAreKnown, Serving
  <2> QED
    BY <2>2 DEF HostInv, HostTypeOK, Settled
<1> QED
  BY <1>1, HostInvariant, PTL
=============================================================================
