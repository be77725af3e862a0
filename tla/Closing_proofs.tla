----------------------------- MODULE Closing_proofs -----------------------------
(***************************************************************************)
(* Proofs about Webdav, for every length of the file and of its buffers,   *)
(* and about Closing, for every finite set of guards: StreamInv is         *)
(* inductive, and the stream implements Sink; so is ClosingInv, and when   *)
(* the wait for the session is over its call is, with the sender dropped   *)
(* and the request answered or told to stop.                               *)
(***************************************************************************)
EXTENDS Closing, TLAPS, FiniteSetTheorems

USE DEF writer, remote, Ended

(* The file is announced and nothing of it is under way.                   *)
LEMMA InitEstablishes ==
    Init => StreamInv
BY WebdavAssumption DEF Init, StreamInv, TypeOK, BodyInv, AnswerInv, Kinds

(* Steps of the writer.                                                    *)
LEMMA WriterPreserves ==
    ASSUME StreamInv,
           \/ Write \/ Send \/ Close \/ Response \/ GiveUp
           \/ Abort \/ Awaited \/ Interrupt \/ Drop \/ TaskStops
    PROVE  StreamInv'
<1> USE DEF TypeOK, Kinds
<1>1. CASE Write
  <2>1. PICK n \in 1 .. MaxBuffer : buffer' = n /\ left' = n
    BY <1>1 DEF Write
  <2>2. n \in 0 .. MaxBuffer /\ n \in Nat
    BY WebdavAssumption
  <2>3. TypeOK'
    BY <1>1, <2>1, <2>2 DEF Write, StreamInv
  <2>4. BodyInv'
    BY <1>1, <2>1, <2>2 DEF Write, StreamInv, BodyInv
  <2>5. AnswerInv'
    BY <1>1 DEF Write, StreamInv, AnswerInv
  <2> QED
    BY <2>3, <2>4, <2>5 DEF StreamInv
<1>2. CASE Send
  <2>0. buffer \in Nat /\ left \in Nat /\ left <= buffer
    BY WebdavAssumption DEF StreamInv
  <2>1. TypeOK'
    BY <1>2, <2>0 DEF Send, StreamInv
  <2>2. BodyInv'
    BY <1>2, <2>0 DEF Send, StreamInv, BodyInv
  <2>3. AnswerInv'
    BY <1>2 DEF Send, StreamInv, AnswerInv
  <2> QED
    BY <2>1, <2>2, <2>3 DEF StreamInv
<1>3. CASE Close
  BY <1>3 DEF Close, StreamInv, BodyInv, AnswerInv
<1>4. CASE Response
  BY <1>4 DEF Response, StreamInv, BodyInv, AnswerInv
<1>5. CASE GiveUp
  BY <1>5 DEF GiveUp, StreamInv, BodyInv, AnswerInv
<1>6. CASE Abort \/ Awaited
  BY <1>6 DEF Abort, Awaited, AskTask, StreamInv, BodyInv, AnswerInv
<1>7. CASE Interrupt
  BY <1>7 DEF Interrupt, AskTask, StreamInv, BodyInv, AnswerInv
<1>8. CASE Drop
  BY <1>8 DEF Drop, StreamInv, BodyInv, AnswerInv
<1>9. CASE TaskStops
  BY <1>9 DEF TaskStops, StreamInv, BodyInv, AnswerInv
<1> QED
  BY <1>1, <1>2, <1>3, <1>4, <1>5, <1>6, <1>7, <1>8, <1>9

(* Steps of the body, the connection and the server.  An answer of success *)
(* finds every chunk read, for nobody who waits for it has lost one.       *)
LEMMA RemotePreserves ==
    ASSUME StreamInv, Pull \/ Cut \/ Read \/ Refuse \/ Accept \/ Break \/ Lose
    PROVE  StreamInv'
<1> USE DEF TypeOK, Kinds
<1>0. buffer \in Nat /\ left \in Nat
  BY WebdavAssumption DEF StreamInv
<1>1. CASE Pull
  BY <1>0, <1>1 DEF Pull, StreamInv, BodyInv, AnswerInv
<1>2. CASE Cut
  BY <1>0, <1>2 DEF Cut, StreamInv, BodyInv, AnswerInv
<1>3. CASE Read
  BY <1>0, <1>3 DEF Read, StreamInv, BodyInv, AnswerInv
<1>4. CASE Refuse
  <2>1. PICK status \in Statuses \ {201} : Result(Kind(status))
    BY <1>4 DEF Refuse
  <2>2. Kind(status) \in Kinds \ {"ok"}
    BY DEF Kind, Statuses
  <2>3. task' \in Kinds \cup {"running", "aborting", "aborted", "taken"}
        /\ (task' = "ok" => task = "ok")
        /\ (task' = "running" => task = "running")
    BY <2>1, <2>2 DEF Result, StreamInv
  <2> QED
    BY <1>4, <2>3 DEF Refuse, StreamInv, BodyInv, AnswerInv
<1>5. CASE Accept
  <2>1. Kind(201) = "ok"
    BY DEF Kind
  <2>2. caller = "closing" => received = length
    BY <1>5 DEF Accept, StreamInv, BodyInv
  <2> QED
    BY <1>5, <2>1, <2>2 DEF Accept, Result, StreamInv, BodyInv, AnswerInv
<1>6. CASE Break
  BY <1>6 DEF Break, Result, StreamInv, BodyInv, AnswerInv
<1>7. CASE Lose
  BY <1>7 DEF Lose, StreamInv, BodyInv, AnswerInv
<1> QED
  BY <1>1, <1>2, <1>3, <1>4, <1>5, <1>6, <1>7

LEMMA NextPreserves ==
    StreamInv /\ [Next]_vars => StreamInv'
<1>1. StreamInv /\ UNCHANGED vars => StreamInv'
  BY DEF vars, StreamInv, TypeOK, BodyInv, AnswerInv
<1> QED
  BY <1>1, WriterPreserves, RemotePreserves DEF Next

(* Chunks are neither lost nor counted twice, and success is believed only *)
(* when the whole file is with the server.                                 *)
THEOREM StreamInvariantHolds ==
    Spec => []StreamInv
BY InitEstablishes, NextPreserves, PTL DEF Spec

-----------------------------------------------------------------------------
(* Each step keeps the promise of Sink or is none of its business.         *)
LEMMA StepImplements ==
    StreamInv /\ [Next]_vars => [Promise!Next]_(Promise!vars)
<1> SUFFICES ASSUME StreamInv, [Next]_vars
             PROVE  Promise!Next \/ UNCHANGED Promise!vars
  OBVIOUS
<1> USE DEF Promise!vars
<1>1. CASE Response
  BY <1>1 DEF Response, StreamInv, AnswerInv, Promise!Next, Promise!Succeed
<1>2. CASE Awaited \/ Drop
  BY <1>2 DEF Awaited, Drop, Promise!Next, Promise!Fail
<1>3. CASE Refuse \/ Accept \/ Lose
  BY <1>3 DEF Refuse, Accept, Lose, StreamInv, AnswerInv, Promise!Next, Promise!Store
<1>4. CASE \/ Write \/ Send \/ Close \/ GiveUp \/ Abort \/ Interrupt \/ TaskStops
           \/ Pull \/ Cut \/ Read \/ Break \/ UNCHANGED vars
  BY <1>4 DEF vars, Write, Send, Close, GiveUp, Abort, Interrupt, TaskStops, Pull, Cut,
     Read, Break
<1> QED
  BY <1>1, <1>2, <1>3, <1>4 DEF Next

(* Success is reported only when the whole file is with the server, and    *)
(* nothing the stream started undoes it.                                   *)
THEOREM StreamImplementsSink ==
    Spec => ImplementsSink
<1>1. Init => Promise!Init
  BY DEF Init, Promise!Init
<1> QED
  BY <1>1, StepImplements, StreamInvariantHolds, PTL DEF Spec, ImplementsSink, Promise!Spec

-----------------------------------------------------------------------------
(* The conjuncts of ClosingInv about the call and about the guards.        *)
CallInv ==
    /\ caller \in {"aborting", "stopping"} => ~sender
    /\ caller \in {"stopping", "dropping"} => task # "running"
    /\ caller \in Ended => ~sender /\ task # "running"

GuardsInv ==
    /\ Handshake!TypeOK /\ Handshake!CounterIsExact
    /\ waiter = "returned" => active = 0

-----------------------------------------------------------------------------
(* Drained counts with the Cardinality of FiniteSets.                      *)
LEMMA SameCardinality ==
    ASSUME NEW S
    PROVE  Handshake!Cardinality(S) = Cardinality(S)
BY DEF Cardinality, Handshake!Cardinality, IsFiniteSet, Handshake!IsFiniteSet

(* The live guards are finitely many, and an empty counter means none.     *)
LEMMA LiveIsFinite ==
    ASSUME NEW S \in SUBSET Guards
    PROVE  /\ IsFiniteSet(S) /\ Cardinality(S) \in 0 .. Cardinality(Guards)
           /\ Cardinality(S) = 0 <=> S = {}
<1>1. IsFiniteSet(S) /\ Cardinality(S) <= Cardinality(Guards) /\ IsFiniteSet(Guards)
  BY ClosingAssumption, FS_Subset
<1>2. Cardinality(S) \in Nat /\ Cardinality(Guards) \in Nat
  BY <1>1, FS_CardinalityType
<1>3. Cardinality(S) = 0 <=> S = {}
  BY <1>1, FS_EmptySet
<1> QED
  BY <1>1, <1>2, <1>3

LEMMA ClosingInitEstablishes ==
    ClosingInit => ClosingInv
<1> SUFFICES ASSUME ClosingInit PROVE ClosingInv
  OBVIOUS
<1>1. StreamInv
  BY InitEstablishes DEF ClosingInit
<1>2. CallInv
  BY DEF ClosingInit, Init, CallInv
<1>3. guard \in [Guards -> {"none", "live"}] /\ active = Cardinality(Handshake!Live)
  BY SameCardinality DEF ClosingInit, Handshake!Init
<1>4. Handshake!Live \in SUBSET Guards
  BY DEF Handshake!Live
<1>5. Handshake!TypeOK /\ Handshake!CounterIsExact
  BY <1>3, <1>4, LiveIsFinite, SameCardinality
     DEF ClosingInit, Handshake!Init, Handshake!TypeOK, Handshake!CounterIsExact
<1> QED
  BY <1>1, <1>2, <1>5 DEF ClosingInit, Handshake!Init, ClosingInv, CallInv

(* The counter follows the guards.                                         *)
LEMMA HandshakePreserves ==
    ASSUME GuardsInv, Handshake!Next
    PROVE  GuardsInv'
<1> DEFINE live == Handshake!Live
<1>0. /\ Handshake!TypeOK /\ active = Cardinality(live) /\ live \in SUBSET Guards
      /\ waiter = "returned" => active = 0
  BY SameCardinality DEF GuardsInv, Handshake!CounterIsExact, Handshake!Live
<1>1. ASSUME NEW g \in Guards, NEW h \in Guards, Handshake!Clone(g, h) PROVE GuardsInv'
  <2>1. /\ live' = live \cup {h} /\ h \notin live /\ live' \in SUBSET Guards /\ g \in live
        /\ active' = active + 1
    BY <1>0, <1>1 DEF Handshake!Clone, Handshake!Live, Handshake!TypeOK
  <2>2. active # 0
    BY <1>0, <2>1, LiveIsFinite
  <2> HIDE DEF live
  <2>3. Cardinality(live') = Cardinality(live) + 1
    BY <1>0, <2>1, LiveIsFinite, FS_AddElement
  <2>4. active' = Cardinality(live') /\ active' \in 0 .. Cardinality(Guards)
    BY <1>0, <2>1, <2>3, LiveIsFinite
  <2>5. Handshake!TypeOK'
    BY <1>0, <1>1, <2>4, SameCardinality DEF Handshake!Clone, Handshake!TypeOK
  <2> QED
    BY <1>0, <1>1, <2>2, <2>4, <2>5, SameCardinality
       DEF Handshake!Clone, GuardsInv, Handshake!CounterIsExact, live
<1>2. ASSUME NEW g \in Guards, Handshake!Decrement(g) PROVE GuardsInv'
  <2>1. /\ live' = live \ {g} /\ g \in live /\ live' \in SUBSET Guards
        /\ active' = active - 1
    BY <1>0, <1>2 DEF Handshake!Decrement, Handshake!Live, Handshake!TypeOK
  <2>2. active # 0
    BY <1>0, <2>1, LiveIsFinite
  <2> HIDE DEF live
  <2>3. Cardinality(live') = Cardinality(live) - 1
    BY <1>0, <2>1, LiveIsFinite, FS_RemoveElement
  <2>4. active' = Cardinality(live') /\ active' \in 0 .. Cardinality(Guards)
    BY <1>0, <2>1, <2>3, LiveIsFinite
  <2>5. Handshake!TypeOK'
    BY <1>0, <1>2, <2>4, SameCardinality DEF Handshake!Decrement, Handshake!TypeOK
  <2> QED
    BY <1>0, <1>2, <2>2, <2>4, <2>5, SameCardinality
       DEF Handshake!Decrement, GuardsInv, Handshake!CounterIsExact, live
<1>3. ASSUME NEW g \in Guards, Handshake!NotifyWaiters(g) PROVE GuardsInv'
  <2>1. live' = live
    BY <1>0, <1>3 DEF Handshake!NotifyWaiters, Handshake!Live, Handshake!TypeOK
  <2> QED
    BY <1>0, <1>3, <2>1
       DEF Handshake!NotifyWaiters, GuardsInv, Handshake!TypeOK, Handshake!CounterIsExact
<1>4. ASSUME Handshake!Waits PROVE GuardsInv'
  <2>1. live' = live /\ guard' = guard /\ active' = active
    BY <1>4 DEF Handshake!Waits, Handshake!Enable, Handshake!Check, Handshake!Sleep,
       Handshake!Wake, Handshake!Live
  <2>2. waiter' \in {"enable", "check", "sleep", "asleep", "returned"}
        /\ registered' \in BOOLEAN /\ woken' \in BOOLEAN
        /\ (waiter' = "returned" => active = 0)
    BY <1>0, <1>4 DEF Handshake!Waits, Handshake!Enable, Handshake!Check, Handshake!Sleep,
       Handshake!Wake, Handshake!TypeOK
  <2> QED
    BY <1>0, <2>1, <2>2 DEF GuardsInv, Handshake!TypeOK, Handshake!CounterIsExact
<1> QED
  BY <1>1, <1>2, <1>3, <1>4 DEF Handshake!Next

(* Whatever the stream does, an ended call stays ended and is left with    *)
(* neither a sender nor a task that was not told to stop.                  *)
LEMMA StreamPreserves ==
    ASSUME CallInv, Next
    PROVE  CallInv' /\ (caller \in Ended => caller' \in Ended)
<1> USE DEF CallInv
<1>1. CASE \/ Write \/ Send \/ Close \/ Response \/ GiveUp
           \/ Abort \/ Awaited \/ Interrupt \/ Drop \/ TaskStops
  BY <1>1 DEF Write, Send, Close, Response, GiveUp, Abort, Awaited, Interrupt, AskTask,
     Drop, TaskStops
<1>2. CASE Pull \/ Cut \/ Read \/ Lose
  BY <1>2 DEF Pull, Cut, Read, Lose
<1>3. CASE Refuse \/ Accept \/ Break
  <2>1. (task # "running" => task' = task) /\ UNCHANGED <<caller, sender>>
    BY <1>3 DEF Refuse, Accept, Break, Result
  <2> QED
    BY <2>1
<1> QED
  BY <1>1, <1>2, <1>3 DEF Next

LEMMA ClosingNextPreserves ==
    ClosingInv /\ [ClosingNext]_closingVars => ClosingInv'
<1> SUFFICES ASSUME ClosingInv, [ClosingNext]_closingVars PROVE ClosingInv'
  OBVIOUS
<1>0. StreamInv /\ CallInv /\ GuardsInv
  BY DEF ClosingInv, CallInv, GuardsInv
<1>1. CASE Stream \/ Cancelled
  <2>1. Next /\ UNCHANGED <<closed, handshake>>
    BY <1>1 DEF Stream, Cancelled, Next
  <2>2. StreamInv' /\ CallInv' /\ (caller \in Ended => caller' \in Ended)
    BY <1>0, <2>1, NextPreserves, StreamPreserves
  <2>3. GuardsInv'
    BY <1>0, <2>1 DEF handshake, GuardsInv, Handshake!TypeOK, Handshake!CounterIsExact,
       Handshake!Live
  <2> QED
    BY <2>1, <2>2, <2>3 DEF ClosingInv, CallInv, GuardsInv, handshake
<1>2. CASE Wait
  <2>1. GuardsInv'
    BY <1>0, <1>2, HandshakePreserves DEF Wait
  <2>2. StreamInv' /\ CallInv'
    BY <1>0, <1>2, NextPreserves DEF Wait, vars, CallInv
  <2> QED
    BY <1>2, <2>1, <2>2 DEF Wait, vars, ClosingInv, CallInv, GuardsInv
<1>3. CASE Retire \/ UNCHANGED closingVars
  <2>1. UNCHANGED <<vars, handshake>> /\ (closed => closed')
    BY <1>3 DEF Retire, closingVars
  <2>2. StreamInv' /\ CallInv'
    BY <1>0, <2>1, NextPreserves DEF vars, CallInv
  <2>3. GuardsInv'
    BY <1>0, <2>1 DEF handshake, GuardsInv, Handshake!TypeOK, Handshake!CounterIsExact,
       Handshake!Live
  <2> QED
    BY <2>1, <2>2, <2>3 DEF ClosingInv, CallInv, GuardsInv, handshake, vars
<1> QED
  BY <1>1, <1>2, <1>3 DEF ClosingNext

(* The stream and the guards count exactly, and the call is guarded until  *)
(* it is over.                                                             *)
THEOREM ClosingInvariantHolds ==
    ClosingSpec => []ClosingInv
BY ClosingInitEstablishes, ClosingNextPreserves, PTL DEF ClosingSpec

(* When retiring goes on, the call that streamed is over: its sender is    *)
(* dropped, and its request has its answer or was told to stop.            *)
THEOREM RetiredSessionsAreQuiet ==
    ClosingSpec => []RetiredIsQuiet
<1>1. ClosingInv => RetiredIsQuiet
  <2> SUFFICES ASSUME ClosingInv, waiter = "returned"
               PROVE  closed /\ caller \in Ended /\ ~sender /\ task # "running"
    BY DEF RetiredIsQuiet
  <2>1. closed /\ Cardinality(Handshake!Live) = 0
    BY SameCardinality DEF ClosingInv, Handshake!CounterIsExact
  <2>2. Handshake!Live = {}
    <3>1. Handshake!Live \in SUBSET Guards
      BY DEF Handshake!Live
    <3> QED
      BY <2>1, <3>1, LiveIsFinite
  <2>3. guard[Call] # "live"
    BY <2>2, ClosingAssumption DEF Handshake!Live
  <2> QED
    BY <2>1, <2>3 DEF ClosingInv
<1> QED
  BY <1>1, ClosingInvariantHolds, PTL

-----------------------------------------------------------------------------
(* A session that closes does not disturb what the stream promises.        *)
THEOREM ClosingStreamImplementsSink ==
    ClosingSpec => ImplementsSink
<1>1. ClosingInit => Promise!Init
  BY DEF ClosingInit, Init, Promise!Init
<1>2. [ClosingNext]_closingVars => [Next]_vars
  BY DEF ClosingNext, Stream, Cancelled, Retire, Wait, Next, closingVars
<1>3. ClosingInv => StreamInv
  BY DEF ClosingInv
<1> QED
  BY <1>1, <1>2, <1>3, StepImplements, ClosingInvariantHolds, PTL
     DEF ClosingSpec, ImplementsSink, Promise!Spec

(* Each step of the guards and the waiter is one of Quiesce, or none.      *)
LEMMA WaitStep ==
    ClosingInv /\ [ClosingNext]_closingVars
        => [Handshake!Abstract!Next]_(Handshake!Abstract!vars)
<1> SUFFICES ASSUME ClosingInv, [ClosingNext]_closingVars
             PROVE  Handshake!Abstract!Next \/ UNCHANGED Handshake!Abstract!vars
  OBVIOUS
<1> DEFINE live == Handshake!Live
<1>0. /\ guard \in [Guards -> {"none", "live", "notifying"}]
      /\ active = Cardinality(live) /\ live \in SUBSET Guards
  BY SameCardinality
     DEF ClosingInv, Handshake!TypeOK, Handshake!CounterIsExact, Handshake!Live
<1>1. CASE Handshake!Next
  <2>1. ASSUME NEW g \in Guards, NEW h \in Guards, Handshake!Clone(g, h)
        PROVE  Handshake!Abstract!Clone(g, h)
    BY <1>0, <2>1 DEF Handshake!Clone, Handshake!Live, Handshake!Abstract!Clone
  <2>2. ASSUME NEW g \in Guards, Handshake!Decrement(g) PROVE Handshake!Abstract!Drop(g)
    BY <1>0, <2>2 DEF Handshake!Decrement, Handshake!Live, Handshake!Abstract!Drop
  <2>3. ASSUME NEW g \in Guards, Handshake!NotifyWaiters(g)
        PROVE  UNCHANGED Handshake!Abstract!vars
    BY <1>0, <2>3 DEF Handshake!NotifyWaiters, Handshake!Live, Handshake!Abstract!vars
  <2>4. CASE Handshake!Enable \/ Handshake!Sleep \/ Handshake!Wake
    BY <2>4 DEF Handshake!Enable, Handshake!Sleep, Handshake!Wake, Handshake!Live,
       Handshake!Abstract!vars
  <2>5. CASE Handshake!Check
    <3>1. active = 0 => live = {}
      BY <1>0, LiveIsFinite
    <3> QED
      BY <2>5, <3>1 DEF Handshake!Check, Handshake!Live, Handshake!Abstract!vars,
         Handshake!Abstract!Next, Handshake!Abstract!Return
  <2> QED
    BY <1>1, <2>1, <2>2, <2>3, <2>4, <2>5
       DEF Handshake!Next, Handshake!Waits, Handshake!Abstract!Next
<1>2. CASE UNCHANGED handshake
  BY <1>2 DEF handshake, Handshake!Live, Handshake!Abstract!vars
<1> QED
  BY <1>1, <1>2 DEF ClosingNext, Stream, Cancelled, Retire, Wait, closingVars, handshake

(* Safety of the wait: guards come from guards alone, and the wait is over *)
(* only when there is none.                                                *)
THEOREM WaitFollowsQuiesce ==
    ClosingSpec => /\ Handshake!Abstract!Init
                   /\ [][Handshake!Abstract!Next]_(Handshake!Abstract!vars)
<1>1. ClosingInit => Handshake!Abstract!Init
  BY DEF ClosingInit, Handshake!Init, Handshake!Live, Handshake!Abstract!Init
<1> QED
  BY <1>1, WaitStep, ClosingInvariantHolds, PTL DEF ClosingSpec
=============================================================================
