------------------------- MODULE SessionLifecycle_proofs -------------------------
(***************************************************************************)
(* Proofs about SessionLifecycle, for every set of clients, connections    *)
(* and configurations and every bound.  SessionInv is shown inductive, one *)
(* lemma per action with one step per part; the safety properties follow.  *)
(***************************************************************************)
EXTENDS SessionInvariant, FiniteSetTheorems, TLAPS

USE DEF NoSession, Sessions, registry, client, closing, Goto

-----------------------------------------------------------------------------
(* Facts about states of SessionInv, used by several actions.              *)

(* The fields of a call lie where the actions expect them.                 *)
LEMMA CallFacts ==
    \A k \in Calls : /\ k.kind \in RequestKinds \cup AdminKinds
                     /\ k.conn \in Conns
                     /\ k.kind \in AdminKinds => k.config \in Configs
<1>1. ASSUME NEW k \in RequestCalls
      PROVE  k.kind \in RequestKinds /\ k.kind \notin AdminKinds /\ k.conn \in Conns
  BY <1>1 DEF RequestCalls, RequestKinds, AdminKinds
<1>2. ASSUME NEW k \in AdminCalls
      PROVE  k.kind \in AdminKinds /\ k.conn \in Conns /\ k.config \in Configs
  BY <1>2 DEF AdminCalls
<1> QED
  BY <1>1, <1>2 DEF Calls

(* A session being drained or not yet published is published nowhere.      *)
LEMMA WorkIsUnpublished ==
    ASSUME SessionInv, NEW r \in Clients, NEW c \in Conns,
           pc[r] \in {"drain", "describe", "publish"}, work[r] # NoSession
    PROVE  sessions[c] # work[r]
<1>1. call[r].kind # "test" /\ origin[work[r]].conn = call[r].conn
  BY CallFacts DEF SessionInv, CallInv, HolderInv, RequestKinds
<1>2. sessions[call[r].conn] = NoSession
  BY <1>1 DEF SessionInv, HolderInv
<1> QED
  BY <1>1, <1>2 DEF SessionInv, PublishedInv

(* A call that already holds a session of a connection finds that session  *)
(* when it looks the connection up again.                                  *)
LEMMA HeldIsPublished ==
    ASSUME SessionInv, NEW r \in Clients, outer[r] # NoSession, call[r].conn \in Conns,
           sessions[call[r].conn] # NoSession
    PROVE  sessions[call[r].conn] = outer[r]
<1>1. Kept(outer[r]) /\ origin[outer[r]].conn = call[r].conn
  BY DEF SessionInv, UseInv, GuardInv
<1>2. ASSUME NEW q \in Clients, pc[q] = "drain", work[q] = outer[r] PROVE FALSE
  BY <1>1, <1>2 DEF SessionInv, CallInv, HolderInv
<1>3. outer[r] \notin doomed
  BY DEF SessionInv, ShutdownInv
<1> QED
  BY <1>1, <1>2, <1>3 DEF Kept

(* A holder about to publish serves a call that holds no session yet.      *)
LEMMA RebuilderHoldsNothing ==
    ASSUME SessionInv, NEW r \in Clients, pc[r] = "publish"
    PROVE  outer[r] = NoSession
<1>1. ASSUME outer[r] # NoSession PROVE FALSE
  <2>1. /\ Kept(outer[r]) /\ origin[outer[r]].conn = call[r].conn
        /\ call[r].kind \in RequestKinds
    BY <1>1 DEF SessionInv, UseInv, GuardInv
  <2>2. sessions[call[r].conn] = NoSession
    BY <2>1 DEF SessionInv, HolderInv, RequestKinds
  <2>3. ASSUME NEW q \in Clients, pc[q] = "drain" PROVE FALSE
    BY <2>3 DEF SessionInv, MutexInv, Critical
  <2>4. doomed = {}
    BY DEF SessionInv, ShutdownInv, Closing, Critical
  <2> QED
    BY <1>1, <2>1, <2>2, <2>3, <2>4 DEF Kept
<1> QED
  BY <1>1

-----------------------------------------------------------------------------
(* The initial states.                                                     *)

(* Every part of the invariant holds when nothing is open.                 *)
LEMMA InitEstablishes ==
    Init => SessionInv
<1> SUFFICES ASSUME Init PROVE SessionInv
  OBVIOUS
<1>1. TypeOK
  <2>1. origin \in [Sessions -> [conn : Conns, config : Configs]]
    <3>1. Sessions = {}
      BY DEF Init
    <3> QED
      BY <3>1 DEF Init
  <2>2. /\ descriptors \in [Conns -> Configs \cup {NoConfig}]
        /\ sessions \in [Conns -> 0 .. generation] /\ generation \in Nat
    BY DEF Init
  <2>3. /\ outer \in [Clients -> 0 .. generation] /\ inner \in [Clients -> 0 .. generation]
        /\ work \in [Clients -> 0 .. generation] /\ task \in [Clients -> 0 .. generation]
    BY DEF Init
  <2>4. /\ pc \in [Clients -> {"idle"} \cup Critical \cup Waiting]
        /\ call \in [Clients -> Calls \cup {NoCall}]
    BY DEF Init
  <2> QED
    BY <2>1, <2>2, <2>3, <2>4 DEF Init, TypeOK
<1>2. MutexInv
  BY ConstantsAssumption DEF Init, MutexInv, Critical, Closing
<1>3. CallInv /\ PublishedInv /\ HolderInv /\ UnusedInv /\ UseInv
  BY DEF Init, CallInv, PublishedInv, HolderInv, UnusedInv, UseInv
<1>4. GuardInv /\ ShutdownInv
  BY DEF Init, GuardInv, ShutdownInv, Critical, Closing
<1> QED
  BY <1>1, <1>2, <1>3, <1>4 DEF SessionInv

-----------------------------------------------------------------------------
(* One lemma per action.                                                   *)

(* A client that moves from one unlocked point of its call to another.     *)
LEMMA ClientMoves ==
    ASSUME SessionInv, NEW r \in Clients, pc[r] \in Waiting,
           NEW place \in Waiting, Goto(r, place),
           UNCHANGED <<registry, lifecycle, stopping, call, outer, inner, work, task, closing>>
    PROVE  TypeOK' /\ MutexInv' /\ PublishedInv' /\ HolderInv' /\ UnusedInv' /\ UseInv'
              /\ ShutdownInv'

<1>1. \A q \in Clients, place_q \in Critical : pc'[q] = place_q <=> pc[q] = place_q
  BY DEF SessionInv, TypeOK, Waiting, Critical
<1>2. TypeOK'
  BY DEF SessionInv, TypeOK
<1>3. MutexInv' /\ ShutdownInv'
  BY <1>1 DEF SessionInv, MutexInv, ShutdownInv, Critical
<1>4. PublishedInv'
  BY <1>1 DEF SessionInv, PublishedInv, Critical
<1>5. HolderInv'
  BY <1>1 DEF SessionInv, HolderInv, Critical
<1>6. UnusedInv'
  BY <1>1 DEF SessionInv, UnusedInv, InUse, Idle, Critical
<1>7. UseInv'
  <2>1. ASSUME NEW s, Kept(s) PROVE Kept(s)'
    BY <1>1, <2>1 DEF Kept, Critical
  <2> QED
    BY <2>1 DEF SessionInv, UseInv
<1> QED
  BY <1>2, <1>3, <1>4, <1>5, <1>6, <1>7

(* A call that enters dispatch holds nothing yet.                          *)
LEMMA DispatchPreserves ==
    ASSUME SessionInv, NEW r \in Clients, Dispatch(r)
    PROVE  SessionInv'
<1>1. PICK place \in {"returning", "acquire", "lookup"} : Goto(r, place)
  BY DEF Dispatch
<1>2. /\ pc[r] \in Waiting
      /\ UNCHANGED <<registry, lifecycle, stopping, call, outer, inner, work, task, closing>>
  BY DEF Dispatch, Waiting
<1>3. TypeOK' /\ MutexInv' /\ PublishedInv' /\ HolderInv' /\ UnusedInv' /\ UseInv' /\ ShutdownInv'
  BY <1>1, <1>2, ClientMoves DEF Waiting
<1>4. CallInv' /\ GuardInv'
  BY CallFacts DEF Dispatch, SessionInv, TypeOK, CallInv, GuardInv, DispatchKinds,
         WorkbenchKinds, RequestKinds, AdminKinds, Critical
<1> QED
  BY <1>3, <1>4 DEF SessionInv

(* A lookup that misses leaves without a guard.                            *)
LEMMA LookupMissPreserves ==
    ASSUME SessionInv, NEW r \in Clients, LookupMiss(r)
    PROVE  SessionInv'
<1>1. PICK place \in {"returning", "acquire"} : Goto(r, place)
  BY DEF LookupMiss
<1>2. /\ pc[r] \in Waiting
      /\ UNCHANGED <<registry, lifecycle, stopping, call, outer, inner, work, task, closing>>
  BY DEF LookupMiss, Waiting
<1>3. TypeOK' /\ MutexInv' /\ PublishedInv' /\ HolderInv' /\ UnusedInv' /\ UseInv' /\ ShutdownInv'
  BY <1>1, <1>2, ClientMoves DEF Waiting
<1>4. CallInv' /\ GuardInv'
  BY CallFacts DEF LookupMiss, SessionInv, TypeOK, CallInv, GuardInv, DispatchKinds,
         WorkbenchKinds, RequestKinds, AdminKinds, Critical
<1> QED
  BY <1>3, <1>4 DEF SessionInv

(* A workbench call goes on with its outer guard only.                     *)
LEMMA EnteredPreserves ==
    ASSUME SessionInv, NEW r \in Clients, Entered(r)
    PROVE  SessionInv'
<1>1. PICK place \in {"returning", "lookup", "executing", "blocking"} : Goto(r, place)
  BY DEF Entered
<1>2. /\ pc[r] \in Waiting
      /\ UNCHANGED <<registry, lifecycle, stopping, call, outer, inner, work, task, closing>>
  BY DEF Entered, Waiting
<1>3. TypeOK' /\ MutexInv' /\ PublishedInv' /\ HolderInv' /\ UnusedInv' /\ UseInv' /\ ShutdownInv'
  BY <1>1, <1>2, ClientMoves DEF Waiting
<1>4. CallInv' /\ GuardInv'
  BY CallFacts DEF Entered, SessionInv, TypeOK, CallInv, GuardInv, DispatchKinds,
         WorkbenchKinds, RequestKinds, AdminKinds, Critical
<1> QED
  BY <1>3, <1>4 DEF SessionInv

(* The end of an operation keeps the guards until the return.              *)
LEMMA ExecutePreserves ==
    ASSUME SessionInv, NEW r \in Clients, Execute(r)
    PROVE  SessionInv'
<1>1. PICK place \in {"returning"} : Goto(r, place)
  BY DEF Execute
<1>2. /\ pc[r] \in Waiting
      /\ UNCHANGED <<registry, lifecycle, stopping, call, outer, inner, work, task, closing>>
  BY DEF Execute, Waiting
<1>3. TypeOK' /\ MutexInv' /\ PublishedInv' /\ HolderInv' /\ UnusedInv' /\ UseInv' /\ ShutdownInv'
  BY <1>1, <1>2, ClientMoves DEF Waiting
<1>4. CallInv' /\ GuardInv'
  BY CallFacts DEF Execute, SessionInv, TypeOK, CallInv, GuardInv, DispatchKinds,
         WorkbenchKinds, RequestKinds, AdminKinds, Critical
<1> QED
  BY <1>3, <1>4 DEF SessionInv

(* So does the end of a preflight.                                         *)
LEMMA UnblockPreserves ==
    ASSUME SessionInv, NEW r \in Clients, Unblock(r)
    PROVE  SessionInv'
<1>1. PICK place \in {"starting", "returning"} : Goto(r, place)
  BY DEF Unblock
<1>2. /\ pc[r] \in Waiting
      /\ UNCHANGED <<registry, lifecycle, stopping, call, outer, inner, work, task, closing>>
  BY DEF Unblock, Waiting
<1>3. TypeOK' /\ MutexInv' /\ PublishedInv' /\ HolderInv' /\ UnusedInv' /\ UseInv' /\ ShutdownInv'
  BY <1>1, <1>2, ClientMoves DEF Waiting
<1>4. CallInv' /\ GuardInv'
  BY CallFacts DEF Unblock, SessionInv, TypeOK, CallInv, GuardInv, DispatchKinds,
         WorkbenchKinds, RequestKinds, AdminKinds, Critical
<1> QED
  BY <1>3, <1>4 DEF SessionInv

(* The availability test changes nothing but the place.                    *)
LEMMA StartCheckPreserves ==
    ASSUME SessionInv, NEW r \in Clients, StartCheck(r)
    PROVE  SessionInv'
<1>1. PICK place \in {"returning", "inserting"} : Goto(r, place)
  BY DEF StartCheck
<1>2. /\ pc[r] \in Waiting
      /\ UNCHANGED <<registry, lifecycle, stopping, call, outer, inner, work, task, closing>>
  BY DEF StartCheck, Waiting
<1>3. TypeOK' /\ MutexInv' /\ PublishedInv' /\ HolderInv' /\ UnusedInv' /\ UseInv' /\ ShutdownInv'
  BY <1>1, <1>2, ClientMoves DEF Waiting
<1>4. CallInv' /\ GuardInv'
  BY CallFacts DEF StartCheck, SessionInv, TypeOK, CallInv, GuardInv, DispatchKinds,
         WorkbenchKinds, RequestKinds, AdminKinds, Critical
<1> QED
  BY <1>3, <1>4 DEF SessionInv

(* A refused transfer leaves no task.                                      *)
LEMMA StartRefusePreserves ==
    ASSUME SessionInv, NEW r \in Clients, StartRefuse(r)
    PROVE  SessionInv'
<1>1. PICK place \in {"returning"} : Goto(r, place)
  BY DEF StartRefuse
<1>2. /\ pc[r] \in Waiting
      /\ UNCHANGED <<registry, lifecycle, stopping, call, outer, inner, work, task, closing>>
  BY DEF StartRefuse, Waiting
<1>3. TypeOK' /\ MutexInv' /\ PublishedInv' /\ HolderInv' /\ UnusedInv' /\ UseInv' /\ ShutdownInv'
  BY <1>1, <1>2, ClientMoves DEF Waiting
<1>4. CallInv' /\ GuardInv'
  BY CallFacts DEF StartRefuse, SessionInv, TypeOK, CallInv, GuardInv, DispatchKinds,
         WorkbenchKinds, RequestKinds, AdminKinds, Critical
<1> QED
  BY <1>3, <1>4 DEF SessionInv

(* A new call holds no guard and is at the entry of its kind.              *)
LEMMA BeginPreserves ==
    ASSUME SessionInv, NEW r \in Clients, Begin(r)
    PROVE  SessionInv'
<1>1. PublishedInv' /\ HolderInv' /\ GuardInv'
  BY DEF Begin, SessionInv, PublishedInv, HolderInv, GuardInv
<1>2. TypeOK'
  <2>0. TypeOK
    BY DEF SessionInv
  <2>1. PICK k \in Calls : /\ call' = [call EXCEPT ![r] = k]
                           /\ Goto(r, IF k.kind \in WorkbenchKinds THEN "lookup" ELSE "dispatch")
    BY DEF Begin
  <2>2. call' \in [Clients -> Calls \cup {NoCall}]
    BY <2>0, <2>1 DEF TypeOK
  <2>3. pc' \in [Clients -> {"idle"} \cup Critical \cup Waiting]
    BY <2>0, <2>1 DEF TypeOK, Waiting
  <2> QED
    BY <2>0, <2>2, <2>3 DEF TypeOK, Begin
<1>3. MutexInv'
  BY DEF Begin, SessionInv, MutexInv, Critical
<1>4. CallInv'
  BY DEF Begin, SessionInv, TypeOK, CallInv, WorkbenchKinds
<1>5. UnusedInv'
  BY DEF Begin, SessionInv, UnusedInv, InUse, Idle
<1>6. UseInv'
  BY DEF Begin, SessionInv, UseInv, Kept
<1>7. ShutdownInv'
  BY DEF Begin, SessionInv, ShutdownInv, Critical
<1> QED
  BY <1>1, <1>2, <1>3, <1>4, <1>5, <1>6, <1>7 DEF SessionInv

(* The mutex is free when it is taken: no other holder is inside.          *)
LEMMA AcquirePreserves ==
    ASSUME SessionInv, NEW r \in Clients, Acquire(r)
    PROVE  SessionInv'
<1>1. CallInv' /\ PublishedInv' /\ HolderInv' /\ GuardInv' /\ ShutdownInv'
  BY DEF Acquire, SessionInv, CallInv, PublishedInv, HolderInv, GuardInv, ShutdownInv
<1>2. TypeOK'
  BY DEF Acquire, SessionInv, TypeOK, Critical, Closing
<1>3. MutexInv'
  BY ConstantsAssumption DEF Acquire, SessionInv, TypeOK, MutexInv, Critical
<1>4. UnusedInv'
  BY DEF Acquire, SessionInv, UnusedInv, InUse, Idle
<1>5. UseInv'
  BY DEF Acquire, SessionInv, UseInv, Kept
<1> QED
  BY <1>1, <1>2, <1>3, <1>4, <1>5 DEF SessionInv

(* A granted session is published, hence kept.                             *)
LEMMA LookupHitPreserves ==
    ASSUME SessionInv, NEW r \in Clients, LookupHit(r)
    PROVE  SessionInv'
<1>1. TypeOK'
  BY CallFacts, ConstantsAssumption, NoCallAssumption DEF LookupHit, Hit, Mismatch,
         Described, Grant, Resume, Idle, SessionInv, TypeOK, CallInv, Critical, Waiting,
         Closing, RequestKinds, AdminKinds
<1>2. MutexInv'
  BY DEF LookupHit, Grant, Resume, SessionInv, MutexInv, Critical
<1>3. CallInv'
  BY DEF LookupHit, Grant, Resume, SessionInv, CallInv
<1>4. PublishedInv'
  BY DEF LookupHit, Grant, SessionInv, PublishedInv
<1>5. HolderInv'
  BY DEF LookupHit, Grant, Resume, SessionInv, HolderInv
<1>6. UnusedInv'
  <2> DEFINE s == sessions[call[r].conn]
  <2>1. call[r].conn \in Conns /\ s # NoSession /\ ~Idle(s)
    BY CallFacts DEF LookupHit, Hit, SessionInv, CallInv
  <2>2. \A t : InUse(t)' => InUse(t) \/ t = s
    BY DEF LookupHit, Grant, InUse, SessionInv, TypeOK
  <2>3. ASSUME NEW q \in Clients, pc[q] \in {"drain", "describe", "publish"},
               work[q] # NoSession
        PROVE  work[q] # s
    BY <2>1, <2>3, WorkIsUnpublished
  <2>4. ASSUME NEW t, t # s, Idle(t) PROVE Idle(t)'
    BY <2>2, <2>4 DEF Idle, LookupHit, Grant
  <2> QED
    BY <2>1, <2>2, <2>3, <2>4
       DEF SessionInv, TypeOK, HolderInv, UnusedInv, LookupHit, Grant, Resume
<1>7. UseInv'
  <2> DEFINE s == sessions[call[r].conn]
  <2>1. call[r].conn \in Conns /\ s # NoSession
    BY CallFacts DEF LookupHit, Hit, SessionInv, CallInv
  <2>2. Kept(s)
    BY <2>1 DEF SessionInv, PublishedInv, Kept
  <2>3. ASSUME NEW t, Kept(t) PROVE Kept(t)'
    BY <2>3 DEF Kept, LookupHit, Grant, SessionInv, TypeOK
  <2> QED
    BY <2>2, <2>3 DEF SessionInv, TypeOK, UseInv, LookupHit, Grant
<1>8. GuardInv'
  <2> DEFINE s == sessions[call[r].conn]
  <2>1. call[r].conn \in Conns /\ s # NoSession /\ origin[s].conn = call[r].conn
    BY CallFacts DEF LookupHit, Hit, SessionInv, CallInv, PublishedInv
  <2>2. outer[r] # NoSession => outer[r] = s
    BY <2>1, HeldIsPublished
  <2>3. call[r].kind \in RequestKinds
    BY DEF SessionInv, CallInv, LookupHit
  <2> QED
    BY <2>1, <2>2, <2>3
       DEF SessionInv, TypeOK, GuardInv, LookupHit, Grant, Resume, Critical
<1>9. ShutdownInv'
  BY DEF LookupHit, Grant, Resume, SessionInv, ShutdownInv, Critical
<1> QED
  BY <1>1, <1>2, <1>3, <1>4, <1>5, <1>6, <1>7, <1>8, <1>9 DEF SessionInv

(* The same under the mutex, which is given back.                          *)
LEMMA LockedHitPreserves ==
    ASSUME SessionInv, NEW r \in Clients, LockedHit(r)
    PROVE  SessionInv'
<1>1. TypeOK'
  BY CallFacts, ConstantsAssumption, NoCallAssumption DEF LockedHit, Hit, Mismatch,
         Described, Grant, Resume, Idle, SessionInv, TypeOK, CallInv, Critical, Waiting,
         Closing, RequestKinds, AdminKinds
<1>2. MutexInv'
  BY ConstantsAssumption DEF LockedHit, Grant, Resume, SessionInv, TypeOK, MutexInv,
         Critical
<1>3. CallInv'
  BY DEF LockedHit, Grant, Resume, SessionInv, CallInv
<1>4. PublishedInv'
  BY DEF LockedHit, SessionInv, MutexInv, PublishedInv, Critical
<1>5. HolderInv'
  BY DEF LockedHit, Grant, Resume, SessionInv, HolderInv
<1>6. UnusedInv'
  <2> DEFINE s == sessions[call[r].conn]
  <2>1. call[r].conn \in Conns /\ s # NoSession /\ ~Idle(s)
    BY CallFacts DEF LockedHit, Hit, SessionInv, CallInv
  <2>2. \A t : InUse(t)' => InUse(t) \/ t = s
    BY DEF LockedHit, Grant, InUse, SessionInv, TypeOK
  <2>3. ASSUME NEW q \in Clients, pc[q] \in {"drain", "describe", "publish"},
               work[q] # NoSession
        PROVE  work[q] # s
    BY <2>1, <2>3, WorkIsUnpublished
  <2>4. ASSUME NEW t, t # s, Idle(t) PROVE Idle(t)'
    BY <2>2, <2>4 DEF Idle, LockedHit, Grant
  <2> QED
    BY <2>1, <2>2, <2>3, <2>4
       DEF SessionInv, TypeOK, HolderInv, UnusedInv, LockedHit, Grant, Resume
<1>7. UseInv'
  <2> DEFINE s == sessions[call[r].conn]
  <2>1. call[r].conn \in Conns /\ s # NoSession
    BY CallFacts DEF LockedHit, Hit, SessionInv, CallInv
  <2>2. Kept(s)
    BY <2>1 DEF SessionInv, PublishedInv, Kept
  <2>3. ASSUME NEW t, Kept(t) PROVE Kept(t)'
    BY <2>3 DEF Kept, LockedHit, Grant, SessionInv, TypeOK
  <2> QED
    BY <2>2, <2>3 DEF SessionInv, TypeOK, UseInv, LockedHit, Grant
<1>8. GuardInv'
  <2> DEFINE s == sessions[call[r].conn]
  <2>1. call[r].conn \in Conns /\ s # NoSession /\ origin[s].conn = call[r].conn
    BY CallFacts DEF LockedHit, Hit, SessionInv, CallInv, PublishedInv
  <2>2. outer[r] # NoSession => outer[r] = s
    BY <2>1, HeldIsPublished
  <2>3. call[r].kind \in RequestKinds
    BY DEF SessionInv, CallInv, LockedHit
  <2> QED
    BY <2>1, <2>2, <2>3
       DEF SessionInv, TypeOK, GuardInv, LockedHit, Grant, Resume, Critical
<1>9. ShutdownInv'
  BY DEF LockedHit, SessionInv, ShutdownInv, Closing
<1> QED
  BY <1>1, <1>2, <1>3, <1>4, <1>5, <1>6, <1>7, <1>8, <1>9 DEF SessionInv

(* A refusal under the mutex gives it back.                                *)
LEMMA LockedRefusePreserves ==
    ASSUME SessionInv, NEW r \in Clients, LockedRefuse(r)
    PROVE  SessionInv'
<1>1. CallInv' /\ PublishedInv' /\ HolderInv'
  BY DEF LockedRefuse, SessionInv, CallInv, PublishedInv, HolderInv
<1>2. TypeOK'
  BY DEF LockedRefuse, SessionInv, TypeOK, Waiting
<1>3. MutexInv'
  BY ConstantsAssumption DEF LockedRefuse, SessionInv, TypeOK, MutexInv, Critical
<1>4. UnusedInv'
  BY DEF LockedRefuse, SessionInv, UnusedInv, InUse, Idle
<1>5. UseInv'
  BY DEF LockedRefuse, SessionInv, UseInv, Kept
<1>6. GuardInv'
  BY DEF LockedRefuse, SessionInv, GuardInv, Critical
<1>7. ShutdownInv'
  BY DEF LockedRefuse, SessionInv, ShutdownInv, Critical
<1> QED
  BY <1>1, <1>2, <1>3, <1>4, <1>5, <1>6, <1>7 DEF SessionInv

(* A request that goes on to rebuild has seen an unused session.           *)
LEMMA LockedRebuildPreserves ==
    ASSUME SessionInv, NEW r \in Clients, LockedRebuild(r)
    PROVE  SessionInv'
<1>1. PublishedInv'
  BY DEF LockedRebuild, SessionInv, PublishedInv
<1>2. TypeOK'
  BY CallFacts, ConstantsAssumption, NoCallAssumption DEF LockedRebuild, Hit, Mismatch,
         Described, SessionInv, TypeOK, CallInv, Critical, Waiting, Closing,
         RequestKinds, AdminKinds
<1>3. MutexInv'
  BY DEF LockedRebuild, SessionInv, MutexInv, Critical
<1>4. CallInv'
  BY DEF LockedRebuild, SessionInv, CallInv, RequestKinds
<1>5. HolderInv'
  BY DEF LockedRebuild, Described, SessionInv, HolderInv, RequestKinds, AdminKinds
<1>6. UnusedInv'
  BY CallFacts DEF LockedRebuild, Hit, SessionInv, CallInv, PublishedInv, UnusedInv,
         InUse, Idle
<1>7. UseInv'
  BY DEF LockedRebuild, SessionInv, UseInv, Kept
<1>8. GuardInv'
  BY DEF LockedRebuild, SessionInv, GuardInv, Critical
<1>9. ShutdownInv'
  BY DEF LockedRebuild, SessionInv, ShutdownInv, Closing
<1> QED
  BY <1>1, <1>2, <1>3, <1>4, <1>5, <1>6, <1>7, <1>8, <1>9 DEF SessionInv

(* The guard of a task is cloned from the guard of its call.               *)
LEMMA StartInsertPreserves ==
    ASSUME SessionInv, NEW r \in Clients, StartInsert(r)
    PROVE  SessionInv'
<1>1. CallInv' /\ PublishedInv' /\ HolderInv'
  BY DEF StartInsert, SessionInv, CallInv, PublishedInv, HolderInv
<1>2. TypeOK'
  BY CallFacts, ConstantsAssumption, NoCallAssumption DEF StartInsert, SessionInv,
         TypeOK, CallInv, Critical, Waiting, Closing, RequestKinds, AdminKinds
<1>3. MutexInv'
  BY DEF StartInsert, SessionInv, MutexInv, Critical
<1>4. UnusedInv'
  BY DEF StartInsert, SessionInv, UnusedInv, InUse, Idle
<1>5. UseInv'
  <2>1. ASSUME NEW s, Kept(s) PROVE Kept(s)'
    BY <2>1 DEF Kept, StartInsert, SessionInv, TypeOK
  <2> QED
    BY <2>1 DEF SessionInv, TypeOK, UseInv, GuardInv, StartInsert
<1>6. GuardInv'
  BY DEF StartInsert, SessionInv, GuardInv, Critical
<1>7. ShutdownInv'
  BY DEF StartInsert, SessionInv, ShutdownInv, Critical
<1> QED
  BY <1>1, <1>2, <1>3, <1>4, <1>5, <1>6, <1>7 DEF SessionInv

(* Dropping a guard disturbs no other.                                     *)
LEMMA TaskEndsPreserves ==
    ASSUME SessionInv, NEW r \in Clients, TaskEnds(r)
    PROVE  SessionInv'
<1>1. MutexInv' /\ CallInv' /\ PublishedInv' /\ HolderInv' /\ GuardInv' /\ ShutdownInv'
  BY DEF TaskEnds, SessionInv, MutexInv, CallInv, PublishedInv, HolderInv, GuardInv,
         ShutdownInv
<1>2. TypeOK'
  <2>0. TypeOK
    BY DEF SessionInv
  <2>1. aged' \subseteq Sessions'
    BY <2>0 DEF TypeOK, TaskEnds
  <2> QED
    BY <2>0, <2>1 DEF TypeOK, TaskEnds
<1>3. UnusedInv'
  BY DEF TaskEnds, SessionInv, UnusedInv, GuardInv, InUse, Idle, Critical
<1>4. UseInv'
  BY DEF TaskEnds, SessionInv, UseInv, Kept
<1> QED
  BY <1>1, <1>2, <1>3, <1>4 DEF SessionInv

(* Nor does dropping the guards of a call.                                 *)
LEMMA ReturnPreserves ==
    ASSUME SessionInv, NEW r \in Clients, Return(r)
    PROVE  SessionInv'
<1>1. PublishedInv' /\ HolderInv'
  BY DEF Return, SessionInv, PublishedInv, HolderInv
<1>2. TypeOK'
  <2>0. TypeOK
    BY DEF SessionInv
  <2>1. aged' \subseteq Sessions'
    BY <2>0 DEF TypeOK, Return
  <2>2. pc' \in [Clients -> {"idle"} \cup Critical \cup Waiting]
    BY <2>0 DEF TypeOK, Return
  <2> QED
    BY <2>0, <2>1, <2>2 DEF TypeOK, Return
<1>3. MutexInv'
  BY DEF Return, SessionInv, MutexInv, Critical
<1>4. CallInv'
  BY DEF Return, SessionInv, CallInv, TypeOK
<1>5. UnusedInv'
  BY DEF Return, SessionInv, UnusedInv, GuardInv, InUse, Idle, Critical
<1>6. UseInv'
  BY DEF Return, SessionInv, UseInv, Kept
<1>7. GuardInv'
  BY DEF Return, SessionInv, GuardInv, TypeOK
<1>8. ShutdownInv'
  BY DEF Return, SessionInv, ShutdownInv, Critical
<1> QED
  BY <1>1, <1>2, <1>3, <1>4, <1>5, <1>6, <1>7, <1>8 DEF SessionInv

(* A refused lifecycle call gives the mutex back.                          *)
LEMMA AdminRefusePreserves ==
    ASSUME SessionInv, NEW r \in Clients, AdminRefuse(r)
    PROVE  SessionInv'
<1>1. CallInv' /\ PublishedInv' /\ HolderInv'
  BY DEF AdminRefuse, SessionInv, CallInv, PublishedInv, HolderInv
<1>2. TypeOK'
  BY DEF AdminRefuse, SessionInv, TypeOK, Waiting
<1>3. MutexInv'
  BY ConstantsAssumption DEF AdminRefuse, SessionInv, TypeOK, MutexInv, Critical
<1>4. UnusedInv'
  BY DEF AdminRefuse, SessionInv, UnusedInv, InUse, Idle
<1>5. UseInv'
  BY DEF AdminRefuse, SessionInv, UseInv, Kept
<1>6. GuardInv'
  BY DEF AdminRefuse, SessionInv, GuardInv, Critical
<1>7. ShutdownInv'
  BY DEF AdminRefuse, SessionInv, ShutdownInv, Critical
<1> QED
  BY <1>1, <1>2, <1>3, <1>4, <1>5, <1>6, <1>7 DEF SessionInv

(* A kept session stays published.                                         *)
LEMMA AdminKeepPreserves ==
    ASSUME SessionInv, NEW r \in Clients, AdminKeep(r)
    PROVE  SessionInv'
<1>1. CallInv' /\ PublishedInv' /\ HolderInv'
  BY DEF AdminKeep, SessionInv, CallInv, PublishedInv, HolderInv
<1>2. TypeOK'
  BY CallFacts, ConstantsAssumption, NoCallAssumption DEF AdminKeep, Current, Idle,
         SessionInv, TypeOK, CallInv, Critical, Waiting, Closing, RequestKinds,
         AdminKinds
<1>3. MutexInv'
  BY ConstantsAssumption DEF AdminKeep, SessionInv, TypeOK, MutexInv, Critical
<1>4. UnusedInv'
  BY DEF AdminKeep, SessionInv, MutexInv, UnusedInv, Critical
<1>5. UseInv'
  BY DEF AdminKeep, SessionInv, UseInv, Kept
<1>6. GuardInv'
  BY DEF AdminKeep, SessionInv, GuardInv, RequestKinds
<1>7. ShutdownInv'
  BY DEF AdminKeep, SessionInv, ShutdownInv, Critical
<1> QED
  BY <1>1, <1>2, <1>3, <1>4, <1>5, <1>6, <1>7 DEF SessionInv

(* The descriptor goes first, and the holder retires next.                 *)
LEMMA AdminReplacePreserves ==
    ASSUME SessionInv, NEW r \in Clients, AdminReplace(r)
    PROVE  SessionInv'
<1>1. CallInv'
  BY DEF AdminReplace, SessionInv, CallInv
<1>2. TypeOK'
  BY CallFacts DEF AdminReplace, SessionInv, TypeOK, CallInv, Critical, Waiting,
         Closing, RequestKinds, AdminKinds
<1>3. MutexInv'
  BY DEF AdminReplace, SessionInv, MutexInv, Critical
<1>4. PublishedInv'
  BY DEF AdminReplace, SessionInv, PublishedInv, TypeOK
<1>5. HolderInv'
  BY CallFacts DEF AdminReplace, SessionInv, TypeOK, MutexInv, CallInv, HolderInv,
         Critical, RequestKinds
<1>6. UnusedInv'
  BY DEF AdminReplace, SessionInv, UnusedInv, InUse, Idle, RequestKinds
<1>7. UseInv'
  BY DEF AdminReplace, SessionInv, UseInv, Kept
<1>8. GuardInv'
  BY DEF AdminReplace, SessionInv, GuardInv, Critical
<1>9. ShutdownInv'
  BY DEF AdminReplace, SessionInv, ShutdownInv, Closing
<1> QED
  BY <1>1, <1>2, <1>3, <1>4, <1>5, <1>6, <1>7, <1>8, <1>9 DEF SessionInv

(* A test touches neither map.                                             *)
LEMMA AdminTestPreserves ==
    ASSUME SessionInv, NEW r \in Clients, AdminTest(r)
    PROVE  SessionInv'
<1>1. CallInv' /\ PublishedInv'
  BY DEF AdminTest, SessionInv, CallInv, PublishedInv
<1>2. TypeOK'
  BY DEF AdminTest, SessionInv, TypeOK, Critical, Closing
<1>3. MutexInv'
  BY DEF AdminTest, SessionInv, MutexInv, Critical
<1>4. HolderInv'
  BY DEF AdminTest, SessionInv, HolderInv, RequestKinds
<1>5. UnusedInv'
  BY DEF AdminTest, SessionInv, UnusedInv, InUse, Idle
<1>6. UseInv'
  BY DEF AdminTest, SessionInv, UseInv, Kept
<1>7. GuardInv'
  BY DEF AdminTest, SessionInv, GuardInv, Critical
<1>8. ShutdownInv'
  BY DEF AdminTest, SessionInv, ShutdownInv, Closing
<1> QED
  BY <1>1, <1>2, <1>3, <1>4, <1>5, <1>6, <1>7, <1>8 DEF SessionInv

(* The session leaves the map and is kept by its drain.                    *)
LEMMA RetirePreserves ==
    ASSUME SessionInv, NEW r \in Clients, Retire(r)
    PROVE  SessionInv'
<1>1. CallInv'
  BY DEF Retire, SessionInv, CallInv
<1>2. TypeOK'
  <2>0. TypeOK /\ call[r].conn \in Conns
    BY CallFacts DEF SessionInv, CallInv, Retire
  <2>1. {sessions[call[r].conn]} \ {NoSession} \subseteq Sessions
    <3>1. sessions[call[r].conn] \in 0 .. generation
      BY <2>0 DEF TypeOK
    <3> QED
      BY <2>0, <3>1 DEF TypeOK
  <2>2. cancelled' \subseteq Sessions'
    BY <2>0, <2>1 DEF TypeOK, Retire
  <2>3. pc' \in [Clients -> {"idle"} \cup Critical \cup Waiting]
    BY <2>0 DEF TypeOK, Retire, Critical
  <2> QED
    BY <2>0, <2>2, <2>3 DEF TypeOK, Retire
<1>3. MutexInv'
  BY DEF Retire, SessionInv, MutexInv, Critical
<1>4. PublishedInv'
  BY CallFacts DEF Retire, SessionInv, TypeOK, CallInv, PublishedInv
<1>5. HolderInv'
  BY CallFacts DEF Retire, SessionInv, TypeOK, MutexInv, CallInv, PublishedInv,
         HolderInv, Critical
<1>6. UnusedInv'
  BY DEF Retire, SessionInv, HolderInv, UnusedInv, InUse, Idle
<1>7. UseInv'
  BY DEF Retire, SessionInv, TypeOK, MutexInv, PublishedInv, HolderInv, UseInv, Kept,
         GuardInv, ShutdownInv
<1>8. GuardInv'
  BY DEF Retire, SessionInv, GuardInv, Critical
<1>9. ShutdownInv'
  BY DEF Retire, SessionInv, ShutdownInv, Critical
<1> QED
  BY <1>1, <1>2, <1>3, <1>4, <1>5, <1>6, <1>7, <1>8, <1>9 DEF SessionInv

(* A drained session is used by nobody: no guard loses its keeper.         *)
LEMMA DrainPreserves ==
    ASSUME SessionInv, NEW r \in Clients, Drain(r)
    PROVE  SessionInv'
<1>1. CallInv' /\ PublishedInv'
  BY DEF Drain, SessionInv, CallInv, PublishedInv
<1>2. TypeOK'
  <2>0. TypeOK
    BY DEF SessionInv
  <2>1. work' \in [Clients -> 0 .. generation]
    BY <2>0 DEF TypeOK, Drain
  <2>2. pc' \in [Clients -> {"idle"} \cup Critical \cup Waiting]
    BY <2>0 DEF TypeOK, Waiting, Critical, Drain
  <2>3. lifecycle' \in Clients \cup {Free, Shutdown}
    BY <2>0 DEF TypeOK, Drain
  <2> QED
    BY <2>0, <2>1, <2>2, <2>3 DEF TypeOK, Drain
<1>3. MutexInv'
  BY ConstantsAssumption DEF Drain, SessionInv, TypeOK, MutexInv, Critical
<1>4. HolderInv'
  BY DEF Drain, SessionInv, HolderInv, TypeOK
<1>5. UnusedInv'
  BY DEF Drain, SessionInv, UnusedInv, InUse, Idle
<1>6. UseInv'
  <2>1. ASSUME NEW s \in Sessions, NEW q \in Clients, s \in {outer[q], inner[q], task[q]}, Kept(s)
        PROVE  Kept(s)'
    <3>1. s # work[r]
      BY <2>1 DEF Drain, InUse
    <3> QED
      BY <2>1, <3>1 DEF Kept, Drain, SessionInv, TypeOK
  <2> QED
    BY <2>1 DEF SessionInv, TypeOK, UseInv, Drain
<1>7. GuardInv'
  BY DEF Drain, SessionInv, GuardInv, Critical
<1>8. ShutdownInv'
  BY DEF Drain, SessionInv, ShutdownInv, Critical
<1> QED
  BY <1>1, <1>2, <1>3, <1>4, <1>5, <1>6, <1>7, <1>8 DEF SessionInv

(* A failed build leaves the connection without a session.                 *)
LEMMA BuildFailsPreserves ==
    ASSUME SessionInv, NEW r \in Clients, BuildFails(r)
    PROVE  SessionInv'
<1>1. CallInv' /\ PublishedInv' /\ HolderInv'
  BY DEF BuildFails, SessionInv, CallInv, PublishedInv, HolderInv
<1>2. TypeOK'
  BY DEF BuildFails, SessionInv, TypeOK, Waiting
<1>3. MutexInv'
  BY ConstantsAssumption DEF BuildFails, SessionInv, TypeOK, MutexInv, Critical
<1>4. UnusedInv'
  BY DEF BuildFails, SessionInv, UnusedInv, InUse, Idle
<1>5. UseInv'
  BY DEF BuildFails, SessionInv, UseInv, Kept
<1>6. GuardInv'
  BY DEF BuildFails, SessionInv, GuardInv, Critical
<1>7. ShutdownInv'
  BY DEF BuildFails, SessionInv, ShutdownInv, Critical
<1> QED
  BY <1>1, <1>2, <1>3, <1>4, <1>5, <1>6, <1>7 DEF SessionInv

(* The session of a test is published nowhere.                             *)
LEMMA BuildTestPreserves ==
    ASSUME SessionInv, NEW r \in Clients, BuildTest(r)
    PROVE  SessionInv'
<1>1. CallInv'
  BY DEF BuildTest, SessionInv, CallInv
<1>2. TypeOK'
  BY CallFacts, ConstantsAssumption DEF BuildTest, NewSession, SessionInv, TypeOK,
         CallInv, Waiting, Closing, RequestKinds, AdminKinds
<1>3. MutexInv'
  BY ConstantsAssumption DEF BuildTest, SessionInv, TypeOK, MutexInv, Critical
<1>4. PublishedInv'
  BY CallFacts DEF BuildTest, NewSession, SessionInv, TypeOK, CallInv, PublishedInv
<1>5. HolderInv'
  BY DEF BuildTest, SessionInv, MutexInv, HolderInv, Critical
<1>6. UnusedInv'
  BY DEF BuildTest, SessionInv, UnusedInv, InUse, Idle
<1>7. UseInv'
  BY DEF BuildTest, NewSession, SessionInv, TypeOK, UseInv, Kept, GuardInv, ShutdownInv,
         Critical
<1>8. GuardInv'
  BY DEF BuildTest, NewSession, SessionInv, TypeOK, GuardInv, Critical
<1>9. ShutdownInv'
  BY DEF BuildTest, SessionInv, ShutdownInv, Critical, Closing
<1> QED
  BY <1>1, <1>2, <1>3, <1>4, <1>5, <1>6, <1>7, <1>8, <1>9 DEF SessionInv

(* A new generation is used by nobody and published nowhere.               *)
LEMMA BuildPreserves ==
    ASSUME SessionInv, NEW r \in Clients, Build(r)
    PROVE  SessionInv'
<1>1. TypeOK'
  <2>0. TypeOK /\ call[r].conn \in Conns
    BY CallFacts DEF SessionInv, CallInv, Build
  <2>1. generation' = generation + 1 /\ generation' \in Nat
    BY <2>0 DEF TypeOK, Build, NewSession
  <2>2. 0 .. generation \subseteq 0 .. generation' /\ Sessions \subseteq Sessions'
    BY <2>0, <2>1 DEF TypeOK
  <2>3. origin' \in [Sessions' -> [conn : Conns, config : Configs]]
    <3>1. (IF call[r].kind \in AdminKinds THEN call[r].config ELSE descriptors[call[r].conn])
             \in Configs
      BY <2>0, CallFacts DEF SessionInv, CallInv, HolderInv, Build, TypeOK
    <3> QED
      BY <2>0, <3>1 DEF TypeOK, Build, NewSession
  <2>4. cancelled' \subseteq Sessions' /\ aged' \subseteq Sessions' /\ doomed' \subseteq Sessions'
    BY <2>0, <2>2 DEF TypeOK, Build
  <2>5. /\ sessions' \in [Conns -> 0 .. generation']
        /\ outer' \in [Clients -> 0 .. generation']
        /\ inner' \in [Clients -> 0 .. generation']
        /\ task' \in [Clients -> 0 .. generation']
    BY <2>0, <2>2 DEF TypeOK, Build
  <2>6. work' \in [Clients -> 0 .. generation']
    BY <2>0, <2>1 DEF TypeOK, Build
  <2>7. pc' \in [Clients -> {"idle"} \cup Critical \cup Waiting]
    BY <2>0 DEF TypeOK, Build, Critical
  <2> QED
    BY <2>0, <2>1, <2>3, <2>4, <2>5, <2>6, <2>7 DEF TypeOK, Build
<1>2. MutexInv'
  BY DEF Build, SessionInv, MutexInv, Critical
<1>3. CallInv'
  BY CallFacts DEF Build, SessionInv, CallInv, AdminKinds
<1>4. PublishedInv'
  BY CallFacts DEF Build, NewSession, SessionInv, TypeOK, CallInv, PublishedInv
<1>5. HolderInv'
  BY DEF Build, NewSession, SessionInv, TypeOK, MutexInv, CallInv, HolderInv, Critical,
         AdminKinds
<1>6. UnusedInv'
  <2>1. ~InUse(generation + 1)
    BY DEF SessionInv, TypeOK, InUse
  <2>2. \A s : InUse(s)' = InUse(s)
    BY DEF Build, InUse
  <2>3. \A s : Idle(s)' = Idle(s)
    BY <2>2 DEF Build, Idle
  <2>4. /\ sessions' = sessions /\ call' = call
        /\ work' = [work EXCEPT ![r] = generation + 1]
        /\ pc' = [pc EXCEPT ![r] = IF call[r].kind = "connect" THEN "describe" ELSE "publish"]
    BY DEF Build
  <2>5. TypeOK /\ UnusedInv
    BY DEF SessionInv
  <2>6. ASSUME NEW q \in Clients, q # r
        PROVE  pc'[q] = pc[q] /\ work'[q] = work[q]
    BY <2>4, <2>5, <2>6 DEF TypeOK
  <2>7. /\ pc'[r] \in {"describe", "publish"}
        /\ work'[r] = generation + 1
    BY <2>4, <2>5 DEF TypeOK
  <2> QED
    BY <2>1, <2>2, <2>3, <2>4, <2>5, <2>6, <2>7 DEF UnusedInv
<1>7. UseInv'
  BY DEF Build, NewSession, SessionInv, TypeOK, MutexInv, UseInv, Kept, GuardInv,
         Critical
<1>8. GuardInv'
  BY DEF Build, NewSession, SessionInv, TypeOK, MutexInv, GuardInv, Critical
<1>9. ShutdownInv'
  BY DEF Build, SessionInv, ShutdownInv, Critical, Closing
<1> QED
  BY <1>1, <1>2, <1>3, <1>4, <1>5, <1>6, <1>7, <1>8, <1>9 DEF SessionInv

(* The descriptor is the configuration the new session was built from.     *)
LEMMA DescribePreserves ==
    ASSUME SessionInv, NEW r \in Clients, Describe(r)
    PROVE  SessionInv'
<1>1. CallInv'
  BY DEF Describe, SessionInv, CallInv
<1>2. TypeOK'
  BY CallFacts, ConstantsAssumption, NoCallAssumption DEF Describe, SessionInv, TypeOK,
         CallInv, Critical, Waiting, Closing, RequestKinds, AdminKinds
<1>3. MutexInv'
  BY DEF Describe, SessionInv, MutexInv, Critical
<1>4. PublishedInv'
  <2>1. call[r].conn \in Conns /\ sessions[call[r].conn] = NoSession
    BY CallFacts DEF Describe, SessionInv, CallInv, HolderInv
  <2>2. ~(\E q \in Clients : pc[q] = "retire") /\ shut # "unpublish"
    BY ConstantsAssumption DEF Describe, SessionInv, MutexInv, Critical, Closing
  <2> QED
    BY <2>1, <2>2 DEF SessionInv, TypeOK, PublishedInv, Describe
<1>5. HolderInv'
  BY ConstantsAssumption DEF Describe, SessionInv, TypeOK, MutexInv, HolderInv, Critical
<1>6. UnusedInv'
  BY DEF Describe, SessionInv, UnusedInv, InUse, Idle
<1>7. UseInv'
  BY DEF Describe, SessionInv, UseInv, Kept
<1>8. GuardInv'
  BY DEF Describe, SessionInv, GuardInv, Critical
<1>9. ShutdownInv'
  BY DEF Describe, SessionInv, ShutdownInv, Critical, Closing
<1> QED
  BY <1>1, <1>2, <1>3, <1>4, <1>5, <1>6, <1>7, <1>8, <1>9 DEF SessionInv

(* The published session matches the descriptor set just before.           *)
LEMMA PublishConnectPreserves ==
    ASSUME SessionInv, NEW r \in Clients, PublishConnect(r)
    PROVE  SessionInv'
<1>1. CallInv'
  BY DEF PublishConnect, SessionInv, CallInv
<1>2. TypeOK'
  BY CallFacts DEF PublishConnect, SessionInv, TypeOK, CallInv, Waiting
<1>3. MutexInv'
  BY ConstantsAssumption DEF PublishConnect, SessionInv, TypeOK, MutexInv, Critical
<1>4. PublishedInv'
  BY ConstantsAssumption DEF PublishConnect, SessionInv, TypeOK, PublishedInv, HolderInv
<1>5. HolderInv'
  BY DEF PublishConnect, SessionInv, TypeOK, MutexInv, HolderInv, Critical
<1>6. UnusedInv'
  BY DEF PublishConnect, SessionInv, TypeOK, MutexInv, UnusedInv, Critical
<1>7. UseInv'
  BY DEF PublishConnect, SessionInv, HolderInv, UseInv, Kept
<1>8. GuardInv'
  BY DEF PublishConnect, SessionInv, GuardInv, Critical
<1>9. ShutdownInv'
  BY DEF PublishConnect, SessionInv, ShutdownInv, Critical, Closing
<1> QED
  BY <1>1, <1>2, <1>3, <1>4, <1>5, <1>6, <1>7, <1>8, <1>9 DEF SessionInv

(* The rebuilt session is granted to the call that built it.               *)
LEMMA PublishRebuiltPreserves ==
    ASSUME SessionInv, NEW r \in Clients, PublishRebuilt(r)
    PROVE  SessionInv'
<1>1. TypeOK'
  <2>0. TypeOK /\ call[r].conn \in Conns
    BY CallFacts DEF SessionInv, CallInv, PublishRebuilt
  <2>1. aged' \subseteq Sessions'
    BY <2>0 DEF TypeOK, PublishRebuilt, Grant
  <2>2. pc' \in [Clients -> {"idle"} \cup Critical \cup Waiting]
    BY <2>0 DEF TypeOK, PublishRebuilt, Grant, Resume, Waiting
  <2>3. outer' \in [Clients -> 0 .. generation] /\ inner' \in [Clients -> 0 .. generation]
    BY <2>0 DEF TypeOK, PublishRebuilt, Grant
  <2>4. sessions' \in [Conns -> 0 .. generation] /\ work' \in [Clients -> 0 .. generation]
    BY <2>0 DEF TypeOK, PublishRebuilt
  <2> QED
    BY <2>0, <2>1, <2>2, <2>3, <2>4 DEF TypeOK, PublishRebuilt
<1>2. MutexInv'
  BY ConstantsAssumption DEF PublishRebuilt, Grant, Resume, SessionInv, TypeOK,
         MutexInv, Critical
<1>3. CallInv'
  BY DEF PublishRebuilt, Grant, Resume, SessionInv, CallInv
<1>4. PublishedInv'
  BY DEF PublishRebuilt, SessionInv, MutexInv, CallInv, PublishedInv, HolderInv,
         Critical
<1>5. HolderInv'
  BY DEF PublishRebuilt, Grant, Resume, SessionInv, TypeOK, MutexInv, HolderInv,
         Critical
<1>6. UnusedInv'
  BY DEF PublishRebuilt, Grant, Resume, SessionInv, TypeOK, MutexInv, UnusedInv,
         Critical
<1>7. UseInv'
  <2> DEFINE c == call[r].conn
  <2>1. c \in Conns /\ work[r] # NoSession /\ origin[work[r]].conn = c /\ sessions[c] = NoSession
    BY CallFacts DEF PublishRebuilt, SessionInv, CallInv, HolderInv, RequestKinds
  <2>2. PICK w \in Sessions : w = work[r]
    BY <2>1 DEF SessionInv, TypeOK
  <2>3. outer[r] = NoSession /\ inner[r] = NoSession
    BY RebuilderHoldsNothing DEF PublishRebuilt, SessionInv, GuardInv, Critical
  <2>4. Kept(w)'
    BY <2>1, <2>2 DEF Kept, PublishRebuilt, SessionInv, TypeOK
  <2>5. ASSUME NEW t, t # NoSession, Kept(t) PROVE Kept(t)'
    BY <2>1, <2>5 DEF Kept, PublishRebuilt, Grant, SessionInv, TypeOK
  <2>6. outer' = [outer EXCEPT ![r] = w] /\ inner' = inner /\ task' = task
    BY <2>2, <2>3 DEF PublishRebuilt, Grant, SessionInv, TypeOK
  <2> QED
    BY <2>4, <2>5, <2>6 DEF SessionInv, TypeOK, UseInv
<1>8. GuardInv'
  <2>1. /\ call[r].kind \in RequestKinds /\ work[r] # NoSession
        /\ origin[work[r]].conn = call[r].conn
    BY DEF PublishRebuilt, SessionInv, CallInv, HolderInv
  <2>2. PICK w \in Sessions : w = work[r]
    BY <2>1 DEF SessionInv, TypeOK
  <2>3. outer[r] = NoSession /\ inner[r] = NoSession
    BY RebuilderHoldsNothing DEF PublishRebuilt, SessionInv, GuardInv, Critical
  <2>4. outer' = [outer EXCEPT ![r] = w] /\ inner' = inner
    BY <2>2, <2>3 DEF PublishRebuilt, Grant, SessionInv, TypeOK
  <2> QED
    BY <2>1, <2>2, <2>3, <2>4
       DEF SessionInv, TypeOK, GuardInv, PublishRebuilt, Grant, Resume, Critical
<1>9. ShutdownInv'
  BY DEF PublishRebuilt, SessionInv, TypeOK, ShutdownInv, Critical
<1> QED
  BY <1>1, <1>2, <1>3, <1>4, <1>5, <1>6, <1>7, <1>8, <1>9 DEF SessionInv

(* Only an unused session ages.                                            *)
LEMMA AgePreserves ==
    ASSUME SessionInv, NEW a \in Sessions, Age(a)
    PROVE  SessionInv'
<1>1. TypeOK'
  BY DEF Age, SessionInv, TypeOK
<1>2. MutexInv' /\ CallInv' /\ PublishedInv'
  BY DEF Age, SessionInv, MutexInv, CallInv, PublishedInv
<1>3. HolderInv' /\ GuardInv'
  BY DEF Age, SessionInv, HolderInv, GuardInv
<1>4. ShutdownInv'
  BY DEF Age, SessionInv, ShutdownInv
<1>5. UnusedInv'
  BY DEF Age, SessionInv, UnusedInv, InUse, Idle
<1>6. UseInv'
  BY DEF Age, SessionInv, UseInv, Kept
<1> QED
  BY <1>1, <1>2, <1>3, <1>4, <1>5, <1>6 DEF SessionInv

(* An evicted session is used by nobody, and no drain is under way.        *)
LEMMA EvictIdlePreserves ==
    ASSUME SessionInv, EvictIdle
    PROVE  SessionInv'
<1>1. MutexInv' /\ CallInv' /\ PublishedInv' /\ GuardInv' /\ ShutdownInv'
  BY DEF EvictIdle, SessionInv, MutexInv, CallInv, PublishedInv, GuardInv, ShutdownInv
<1>2. TypeOK'
  <2>0. TypeOK
    BY DEF SessionInv
  <2> DEFINE evicted == {c \in Conns : sessions[c] # NoSession /\ Idle(sessions[c])}
  <2>1. {sessions[c] : c \in evicted} \subseteq Sessions
    BY <2>0 DEF TypeOK
  <2>2. cancelled' \subseteq Sessions'
    BY <2>0, <2>1 DEF TypeOK, EvictIdle
  <2>3. sessions' \in [Conns -> 0 .. generation]
    BY <2>0 DEF TypeOK, EvictIdle
  <2> QED
    BY <2>0, <2>2, <2>3 DEF TypeOK, EvictIdle
<1>3. HolderInv'
  BY ConstantsAssumption DEF EvictIdle, SessionInv, MutexInv, HolderInv, Critical
<1>4. UnusedInv'
  BY ConstantsAssumption DEF EvictIdle, SessionInv, MutexInv, UnusedInv, Critical
<1>5. UseInv'
  <2>1. ASSUME NEW s \in Sessions, NEW q \in Clients, s \in {outer[q], inner[q], task[q]}, Kept(s)
        PROVE  Kept(s)'
    <3>1. InUse(s)
      BY <2>1 DEF InUse
    <3>2. CASE sessions[origin[s].conn] = s
      BY <2>1, <3>1, <3>2 DEF Kept, EvictIdle, Idle, SessionInv, TypeOK
    <3> QED
      BY <2>1, <3>2 DEF Kept, EvictIdle
  <2>2. \A q \in Clients : {outer[q], inner[q], task[q]} \ {NoSession} \subseteq Sessions
    BY DEF SessionInv, TypeOK
  <2>3. UNCHANGED <<outer, inner, task>>
    BY DEF EvictIdle
  <2> QED
    BY <2>1, <2>2, <2>3 DEF SessionInv, UseInv
<1> QED
  BY <1>1, <1>2, <1>3, <1>4, <1>5 DEF SessionInv

(* From now on stopping is set.                                            *)
LEMMA ShutdownBeginPreserves ==
    ASSUME SessionInv, ShutdownBegin
    PROVE  SessionInv'
<1>1. TypeOK' /\ CallInv' /\ HolderInv' /\ GuardInv'
  BY DEF ShutdownBegin, SessionInv, TypeOK, CallInv, HolderInv, GuardInv
<1>2. MutexInv'
  BY DEF ShutdownBegin, SessionInv, MutexInv, Closing
<1>3. PublishedInv'
  BY DEF SessionInv, PublishedInv, ShutdownBegin
<1>4. UnusedInv'
  BY DEF ShutdownBegin, SessionInv, UnusedInv, InUse, Idle
<1>5. UseInv'
  BY DEF ShutdownBegin, SessionInv, UseInv, Kept
<1>6. ShutdownInv'
  BY DEF ShutdownBegin, SessionInv, ShutdownInv, Closing
<1> QED
  BY <1>1, <1>2, <1>3, <1>4, <1>5, <1>6 DEF SessionInv

(* No client is inside the critical section any more.                      *)
LEMMA ShutdownAcquirePreserves ==
    ASSUME SessionInv, ShutdownAcquire
    PROVE  SessionInv'
<1>1. CallInv' /\ PublishedInv' /\ HolderInv' /\ GuardInv'
  BY DEF ShutdownAcquire, SessionInv, CallInv, PublishedInv, HolderInv, GuardInv
<1>2. TypeOK'
  BY DEF ShutdownAcquire, SessionInv, TypeOK, Critical, Closing
<1>3. MutexInv'
  BY ConstantsAssumption DEF ShutdownAcquire, SessionInv, MutexInv, Closing
<1>4. UnusedInv'
  BY DEF ShutdownAcquire, SessionInv, UnusedInv, InUse, Idle
<1>5. UseInv'
  BY DEF ShutdownAcquire, SessionInv, UseInv, Kept
<1>6. ShutdownInv'
  BY ConstantsAssumption DEF ShutdownAcquire, SessionInv, MutexInv, ShutdownInv
<1> QED
  BY <1>1, <1>2, <1>3, <1>4, <1>5, <1>6 DEF SessionInv

(* The descriptors go first.                                               *)
LEMMA ShutdownClearPreserves ==
    ASSUME SessionInv, ShutdownClear
    PROVE  SessionInv'
<1>1. CallInv' /\ PublishedInv' /\ GuardInv'
  BY DEF ShutdownClear, SessionInv, CallInv, PublishedInv, GuardInv
<1>2. TypeOK'
  BY DEF ShutdownClear, SessionInv, TypeOK, Critical, Closing
<1>3. MutexInv'
  BY DEF ShutdownClear, SessionInv, MutexInv, Closing
<1>4. HolderInv'
  BY DEF ShutdownClear, SessionInv, HolderInv, ShutdownInv, Critical, Closing
<1>5. UnusedInv'
  BY DEF ShutdownClear, SessionInv, UnusedInv, InUse, Idle
<1>6. UseInv'
  BY DEF ShutdownClear, SessionInv, UseInv, Kept
<1>7. ShutdownInv'
  BY DEF ShutdownClear, SessionInv, ShutdownInv, TypeOK
<1> QED
  BY <1>1, <1>2, <1>3, <1>4, <1>5, <1>6, <1>7 DEF SessionInv

(* The sessions leave the map and are kept by the shutdown.                *)
LEMMA ShutdownUnpublishPreserves ==
    ASSUME SessionInv, ShutdownUnpublish
    PROVE  SessionInv'
<1>1. CallInv' /\ PublishedInv' /\ GuardInv'
  BY DEF ShutdownUnpublish, SessionInv, CallInv, PublishedInv, GuardInv
<1>2. TypeOK'
  <2>0. TypeOK
    BY DEF SessionInv
  <2>1. doomed' \subseteq Sessions'
    BY <2>0 DEF TypeOK, ShutdownUnpublish
  <2>2. cancelled' \subseteq Sessions'
    BY <2>0, <2>1 DEF TypeOK, ShutdownUnpublish
  <2> QED
    BY <2>0, <2>1, <2>2 DEF TypeOK, ShutdownUnpublish, Closing
<1>3. MutexInv'
  BY DEF ShutdownUnpublish, SessionInv, MutexInv, Closing
<1>4. HolderInv'
  BY DEF ShutdownUnpublish, SessionInv, HolderInv, ShutdownInv, Critical, Closing
<1>5. UnusedInv'
  BY DEF ShutdownUnpublish, SessionInv, UnusedInv, ShutdownInv, Critical, Closing
<1>6. UseInv'
  BY DEF ShutdownUnpublish, SessionInv, TypeOK, UseInv, Kept, ShutdownInv
<1>7. ShutdownInv'
  BY DEF ShutdownUnpublish, SessionInv, PublishedInv, ShutdownInv, Closing
<1> QED
  BY <1>1, <1>2, <1>3, <1>4, <1>5, <1>6, <1>7 DEF SessionInv

(* The snapshot of the tasks disturbs nothing.                             *)
LEMMA ShutdownSnapshotPreserves ==
    ASSUME SessionInv, ShutdownSnapshot
    PROVE  SessionInv'
<1>1. CallInv' /\ PublishedInv' /\ HolderInv' /\ GuardInv'
  BY DEF ShutdownSnapshot, SessionInv, CallInv, PublishedInv, HolderInv, GuardInv
<1>2. TypeOK'
  BY DEF ShutdownSnapshot, SessionInv, TypeOK, Critical, Closing
<1>3. MutexInv'
  BY DEF ShutdownSnapshot, SessionInv, MutexInv, Closing
<1>4. UnusedInv'
  BY DEF ShutdownSnapshot, SessionInv, UnusedInv, InUse, Idle
<1>5. UseInv'
  BY DEF ShutdownSnapshot, SessionInv, UseInv, Kept
<1>6. ShutdownInv'
  BY DEF ShutdownSnapshot, SessionInv, ShutdownInv, TypeOK
<1> QED
  BY <1>1, <1>2, <1>3, <1>4, <1>5, <1>6 DEF SessionInv

(* Waiting for the tasks disturbs nothing.                                 *)
LEMMA ShutdownAwaitPreserves ==
    ASSUME SessionInv, ShutdownAwait
    PROVE  SessionInv'
<1>1. CallInv' /\ PublishedInv' /\ HolderInv' /\ GuardInv'
  BY DEF ShutdownAwait, SessionInv, CallInv, PublishedInv, HolderInv, GuardInv
<1>2. TypeOK'
  BY DEF ShutdownAwait, SessionInv, TypeOK, Critical, Closing
<1>3. MutexInv'
  BY DEF ShutdownAwait, SessionInv, MutexInv, Closing
<1>4. UnusedInv'
  BY DEF ShutdownAwait, SessionInv, UnusedInv, InUse, Idle
<1>5. UseInv'
  BY DEF ShutdownAwait, SessionInv, UseInv, Kept
<1>6. ShutdownInv'
  BY DEF ShutdownAwait, SessionInv, ShutdownInv, TypeOK
<1> QED
  BY <1>1, <1>2, <1>3, <1>4, <1>5, <1>6 DEF SessionInv

(* What the shutdown took out is used by nobody when it lets go.           *)
LEMMA ShutdownDrainPreserves ==
    ASSUME SessionInv, ShutdownDrain
    PROVE  SessionInv'
<1>1. TypeOK' /\ CallInv' /\ PublishedInv' /\ HolderInv' /\ GuardInv'
  BY DEF ShutdownDrain, SessionInv, TypeOK, CallInv, PublishedInv, HolderInv, GuardInv
<1>2. MutexInv'
  BY ConstantsAssumption DEF ShutdownDrain, SessionInv, MutexInv, Closing
<1>3. UnusedInv'
  BY DEF ShutdownDrain, SessionInv, UnusedInv, InUse, Idle
<1>4. UseInv'
  <2>1. ASSUME NEW s \in Sessions, NEW q \in Clients, s \in {outer[q], inner[q], task[q]}, Kept(s)
        PROVE  Kept(s)'
    <3>1. s \notin doomed
      BY <2>1 DEF ShutdownDrain, InUse
    <3> QED
      BY <2>1, <3>1 DEF Kept, ShutdownDrain
  <2> QED
    BY <2>1 DEF SessionInv, TypeOK, UseInv, ShutdownDrain
<1>5. ShutdownInv'
  BY DEF ShutdownDrain, SessionInv, ShutdownInv, TypeOK
<1> QED
  BY <1>1, <1>2, <1>3, <1>4, <1>5 DEF SessionInv

-----------------------------------------------------------------------------
(* The invariant holds in every reachable state.                           *)

(* Every action preserves the invariant.                                   *)
LEMMA NextPreserves ==
    SessionInv /\ [Next]_vars => SessionInv'
<1> SUFFICES ASSUME SessionInv, [Next]_vars PROVE SessionInv'
  OBVIOUS
<1>1. ASSUME NEW r \in Clients, Step(r) PROVE SessionInv'
  BY <1>1, DispatchPreserves, LookupHitPreserves, LookupMissPreserves, EnteredPreserves,
     ReturnPreserves, LockedHitPreserves, LockedRefusePreserves, LockedRebuildPreserves,
     StartCheckPreserves, StartInsertPreserves, StartRefusePreserves,
     AdminRefusePreserves, AdminKeepPreserves, AdminReplacePreserves, AdminTestPreserves,
     RetirePreserves, DrainPreserves, BuildFailsPreserves, BuildTestPreserves,
     BuildPreserves, DescribePreserves, PublishConnectPreserves, PublishRebuiltPreserves
     DEF Step
<1>2. ASSUME NEW r \in Clients,
             Begin(r) \/ Acquire(r) \/ Execute(r) \/ Unblock(r) \/ TaskEnds(r)
      PROVE  SessionInv'
  BY <1>2, BeginPreserves, AcquirePreserves, ExecutePreserves, UnblockPreserves,
     TaskEndsPreserves
<1>3. ASSUME NEW a \in Sessions, Age(a) PROVE SessionInv'
  BY <1>3, AgePreserves
<1>4. CASE EvictIdle
  BY <1>4, EvictIdlePreserves
<1>5. CASE ShutdownBegin \/ ShutdownAcquire \/ ShutdownStep
  BY <1>5, ShutdownBeginPreserves, ShutdownAcquirePreserves, ShutdownClearPreserves,
     ShutdownUnpublishPreserves, ShutdownSnapshotPreserves, ShutdownAwaitPreserves,
     ShutdownDrainPreserves DEF ShutdownStep
<1>6. CASE UNCHANGED vars
  BY <1>6 DEF vars, SessionInv, TypeOK, MutexInv, CallInv, PublishedInv, HolderInv,
     UnusedInv, UseInv, Kept, GuardInv, ShutdownInv, InUse, Idle
<1> QED
  BY <1>1, <1>2, <1>3, <1>4, <1>5, <1>6 DEF Next

(* Every reachable state satisfies the inductive invariant.                *)
THEOREM SessionInvariantHolds ==
    Spec => []SessionInv
BY InitEstablishes, NextPreserves, PTL DEF Spec

(* Type correctness of the registry, for every instance.                   *)
THEOREM TypeCorrectness ==
    Spec => []TypeOK
<1>1. SessionInv => TypeOK
  BY DEF SessionInv
<1> QED
  BY <1>1, SessionInvariantHolds, PTL

-----------------------------------------------------------------------------
(* The safety properties.                                                  *)

(* A session in use is published or being drained.                         *)
LEMMA InUseIsKept ==
    ASSUME SessionInv, NEW s \in Sessions, InUse(s)
    PROVE  Kept(s)
BY DEF SessionInv, UseInv, InUse

(* Two generations of one connection are never in use together: a session  *)
(* still used by a call or a transfer is waited for before its replacement *)
(* can be handed out.                                                      *)
THEOREM GenerationsAreExclusive ==
    Spec => []OneLiveGeneration
<1>1. ASSUME SessionInv, NEW s \in Sessions, NEW t \in Sessions, InUse(s), InUse(t),
             origin[s].conn = origin[t].conn
      PROVE  s = t
  <2> DEFINE c == origin[s].conn
  <2>1. Kept(s) /\ Kept(t)
    BY <1>1, InUseIsKept
  <2>2. ASSUME NEW u \in Sessions, NEW v \in Sessions, origin[u].conn = c, origin[v].conn = c,
               sessions[c] = u, Kept(v)
        PROVE  u = v
    <3>1. ASSUME NEW q \in Clients, pc[q] = "drain", work[q] = v PROVE FALSE
      <4>1. v # NoSession /\ v \in Sessions /\ u # NoSession
        OBVIOUS
      <4>2. call[q].kind # "test"
        BY <1>1, <3>1 DEF SessionInv, CallInv
      <4>3. call[q].conn = c
        BY <1>1, <2>2, <3>1, <4>1 DEF SessionInv, HolderInv
      <4>4. sessions[c] = NoSession
        BY <1>1, <3>1, <4>2, <4>3 DEF SessionInv, HolderInv
      <4> QED
        BY <2>2, <4>1, <4>4
    <3>2. v \notin doomed
      BY <1>1, <2>2 DEF SessionInv, ShutdownInv, TypeOK
    <3> QED
      BY <2>2, <3>1, <3>2 DEF Kept
  <2>3. ASSUME NEW q \in Clients, pc[q] = "drain", NEW w \in Clients, pc[w] = "drain"
        PROVE  q = w
    BY <1>1, <2>3 DEF SessionInv, MutexInv, Critical
  <2>4. ASSUME NEW q \in Clients, pc[q] = "drain" PROVE doomed = {}
    BY <1>1, <2>4 DEF SessionInv, ShutdownInv, Closing, Critical
  <2>5. ASSUME s \in doomed, t \in doomed PROVE s = t
    BY <1>1, <2>5 DEF SessionInv, ShutdownInv
  <2> QED
    BY <1>1, <2>1, <2>2, <2>3, <2>4, <2>5 DEF Kept
<1>2. SessionInv => OneLiveGeneration
  BY <1>1 DEF OneLiveGeneration
<1> QED
  BY <1>2, SessionInvariantHolds, PTL

(* A published session was built from the connection's descriptor.         *)
THEOREM PublishedSessionsMatch ==
    Spec => []PublishedMatchesDescriptor
<1>1. SessionInv => PublishedMatchesDescriptor
  BY DEF SessionInv, TypeOK, PublishedInv, PublishedMatchesDescriptor
<1> QED
  BY <1>1, SessionInvariantHolds, PTL

(* A request never retires a session somebody uses.                        *)
THEOREM RebuildsSpareUsedSessions ==
    Spec => []RebuildSparesUsedSessions
<1>1. SessionInv => RebuildSparesUsedSessions
  BY DEF SessionInv, UnusedInv, RebuildSparesUsedSessions
<1> QED
  BY <1>1, SessionInvariantHolds, PTL

(* Both lookups of a nested call return the same session.                  *)
THEOREM NestedCallsKeepTheirSession ==
    Spec => []NestedCallKeepsItsSession
<1>1. SessionInv => NestedCallKeepsItsSession
  BY DEF SessionInv, GuardInv, NestedCallKeepsItsSession
<1> QED
  BY <1>1, SessionInvariantHolds, PTL

(* Nobody has the mutex: what has no descriptor has neither a session nor  *)
(* a user.                                                                 *)
LEMMA QuietWhenFree ==
    SessionInv => DisconnectedIsQuiet
<1>1. ASSUME SessionInv, lifecycle = Free
      PROVE  /\ \A q \in Clients : pc[q] \notin Critical
             /\ shut \notin Closing /\ doomed = {}
  BY <1>1, ConstantsAssumption DEF SessionInv, MutexInv, ShutdownInv, Closing
<1>2. ASSUME SessionInv, lifecycle = Free, NEW c \in Conns, descriptors[c] = NoConfig
      PROVE  sessions[c] = NoSession
  BY <1>1, <1>2 DEF SessionInv, PublishedInv, Critical, Closing
<1>3. ASSUME SessionInv, lifecycle = Free, NEW c \in Conns, descriptors[c] = NoConfig,
             NEW s \in Sessions, origin[s].conn = c
      PROVE  ~InUse(s)
  BY <1>1, <1>2, <1>3, InUseIsKept DEF Kept, Critical
<1> QED
  BY <1>2, <1>3 DEF DisconnectedIsQuiet

(* Shutdown is over: nobody drains any more, and nothing is published.     *)
LEMMA NothingAfterShutdown ==
    SessionInv => ShutdownIsFinal
<1>1. ASSUME SessionInv, shut = "done", NEW s \in Sessions PROVE ~InUse(s)
  <2>1. origin[s].conn \in Conns
    BY <1>1 DEF SessionInv, TypeOK
  <2>2. /\ sessions[origin[s].conn] = NoSession
        /\ \A q \in Clients : pc[q] # "drain"
        /\ doomed = {}
    BY <1>1, <2>1 DEF SessionInv, ShutdownInv, Critical
  <2> QED
    BY <1>1, <2>2, InUseIsKept DEF Kept
<1> QED
  BY <1>1 DEF SessionInv, ShutdownInv, ShutdownIsFinal

(* Once a disconnect has answered, the connection has neither a session    *)
(* nor anything running; once shutdown has, nothing is connected and       *)
(* nothing runs, for good (connection() and shutdown() of lib.rs).         *)
THEOREM EndsLeaveNothing ==
    Spec => []EndsAreFinal
BY QuietWhenFree, NothingAfterShutdown, SessionInvariantHolds, PTL DEF EndsAreFinal

-----------------------------------------------------------------------------
(* The bound on open connections.  connect tests it before it waits and    *)
(* builds, and inserts the descriptor afterwards.                          *)

(* A connect between its test of the limit and its insertion.              *)
Room(r) == pc[r] \in {"retire", "drain", "build", "describe"} /\ call[r].kind = "connect"

RoomInv ==
    \A r \in Clients : Room(r) => Cardinality(DescribedConns) < MaxDescriptors

LimitInv == DescriptorLimit /\ RoomInv

(* Descriptors can be counted.                                             *)
LEMMA DescribedIsFinite ==
    /\ IsFiniteSet(DescribedConns)
    /\ Cardinality(DescribedConns) \in Nat
BY ConstantsAssumption, FS_Subset, FS_CardinalityType DEF DescribedConns

(* No action inserts a descriptor without the room seen before.            *)
LEMMA LimitStep ==
    SessionInv /\ LimitInv /\ [Next]_vars => LimitInv'
<1> SUFFICES ASSUME SessionInv, LimitInv, [Next]_vars PROVE LimitInv'
  OBVIOUS
<1>1. MaxDescriptors \in Nat
  BY ConstantsAssumption
<1>2. ASSUME UNCHANGED descriptors,
             \A q \in Clients : Room(q)' => Room(q)
      PROVE  LimitInv'
  BY <1>2 DEF LimitInv, DescriptorLimit, RoomInv, DescribedConns
<1>3. ASSUME NEW r \in Clients, AdminReplace(r) PROVE LimitInv'
  <2>1. DescribedConns' \subseteq DescribedConns \ {call[r].conn}
    BY <1>3 DEF AdminReplace, DescribedConns, SessionInv, TypeOK
  <2>2. \A q \in Clients : pc'[q] \in Critical => q = r
    BY <1>3 DEF AdminReplace, SessionInv, MutexInv, TypeOK, Critical
  <2>3. Cardinality(DescribedConns') <= Cardinality(DescribedConns)
    BY <2>1, DescribedIsFinite, FS_Subset
  <2>4. ASSUME call[r].kind = "connect"
        PROVE  Cardinality(DescribedConns') < MaxDescriptors
    <3>1. CASE Described(r)
      <4>1. call[r].conn \in DescribedConns
        BY <1>3, <2>4, <3>1, CallFacts
           DEF Described, DescribedConns, SessionInv, CallInv, AdminReplace
      <4>2. Cardinality(DescribedConns \ {call[r].conn}) = Cardinality(DescribedConns) - 1
        BY <4>1, DescribedIsFinite, FS_RemoveElement
      <4>3. /\ IsFiniteSet(DescribedConns \ {call[r].conn})
            /\ Cardinality(DescribedConns') <= Cardinality(DescribedConns \ {call[r].conn})
        BY <2>1, DescribedIsFinite, FS_RemoveElement, FS_Subset
      <4> QED
        BY <1>1, <2>1, <4>2, <4>3, DescribedIsFinite, FS_Subset, FS_CardinalityType
           DEF LimitInv, DescriptorLimit
    <3>2. CASE ~Described(r)
      <4>1. ~Full(r)
        BY <1>3, <2>4 DEF AdminReplace
      <4> QED
        BY <1>1, <2>3, <3>2, <4>1, DescribedIsFinite, <2>1, FS_Subset, FS_CardinalityType DEF Full
    <3> QED
      BY <3>1, <3>2
  <2>5. Cardinality(DescribedConns') \in Nat
    BY <2>1, DescribedIsFinite, FS_Subset, FS_CardinalityType
  <2> QED
    BY <1>1, <1>3, <2>2, <2>3, <2>4, <2>5, DescribedIsFinite
       DEF LimitInv, DescriptorLimit, RoomInv, Room, AdminReplace, Critical
<1>4. ASSUME NEW r \in Clients, Describe(r) PROVE LimitInv'
  <2>1. call[r].conn \in Conns /\ call[r].kind = "connect"
    BY <1>4, CallFacts DEF Describe, SessionInv, CallInv
  <2>2. DescribedConns' \subseteq DescribedConns \cup {call[r].conn}
    BY <1>4, <2>1 DEF Describe, DescribedConns, SessionInv, TypeOK
  <2>3. \A q \in Clients : pc'[q] \in Critical => q = r /\ pc'[q] = "publish"
    BY <1>4 DEF Describe, SessionInv, MutexInv, TypeOK, Critical
  <2>4. Cardinality(DescribedConns) < MaxDescriptors
    BY <1>4, <2>1 DEF Describe, LimitInv, RoomInv, Room
  <2>5. /\ IsFiniteSet(DescribedConns \cup {call[r].conn})
        /\ Cardinality(DescribedConns \cup {call[r].conn}) <= Cardinality(DescribedConns) + 1
    BY DescribedIsFinite, FS_AddElement
  <2>6. /\ Cardinality(DescribedConns') \in Nat
        /\ Cardinality(DescribedConns') <= Cardinality(DescribedConns \cup {call[r].conn})
    BY <2>2, <2>5, FS_Subset, FS_CardinalityType
  <2>7. Cardinality(DescribedConns \cup {call[r].conn}) \in Nat
    BY <2>5, FS_CardinalityType
  <2> QED
    BY <1>1, <2>3, <2>4, <2>5, <2>6, <2>7, DescribedIsFinite
       DEF LimitInv, DescriptorLimit, RoomInv, Room, Critical
<1>5. CASE ShutdownClear
  <2>1. DescribedConns' = {}
    BY <1>5 DEF ShutdownClear, DescribedConns
  <2>2. \A q \in Clients : pc'[q] \notin Critical
    BY <1>5, ConstantsAssumption DEF ShutdownClear, SessionInv, MutexInv, Closing, Critical
  <2> QED
    BY <1>1, <2>1, <2>2, FS_EmptySet DEF LimitInv, DescriptorLimit, RoomInv, Room, Critical
<1>6. CASE UNCHANGED vars
  BY <1>2, <1>6 DEF vars, registry, client, Room
<1>7. ASSUME NEW r \in Clients, Retire(r) \/ Drain(r) \/ Build(r)
      PROVE  LimitInv'
  <2>1. UNCHANGED descriptors /\ \A q \in Clients : Room(q)' => Room(q)
    BY <1>7 DEF Retire, Drain, Build, Room, SessionInv, TypeOK
  <2> QED
    BY <1>2, <2>1
<1>8. ASSUME NEW r \in Clients, LockedRebuild(r) \/ AdminTest(r)
      PROVE  LimitInv'
  <2>1. call[r].kind # "connect" /\ UNCHANGED <<descriptors, call>>
    BY <1>8 DEF LockedRebuild, AdminTest, RequestKinds
  <2>2. \A q \in Clients : Room(q)' => Room(q)
    BY <1>8, <2>1 DEF LockedRebuild, AdminTest, Room, SessionInv, TypeOK
  <2> QED
    BY <1>2, <2>1, <2>2
<1>9. ASSUME NEW r \in Clients,
             \/ Begin(r) \/ Dispatch(r) \/ LookupHit(r) \/ LookupMiss(r) \/ Acquire(r)
             \/ LockedHit(r) \/ LockedRefuse(r) \/ Entered(r) \/ Execute(r) \/ Unblock(r)
             \/ StartCheck(r) \/ StartInsert(r) \/ StartRefuse(r) \/ TaskEnds(r) \/ Return(r)
             \/ AdminRefuse(r) \/ AdminKeep(r) \/ BuildFails(r) \/ BuildTest(r)
             \/ PublishConnect(r) \/ PublishRebuilt(r)
      PROVE  LimitInv'
  <2>1. UNCHANGED descriptors
    BY <1>9 DEF Begin, Dispatch, LookupHit, LookupMiss, Acquire, LockedHit, LockedRefuse,
       Entered, Execute, Unblock, StartCheck, StartInsert, StartRefuse, TaskEnds, Return,
       AdminRefuse, AdminKeep, BuildFails, BuildTest, PublishConnect, PublishRebuilt
  <2>2. \A q \in Clients : q # r => pc'[q] = pc[q] /\ call'[q] = call[q]
    BY <1>9 DEF Begin, Dispatch, LookupHit, LookupMiss, Acquire, LockedHit, LockedRefuse,
       Entered, Execute, Unblock, StartCheck, StartInsert, StartRefuse, TaskEnds, Return,
       AdminRefuse, AdminKeep, BuildFails, BuildTest, PublishConnect, PublishRebuilt, Grant,
       SessionInv, TypeOK
  <2>3. pc'[r] \in {"retire", "drain", "build", "describe"} => UNCHANGED <<pc, call>>
    BY <1>9 DEF Begin, Dispatch, LookupHit, LookupMiss, Acquire, LockedHit, LockedRefuse,
       Entered, Execute, Unblock, StartCheck, StartInsert, StartRefuse, TaskEnds, Return,
       AdminRefuse, AdminKeep, BuildFails, BuildTest, PublishConnect, PublishRebuilt, Grant,
       Resume, SessionInv, TypeOK
  <2> QED
    BY <1>2, <2>1, <2>2, <2>3 DEF Room
<1>10. ASSUME \/ \E a \in Sessions : Age(a)
              \/ EvictIdle \/ ShutdownBegin \/ ShutdownAcquire
              \/ ShutdownUnpublish \/ ShutdownSnapshot \/ ShutdownAwait \/ ShutdownDrain
       PROVE  LimitInv'
  <2>1. UNCHANGED <<descriptors, pc, call>>
    BY <1>10 DEF Age, EvictIdle, ShutdownBegin, ShutdownAcquire, ShutdownUnpublish,
       ShutdownSnapshot, ShutdownAwait, ShutdownDrain
  <2> QED
    BY <1>2, <2>1 DEF Room
<1> QED
  BY <1>3, <1>4, <1>5, <1>6, <1>7, <1>8, <1>9, <1>10 DEF Next, Step, ShutdownStep

(* There are never more open connections than MaxDescriptors, although     *)
(* connect tests the limit long before it inserts the descriptor.          *)
THEOREM DescriptorsAreBounded ==
    Spec => []DescriptorLimit
<1>1. Init => LimitInv
  <2> SUFFICES ASSUME Init PROVE LimitInv
    OBVIOUS
  <2>1. DescribedConns = {}
    BY DEF Init, DescribedConns
  <2>2. Cardinality(DescribedConns) <= MaxDescriptors
    BY <2>1, FS_EmptySet, ConstantsAssumption
  <2> QED
    BY <2>2 DEF Init, LimitInv, DescriptorLimit, RoomInv, Room
<1>2. LimitInv => DescriptorLimit
  BY DEF LimitInv
<1> QED
  BY <1>1, <1>2, LimitStep, SessionInvariantHolds, PTL DEF Spec

-----------------------------------------------------------------------------
(* The sessions implement Registry.                                        *)

(* The two kinds of call that start a transfer.                            *)
Starts == {"start", "startTransfer"}

(* A call that is about to start a transfer has none yet.                  *)
StartInv ==
    \A r \in Clients :
        /\ pc[r] \in {"starting", "inserting"} => call[r].kind \in Starts
        /\ pc[r] \notin {"idle", "returning"} /\ call[r].kind \in Starts => task[r] = NoSession

(* A client asks for a transfer only when its last one is over.            *)
LEMMA StartStep == SessionInv /\ StartInv /\ [Next]_vars => StartInv'
<1> SUFFICES ASSUME SessionInv, StartInv, [Next]_vars PROVE StartInv'
  OBVIOUS
<1>1. ASSUME NEW r \in Clients, UNCHANGED <<call, task>>,
             pc[r] \notin {"idle", "returning"},
             \A q \in Clients : q # r => pc'[q] = pc[q],
             pc'[r] \in {"starting", "inserting"} => call[r].kind \in Starts
      PROVE  StartInv'
  BY <1>1 DEF StartInv
<1>2. ASSUME NEW r \in Clients, Begin(r) PROVE StartInv'
  <2>1. PICK k \in Calls : /\ k.kind \in Starts => task[r] = NoSession
                           /\ call' = [call EXCEPT ![r] = k]
    BY <1>2 DEF Begin, Starts
  <2>2. task' = task /\ pc'[r] \in {"lookup", "dispatch"} /\ call'[r] = k
    BY <1>2, <2>1 DEF Begin, SessionInv, TypeOK
  <2>3. \A q \in Clients : q # r => pc'[q] = pc[q] /\ call'[q] = call[q]
    BY <1>2, <2>1 DEF Begin, SessionInv, TypeOK
  <2> QED
    BY <2>1, <2>2, <2>3 DEF StartInv
<1>3. ASSUME NEW r \in Clients, Return(r) PROVE StartInv'
  BY <1>3 DEF Return, StartInv, SessionInv, TypeOK
<1>4. ASSUME NEW r \in Clients, TaskEnds(r) PROVE StartInv'
  BY <1>4 DEF TaskEnds, StartInv, SessionInv, TypeOK
<1>5. ASSUME NEW r \in Clients, StartInsert(r) PROVE StartInv'
  BY <1>5 DEF StartInsert, StartInv, SessionInv, TypeOK
<1>6. ASSUME NEW r \in Clients,
             \/ Dispatch(r) \/ LookupHit(r) \/ LookupMiss(r) \/ Acquire(r)
             \/ LockedHit(r) \/ LockedRefuse(r) \/ LockedRebuild(r) \/ Entered(r) \/ Execute(r)
             \/ Unblock(r) \/ StartCheck(r) \/ StartRefuse(r) \/ AdminRefuse(r) \/ AdminKeep(r)
             \/ AdminReplace(r) \/ AdminTest(r) \/ Retire(r) \/ Drain(r) \/ BuildFails(r)
             \/ BuildTest(r) \/ Build(r) \/ Describe(r) \/ PublishConnect(r) \/ PublishRebuilt(r)
      PROVE  StartInv'
  <2> USE <1>6 DEF Dispatch, LookupHit, LookupMiss, Acquire, LockedHit, LockedRefuse,
       LockedRebuild, Entered, Execute, Unblock, StartCheck, StartRefuse, AdminRefuse, AdminKeep,
       AdminReplace, AdminTest, Retire, Drain, BuildFails, BuildTest, Build, Describe,
       PublishConnect, PublishRebuilt, Grant
  <2>1. UNCHANGED <<call, task>> /\ pc[r] \notin {"idle", "returning"}
    OBVIOUS
  <2>2. \A q \in Clients : q # r => pc'[q] = pc[q]
    BY DEF SessionInv, TypeOK
  <2>3. pc'[r] \in {"starting", "inserting"} => call[r].kind \in Starts
    BY DEF SessionInv, TypeOK, Resume, Starts, StartInv
  <2> QED
    BY <1>1, <2>1, <2>2, <2>3
<1>7. ASSUME \/ UNCHANGED vars
             \/ \E a \in Sessions : Age(a)
             \/ EvictIdle \/ ShutdownBegin \/ ShutdownAcquire \/ ShutdownClear
             \/ ShutdownUnpublish \/ ShutdownSnapshot \/ ShutdownAwait \/ ShutdownDrain
       PROVE  StartInv'
  <2>1. UNCHANGED <<task, pc, call>>
    BY <1>7 DEF vars, Age, EvictIdle, ShutdownBegin, ShutdownAcquire, ShutdownClear,
       ShutdownUnpublish, ShutdownSnapshot, ShutdownAwait, ShutdownDrain
  <2> QED
    BY <2>1 DEF StartInv
<1> QED
  BY <1>2, <1>3, <1>4, <1>5, <1>6, <1>7 DEF Next, Step, ShutdownStep

(* What Registry sees as used is what a session in use was built from.     *)
LEMMA UsesAre ==
    ASSUME SessionInv
    PROVE  \A x \in Promise!Used : \E s \in Sessions : InUse(s) /\ x = origin[s]
<1>1. ASSUME NEW x \in Promise!Used
      PROVE  \E s \in Sessions : InUse(s) /\ x = origin[s]
  <2>1. PICK r \in Clients : x \in Uses(outer[r]) \cup Uses(task[r])
    BY DEF Promise!Used
  <2>2. PICK s \in {outer[r], task[r]} : x \in Uses(s)
    BY <2>1
  <2>3. s # NoSession /\ x = origin[s]
    BY <2>2 DEF Uses
  <2>4. s \in Sessions
    BY <2>3 DEF SessionInv, TypeOK
  <2> QED
    BY <2>2, <2>3, <2>4 DEF InUse
<1> QED
  BY <1>1

(* Nobody has the mutex: a connection without descriptor is quiet.         *)
LEMMA FreeIsSettled == SessionInv /\ lifecycle = Free => Promise!Settled
BY UsesAre, QuietWhenFree DEF Promise!Settled, Promise!Quiet, DisconnectedIsQuiet

(* A session that is built leaves the others what they were built from.    *)
LEMMA SameUses ==
    ASSUME SessionInv, \A s \in Sessions : origin'[s] = origin[s]
    PROVE  /\ UNCHANGED outer => UNCHANGED [r \in Clients |-> Uses(outer[r])]
           /\ UNCHANGED task => UNCHANGED [r \in Clients |-> Uses(task[r])]
<1>1. ASSUME NEW s \in 0 .. generation
      PROVE  (IF s = NoSession THEN {} ELSE {origin'[s]}) = Uses(s)
  <2>1. CASE s = 0
    BY <2>1 DEF Uses
  <2>2. CASE s # 0
    <3>1. s \in Sessions
      BY <2>2 DEF SessionInv, TypeOK
    <3>2. origin'[s] = origin[s]
      BY <3>1
    <3> QED
      BY <2>2, <3>2 DEF Uses
  <2> QED
    BY <2>1, <2>2
<1>2. \A r \in Clients : outer[r] \in 0 .. generation /\ task[r] \in 0 .. generation
  BY DEF SessionInv, TypeOK
<1>3. ASSUME UNCHANGED outer
      PROVE  [r \in Clients |-> Uses(outer[r])]' = [r \in Clients |-> Uses(outer[r])]
  <2>1. \A r \in Clients : Uses(outer[r])' = Uses(outer[r])
    BY <1>1, <1>2, <1>3 DEF Uses
  <2> QED
    BY <2>1
<1>4. ASSUME UNCHANGED task
      PROVE  [r \in Clients |-> Uses(task[r])]' = [r \in Clients |-> Uses(task[r])]
  <2>1. \A r \in Clients : Uses(task[r])' = Uses(task[r])
    BY <1>1, <1>2, <1>4 DEF Uses
  <2> QED
    BY <2>1
<1> QED
  BY <1>3, <1>4

(* Registry sees nothing of steps that leave descriptors and guards        *)
(* alone.                                                                  *)
LEMMA StutterMaps ==
    ASSUME SessionInv, UNCHANGED <<descriptors, outer, task>>,
           \A s \in Sessions : origin'[s] = origin[s],
           lifecycle' = Free <=> lifecycle = Free, shut' = "done" <=> shut = "done"
    PROVE  UNCHANGED Promise!vars
<1>1. /\ UNCHANGED [r \in Clients |-> Uses(outer[r])]
      /\ UNCHANGED [r \in Clients |-> Uses(task[r])]
  BY SameUses
<1>2. UNCHANGED (lifecycle # Free) /\ UNCHANGED (shut = "done")
  OBVIOUS
<1> QED
  BY <1>1, <1>2 DEF Promise!vars

(* The mutex is released: what is said of the connections is true.         *)
LEMMA AnswerMaps ==
    ASSUME SessionInv, SessionInv', UNCHANGED <<descriptors, outer, task>>,
           \A s \in Sessions : origin'[s] = origin[s],
           lifecycle # Free, lifecycle' = Free,
           \/ shut' = "done" <=> shut = "done"
           \/ shut' = "done" /\ \A c \in Conns : descriptors[c] = NoConfig
    PROVE  Promise!Answer
<1>1. /\ UNCHANGED [r \in Clients |-> Uses(outer[r])]
      /\ UNCHANGED [r \in Clients |-> Uses(task[r])]
  BY SameUses
<1>2. Promise!Settled'
  <2>1. (SessionInv /\ lifecycle = Free)'
    OBVIOUS
  <2> QED
    BY <2>1, FreeIsSettled, PTL
<1>3. Promise!Answered
  BY <1>2 DEF Promise!Answered
<1>4. \/ UNCHANGED (shut = "done")
      \/ (shut = "done")' = TRUE /\ \A c \in Conns : descriptors[c] = NoConfig
  OBVIOUS
<1> QED
  BY <1>1, <1>3, <1>4 DEF Promise!Answer

(* A call gets its first session: it goes to what its connection is        *)
(* described by.                                                           *)
LEMMA EnterMaps ==
    ASSUME SessionInv, SessionInv', NEW r \in Clients, NEW c \in Conns, NEW s \in Sessions,
           outer[r] = NoSession, outer' = [outer EXCEPT ![r] = s],
           UNCHANGED <<descriptors, origin, task, shut>>,
           descriptors[c] # NoConfig, origin[s] = [conn |-> c, config |-> descriptors[c]],
           \/ lifecycle' = Free <=> lifecycle = Free
           \/ lifecycle' = Free /\ lifecycle # Free
    PROVE  Promise!Next
<1> DEFINE old == [q \in Clients |-> Uses(outer[q])]
           new == [q \in Clients |-> Uses(outer[q])']
<1>1. old[r] = {}
  BY DEF Uses
<1>2. new = [old EXCEPT ![r] = {[conn |-> c, config |-> descriptors[c]]}]
  <2>1. outer'[r] = s /\ s # NoSession
    BY DEF SessionInv, TypeOK
  <2>2. Uses(outer[r])' = {origin[s]}
    BY <2>1 DEF Uses
  <2>3. ASSUME NEW q \in Clients, q # r PROVE Uses(outer[q])' = Uses(outer[q])
    <3>1. outer'[q] = outer[q]
      BY <2>3 DEF SessionInv, TypeOK
    <3> QED
      BY <3>1 DEF Uses
  <2> QED
    BY <2>2, <2>3
<1>3. UNCHANGED [q \in Clients |-> Uses(task[q])]
  BY SameUses
<1>4. Promise!Answered \/ UNCHANGED (lifecycle # Free)
  <2>1. CASE lifecycle' = Free /\ lifecycle # Free
    <3>1. (SessionInv /\ lifecycle = Free)'
      BY <2>1
    <3>2. Promise!Settled'
      BY <3>1, FreeIsSettled, PTL
    <3> QED
      BY <2>1, <3>2 DEF Promise!Answered
  <2>2. CASE lifecycle' = Free <=> lifecycle = Free
    BY <2>2
  <2> QED
    BY <2>1, <2>2
<1>5. Promise!Enter(r)
  BY <1>1, <1>2, <1>3, <1>4 DEF Promise!Enter
<1> QED
  BY <1>5 DEF Promise!Next

(* A session that a lookup finds was built from the descriptor.            *)
LEMMA HitIsRight ==
    ASSUME SessionInv, NEW r \in Clients, call[r] \in Calls, Hit(r)
    PROVE  LET c == call[r].conn IN
           /\ c \in Conns /\ sessions[c] \in Sessions /\ descriptors[c] # NoConfig
           /\ origin[sessions[c]] = [conn |-> c, config |-> descriptors[c]]
<1> DEFINE c == call[r].conn
           s == sessions[c]
<1>1. c \in Conns /\ s \in Sessions /\ descriptors[c] # NoConfig
  BY CallFacts DEF Hit, Described, SessionInv, TypeOK
<1>2. origin[s].conn = c /\ origin[s].config = descriptors[c]
  BY <1>1 DEF SessionInv, PublishedInv
<1>3. origin[s] \in [conn : Conns, config : Configs]
  BY <1>1 DEF SessionInv, TypeOK
<1> QED
  BY <1>1, <1>2, <1>3

(* The first lookup of a call enters; that of a nested dispatch does not   *)
(* show.                                                                   *)
LEMMA LookupHitMaps ==
    ASSUME SessionInv, SessionInv', NEW r \in Clients, LookupHit(r)
    PROVE  [Promise!Next]_(Promise!vars)
<1>1. call[r] \in Calls /\ Hit(r)
  BY DEF LookupHit, SessionInv, CallInv
<1>2. UNCHANGED <<descriptors, origin, task, shut, lifecycle>>
  BY DEF LookupHit
<1>3. CASE outer[r] = NoSession
  <2>1. outer' = [outer EXCEPT ![r] = sessions[call[r].conn]]
    BY <1>3 DEF LookupHit, Grant, SessionInv, TypeOK
  <2> QED
    BY <1>1, <1>2, <1>3, <2>1, HitIsRight, EnterMaps
<1>4. CASE outer[r] # NoSession
  <2>1. outer' = outer
    BY <1>4 DEF LookupHit, Grant, SessionInv, TypeOK
  <2> QED
    BY <1>2, <2>1, StutterMaps
<1> QED
  BY <1>3, <1>4

(* The lookup under the mutex enters, if it is the first, and answers.     *)
LEMMA LockedHitMaps ==
    ASSUME SessionInv, SessionInv', NEW r \in Clients, LockedHit(r)
    PROVE  [Promise!Next]_(Promise!vars)
<1>1. call[r] \in Calls /\ Hit(r)
  BY DEF LockedHit, SessionInv, CallInv
<1>2. /\ UNCHANGED <<descriptors, origin, task, shut>>
      /\ lifecycle # Free /\ lifecycle' = Free
  BY ConstantsAssumption DEF LockedHit, SessionInv, MutexInv, Critical
<1>3. CASE outer[r] = NoSession
  <2>1. outer' = [outer EXCEPT ![r] = sessions[call[r].conn]]
    BY <1>3 DEF LockedHit, Grant, SessionInv, TypeOK
  <2> QED
    BY <1>1, <1>2, <1>3, <2>1, HitIsRight, EnterMaps
<1>4. CASE outer[r] # NoSession
  <2>1. outer' = outer
    BY <1>4 DEF LockedHit, Grant, SessionInv, TypeOK
  <2>2. Promise!Answer
    BY <1>2, <2>1, AnswerMaps
  <2> QED
    BY <2>2 DEF Promise!Next
<1> QED
  BY <1>3, <1>4

(* A rebuild enters with the new session and answers.                      *)
LEMMA PublishRebuiltMaps ==
    ASSUME SessionInv, SessionInv', NEW r \in Clients, PublishRebuilt(r)
    PROVE  [Promise!Next]_(Promise!vars)
<1> DEFINE c == call[r].conn
           s == work[r]
<1>1. /\ call[r] \in Calls /\ call[r].kind \in RequestKinds /\ outer[r] = NoSession
      /\ c \in Conns /\ pc[r] = "publish"
  BY RebuilderHoldsNothing, CallFacts DEF PublishRebuilt, SessionInv, CallInv
<1>2. /\ UNCHANGED <<descriptors, origin, task, shut>>
      /\ lifecycle # Free /\ lifecycle' = Free
      /\ outer' = [outer EXCEPT ![r] = s]
  BY <1>1, ConstantsAssumption DEF PublishRebuilt, Grant, SessionInv, TypeOK, MutexInv, Critical
<1>3. s \in Sessions /\ descriptors[c] # NoConfig
  BY <1>1 DEF SessionInv, TypeOK, HolderInv
<1>4. origin[s].conn = c /\ origin[s].config = descriptors[c]
  BY <1>1 DEF SessionInv, HolderInv
<1>5. origin[s] \in [conn : Conns, config : Configs]
  BY <1>3 DEF SessionInv, TypeOK
<1>6. origin[s] = [conn |-> c, config |-> descriptors[c]]
  BY <1>4, <1>5
<1> QED
  BY <1>1, <1>2, <1>3, <1>6, EnterMaps

(* A call that returns leaves.                                             *)
LEMMA ReturnMaps ==
    ASSUME SessionInv, NEW r \in Clients, Return(r)
    PROVE  Promise!Next
<1>1. /\ outer' = [outer EXCEPT ![r] = NoSession]
      /\ UNCHANGED <<descriptors, origin, task, shut, lifecycle>>
  BY DEF Return
<1>2. [q \in Clients |-> Uses(outer[q])]' = [[q \in Clients |-> Uses(outer[q])] EXCEPT ![r] = {}]
  <2>1. ASSUME NEW q \in Clients
        PROVE  Uses(outer[q])' = IF q = r THEN {} ELSE Uses(outer[q])
    BY <1>1 DEF Uses, SessionInv, TypeOK
  <2> QED
    BY <2>1
<1>3. UNCHANGED [q \in Clients |-> Uses(task[q])]
  BY <1>1, SameUses
<1>4. Promise!Leave(r)
  BY <1>1, <1>2, <1>3 DEF Promise!Leave
<1> QED
  BY <1>4 DEF Promise!Next

(* A transfer goes where its call goes.                                    *)
LEMMA StartInsertMaps ==
    ASSUME SessionInv, StartInv, NEW r \in Clients, StartInsert(r)
    PROVE  Promise!Next
<1>1. /\ task[r] = NoSession /\ task' = [task EXCEPT ![r] = outer[r]]
      /\ UNCHANGED <<descriptors, origin, outer, shut, lifecycle>>
  BY DEF StartInsert, StartInv
<1>2. [q \in Clients |-> Uses(task[q])]'
        = [[q \in Clients |-> Uses(task[q])] EXCEPT ![r] = Uses(outer[r])]
  <2>1. ASSUME NEW q \in Clients
        PROVE  Uses(task[q])' = IF q = r THEN Uses(outer[r]) ELSE Uses(task[q])
    BY <1>1 DEF Uses, SessionInv, TypeOK
  <2> QED
    BY <2>1
<1>3. UNCHANGED [q \in Clients |-> Uses(outer[q])]
  BY <1>1, SameUses
<1>4. Uses(task[r]) = {}
  BY <1>1 DEF Uses
<1>5. Promise!Transfer(r)
  BY <1>1, <1>2, <1>3, <1>4 DEF Promise!Transfer
<1> QED
  BY <1>5 DEF Promise!Next

(* A transfer ends.                                                        *)
LEMMA TaskEndsMaps ==
    ASSUME SessionInv, NEW r \in Clients, TaskEnds(r)
    PROVE  Promise!Next
<1>1. /\ task' = [task EXCEPT ![r] = NoSession]
      /\ UNCHANGED <<descriptors, origin, outer, shut, lifecycle>>
  BY DEF TaskEnds
<1>2. [q \in Clients |-> Uses(task[q])]' = [[q \in Clients |-> Uses(task[q])] EXCEPT ![r] = {}]
  <2>1. ASSUME NEW q \in Clients
        PROVE  Uses(task[q])' = IF q = r THEN {} ELSE Uses(task[q])
    BY <1>1 DEF Uses, SessionInv, TypeOK
  <2> QED
    BY <2>1
<1>3. UNCHANGED [q \in Clients |-> Uses(outer[q])]
  BY <1>1, SameUses
<1>4. Promise!End(r)
  BY <1>1, <1>2, <1>3 DEF Promise!End
<1> QED
  BY <1>4 DEF Promise!Next

(* Who takes the mutex may change the connections.                         *)
LEMMA ChangeMaps ==
    ASSUME SessionInv, ShutdownAcquire \/ \E r \in Clients : Acquire(r)
    PROVE  Promise!Next
<1>1. /\ lifecycle = Free /\ lifecycle' # Free
      /\ UNCHANGED <<descriptors, origin, outer, task>>
      /\ shut' = "done" <=> shut = "done"
  BY ConstantsAssumption DEF Acquire, ShutdownAcquire
<1>2. /\ UNCHANGED [r \in Clients |-> Uses(outer[r])]
      /\ UNCHANGED [r \in Clients |-> Uses(task[r])]
  BY <1>1, SameUses
<1>3. Promise!Change
  BY <1>1, <1>2 DEF Promise!Change
<1> QED
  BY <1>3 DEF Promise!Next

(* Connect, disconnect and shutdown forget descriptors.                    *)
LEMMA ForgetMaps ==
    ASSUME SessionInv, ShutdownClear \/ \E r \in Clients : AdminReplace(r)
    PROVE  Promise!Next
<1>1. /\ lifecycle # Free
      /\ UNCHANGED <<lifecycle, origin, outer, task>>
      /\ shut' = "done" <=> shut = "done"
  BY ConstantsAssumption
     DEF AdminReplace, ShutdownClear, SessionInv, MutexInv, Closing, Critical
<1>2. \E gone \in SUBSET Conns :
         descriptors' = [c \in Conns |-> IF c \in gone THEN NoConfig ELSE descriptors[c]]
  <2>1. CASE ShutdownClear
    <3>1. descriptors' = [c \in Conns |-> IF c \in Conns THEN NoConfig ELSE descriptors[c]]
      BY <2>1 DEF ShutdownClear
    <3> QED
      BY <3>1
  <2>2. ASSUME NEW r \in Clients, AdminReplace(r)
        PROVE  \E gone \in SUBSET Conns :
                  descriptors' = [c \in Conns |-> IF c \in gone THEN NoConfig ELSE descriptors[c]]
    <3>1. call[r].conn \in Conns
      BY <2>2, CallFacts DEF AdminReplace, SessionInv, CallInv
    <3>2. descriptors' = [c \in Conns |-> IF c \in {call[r].conn} THEN NoConfig
                                          ELSE descriptors[c]]
      BY <2>2, <3>1 DEF AdminReplace, SessionInv, TypeOK
    <3> QED
      BY <3>1, <3>2
  <2> QED
    BY <2>1, <2>2
<1>3. /\ UNCHANGED [r \in Clients |-> Uses(outer[r])]
      /\ UNCHANGED [r \in Clients |-> Uses(task[r])]
  BY <1>1, SameUses
<1>4. Promise!Forget
  BY <1>1, <1>2, <1>3 DEF Promise!Forget
<1> QED
  BY <1>4 DEF Promise!Next

(* A connect describes its connection when nobody uses it.                 *)
LEMMA DescribeMaps ==
    ASSUME SessionInv, NEW r \in Clients, Describe(r)
    PROVE  Promise!Next
<1> DEFINE c == call[r].conn
           k == call[r].config
<1>1. pc[r] = "describe" /\ call[r].kind = "connect" /\ c \in Conns /\ k \in Configs
  BY CallFacts DEF Describe, SessionInv, CallInv, AdminKinds
<1>2. /\ lifecycle = r /\ lifecycle # Free /\ shut \notin Closing \cup {"done"}
      /\ descriptors[c] = NoConfig /\ sessions[c] = NoSession /\ doomed = {}
      /\ \A q \in Clients : pc[q] # "drain"
  <2>1. lifecycle = r /\ lifecycle # Free /\ \A q \in Clients : pc[q] # "drain"
    BY <1>1, ConstantsAssumption DEF SessionInv, MutexInv, Critical
  <2>2. shut \notin Closing \cup {"done"}
    BY <1>1 DEF SessionInv, ShutdownInv, Critical
  <2>3. doomed = {}
    BY <2>2 DEF SessionInv, ShutdownInv, Closing
  <2>4. descriptors[c] = NoConfig /\ sessions[c] = NoSession
    BY <1>1 DEF SessionInv, HolderInv, AdminKinds
  <2> QED
    BY <2>1, <2>2, <2>3, <2>4
<1>3. /\ descriptors' = [descriptors EXCEPT ![c] = k]
      /\ UNCHANGED <<lifecycle, origin, outer, task, shut>>
  BY DEF Describe
<1>4. Promise!Quiet(c)
  <2>1. ASSUME NEW s \in Sessions, InUse(s), origin[s].conn = c PROVE FALSE
    BY <1>2, <2>1, InUseIsKept DEF Kept
  <2> QED
    BY <2>1, UsesAre DEF Promise!Quiet
<1>5. /\ UNCHANGED [q \in Clients |-> Uses(outer[q])]
      /\ UNCHANGED [q \in Clients |-> Uses(task[q])]
  BY <1>3, SameUses
<1>6. Promise!Describe
  BY <1>1, <1>2, <1>3, <1>4, <1>5 DEF Promise!Describe
<1> QED
  BY <1>6 DEF Promise!Next

(* Building a session leaves the others what they were built from.         *)
LEMMA BuildKeepsOrigins ==
    ASSUME SessionInv, NEW r \in Clients, NewSession(r)
    PROVE  \A s \in Sessions : origin'[s] = origin[s]
BY DEF NewSession, SessionInv, TypeOK

(* Calls that release the mutex answer.                                    *)
LEMMA AnswersMap ==
    ASSUME SessionInv, SessionInv', NEW r \in Clients,
           \/ LockedRefuse(r) \/ AdminRefuse(r) \/ AdminKeep(r) \/ BuildFails(r)
           \/ BuildTest(r) \/ PublishConnect(r)
           \/ Drain(r) /\ call[r].kind = "disconnect"
    PROVE  Promise!Next
<1>1. /\ lifecycle # Free /\ lifecycle' = Free
      /\ UNCHANGED <<descriptors, outer, task, shut>>
  <2>1. pc[r] \in Critical => lifecycle # Free
    BY ConstantsAssumption DEF SessionInv, MutexInv
  <2> QED
    BY <2>1 DEF LockedRefuse, AdminRefuse, AdminKeep, BuildFails, BuildTest, PublishConnect,
                Drain, Critical
<1>2. \A s \in Sessions : origin'[s] = origin[s]
  <2>1. CASE BuildTest(r)
    BY <2>1, BuildKeepsOrigins DEF BuildTest
  <2>2. CASE ~BuildTest(r)
    BY <2>2 DEF LockedRefuse, AdminRefuse, AdminKeep, BuildFails, PublishConnect, Drain
  <2> QED
    BY <2>1, <2>2
<1>3. Promise!Answer
  BY <1>1, <1>2, AnswerMaps
<1> QED
  BY <1>3 DEF Promise!Next

(* Shutdown answers when everything is over.                               *)
LEMMA ShutdownDrainMaps ==
    ASSUME SessionInv, SessionInv', ShutdownDrain
    PROVE  Promise!Next
<1>1. /\ shut = "drain" /\ shut' = "done" /\ lifecycle' = Free
      /\ UNCHANGED <<descriptors, origin, outer, task>>
  BY DEF ShutdownDrain
<1>2. lifecycle # Free /\ \A c \in Conns : descriptors[c] = NoConfig
  BY <1>1, ConstantsAssumption DEF SessionInv, MutexInv, ShutdownInv, Closing
<1>3. Promise!Answer
  BY <1>1, <1>2, AnswerMaps
<1> QED
  BY <1>3 DEF Promise!Next

(* What Registry does not see of a client's call: lookups that miss,       *)
(* waiting, retiring and building.                                         *)
LEMMA HiddenSteps ==
    ASSUME SessionInv, NEW r \in Clients,
           \/ Begin(r) \/ Dispatch(r) \/ LookupMiss(r) \/ LockedRebuild(r) \/ Entered(r)
           \/ Execute(r) \/ Unblock(r) \/ StartCheck(r) \/ StartRefuse(r) \/ AdminTest(r)
           \/ Retire(r) \/ Build(r)
           \/ Drain(r) /\ call[r].kind # "disconnect"
    PROVE  UNCHANGED Promise!vars
<1>1. UNCHANGED <<descriptors, outer, task, shut, lifecycle>>
  BY DEF Begin, Dispatch, LookupMiss, LockedRebuild, Entered, Execute, Unblock, StartCheck,
         StartRefuse, AdminTest, Retire, Build, Drain
<1>2. \A s \in Sessions : origin'[s] = origin[s]
  <2>1. CASE Build(r)
    BY <2>1, BuildKeepsOrigins DEF Build
  <2>2. CASE ~Build(r)
    BY <2>2 DEF Begin, Dispatch, LookupMiss, LockedRebuild, Entered, Execute, Unblock,
                StartCheck, StartRefuse, AdminTest, Retire, Drain
  <2> QED
    BY <2>1, <2>2
<1> QED
  BY <1>1, <1>2, StutterMaps

(* It sees neither time nor maintenance, nor how shutdown proceeds.        *)
LEMMA HiddenProgress ==
    ASSUME SessionInv,
           \/ \E s \in Sessions : Age(s)
           \/ EvictIdle \/ ShutdownBegin \/ ShutdownUnpublish \/ ShutdownSnapshot
           \/ ShutdownAwait \/ UNCHANGED vars
    PROVE  UNCHANGED Promise!vars
<1>1. /\ UNCHANGED <<descriptors, origin, outer, task, lifecycle>>
      /\ shut' = "done" <=> shut = "done"
  BY DEF Age, EvictIdle, ShutdownBegin, ShutdownUnpublish, ShutdownSnapshot, ShutdownAwait, vars
<1> QED
  BY <1>1, StutterMaps

(* Every step of the sessions is a step of Registry, or none.              *)
LEMMA StepMaps ==
    SessionInv /\ SessionInv' /\ StartInv /\ [Next]_vars => [Promise!Next]_(Promise!vars)
<1> SUFFICES ASSUME SessionInv, SessionInv', StartInv, [Next]_vars
             PROVE  [Promise!Next]_(Promise!vars)
  OBVIOUS
<1>1. ASSUME NEW r \in Clients, Step(r) \/ Begin(r) \/ Execute(r) \/ Unblock(r) \/ TaskEnds(r)
      PROVE  [Promise!Next]_(Promise!vars)
  BY <1>1, HiddenSteps, AnswersMap, LookupHitMaps, LockedHitMaps, PublishRebuiltMaps, ReturnMaps,
     StartInsertMaps, TaskEndsMaps, ForgetMaps, DescribeMaps DEF Step
<1>2. CASE ShutdownAcquire \/ \E r \in Clients : Acquire(r)
  BY <1>2, ChangeMaps
<1>3. CASE ShutdownStep
  BY <1>3, ForgetMaps, ShutdownDrainMaps, HiddenProgress DEF ShutdownStep
<1>4. CASE EvictIdle \/ ShutdownBegin \/ UNCHANGED vars \/ \E s \in Sessions : Age(s)
  BY <1>4, HiddenProgress
<1> QED
  BY <1>1, <1>2, <1>3, <1>4 DEF Next

(* The registry of sessions does what Registry promises: a call goes to    *)
(* the configuration its connection has when it begins, nobody uses a      *)
(* configuration that was replaced, and answers are true (lib.rs,          *)
(* Plugin).                                                                *)
THEOREM SessionsImplementRegistry ==
    Spec => ImplementsRegistry
<1>1. Init => Promise!Init
  BY ConstantsAssumption DEF Init, Promise!Init, Uses
<1>2. Init => StartInv
  BY DEF Init, StartInv
<1> QED
  BY <1>1, <1>2, StartStep, StepMaps, SessionInvariantHolds, PTL
     DEF Spec, ImplementsRegistry, Promise!Spec

(* The agreement, with the types it needs.                                 *)
AgreementInv ==
    /\ descriptors \in [Conns -> Configs \cup {NoConfig}]
    /\ \A r \in Clients : /\ Uses(outer[r]) \subseteq [conn : Conns, config : Configs]
                          /\ Uses(task[r]) \subseteq [conn : Conns, config : Configs]
    /\ Promise!OneConfiguration

(* Calls enter with the descriptor, transfers follow their calls, and      *)
(* nobody uses a connection that is described anew.                        *)
LEMMA AgreementKept == AgreementInv /\ Promise!Next => AgreementInv'
<1> SUFFICES ASSUME AgreementInv, Promise!Next PROVE AgreementInv'
  OBVIOUS
<1>1. ASSUME Promise!Used' \subseteq Promise!Used, UNCHANGED descriptors,
             \A r \in Clients : (Uses(outer[r]) \cup Uses(task[r]))' \subseteq Promise!Used
      PROVE AgreementInv'
  <2>1. Promise!OneConfiguration'
    BY <1>1 DEF AgreementInv, Promise!OneConfiguration
  <2>2. Promise!Used \subseteq [conn : Conns, config : Configs]
    BY DEF AgreementInv, Promise!Used
  <2> QED
    BY <1>1, <2>1, <2>2 DEF AgreementInv
<1>2. ASSUME NEW r \in Clients, Promise!Leave(r) PROVE AgreementInv'
  <2>1. \A q \in Clients : Uses(outer[q])' \subseteq Uses(outer[q]) /\ Uses(task[q])' = Uses(task[q])
    BY <1>2 DEF Promise!Leave
  <2>2. Promise!Used' \subseteq Promise!Used
    BY <2>1 DEF Promise!Used
  <2> QED
    BY <1>1, <1>2, <2>1, <2>2 DEF Promise!Leave, Promise!Used
<1>3. ASSUME NEW r \in Clients, Promise!End(r) PROVE AgreementInv'
  <2>1. \A q \in Clients : Uses(task[q])' \subseteq Uses(task[q]) /\ Uses(outer[q])' = Uses(outer[q])
    BY <1>3 DEF Promise!End
  <2>2. Promise!Used' \subseteq Promise!Used
    BY <2>1 DEF Promise!Used
  <2> QED
    BY <1>1, <1>3, <2>1, <2>2 DEF Promise!End, Promise!Used
<1>4. ASSUME NEW r \in Clients, Promise!Transfer(r) PROVE AgreementInv'
  <2>1. \A q \in Clients :
           /\ Uses(task[q])' = IF q = r THEN Uses(outer[r]) ELSE Uses(task[q])
           /\ Uses(outer[q])' = Uses(outer[q])
    BY <1>4 DEF Promise!Transfer
  <2>2. Promise!Used' \subseteq Promise!Used
    BY <2>1 DEF Promise!Used
  <2> QED
    BY <1>1, <1>4, <2>1, <2>2 DEF Promise!Transfer, Promise!Used
<1>5. ASSUME NEW r \in Clients, Promise!Enter(r) PROVE AgreementInv'
  <2>1. PICK c \in Conns :
           /\ descriptors[c] # NoConfig
           /\ \A q \in Clients :
                 Uses(outer[q])' = IF q = r THEN {[conn |-> c, config |-> descriptors[c]]}
                                   ELSE Uses(outer[q])
    BY <1>5 DEF Promise!Enter
  <2>2. /\ \A q \in Clients : Uses(task[q])' = Uses(task[q])
        /\ descriptors' = descriptors
    BY <1>5 DEF Promise!Enter
  <2>3. PICK new \in [conn : Conns, config : Configs] :
           new = [conn |-> c, config |-> descriptors[c]]
    BY <2>1 DEF AgreementInv
  <2>4. new.conn = c /\ new.config = descriptors[c]
    BY <2>3
  <2>5. Promise!Used' \subseteq Promise!Used \cup {new}
    BY <2>1, <2>2, <2>3 DEF Promise!Used
  <2>6. \A x \in Promise!Used : x.conn = c => x = new
    <3>1. ASSUME NEW x \in Promise!Used, x.conn = c PROVE x = new
      <4>1. x \in [conn : Conns, config : Configs]
        BY DEF AgreementInv, Promise!Used
      <4>2. x.config = descriptors[c]
        BY <2>1, <3>1 DEF AgreementInv, Promise!OneConfiguration
      <4> QED
        BY <2>4, <3>1, <4>1, <4>2
    <3> QED
      BY <3>1
  <2>7. Promise!OneConfiguration'
    BY <2>2, <2>4, <2>5, <2>6 DEF AgreementInv, Promise!OneConfiguration
  <2> QED
    BY <2>1, <2>2, <2>3, <2>7 DEF AgreementInv
<1>6. CASE Promise!Change \/ Promise!Answer
  <2>1. /\ descriptors' = descriptors
        /\ \A q \in Clients : Uses(outer[q])' = Uses(outer[q]) /\ Uses(task[q])' = Uses(task[q])
    BY <1>6 DEF Promise!Change, Promise!Answer
  <2>2. Promise!Used' \subseteq Promise!Used
    BY <2>1 DEF Promise!Used
  <2> QED
    BY <1>1, <2>1, <2>2 DEF Promise!Used
<1>7. CASE Promise!Forget \/ Promise!Describe
  <2>1. \A q \in Clients : Uses(outer[q])' = Uses(outer[q]) /\ Uses(task[q])' = Uses(task[q])
    BY <1>7 DEF Promise!Forget, Promise!Describe
  <2>2. Promise!Used' = Promise!Used
    BY <2>1 DEF Promise!Used
  <2>3. /\ descriptors' \in [Conns -> Configs \cup {NoConfig}]
        /\ \A c \in Conns :
              descriptors'[c] \in {descriptors[c], NoConfig} \/ Promise!Quiet(c)
    <3>1. CASE Promise!Forget
      BY <3>1 DEF Promise!Forget, AgreementInv
    <3>2. CASE Promise!Describe
      BY <3>2 DEF Promise!Describe, AgreementInv
    <3> QED
      BY <1>7, <3>1, <3>2
  <2>4. Promise!Used \subseteq [conn : Conns, config : Configs]
    BY DEF AgreementInv, Promise!Used
  <2>5. Promise!OneConfiguration'
    BY <2>2, <2>3, <2>4 DEF AgreementInv, Promise!OneConfiguration, Promise!Quiet
  <2> QED
    BY <2>1, <2>3, <2>5 DEF AgreementInv
<1> QED
  BY <1>2, <1>3, <1>4, <1>5, <1>6, <1>7 DEF Promise!Next

(* Registry alone, whoever implements it, lets nobody use a                *)
(* configuration that was replaced.                                        *)
THEOREM PromisesAgree == Promise!Spec => []Promise!OneConfiguration
<1>1. Promise!Init => AgreementInv
  <2> SUFFICES ASSUME Promise!Init PROVE AgreementInv
    OBVIOUS
  <2>1. /\ descriptors = [c \in Conns |-> NoConfig]
        /\ \A r \in Clients : Uses(outer[r]) = {} /\ Uses(task[r]) = {}
    BY DEF Promise!Init
  <2>2. Promise!Used = {}
    BY <2>1 DEF Promise!Used
  <2> QED
    BY <2>1, <2>2 DEF AgreementInv, Promise!OneConfiguration
<1>2. AgreementInv /\ UNCHANGED Promise!vars => AgreementInv'
  <2> SUFFICES ASSUME AgreementInv, UNCHANGED Promise!vars PROVE AgreementInv'
    OBVIOUS
  <2>1. /\ descriptors' = descriptors
        /\ \A q \in Clients : Uses(outer[q])' = Uses(outer[q]) /\ Uses(task[q])' = Uses(task[q])
    BY DEF Promise!vars
  <2>2. Promise!Used' = Promise!Used
    BY <2>1 DEF Promise!Used
  <2> QED
    BY <2>1, <2>2 DEF AgreementInv, Promise!OneConfiguration
<1>3. AgreementInv => Promise!OneConfiguration
  BY DEF AgreementInv
<1> QED
  BY <1>1, <1>2, <1>3, AgreementKept, PTL DEF Promise!Spec

(* Hence neither do the sessions: what a call or transfer uses is what     *)
(* its connection is described by, or was before it was forgotten          *)
(* (cached_session and connection() of lib.rs).                            *)
THEOREM UsersAgree == Spec => []Promise!OneConfiguration
BY PromisesAgree, SessionsImplementRegistry, PTL DEF ImplementsRegistry

=============================================================================
