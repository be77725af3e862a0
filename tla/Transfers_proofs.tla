---------------------------- MODULE Transfers_proofs ----------------------------
(***************************************************************************)
(* Proofs about Transfers, for every set of transfers and all limits: the  *)
(* table keeps its limits without losing a transfer at work, and what      *)
(* downloads report is true.                                               *)
(***************************************************************************)
EXTENDS Transfers, FiniteSetTheorems, TLAPS

Outside == Admission \cup {"idle", "refused"}

USE DEF lists, places, work, Goto

LEMMA FiniteActives ==
    ASSUME TypeOK
    PROVE  /\ IsFiniteSet(table) /\ Cardinality(table) \in Nat
           /\ IsFiniteSet(Actives) /\ Cardinality(Actives) \in Nat
<1>1. IsFiniteSet(table)
  BY TransfersAssumption, FS_Subset DEF TypeOK
<1>2. IsFiniteSet(Actives)
  BY TransfersAssumption, FS_Subset DEF Actives
<1> QED
  BY <1>1, <1>2, FS_CardinalityType

(* The limits and the list depend on these only.                           *)
LEMMA ActivesShrink ==
    ASSUME TypeOK, \A u \in Tasks : Active(u)' => Active(u)
    PROVE  /\ Actives' \subseteq Actives
           /\ Cardinality(Actives') <= Cardinality(Actives)
           /\ Cardinality(Actives') \in Nat
<1>1. Actives' \subseteq Actives
  BY DEF Actives
<1>2. IsFiniteSet(Actives') /\ Cardinality(Actives') <= Cardinality(Actives)
  BY <1>1, FiniteActives, FS_Subset
<1> QED
  BY <1>1, <1>2, FS_CardinalityType

-----------------------------------------------------------------------------
LEMMA InitEstablishes ==
    Init => TableInv
<1> SUFFICES ASSUME Init PROVE TableInv
  OBVIOUS
<1>1. TypeOK
  BY TransfersAssumption
     DEF Init, TypeOK, Places, Outcomes, Sizes, Working, Admission, Downloading
<1>2. LockInv /\ ResultInv
  BY TransfersAssumption DEF Init, LockInv, ResultInv, Admission, Working, Downloading, Active
<1>3. Actives = {}
  BY DEF Init, Actives, Active
<1>4. RoomInv
  BY <1>3, FS_EmptySet, TransfersAssumption DEF Init, RoomInv
<1>5. ListedInv
  BY <1>3 DEF Init, ListedInv
<1> QED
  BY <1>1, <1>2, <1>4, <1>5 DEF TableInv

(* A step of the work of a transfer that has been admitted, or of none:    *)
(* the table and the admission are left alone, and nothing becomes active. *)
LEMMA WorkPreserves ==
    ASSUME TableInv, TypeOK', ResultInv', UNCHANGED lists,
           \A u \in Tasks : \/ pc'[u] = pc[u] /\ state'[u] = state[u]
                            \/ /\ pc[u] \notin Outside /\ pc'[u] \notin Outside
                               /\ state'[u] # "none"
                               /\ pc'[u] \in Working <=> Active(u)'
                               /\ Active(u)' => Active(u)
    PROVE  TableInv'
<1>1. \A u \in Tasks : Active(u)' => Active(u)
  BY DEF Active
<1>2. /\ Actives' \subseteq Actives
      /\ Cardinality(Actives') <= Cardinality(Actives)
      /\ Cardinality(Actives') \in Nat /\ Cardinality(Actives) \in Nat
  BY <1>1, ActivesShrink, FiniteActives DEF TableInv
<1>3. LockInv'
  BY DEF TableInv, LockInv, Outside, Admission, Active
<1>4. RoomInv'
  <2>1. \A u \in Tasks : pc'[u] \in {"evict", "insert"} => pc'[u] = pc[u]
    BY DEF Outside, Admission
  <2> QED
    BY <1>2, <2>1, TransfersAssumption DEF TableInv, RoomInv
<1>5. ListedInv'
  <2>1. \A u \in table : state'[u] # "none"
    BY DEF TableInv, TypeOK, ListedInv
  <2> QED
    BY <1>2, <2>1 DEF TableInv, ListedInv
<1> QED
  BY <1>3, <1>4, <1>5 DEF TableInv

-----------------------------------------------------------------------------
(* The steps of Transfers::start.                                          *)
LEMMA BeginPreserves ==
    ASSUME TableInv, NEW t \in Tasks, Begin(t)
    PROVE  TableInv'
<1>1. TypeOK'
  BY DEF Begin, TableInv, TypeOK, Places, Working, Admission, Downloading
<1>2. LockInv'
  BY DEF Begin, TableInv, TypeOK, LockInv, Admission, Working, Downloading, Active
<1>3. Actives' = Actives
  BY DEF Begin, Actives, Active
<1>4. RoomInv'
  BY <1>3 DEF Begin, TableInv, TypeOK, RoomInv
<1>5. ListedInv'
  BY <1>3 DEF Begin, TableInv, ListedInv
<1>9. ResultInv'
  BY DEF Begin, TableInv, TypeOK, ResultInv
<1> QED
  BY <1>9, <1>1, <1>2, <1>4, <1>5 DEF TableInv

LEMMA PrunePreserves ==
    ASSUME TableInv, NEW t \in Tasks, Prune(t)
    PROVE  TableInv'
<1>1. TypeOK'
  BY DEF Prune, TableInv, TypeOK, Places, Working, Admission, Downloading
<1>2. LockInv'
  BY TransfersAssumption
     DEF Prune, TableInv, TypeOK, LockInv, Admission, Working, Downloading, Active
<1>3. Actives' = Actives
  BY DEF Prune, Actives, Active
<1>4. table' \subseteq table /\ Cardinality(table') <= Cardinality(table)
      /\ Cardinality(table') \in Nat
  <2>1. table' \subseteq table
    BY DEF Prune
  <2>2. IsFiniteSet(table') /\ Cardinality(table') <= Cardinality(table)
    BY <2>1, FiniteActives, FS_Subset DEF TableInv
  <2> QED
    BY <2>1, <2>2, FS_CardinalityType
<1>5. RoomInv'
  <2>1. Cardinality(table') <= MaxTasks
    BY <1>4, FiniteActives, TransfersAssumption DEF TableInv, RoomInv
  <2>2. \A u \in Tasks : pc'[u] \in {"evict", "insert"} => pc[u] = pc'[u]
    BY DEF Prune, TableInv, TypeOK
  <2>3. \A u \in Tasks : pc[u] # "insert"
    BY TransfersAssumption DEF Prune, TableInv, LockInv
  <2> QED
    BY <1>3, <2>1, <2>2, <2>3 DEF TableInv, RoomInv
<1>6. ListedInv'
  <2>1. \A u \in Actives : u \in table /\ ~Terminal(u)
    BY DEF TableInv, ListedInv, Actives, Active, Terminal
  <2>2. Actives \subseteq table'
    BY <2>1 DEF Prune
  <2>3. \A u \in table' : state'[u] # "none"
    BY <1>4 DEF Prune, TableInv, ListedInv
  <2> QED
    BY <1>3, <2>2, <2>3 DEF ListedInv
<1>9. ResultInv'
  BY DEF Prune, TableInv, TypeOK, ResultInv
<1> QED
  BY <1>9, <1>1, <1>2, <1>5, <1>6 DEF TableInv

LEMMA CountPreserves ==
    ASSUME TableInv, NEW t \in Tasks, Count(t)
    PROVE  TableInv'
<1>1. TypeOK'
  BY DEF Count, TableInv, TypeOK, Places, Working, Admission, Downloading
<1>2. LockInv'
  <2>1. CASE Goto(t, "evict") /\ UNCHANGED admitting
    BY <2>1 DEF Count, TableInv, TypeOK, LockInv, Admission, Working, Downloading, Active
  <2>2. CASE Goto(t, "refused") /\ admitting' = Nobody
    BY <2>2, TransfersAssumption
       DEF Count, TableInv, TypeOK, LockInv, Admission, Working, Downloading, Active
  <2> QED
    BY <2>1, <2>2 DEF Count
<1>3. Actives' = Actives /\ table' = table /\ UNCHANGED state
  BY DEF Count, Actives, Active
<1>4. RoomInv'
  <2>1. {u \in table : Active(u)} = Actives
    BY DEF TableInv, TypeOK, ListedInv, Actives
  <2>2. pc'[t] = "evict" => Cardinality(Actives) < MaxActive
    <3>1. pc'[t] = "evict" => ~Full
      BY DEF Count, TableInv, TypeOK
    <3>2. Full <=> Cardinality(Actives) >= MaxActive
      BY <2>1 DEF Full
    <3>3. Cardinality(Actives) \in Nat
      BY FiniteActives DEF TableInv
    <3> QED
      BY <3>1, <3>2, <3>3, TransfersAssumption
  <2>3. pc'[t] # "insert" /\ \A u \in Tasks \ {t} : pc'[u] = pc[u]
    BY DEF Count, TableInv, TypeOK
  <2> QED
    BY <1>3, <2>2, <2>3 DEF TableInv, RoomInv
<1>5. ListedInv'
  BY <1>3 DEF TableInv, ListedInv
<1>9. ResultInv'
  BY DEF Count, TableInv, TypeOK, ResultInv
<1> QED
  BY <1>9, <1>1, <1>2, <1>4, <1>5 DEF TableInv

(* When the table is full, one of it has ended: it holds more than may be  *)
(* active.                                                                 *)
LEMMA EvictPreserves ==
    ASSUME TableInv, NEW t \in Tasks, Evict(t)
    PROVE  TableInv'
<1>1. TypeOK'
  BY DEF Evict, TableInv, TypeOK, Places, Working, Admission, Downloading
<1>2. LockInv'
  BY DEF Evict, TableInv, TypeOK, LockInv, Admission, Working, Downloading, Active
<1>3. Actives' = Actives /\ UNCHANGED state
  BY DEF Evict, Actives, Active
<1>4. Cardinality(Actives) < MaxActive
  BY DEF Evict, TableInv, RoomInv
<1>5. /\ table' \subseteq table /\ Actives \subseteq table'
      /\ Cardinality(table') < MaxTasks
  <2>1. CASE Cardinality(table) >= MaxTasks /\ \E u \in table : First(u) /\ table' = table \ {u}
    <3>1. PICK u \in table : First(u) /\ table' = table \ {u}
      BY <2>1
    <3>2. IsFiniteSet(table) /\ Cardinality(table) \in Nat
      BY FiniteActives DEF TableInv
    <3>3. Cardinality(table') = Cardinality(table) - 1
      BY <3>1, <3>2, FS_RemoveElement
    <3>4. u \notin Actives
      BY <3>1 DEF First, Terminal, Active, Actives
    <3> QED
      BY <3>1, <3>2, <3>3, <3>4, TransfersAssumption DEF TableInv, RoomInv, ListedInv
  <2>2. CASE Cardinality(table) < MaxTasks /\ UNCHANGED table
    BY <2>2 DEF TableInv, ListedInv
  <2>3. CASE (\A u \in table : ~Terminal(u)) /\ UNCHANGED table
    <3>1. table \subseteq Actives
      BY <2>3 DEF TableInv, TypeOK, ListedInv, Actives, Active, Terminal
    <3>2. Cardinality(table) <= Cardinality(Actives)
      BY <3>1, FiniteActives, FS_Subset DEF TableInv
    <3> QED
      BY <2>3, <3>2, <1>4, FiniteActives, TransfersAssumption DEF TableInv, ListedInv
  <2> QED
    BY <2>1, <2>2, <2>3 DEF Evict
<1>6. RoomInv'
  <2>1. IsFiniteSet(table') /\ Cardinality(table') \in Nat
    BY <1>5, FiniteActives, FS_Subset, FS_CardinalityType DEF TableInv
  <2> QED
    BY <1>3, <1>4, <1>5, <2>1, TransfersAssumption DEF TableInv, RoomInv
<1>7. ListedInv'
  BY <1>3, <1>5 DEF TableInv, ListedInv
<1>9. ResultInv'
  BY DEF Evict, TableInv, TypeOK, ResultInv
<1> QED
  BY <1>9, <1>1, <1>2, <1>6, <1>7 DEF TableInv

LEMMA InsertPreserves ==
    ASSUME TableInv, NEW t \in Tasks, Insert(t)
    PROVE  TableInv'
<1>1. TypeOK'
  BY DEF Insert, TableInv, TypeOK, Places, Working, Admission, Downloading
<1>2. LockInv'
  BY TransfersAssumption
     DEF Insert, TableInv, TypeOK, LockInv, Admission, Working, Downloading, Active
<1>3. Actives' = Actives \cup {t}
  BY DEF Insert, TableInv, TypeOK, Actives, Active
<1>4. Cardinality(Actives') <= MaxActive
  <2>1. IsFiniteSet(Actives) /\ Cardinality(Actives) \in Nat
    BY FiniteActives DEF TableInv
  <2>2. Cardinality(Actives) < MaxActive
    BY DEF Insert, TableInv, RoomInv
  <2>3. \/ Cardinality(Actives \cup {t}) = Cardinality(Actives)
        \/ Cardinality(Actives \cup {t}) = Cardinality(Actives) + 1
    BY <2>1, FS_AddElement
  <2> QED
    BY <1>3, <2>1, <2>2, <2>3, TransfersAssumption
<1>5. Cardinality(table') <= MaxTasks
  <2>1. IsFiniteSet(table) /\ Cardinality(table) \in Nat
    BY FiniteActives DEF TableInv
  <2>2. Cardinality(table) < MaxTasks /\ table' = table \cup {t}
    BY DEF Insert, TableInv, RoomInv
  <2>3. \/ Cardinality(table \cup {t}) = Cardinality(table)
        \/ Cardinality(table \cup {t}) = Cardinality(table) + 1
    BY <2>1, FS_AddElement
  <2> QED
    BY <2>1, <2>2, <2>3, TransfersAssumption
<1>6. RoomInv'
  <2>1. \A u \in Tasks : pc'[u] \notin {"evict", "insert"}
    BY DEF Insert, TableInv, TypeOK, LockInv
  <2> QED
    BY <1>4, <1>5, <2>1 DEF RoomInv
<1>7. ListedInv'
  BY <1>3 DEF Insert, TableInv, TypeOK, ListedInv
<1>9. ResultInv'
  BY DEF Insert, TableInv, TypeOK, ResultInv
<1> QED
  BY <1>9, <1>1, <1>2, <1>6, <1>7 DEF TableInv

-----------------------------------------------------------------------------
(* The steps of the work, and those around it.                             *)
LEMMA RunPreserves ==
    ASSUME TableInv, NEW t \in Tasks, Run(t)
    PROVE  TableInv'
<1>1. TypeOK' /\ ResultInv'
  BY DEF Run, TableInv, TypeOK, ResultInv, Places, Working, Admission, Downloading
<1>2. \A u \in Tasks \ {t} : pc'[u] = pc[u] /\ state'[u] = state[u]
  BY DEF Run, TableInv, TypeOK
<1>3. /\ pc[t] = "queued" /\ pc'[t] = "stat" /\ state'[t] = "running"
  BY DEF Run, TableInv, TypeOK
<1>4. Active(t)
  BY <1>3 DEF TableInv, LockInv, Working
<1>5. Active(t)' /\ pc'[t] \in Working
  BY <1>3 DEF Active, Working, Downloading
<1> QED
  BY <1>1, <1>2, <1>3, <1>4, <1>5, WorkPreserves DEF Run, Outside, Admission

LEMMA FinishPreserves ==
    ASSUME TableInv, NEW t \in Tasks, Finish(t)
    PROVE  TableInv'
<1>1. /\ pc[t] = "finish" /\ pc'[t] = "ended"
      /\ state'[t] \in {"completed", "failed", "cancelled"}
  BY DEF Finish, TableInv, TypeOK, ResultInv, Outcomes
<1>2. \A u \in Tasks \ {t} : pc'[u] = pc[u] /\ state'[u] = state[u]
  BY DEF Finish, TableInv, TypeOK
<1>3. TypeOK'
  <2>1. state' \in [Tasks -> {"none", "queued", "running", "completed", "failed", "cancelled"}]
    BY <1>1 DEF Finish, TableInv, TypeOK
  <2> QED
    BY <2>1, TransfersAssumption
       DEF Finish, TableInv, TypeOK, Places, Outcomes, Sizes, Working, Admission, Downloading
<1>4. ResultInv'
  BY <1>1, <1>2 DEF Finish, TableInv, TypeOK, ResultInv
<1>5. ~Active(t)' /\ pc'[t] \notin Working
  BY <1>1 DEF Active, Working, Downloading
<1> QED
  BY <1>1, <1>2, <1>3, <1>4, <1>5, WorkPreserves DEF Finish, Outside, Admission

(* The steps of a download change no state and no table.                   *)
Step(t) == Stat(t) \/ Look(t) \/ Read(t) \/ Sync(t) \/ Publish(t) \/ Interrupt(t)

LEMMA StepPreserves ==
    ASSUME TableInv, NEW t \in Tasks, Step(t)
    PROVE  TableInv'
<1> USE DEF End, Fail
<1>1. /\ pc[t] \in Downloading \cup {"queued"}
      /\ \/ pc' = pc
         \/ \E place \in Downloading : pc' = [pc EXCEPT ![t] = place]
         \/ /\ pc' = [pc EXCEPT ![t] = "finish"]
            /\ \E code \in Outcomes \ {"none"} : outcome' = [outcome EXCEPT ![t] = code]
      /\ UNCHANGED <<lists, state, cancel, sized>>
      /\ \/ UNCHANGED outcome
         \/ \E code \in Outcomes \ {"none"} : outcome' = [outcome EXCEPT ![t] = code]
  <2>1. CASE Stat(t)
    BY <2>1 DEF Stat, Downloading, Outcomes
  <2>2. CASE Look(t)
    BY <2>2 DEF Look, Downloading, Outcomes
  <2>3. CASE Read(t)
    BY <2>3 DEF Read, Downloading, Outcomes
  <2>4. CASE Sync(t)
    BY <2>4 DEF Sync, Downloading, Outcomes
  <2>5. CASE Publish(t)
    BY <2>5 DEF Publish, Downloading, Outcomes
  <2>6. CASE Interrupt(t)
    BY <2>6 DEF Interrupt, Downloading, Outcomes
  <2> QED
    BY <2>1, <2>2, <2>3, <2>4, <2>5, <2>6 DEF Step
<1>2. /\ source' \in Sizes /\ local' \in {"none", "old"} \cup Tasks
      /\ total' \in [Tasks -> Sizes \cup {Unknown}]
      /\ bytes' \in [Tasks -> Sizes]
      /\ temp' \subseteq Tasks /\ visible' \subseteq Tasks
  <2>1. CASE Stat(t)
    BY <2>1 DEF Stat, TableInv, TypeOK
  <2>2. CASE Look(t)
    BY <2>2 DEF Look, TableInv, TypeOK
  <2>3. CASE Read(t)
    <3>1. bytes' = bytes \/ (bytes[t] < source /\ bytes' = [bytes EXCEPT ![t] = bytes[t] + 1])
      BY <2>3 DEF Read
    <3>2. bytes[t] \in Sizes /\ source \in Sizes
      BY DEF TableInv, TypeOK
    <3>3. bytes[t] < source => bytes[t] + 1 \in Sizes
      BY <3>2, TransfersAssumption DEF Sizes
    <3>4. bytes' \in [Tasks -> Sizes]
      BY <3>1, <3>3 DEF TableInv, TypeOK
    <3>5. UNCHANGED <<source, local, total, visible>> /\ temp' \in {temp, temp \ {t}}
      BY <2>3 DEF Read
    <3> QED
      BY <3>4, <3>5 DEF TableInv, TypeOK
  <2>4. CASE Sync(t)
    BY <2>4 DEF Sync, TableInv, TypeOK
  <2>5. CASE Publish(t)
    BY <2>5 DEF Publish, TableInv, TypeOK
  <2>6. CASE Interrupt(t)
    BY <2>6 DEF Interrupt, TableInv, TypeOK
  <2> QED
    BY <2>1, <2>2, <2>3, <2>4, <2>5, <2>6 DEF Step
<1>3. pc' \in [Tasks -> Places] /\ outcome' \in [Tasks -> Outcomes]
  BY <1>1 DEF TableInv, TypeOK, Places, Working
<1>4. TypeOK'
  BY <1>1, <1>2, <1>3 DEF TableInv, TypeOK
<1>5. ResultInv'
  <2>1. \A u \in Tasks \ {t} : pc'[u] = pc[u] /\ outcome'[u] = outcome[u]
    BY <1>1 DEF TableInv, TypeOK
  <2>2. pc'[t] = "finish" => outcome'[t] # "none"
    BY <1>1 DEF TableInv, TypeOK, Downloading
  <2> QED
    BY <2>1, <2>2 DEF TableInv, ResultInv
<1>6. \A u \in Tasks \ {t} : pc'[u] = pc[u] /\ state'[u] = state[u]
  BY <1>1 DEF TableInv, TypeOK
<1>7. pc[t] \notin Outside /\ pc'[t] \notin Outside /\ state'[t] = state[t]
  BY <1>1 DEF TableInv, TypeOK, Downloading, Outside, Admission
<1>8. state[t] # "none" /\ Active(t) /\ Active(t)' /\ pc'[t] \in Working
  BY <1>1, <1>7 DEF TableInv, TypeOK, LockInv, Outside, Active, Working, Downloading
<1> QED
  BY <1>1, <1>4, <1>5, <1>6, <1>7, <1>8, WorkPreserves

LEMMA NextPreserves ==
    TableInv /\ [Next]_vars => TableInv'
<1> SUFFICES ASSUME TableInv, [Next]_vars PROVE TableInv'
  OBVIOUS
<1>1. ASSUME UNCHANGED <<lists, pc, state, outcome>>, TypeOK' PROVE TableInv'
  <2>1. ResultInv'
    BY <1>1 DEF TableInv, ResultInv
  <2> QED
    BY <1>1, <2>1, WorkPreserves
<1>2. ASSUME NEW t \in Tasks, Cancel(t) PROVE TableInv'
  BY <1>1, <1>2 DEF Cancel, TableInv, TypeOK
<1>3. CASE Close
  BY <1>1, <1>3 DEF Close, TableInv, TypeOK
<1>4. CASE Outsider
  BY <1>1, <1>4 DEF Outsider, TableInv, TypeOK
<1>5. CASE UNCHANGED vars
  BY <1>1, <1>5 DEF vars, TableInv, TypeOK
<1>6. ASSUME NEW t \in Tasks,
             \/ Begin(t) \/ Prune(t) \/ Count(t) \/ Evict(t) \/ Insert(t)
             \/ Run(t) \/ Finish(t) \/ Step(t)
      PROVE  TableInv'
  BY <1>6, BeginPreserves, PrunePreserves, CountPreserves, EvictPreserves, InsertPreserves,
     RunPreserves, FinishPreserves, StepPreserves
<1> QED
  BY <1>2, <1>3, <1>4, <1>5, <1>6 DEF Next, Step

-----------------------------------------------------------------------------
(* The table keeps its limits and every transfer at work, whatever ends,   *)
(* is cancelled or is pruned during an admission (Transfers::start).       *)
THEOREM TableIsKept ==
    Spec => []TableInv
BY InitEstablishes, NextPreserves, PTL DEF Spec

-----------------------------------------------------------------------------
(* What ReportsAreTrue rests on: before its publication a download is not  *)
(* visible, before its temporary file it has written nothing, and it comes *)
(* to the publication with all that was announced.                         *)
Announced(t) == total[t] # Unknown => bytes[t] = total[t]

Truthful(t) ==
    /\ t \in visible => pc[t] = "finish"
    /\ pc[t] \notin {"read", "sync", "publish", "finish"} => t \notin temp /\ bytes[t] = 0
    /\ pc[t] = "publish" => Announced(t)
    /\ pc[t] = "finish" =>
          /\ outcome[t] = "completed" <=> t \in visible
          /\ t \in visible => Announced(t)
          /\ t \in temp => outcome[t] = "cleanup_failed" \/ bytes[t] = 0

WorkInv == \A t \in Tasks : Truthful(t)

LEMMA InitIsTruthful ==
    Init => WorkInv
BY DEF Init, WorkInv, Truthful

(* A step says nothing new of a download whose place and work it leaves.   *)
Aside(t) ==
    /\ pc'[t] = pc[t] /\ outcome'[t] = outcome[t]
    /\ total'[t] = total[t] /\ bytes'[t] = bytes[t]
    /\ t \in temp' <=> t \in temp
    /\ t \in visible' <=> t \in visible

LEMMA AsideIsTruthful ==
    ASSUME NEW t \in Tasks, Truthful(t), Aside(t)
    PROVE  Truthful(t)'
BY DEF Truthful, Aside, Announced

(* Nothing happens to another download.                                    *)
LEMMA OthersAreAside ==
    ASSUME TableInv, NEW t \in Tasks, NEW u \in Tasks \ {t},
           \/ Begin(t) \/ Prune(t) \/ Count(t) \/ Evict(t) \/ Insert(t) \/ Cancel(t)
           \/ Run(t) \/ Finish(t) \/ Step(t)
    PROVE  Aside(u)
<1> USE DEF TableInv, TypeOK, Aside
<1>1. CASE Begin(t) \/ Prune(t) \/ Count(t) \/ Evict(t) \/ Insert(t) \/ Cancel(t) \/ Run(t)
  BY <1>1 DEF Begin, Prune, Count, Evict, Insert, Cancel, Run
<1>2. CASE Finish(t)
  BY <1>2 DEF Finish
<1>3. CASE Stat(t) \/ Look(t)
  BY <1>3 DEF Stat, Look, End
<1>4. CASE Read(t) \/ Sync(t)
  BY <1>4 DEF Read, Sync, Fail
<1>5. CASE Publish(t) \/ Interrupt(t)
  BY <1>5 DEF Publish, Interrupt, End, Fail
<1> QED
  BY <1>1, <1>2, <1>3, <1>4, <1>5 DEF Step

(* The way to the temporary file: nothing is written yet.                  *)
LEMMA AdmissionIsTruthful ==
    ASSUME TableInv, NEW t \in Tasks, Truthful(t),
           Begin(t) \/ Prune(t) \/ Count(t) \/ Evict(t) \/ Insert(t) \/ Run(t)
    PROVE  Truthful(t)'
<1>1. UNCHANGED work
  BY DEF Begin, Prune, Count, Evict, Insert, Run
<1>2. /\ pc[t] \in Admission \cup {"idle", "queued"}
      /\ pc'[t] \in Admission \cup {"refused", "queued", "stat"}
  BY DEF TableInv, TypeOK, Begin, Prune, Count, Evict, Insert, Run, Admission
<1> QED
  BY <1>1, <1>2 DEF Truthful, Admission

LEMMA StepIsTruthful ==
    ASSUME TableInv, NEW t \in Tasks, Truthful(t), Step(t)
    PROVE  Truthful(t)'
<1> USE DEF TableInv, TypeOK, Truthful, Announced
<1>1. CASE Stat(t)
  BY <1>1 DEF Stat, End
<1>2. CASE Look(t)
  BY <1>2 DEF Look, End
<1>3. CASE Read(t)
  BY <1>3 DEF Read, Fail
<1>4. CASE Sync(t)
  BY <1>4 DEF Sync, Fail
<1>5. CASE Publish(t)
  BY <1>5 DEF Publish, End, Fail
<1>6. CASE Interrupt(t)
  BY <1>6 DEF Interrupt, End, Fail
<1> QED
  BY <1>1, <1>2, <1>3, <1>4, <1>5, <1>6 DEF Step

LEMMA FinishIsTruthful ==
    ASSUME TableInv, NEW t \in Tasks, Truthful(t), Finish(t)
    PROVE  Truthful(t)'
<1>1. pc'[t] = "ended" /\ bytes'[t] = 0 /\ t \notin temp' /\ t \notin visible'
  BY DEF Finish, TableInv, TypeOK
<1> QED
  BY <1>1 DEF Truthful

LEMMA NextIsTruthful ==
    TableInv /\ WorkInv /\ [Next]_vars => WorkInv'
<1> SUFFICES ASSUME TableInv, WorkInv, [Next]_vars, NEW u \in Tasks PROVE Truthful(u)'
  BY DEF WorkInv
<1>1. CASE Close \/ Outsider \/ UNCHANGED vars
  <2>1. Aside(u)
    BY <1>1 DEF Close, Outsider, vars, Aside
  <2> QED
    BY <2>1, AsideIsTruthful DEF WorkInv
<1>2. ASSUME NEW t \in Tasks, Cancel(t) PROVE Truthful(u)'
  <2>1. Aside(u)
    BY <1>2 DEF Cancel, Aside
  <2> QED
    BY <2>1, AsideIsTruthful DEF WorkInv
<1>3. ASSUME NEW t \in Tasks, t # u,
             \/ Begin(t) \/ Prune(t) \/ Count(t) \/ Evict(t) \/ Insert(t)
             \/ Run(t) \/ Finish(t) \/ Step(t)
      PROVE  Truthful(u)'
  BY <1>3, OthersAreAside, AsideIsTruthful DEF WorkInv
<1>4. CASE \/ Begin(u) \/ Prune(u) \/ Count(u) \/ Evict(u) \/ Insert(u)
           \/ Run(u) \/ Finish(u) \/ Step(u)
  BY <1>4, AdmissionIsTruthful, StepIsTruthful, FinishIsTruthful DEF WorkInv
<1> QED
  BY <1>1, <1>2, <1>3, <1>4 DEF Next, Step

(* What a download reports is true of its destination and of its temporary *)
(* file, whatever failed, was cancelled or changed on the remote           *)
(* (download_file).                                                        *)
THEOREM DownloadReportsAreTrue ==
    Spec => []ReportsAreTrue
<1>1. WorkInv => ReportsAreTrue
  BY DEF WorkInv, Truthful, Announced, ReportsAreTrue
<1>2. TableInv /\ TableInv' /\ WorkInv /\ [Next]_vars => WorkInv'
  BY NextIsTruthful
<1> QED
  BY InitIsTruthful, TableIsKept, <1>1, <1>2, PTL DEF Spec
=============================================================================
