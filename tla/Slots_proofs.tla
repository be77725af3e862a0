------------------------------ MODULE Slots_proofs ------------------------------
(***************************************************************************)
(* Proofs about Slots, for every set of jobs and connections and every     *)
(* number of permits and slots: SlotsInv is inductive, and from it changes *)
(* are serialized, a busy connection leaves room, and a gridlock takes     *)
(* every global slot.                                                      *)
(***************************************************************************)
EXTENDS Slots, FiniteSetTheorems, FunctionTheorems, TLAPS

Changes(j) == KindOf[j] \in {"mutation", "save"}

(* What a job holds after it has taken n resources.                        *)
HeldBy(j, n, resource) == \E i \in 1 .. n : Needs(j)[i] = resource

-----------------------------------------------------------------------------
(* What each kind of job takes, and when.                                  *)
LEMMA NeedsOf ==
    ASSUME NEW j \in Jobs
    PROVE  /\ KindOf[j] = "upload" => Needs(j) = <<"permit", "mutations", "global">>
           /\ Changes(j) => Needs(j) = <<"permit", "global", "mutations">>
           /\ KindOf[j] \in {"read", "download"} => Needs(j) = <<"permit", "global">>
           /\ KindOf[j] = "upload" \/ Changes(j) \/ KindOf[j] \in {"read", "download"}
           /\ ~(KindOf[j] = "upload" /\ Changes(j))
<1>1. KindOf[j] \in Kinds
  BY SlotsAssumption
<1> QED
  BY <1>1 DEF Needs, Order, Changes, Kinds

(* So what a job holds is told by how many resources it has taken.         *)
LEMMA HeldWhen ==
    ASSUME NEW j \in Jobs, NEW n \in Nat, n <= Len(Needs(j))
    PROVE  /\ HeldBy(j, n, "permit") <=> n >= 1
           /\ HeldBy(j, n, "global") <=> n >= (IF KindOf[j] = "upload" THEN 3 ELSE 2)
           /\ HeldBy(j, n, "mutations") <=> \/ KindOf[j] = "upload" /\ n >= 2
                                            \/ Changes(j) /\ n >= 3
<1>1. CASE KindOf[j] = "upload"
  BY <1>1, NeedsOf DEF Changes, HeldBy
<1>2. CASE Changes(j)
  BY <1>2, NeedsOf DEF Changes, HeldBy
<1>3. CASE KindOf[j] \in {"read", "download"}
  BY <1>3, NeedsOf DEF Changes, HeldBy
<1> QED
  BY <1>1, <1>2, <1>3, NeedsOf

Telling ==
    \A j \in Jobs :
        /\ Holds(j, "permit") <=> taken[j] >= 1
        /\ Holds(j, "global") <=> taken[j] >= (IF KindOf[j] = "upload" THEN 3 ELSE 2)
        /\ Holds(j, "mutations") <=> \/ KindOf[j] = "upload" /\ taken[j] >= 2
                                     \/ Changes(j) /\ taken[j] >= 3

LEMMA TellingHolds ==
    TypeOK /\ GrantInv => Telling
<1> SUFFICES ASSUME TypeOK, GrantInv, NEW j \in Jobs
             PROVE  /\ Holds(j, "permit") <=> HeldBy(j, taken[j], "permit")
                    /\ Holds(j, "global") <=> HeldBy(j, taken[j], "global")
                    /\ Holds(j, "mutations") <=> HeldBy(j, taken[j], "mutations")
                    /\ taken[j] \in Nat /\ taken[j] <= Len(Needs(j))
  BY HeldWhen DEF Telling
<1> QED
  BY DEF Holds, HeldBy, TypeOK, GrantInv

LEMMA TellingHoldsNext ==
    TypeOK' /\ GrantInv' => Telling'
<1> SUFFICES ASSUME TypeOK', GrantInv', NEW j \in Jobs
             PROVE  /\ Holds(j, "permit")' <=> HeldBy(j, taken'[j], "permit")
                    /\ Holds(j, "global")' <=> HeldBy(j, taken'[j], "global")
                    /\ Holds(j, "mutations")' <=> HeldBy(j, taken'[j], "mutations")
                    /\ taken'[j] \in Nat /\ taken'[j] <= Len(Needs(j))
  BY HeldWhen DEF Telling
<1> QED
  BY DEF Holds, HeldBy, TypeOK, GrantInv, Needs

(* Jobs are finitely many, and so are the holders of permits.              *)
LEMMA HoldersFinite ==
    ASSUME NEW c
    PROVE  /\ IsFiniteSet(PermitHolders(c)) /\ IsFiniteSet(PermitHolders(c)')
           /\ Cardinality(PermitHolders(c)) \in Nat
           /\ Cardinality(PermitHolders(c)') \in Nat
<1>1. IsFiniteSet(PermitHolders(c))
  BY SlotsAssumption, FS_Subset DEF PermitHolders
<1>2. IsFiniteSet(PermitHolders(c)')
  BY SlotsAssumption, FS_Subset DEF PermitHolders
<1> QED
  BY <1>1, <1>2, FS_CardinalityType

-----------------------------------------------------------------------------
LEMMA InitEstablishes ==
    Init => SlotsInv
<1> SUFFICES ASSUME Init PROVE SlotsInv
  OBVIOUS
<1>1. TypeOK
  BY DEF Init, TypeOK, Stages
<1>2. GrantInv
  BY NeedsOf DEF Init, GrantInv
<1>3. Telling
  BY <1>1, <1>2, TellingHolds
<1>4. \A j \in Jobs : ~Holds(j, "permit") /\ ~Holds(j, "mutations")
  BY <1>3 DEF Init, Telling
<1>5. LockInv
  BY <1>4 DEF LockInv, Peers
<1>6. PermitInv
  <2> SUFFICES ASSUME NEW c \in Conns
               PROVE  Cardinality(PermitHolders(c)) <= PermitsPerConn
    BY DEF PermitInv
  <2>1. PermitHolders(c) = {}
    BY <1>4 DEF PermitHolders
  <2> QED
    BY <2>1, FS_EmptySet, SlotsAssumption
<1> QED
  BY <1>1, <1>2, <1>5, <1>6 DEF SlotsInv

(* Whoever holds no more than before disturbs no lock and no permit.       *)
LEMMA FewerHolders ==
    ASSUME SlotsInv, TypeOK', GrantInv', \A j \in Jobs : taken'[j] <= taken[j]
    PROVE  LockInv' /\ PermitInv'
<1>1. Telling /\ Telling'
  BY TellingHolds, TellingHoldsNext DEF SlotsInv
<1>2. \A j \in Jobs : taken[j] \in Nat /\ taken'[j] \in Nat
  BY DEF SlotsInv, TypeOK
<1>3. \A j \in Jobs : /\ Holds(j, "permit")' => Holds(j, "permit")
                      /\ Holds(j, "mutations")' => Holds(j, "mutations")
  BY <1>1, <1>2 DEF Telling
<1>4. LockInv'
  BY <1>3 DEF SlotsInv, LockInv, Peers
<1>5. PermitInv'
  <2> SUFFICES ASSUME NEW c \in Conns
               PROVE  Cardinality(PermitHolders(c)') <= PermitsPerConn
    BY DEF PermitInv
  <2>1. PermitHolders(c)' \subseteq PermitHolders(c)
    BY <1>3 DEF PermitHolders
  <2>2. Cardinality(PermitHolders(c)') <= Cardinality(PermitHolders(c))
    BY <2>1, HoldersFinite, FS_Subset
  <2>3. Cardinality(PermitHolders(c)) <= PermitsPerConn
    BY DEF SlotsInv, PermitInv
  <2> QED
    BY <2>2, <2>3, HoldersFinite, SlotsAssumption
<1> QED
  BY <1>4, <1>5

LEMMA ReleasePreserves ==
    ASSUME SlotsInv, NEW j \in Jobs, Release(j)
    PROVE  SlotsInv'
<1>1. TypeOK'
  BY DEF SlotsInv, TypeOK, Release, Stages
<1>2. GrantInv'
  <2>1. Len(Needs(j)) \in 2 .. 3
    BY NeedsOf
  <2>2. \A k \in Jobs : Needs(k)' = Needs(k)
    BY DEF Needs
  <2>3. \A k \in Jobs \ {j} : taken'[k] = taken[k] /\ stage'[k] = stage[k]
    BY DEF SlotsInv, TypeOK, Release
  <2>4. taken'[j] = 0 /\ stage'[j] = "idle"
    BY DEF SlotsInv, TypeOK, Release
  <2>5. ~(stage'[j] \in {"working", "leaving"}) /\ taken'[j] # Len(Needs(j))
        /\ taken'[j] <= Len(Needs(j))
    BY <2>1, <2>4
  <2> QED
    BY <2>2, <2>3, <2>4, <2>5 DEF SlotsInv, GrantInv
<1>3. \A k \in Jobs : taken'[k] <= taken[k]
  BY DEF SlotsInv, TypeOK, Release
<1> QED
  BY <1>1, <1>2, <1>3, FewerHolders DEF SlotsInv

(* The moves of jobs that take and give back nothing.                      *)
Moving ==
    \A j \in Jobs :
        \/ stage'[j] = stage[j]
        \/ stage[j] = "working" /\ stage'[j] = "leaving"
        \/ stage[j] = "idle" /\ stage'[j] = "waiting"

(* A step that moves no resource.                                          *)
LEMMA IdlePreserves ==
    SlotsInv /\ TypeOK' /\ UNCHANGED taken /\ Moving => SlotsInv'
<1> SUFFICES ASSUME SlotsInv, TypeOK', UNCHANGED taken, Moving PROVE SlotsInv'
  OBVIOUS
<1>1. GrantInv'
  <2>1. \A k \in Jobs : Needs(k)' = Needs(k) /\ Len(Needs(k)) \in 2 .. 3
    BY NeedsOf DEF Needs
  <2> QED
    BY <2>1 DEF SlotsInv, GrantInv, Moving
<1>2. \A k \in Jobs : taken'[k] <= taken[k]
  BY DEF SlotsInv, TypeOK
<1> QED
  BY <1>1, <1>2, FewerHolders DEF SlotsInv

LEMMA InterruptPreserves ==
    ASSUME SlotsInv, NEW j \in Jobs, Interrupt(j)
    PROVE  SlotsInv'
<1>1. CASE Release(j)
  BY <1>1, ReleasePreserves
<1>2. CASE /\ stage[j] = "working" /\ stage' = [stage EXCEPT ![j] = "leaving"]
           /\ UNCHANGED <<taken, closed, hung>>
  <2>1. TypeOK'
    BY <1>2 DEF SlotsInv, TypeOK, Stages
  <2>2. \A k \in Jobs \ {j} : stage'[k] = stage[k]
    BY <1>2 DEF SlotsInv, TypeOK
  <2>3. stage'[j] = "leaving"
    BY <1>2 DEF SlotsInv, TypeOK
  <2> QED
    BY <1>2, <2>1, <2>2, <2>3, IdlePreserves DEF Moving
<1> QED
  BY <1>1, <1>2 DEF Interrupt

LEMMA TakePreserves ==
    ASSUME SlotsInv, NEW j \in Jobs, Take(j)
    PROVE  SlotsInv'
<1> DEFINE n == taken[j]
<1>1. PICK resource \in {"permit", "global", "mutations"} :
          Awaits(j, resource) /\ Available(j, resource)
  BY DEF Take
<1>2. /\ n \in 0 .. 3 /\ n < Len(Needs(j)) /\ Len(Needs(j)) \in 2 .. 3
      /\ Needs(j)[n + 1] = resource /\ stage[j] = "waiting"
  BY <1>1, NeedsOf DEF Awaits, SlotsInv, TypeOK
<1>3. /\ taken' = [taken EXCEPT ![j] = n + 1]
      /\ stage' = [stage EXCEPT ![j] = IF n + 1 = Len(Needs(j)) THEN "working" ELSE @]
      /\ UNCHANGED <<closed, hung>>
  BY DEF Take
<1> HIDE DEF n
<1>4. TypeOK'
  BY <1>2, <1>3 DEF SlotsInv, TypeOK, Stages
<1>5. GrantInv'
  <2>1. \A k \in Jobs : Needs(k)' = Needs(k)
    BY DEF Needs
  <2>2. \A k \in Jobs \ {j} : taken'[k] = taken[k] /\ stage'[k] = stage[k]
    BY <1>3 DEF SlotsInv, TypeOK
  <2>3. taken'[j] = n + 1 /\ stage'[j] = IF n + 1 = Len(Needs(j)) THEN "working" ELSE stage[j]
    BY <1>3 DEF SlotsInv, TypeOK
  <2>4. /\ taken'[j] <= Len(Needs(j))
        /\ stage'[j] # "idle"
        /\ stage'[j] \in {"working", "leaving"} <=> taken'[j] = Len(Needs(j))
    BY <1>2, <2>3
  <2> QED
    BY <2>1, <2>2, <2>4 DEF SlotsInv, GrantInv
<1>6. Telling /\ Telling'
  BY <1>4, <1>5, TellingHolds, TellingHoldsNext DEF SlotsInv
<1>7. \A k \in Jobs \ {j} : /\ Holds(k, "permit")' <=> Holds(k, "permit")
                            /\ Holds(k, "mutations")' <=> Holds(k, "mutations")
  <2>1. \A k \in Jobs \ {j} : taken'[k] = taken[k]
    BY <1>3 DEF SlotsInv, TypeOK
  <2> QED
    BY <1>6, <2>1 DEF Telling
<1>8. taken'[j] = n + 1
  BY <1>3 DEF SlotsInv, TypeOK
<1>9. Holds(j, "mutations")' => Holds(j, "mutations") \/ resource = "mutations"
  BY <1>2, <1>6, <1>8, NeedsOf DEF Telling, n, Changes
<1>10. Holds(j, "permit")' => Holds(j, "permit") \/ resource = "permit"
  BY <1>2, <1>6, <1>8, NeedsOf DEF Telling, n, Changes
<1>11. LockInv'
  <2> SUFFICES ASSUME NEW k \in Jobs, NEW l \in Jobs, ConnOf[k] = ConnOf[l], k # l,
                      Holds(k, "mutations")', Holds(l, "mutations")'
               PROVE  FALSE
    BY DEF LockInv, Peers
  <2>1. ~(Holds(k, "mutations") /\ Holds(l, "mutations"))
    BY DEF SlotsInv, LockInv, Peers
  <2>2. /\ resource = "mutations"
        /\ \/ k = j /\ Holds(l, "mutations")
           \/ l = j /\ Holds(k, "mutations")
    BY <2>1, <1>7, <1>9
  <2>3. LockHolders(ConnOf[j]) = {}
    BY <1>1, <2>2 DEF Available
  <2> QED
    BY <2>2, <2>3 DEF LockHolders
<1>12. PermitInv'
  <2> SUFFICES ASSUME NEW c \in Conns
               PROVE  Cardinality(PermitHolders(c)') <= PermitsPerConn
    BY DEF PermitInv
  <2>1. Cardinality(PermitHolders(c)) <= PermitsPerConn
    BY DEF SlotsInv, PermitInv
  <2>2. CASE resource = "permit" /\ ConnOf[j] = c
    <3>1. PermitHolders(c)' \subseteq PermitHolders(c) \cup {j}
      BY <1>7 DEF PermitHolders
    <3>2. Cardinality(PermitHolders(c)) < PermitsPerConn
      BY <1>1, <2>2 DEF Available
    <3>3. /\ IsFiniteSet(PermitHolders(c) \cup {j})
          /\ Cardinality(PermitHolders(c) \cup {j}) <= Cardinality(PermitHolders(c)) + 1
      <4> DEFINE before == PermitHolders(c)
      <4>1. IsFiniteSet(before) /\ Cardinality(before) \in Nat
        BY HoldersFinite
      <4> HIDE DEF before
      <4>2. /\ IsFiniteSet(before \cup {j})
            /\ Cardinality(before \cup {j}) = Cardinality(before)
               \/ Cardinality(before \cup {j}) = Cardinality(before) + 1
        BY <4>1, FS_AddElement
      <4> QED
        BY <4>1, <4>2 DEF before
    <3>4. Cardinality(PermitHolders(c)') <= Cardinality(PermitHolders(c) \cup {j})
      BY <3>1, <3>3, FS_Subset
    <3>5. Cardinality(PermitHolders(c) \cup {j}) \in Nat
      BY <3>3, FS_CardinalityType
    <3> QED
      BY <3>2, <3>3, <3>4, <3>5, HoldersFinite, SlotsAssumption
  <2>3. CASE ~(resource = "permit" /\ ConnOf[j] = c)
    <3>1. PermitHolders(c)' \subseteq PermitHolders(c)
      BY <1>7, <1>10, <2>3 DEF PermitHolders
    <3>2. Cardinality(PermitHolders(c)') <= Cardinality(PermitHolders(c))
      BY <3>1, HoldersFinite, FS_Subset
    <3> QED
      BY <3>2, <2>1, HoldersFinite, SlotsAssumption
  <2> QED
    BY <2>2, <2>3
<1> QED
  BY <1>4, <1>5, <1>11, <1>12 DEF SlotsInv

LEMMA NextPreserves ==
    SlotsInv /\ [Next]_vars => SlotsInv'
<1> SUFFICES ASSUME SlotsInv, [Next]_vars PROVE SlotsInv'
  OBVIOUS
<1>1. ASSUME NEW j \in Jobs, Submit(j) PROVE SlotsInv'
  <2>1. TypeOK'
    BY <1>1 DEF Submit, SlotsInv, TypeOK, Stages
  <2>2. \A k \in Jobs \ {j} : stage'[k] = stage[k]
    BY <1>1 DEF Submit, SlotsInv, TypeOK
  <2>3. stage[j] = "idle" /\ stage'[j] = "waiting"
    BY <1>1 DEF Submit, SlotsInv, TypeOK
  <2> QED
    BY <1>1, <2>1, <2>2, <2>3, IdlePreserves DEF Submit, Moving
<1>2. ASSUME NEW j \in Jobs, Finish(j) \/ Leave(j) PROVE SlotsInv'
  BY <1>2, ReleasePreserves DEF Finish, Leave
<1>3. ASSUME NEW j \in Jobs, Expire(j) \/ Cancel(j) \/ Abort(j) PROVE SlotsInv'
  BY <1>3, InterruptPreserves DEF Expire, Cancel, Abort
<1>4. ASSUME NEW c \in Conns, Close(c) \/ Reopen(c) \/ Hang(c) PROVE SlotsInv'
  <2>1. TypeOK' /\ UNCHANGED <<stage, taken>>
    BY <1>4 DEF Close, Reopen, Hang, SlotsInv, TypeOK
  <2> QED
    BY <2>1, IdlePreserves DEF Moving
<1>5. CASE UNCHANGED vars
  <2>1. TypeOK' /\ UNCHANGED <<stage, taken>>
    BY <1>5 DEF vars, SlotsInv, TypeOK
  <2> QED
    BY <2>1, IdlePreserves DEF Moving
<1> QED
  BY <1>1, <1>2, <1>3, <1>4, <1>5, TakePreserves DEF Next

-----------------------------------------------------------------------------
(* The invariant holds whatever deadlines, cancellations, closings and     *)
(* hung remotes do to the jobs (Transfers::start, session.rs execute).     *)
THEOREM SlotsInvariant ==
    Spec => []SlotsInv
BY InitEstablishes, NextPreserves, PTL DEF Spec

(* Two jobs never change one connection's remote at the same time, the     *)
(* cleanup of an upload included (Session::mutations).                     *)
THEOREM ChangesSerialized ==
    Spec => []ChangesAreSerialized
<1>1. SlotsInv => ChangesAreSerialized
  <2> SUFFICES ASSUME SlotsInv, NEW j \in Jobs, NEW k \in Peers(j), Changing(j), Changing(k)
               PROVE  j = k
    BY DEF ChangesAreSerialized
  <2>1. k \in Jobs /\ Telling
    BY TellingHolds DEF SlotsInv, Peers
  <2>2. ASSUME NEW i \in Jobs, Changing(i) PROVE Holds(i, "mutations")
    <3>1. taken[i] = Len(Needs(i))
      BY <2>2 DEF SlotsInv, GrantInv, Changing
    <3>2. KindOf[i] = "upload" \/ Changes(i)
      BY <2>2 DEF Changing, Mutating, Changes
    <3> QED
      BY <2>1, <3>1, <3>2, NeedsOf DEF Telling
  <2> QED
    BY <2>1, <2>2 DEF SlotsInv, LockInv
<1> QED
  BY <1>1, SlotsInvariant, PTL

(* A connection has at most as many global slots as it has permits: the    *)
(* permit is taken first (transfer.rs, Transfers::start).                  *)
THEOREM RoomIsLeft ==
    Spec => []BusyConnectionLeavesRoom
<1>1. SlotsInv => BusyConnectionLeavesRoom
  <2> SUFFICES ASSUME SlotsInv, NEW c \in Conns
               PROVE  Cardinality({j \in GlobalHolders : ConnOf[j] = c}) <= PermitsPerConn
    BY DEF BusyConnectionLeavesRoom
  <2> DEFINE mine == {j \in GlobalHolders : ConnOf[j] = c}
  <2>1. mine \subseteq PermitHolders(c)
    BY TellingHolds DEF SlotsInv, TypeOK, Telling, GlobalHolders, PermitHolders
  <2>2. IsFiniteSet(mine) /\ Cardinality(mine) <= Cardinality(PermitHolders(c))
    BY <2>1, HoldersFinite, FS_Subset
  <2>3. Cardinality(mine) \in Nat
    BY <2>2, FS_CardinalityType
  <2>4. Cardinality(PermitHolders(c)) <= PermitsPerConn
    BY DEF SlotsInv, PermitInv
  <2> QED
    BY <2>2, <2>3, <2>4, HoldersFinite, SlotsAssumption
<1> QED
  BY <1>1, SlotsInvariant, PTL

-----------------------------------------------------------------------------
(* Counting: when f maps S to T and no element of T is met more than n     *)
(* times, S has at most n elements for each of T.                          *)
LEMMA Counting ==
    ASSUME NEW S, IsFiniteSet(S), NEW T, IsFiniteSet(T), NEW f \in [S -> T], NEW n \in Nat,
           \A t \in T : Cardinality({s \in S : f[s] = t}) <= n
    PROVE  Cardinality(S) <= Cardinality(T) * n
<1> DEFINE Met(t) == {s \in S : f[s] = t}
           Places(t) == Injection(Met(t), 1 .. n)
           place == [t \in T |-> CHOOSE g : g \in Places(t)]
           both == [s \in S |-> <<f[s], place[f[s]][s]>>]
<1>1. ASSUME NEW t \in T PROVE place[t] \in Places(t)
  <2>1. IsFiniteSet(Met(t)) /\ Cardinality(Met(t)) \in Nat
    <3>1. Met(t) \in SUBSET S
      OBVIOUS
    <3> QED
      BY <3>1, FS_Subset, FS_CardinalityType
  <2> DEFINE m == Cardinality(Met(t))
  <2>2. PICK g : g \in Bijection(1 .. m, Met(t))
    BY <2>1, FS_CardinalityType DEF ExistsBijection
  <2>3. ExistsBijection(Met(t), 1 .. m)
    BY <2>2, Fun_ExistsBijSymmetric DEF ExistsBijection
  <2>4. PICK h : h \in Bijection(Met(t), 1 .. m)
    BY <2>3 DEF ExistsBijection
  <2>5. 1 .. m \subseteq 1 .. n
    BY <2>1
  <2>6. h \in Places(t)
    BY <2>4, <2>5 DEF Bijection, Injection
  <2> QED
    BY <2>6
<1> HIDE DEF place
<1>2. both \in Injection(S, T \X (1 .. n))
  <2>1. ASSUME NEW s \in S PROVE place[f[s]][s] \in 1 .. n
    BY <1>1 DEF Injection
  <2>2. ASSUME NEW a \in S, NEW b \in S, both[a] = both[b] PROVE a = b
    <3>1. f[a] = f[b] /\ place[f[a]][a] = place[f[a]][b]
      BY <2>2
    <3>2. a \in Met(f[a]) /\ b \in Met(f[a])
      BY <3>1
    <3> QED
      BY <1>1, <3>1, <3>2 DEF Injection, IsInjective
  <2>3. both \in [S -> T \X (1 .. n)]
    BY <2>1
  <2> QED
    BY <2>2, <2>3 DEF Injection, IsInjective
<1>3. IsFiniteSet(T \X (1 .. n)) /\ Cardinality(T \X (1 .. n)) = Cardinality(T) * n
  <2>1. IsFiniteSet(1 .. n) /\ Cardinality(1 .. n) = n
    BY FS_Interval
  <2> QED
    BY <2>1, FS_Product
<1> QED
  BY <1>2, <1>3, FS_Injection

(* In a gridlock every job stands before a resource it cannot have: the    *)
(* holders of the global slots before the lock, the holders of the locks   *)
(* before a global slot.                                                   *)
LEMMA StuckJobs ==
    ASSUME SlotsInv, Gridlock, NEW j \in Jobs
    PROVE  /\ Holds(j, "global") => Awaits(j, "mutations")
           /\ Holds(j, "mutations") => /\ Awaits(j, "global")
                                       /\ Holds(j, "permit") /\ ~Holds(j, "global")
           /\ stage[j] = "waiting" =>
                 Awaits(j, "permit") \/ Awaits(j, "mutations") \/ Awaits(j, "global")
           /\ Holds(j, "permit") => Awaits(j, "mutations") \/ Awaits(j, "global")
<1>1. Telling
  BY TellingHolds DEF SlotsInv
<1>2. /\ taken[j] \in 0 .. 3 /\ taken[j] <= Len(Needs(j)) /\ stage[j] \in {"idle", "waiting"}
      /\ stage[j] = "idle" => taken[j] = 0
      /\ taken[j] # Len(Needs(j))
  BY DEF SlotsInv, TypeOK, GrantInv, Gridlock
<1>3. Len(Needs(j)) \in 2 .. 3
  BY NeedsOf
<1>4. taken[j] \in {0, 1, 2} /\ taken[j] < Len(Needs(j))
  <2>1. ASSUME NEW n \in 0 .. 3, NEW l \in 2 .. 3, n <= l, n # l
        PROVE  n \in {0, 1, 2} /\ n < l
    BY <2>1
  <2> QED
    BY <1>2, <1>3, <2>1
<1>5. \A resource : Awaits(j, resource) <=>
          stage[j] = "waiting" /\ Needs(j)[taken[j] + 1] = resource
  BY <1>4 DEF Awaits
<1>6. CASE KindOf[j] = "upload"
  <2>1. Needs(j) = <<"permit", "mutations", "global">> /\ ~Changes(j)
    BY <1>6, NeedsOf
  <2> QED
    BY <1>1, <1>2, <1>4, <1>5, <1>6, <2>1 DEF Telling
<1>7. CASE Changes(j)
  <2>1. Needs(j) = <<"permit", "global", "mutations">> /\ KindOf[j] # "upload"
    BY <1>7, NeedsOf
  <2> QED
    BY <1>1, <1>2, <1>4, <1>5, <1>7, <2>1 DEF Telling
<1>8. CASE KindOf[j] \in {"read", "download"}
  <2>1. Needs(j) = <<"permit", "global">> /\ KindOf[j] # "upload" /\ ~Changes(j)
    BY <1>8, NeedsOf DEF Changes
  <2> QED
    BY <1>1, <1>2, <1>4, <1>5, <1>8, <2>1 DEF Telling
<1> QED
  BY <1>6, <1>7, <1>8, NeedsOf

LEMMA LockIsBusy ==
    ASSUME SlotsInv, Gridlock, NEW j \in Jobs, Awaits(j, "mutations")
    PROVE  \E k \in LockHolders(ConnOf[j]) : Awaits(k, "global")
<1>1. LockHolders(ConnOf[j]) # {}
  BY DEF Gridlock, Available
<1>2. PICK k : k \in LockHolders(ConnOf[j])
  BY <1>1
<1> QED
  BY <1>2, StuckJobs DEF LockHolders

(* Whatever is first waited for, in the end somebody waits for a global    *)
(* slot, and there is none.                                                *)
LEMMA SlotsAreTaken ==
    ASSUME SlotsInv, Gridlock
    PROVE  Cardinality(GlobalHolders) >= GlobalSlots
<1>1. ASSUME NEW j \in Jobs, Awaits(j, "mutations") \/ Awaits(j, "global")
      PROVE  \E k \in Jobs : Awaits(k, "global")
  BY <1>1, LockIsBusy DEF LockHolders
<1>2. PICK w \in Jobs : stage[w] = "waiting"
  BY DEF Gridlock
<1>3. ASSUME Awaits(w, "permit") PROVE \E k \in Jobs : Awaits(k, "global")
  <2>1. ~(Cardinality(PermitHolders(ConnOf[w])) < PermitsPerConn)
    BY <1>3 DEF Gridlock, Available
  <2>2. PermitHolders(ConnOf[w]) # {}
    BY <2>1, FS_EmptySet, SlotsAssumption
  <2>3. PICK p \in Jobs : Holds(p, "permit")
    BY <2>2 DEF PermitHolders
  <2> QED
    BY <2>3, <1>1, StuckJobs
<1>4. \E k \in Jobs : Awaits(k, "global")
  BY <1>1, <1>2, <1>3, StuckJobs
<1>5. ~(Cardinality(GlobalHolders) < GlobalSlots)
  BY <1>4 DEF Gridlock, Available
<1>6. IsFiniteSet(GlobalHolders)
  BY SlotsAssumption, FS_Subset DEF GlobalHolders
<1> QED
  BY <1>5, <1>6, FS_CardinalityType, SlotsAssumption

(* A crossed connection holds a permit without a global slot: the upload's *)
LEMMA CrossedConnections ==
    ASSUME SlotsInv, Gridlock, NEW c \in Conns, Crossed(c)
    PROVE  Cardinality({j \in GlobalHolders : ConnOf[j] = c}) <= PermitsPerConn - 1
<1> DEFINE mine == {j \in GlobalHolders : ConnOf[j] = c}
           permits == PermitHolders(c)
<1>1. PICK u \in LockHolders(c) : Awaits(u, "global")
  BY DEF Crossed
<1>2. u \in permits /\ u \notin GlobalHolders
  BY <1>1, StuckJobs DEF LockHolders, PermitHolders, GlobalHolders
<1>3. mine \subseteq permits
  BY TellingHolds DEF SlotsInv, TypeOK, Telling, GlobalHolders, PermitHolders
<1>4. mine \subseteq permits \ {u}
  BY <1>2, <1>3
<1>5. /\ IsFiniteSet(permits) /\ Cardinality(permits) \in Nat
      /\ Cardinality(permits) <= PermitsPerConn
  BY HoldersFinite DEF SlotsInv, PermitInv
<1> HIDE DEF permits, mine
<1>6. IsFiniteSet(permits \ {u}) /\ Cardinality(permits \ {u}) = Cardinality(permits) - 1
  BY <1>2, <1>5, FS_RemoveElement
<1>7. IsFiniteSet(mine) /\ Cardinality(mine) <= Cardinality(permits \ {u})
  BY <1>4, <1>6, FS_Subset
<1>8. Cardinality(mine) \in Nat
  BY <1>7, FS_CardinalityType
<1>9. Cardinality(mine) <= PermitsPerConn - 1
  BY <1>5, <1>6, <1>7, <1>8, SlotsAssumption
<1> QED
  BY <1>9 DEF mine

(* The opposite lock orders of uploads and RPC mutations stop the plugin   *)
(* only when every global slot is held by a mutation that waits for an     *)
(* upload of its own connection (Transfers::start, session.rs execute).    *)
THEOREM GridlockNeedsEverySlot ==
    Spec => []GridlockTakesEverySlot
<1>1. SlotsInv => GridlockTakesEverySlot
  <2> SUFFICES ASSUME SlotsInv, Gridlock
               PROVE  /\ \A j \in GlobalHolders : Awaits(j, "mutations") /\ Crossed(ConnOf[j])
                      /\ Cardinality({c \in Conns : Crossed(c)}) * (PermitsPerConn - 1)
                            >= GlobalSlots
    BY DEF GridlockTakesEverySlot
  <2>1. \A j \in GlobalHolders : Awaits(j, "mutations") /\ Crossed(ConnOf[j])
    BY StuckJobs, LockIsBusy DEF GlobalHolders, Crossed
  <2> DEFINE T == {c \in Conns : Crossed(c)}
             S == GlobalHolders
             f == [j \in S |-> ConnOf[j]]
             n == PermitsPerConn - 1
  <2>2. IsFiniteSet(S)
    BY SlotsAssumption, FS_Subset DEF GlobalHolders
  <2>3. IsFiniteSet(T)
    <3> DEFINE conns == {ConnOf[j] : j \in Jobs}
    <3>1. IsFiniteSet(conns)
      <4>1. [j \in Jobs |-> ConnOf[j]] \in Surjection(Jobs, conns)
        BY DEF Surjection
      <4> QED
        BY <4>1, SlotsAssumption, FS_Surjection
    <3>2. T \subseteq conns
      BY DEF Crossed, GlobalHolders
    <3> QED
      BY <3>1, <3>2, FS_Subset
  <2>4. f \in [S -> T] /\ n \in Nat
    BY <2>1, SlotsAssumption DEF GlobalHolders
  <2>5. ASSUME NEW c \in T PROVE Cardinality({j \in S : f[j] = c}) <= n
    <3>1. {j \in S : f[j] = c} = {j \in GlobalHolders : ConnOf[j] = c}
      OBVIOUS
    <3> QED
      BY <3>1, CrossedConnections
  <2>6. Cardinality(S) >= GlobalSlots
    BY SlotsAreTaken
  <2>7. /\ Cardinality(S) \in Nat /\ Cardinality(T) \in Nat
    BY <2>2, <2>3, FS_CardinalityType
  <2> HIDE DEF S, T, f, n
  <2>8. Cardinality(S) <= Cardinality(T) * n
    BY <2>2, <2>3, <2>4, <2>5, Counting
  <2>9. Cardinality(T) * n \in Nat
    BY <2>4, <2>7
  <2>10. Cardinality(T) * n >= GlobalSlots
    BY <2>6, <2>7, <2>8, <2>9, SlotsAssumption
  <2> QED
    BY <2>1, <2>10 DEF T, n
<1> QED
  BY <1>1, SlotsInvariant, PTL
=============================================================================
