----------------------------- MODULE Remote_proofs -----------------------------
(***************************************************************************)
(* Proofs about what a session does with its remote, for every value of    *)
(* the constants: listings (ListingInv is inductive, and the pages are     *)
(* exact), calls that change files (what a call may rely on at each of its *)
(* spots; its outcome is true, and no content is lost that nobody asked    *)
(* for), connections (they go the way their request says), and the tests   *)
(* of a destination and of capabilities, for all answers and sets.         *)
(***************************************************************************)
EXTENDS MCRemote, FiniteSetTheorems, SequenceTheorems, TLAPS

(***************************************************************************)
(* Listings.                                                               *)
(***************************************************************************)

(* The part of the invariant about the table, and that about the calls.    *)
TableConsistent == \A t \in table : Consistent(cursor[t], {})
CallsConsistent == \A c \in Callers : place[c] # "out" => Consistent(listing[c], entries[c])
Bounded == Cardinality(table) <= MaxCursors

-----------------------------------------------------------------------------
(* Sets of tokens are finite, and parts of them are no larger.             *)
LEMMA TokensAreFinite ==
    ASSUME NEW S \in SUBSET Tokens
    PROVE  IsFiniteSet(S)
<1>1. IsFiniteSet(Tokens)
  BY ListingAssumption, FS_Interval, MaxTokens \in Int, 1 \in Int DEF Tokens, ListingAssumption
<1> QED
  BY <1>1, FS_Subset

LEMMA PartIsSmaller ==
    ASSUME NEW S \in SUBSET Tokens, NEW T \in SUBSET S
    PROVE  Cardinality(T) \in Nat /\ Cardinality(T) <= Cardinality(S)
BY TokensAreFinite, FS_Subset, FS_CardinalityType

LEMMA OneMore ==
    ASSUME NEW S \in SUBSET Tokens, NEW t \in Tokens
    PROVE  Cardinality(S \cup {t}) <= Cardinality(S) + 1
<1>1. IsFiniteSet(S) /\ Cardinality(S) \in Nat
  BY TokensAreFinite, FS_CardinalityType
<1>2. \/ t \in S /\ Cardinality(S \cup {t}) = Cardinality(S)
      \/ t \notin S /\ Cardinality(S \cup {t}) = Cardinality(S) + 1
  BY <1>1, FS_AddElement
<1> QED
  BY <1>1, <1>2

(* A new listing has delivered nothing.                                    *)
LEMMA FreshIsConsistent ==
    ASSUME NEW d \in Dirs
    PROVE  Fresh(d) \in Listings /\ Consistent(Fresh(d), {})
BY ListingAssumption DEF Fresh, Listings, Consistent, Visible

(* What a page has delivered stays delivered when its listing goes on.     *)
LEMMA DeliveredStays ==
    ASSUME NEW l \in Listings, NEW page \in SUBSET Nat, Consistent(l, page)
    PROVE  LET m == [l EXCEPT !.before = @ \cup page]
           IN  m \in Listings /\ Consistent(m, {})
BY DEF Listings, Consistent, Visible

(* The directory's own entry is yielded and not delivered.                 *)
LEMMA SkipIsConsistent ==
    ASSUME NEW l \in Listings, NEW page \in SUBSET Nat, Consistent(l, page),
           l.pending = 0, l.at < Count[l.dir], l.at + 1 = Own[l.dir]
    PROVE  LET m == [l EXCEPT !.at = @ + 1] IN m \in Listings /\ Consistent(m, page)
<1>1. l.at \in Nat /\ Count[l.dir] \in Nat
  BY ListingAssumption DEF Listings
<1>2. Visible([l EXCEPT !.at = @ + 1]) = Visible(l)
  BY <1>1 DEF Visible, Listings
<1> QED
  BY <1>1, <1>2 DEF Consistent, Listings

(* An entry that is taken is new, and it is the one that is missing.       *)
LEMMA TakenIsConsistent ==
    ASSUME NEW l \in Listings, NEW page \in SUBSET Nat, Consistent(l, page), Yields(l)
    PROVE  /\ Upcoming(l) \in 1 .. Count[l.dir]
           /\ Taken(l) \in Listings /\ Taken(l).pending = 0
           /\ Taken(l).dir = l.dir /\ Taken(l).before = l.before /\ Taken(l).at >= l.at
           /\ Taken(l).at <= Count[l.dir]
           /\ Upcoming(l) \notin l.before \cup page
           /\ Visible(Taken(l)) = l.before \cup page \cup {Upcoming(l)}
<1>1. /\ l.at \in Nat /\ Count[l.dir] \in Nat /\ Own[l.dir] \in Nat /\ l.pending \in Nat
      /\ l.at <= Count[l.dir]
  BY ListingAssumption DEF Listings, Consistent
<1>2. CASE l.pending # 0
  <2>1. Taken(l) = [l EXCEPT !.pending = 0] /\ Upcoming(l) = l.pending
    BY <1>2 DEF Taken, Upcoming
  <2>2. Visible(Taken(l)) = Visible(l)
    BY <2>1 DEF Visible, Listings
  <2> QED
    BY <1>1, <1>2, <2>1, <2>2 DEF Consistent, Visible, Listings
<1>3. CASE l.pending = 0
  <2>1. Taken(l) = [l EXCEPT !.at = @ + 1] /\ Upcoming(l) = l.at + 1
    BY <1>3 DEF Taken, Upcoming
  <2>2. l.at < Count[l.dir] /\ l.at + 1 # Own[l.dir]
    BY <1>3 DEF Yields
  <2>3. Visible(Taken(l)) = Visible(l) \cup {l.at + 1}
    BY <1>1, <2>1, <2>2 DEF Visible, Listings
  <2>4. l.before \cup page = Visible(l)
    BY <1>1, <1>3 DEF Consistent, Visible
  <2>5. l.at + 1 \notin Visible(l)
    BY <1>1 DEF Visible
  <2> QED
    BY <1>1, <1>3, <2>1, <2>2, <2>3, <2>4, <2>5 DEF Listings
<1> QED
  BY <1>2, <1>3

LEMMA AddIsConsistent ==
    ASSUME NEW l \in Listings, NEW page \in SUBSET Nat, Consistent(l, page), Yields(l)
    PROVE  Consistent(Taken(l), page \cup {Upcoming(l)})
BY TakenIsConsistent DEF Consistent, Visible, Listings

LEMMA PostponeIsConsistent ==
    ASSUME NEW l \in Listings, NEW page \in SUBSET Nat, Consistent(l, page), Yields(l)
    PROVE  LET m == [Taken(l) EXCEPT !.pending = Upcoming(l)]
           IN  m \in Listings /\ Consistent(m, page)
<1> DEFINE m == [Taken(l) EXCEPT !.pending = Upcoming(l)]
<1>1. /\ m \in Listings /\ m.pending = Upcoming(l) /\ m.before = l.before
      /\ m.dir = l.dir /\ m.at = Taken(l).at
  BY TakenIsConsistent, ListingAssumption DEF Listings
<1>2. Visible(m) = Visible(Taken(l))
  BY <1>1, TakenIsConsistent DEF Visible
<1> QED
  BY <1>1, <1>2, TakenIsConsistent, ListingAssumption DEF Consistent

-----------------------------------------------------------------------------
(* Nobody lists, and the table is empty.                                   *)
LEMMA InitEstablishes ==
    Init => ListingInv
<1> SUFFICES ASSUME Init PROVE ListingInv
  OBVIOUS
<1>1. Cardinality(table) <= MaxCursors
  BY ListingAssumption, FS_EmptySet DEF Init
<1> QED
  BY <1>1, FreshIsConsistent, ListingAssumption
     DEF Init, ListingInv, TypeOK, TokenInv, LoopInv, Tokens

(* A turn of the loop touches its own call alone: enough that this one     *)
(* keeps to its directory.                                                 *)
LEMMA TurnPreserves ==
    ASSUME ListingInv, NEW c \in Callers, place[c] = "pulling",
           NEW l \in Listings, NEW page \in SUBSET Nat, NEW size \in Nat, NEW ended \in BOOLEAN,
           NEW complete \in BOOLEAN,
           Consistent(l, page), page = {} => size = 0,
           ended => complete /\ l.pending = 0 /\ l.at = Count[l.dir],
           page = {} => /\ complete => ended
                        /\ ~complete => pulls[c] = 0 /\ Own[l.dir] \in 1 .. l.at,
           UNCHANGED <<table, cursor, old, issued>>,
           listing' = [listing EXCEPT ![c] = l], entries' = [entries EXCEPT ![c] = page],
           bytes' = [bytes EXCEPT ![c] = size], exhausted' = [exhausted EXCEPT ![c] = ended],
           Turn(c, complete)
    PROVE  ListingInv'
<1>1. /\ TypeOK /\ limit[c] \in Nat /\ limit[c] > 0 /\ pulls[c] \in Nat
      /\ limit' = limit /\ source' = source
      /\ pulls' = [pulls EXCEPT ![c] = @ + 1]
      /\ place' = [place EXCEPT ![c] = IF complete \/ pulls[c] + 1 = limit[c] + 1 THEN "full" ELSE @]
  BY DEF ListingInv, TypeOK, LoopInv, Turn, Turns
<1>2. TypeOK'
  BY <1>1 DEF TypeOK
<1>3. TokenInv'
  BY <1>1 DEF ListingInv, TypeOK, TokenInv
<1>4. LoopInv'
  <2>1. ASSUME NEW k \in Callers, k # c
        PROVE  /\ place'[k] = place[k] /\ entries'[k] = entries[k] /\ bytes'[k] = bytes[k]
               /\ pulls'[k] = pulls[k] /\ exhausted'[k] = exhausted[k] /\ limit'[k] = limit[k]
               /\ listing'[k] = listing[k]
    BY <1>1, <2>1 DEF TypeOK
  <2>2. /\ entries'[c] = page /\ bytes'[c] = size /\ pulls'[c] = pulls[c] + 1
        /\ exhausted'[c] = ended /\ limit'[c] = limit[c] /\ listing'[c] = l
        /\ place'[c] = IF complete \/ pulls[c] + 1 = limit[c] + 1 THEN "full" ELSE "pulling"
    BY <1>1 DEF TypeOK
  <2> QED
    BY <1>1, <2>1, <2>2 DEF ListingInv, LoopInv
<1>5. CallsConsistent'
  BY <1>1 DEF ListingInv, TypeOK, CallsConsistent
<1> QED
  BY <1>2, <1>3, <1>4, <1>5 DEF ListingInv, CallsConsistent

-----------------------------------------------------------------------------
(* A call that leaves has nothing in its hands.                            *)
LEMMA LeavePreserves ==
    ASSUME ListingInv, NEW c \in Callers, Leave(c)
    PROVE  /\ place' \in [Callers -> {"out", "pulling", "full"}]
           /\ listing' \in [Callers -> Listings] /\ limit' \in [Callers -> Nat]
           /\ source' \in [Callers -> 0 .. MaxTokens] /\ entries' \in [Callers -> SUBSET Nat]
           /\ bytes' \in [Callers -> Nat] /\ pulls' \in [Callers -> Nat]
           /\ exhausted' \in [Callers -> BOOLEAN]
           /\ LoopInv' /\ CallsConsistent'
           /\ \A k \in Callers : /\ place'[k] # "out" => place[k] # "out"
                                 /\ source'[k] # 0 => source'[k] = source[k]
<1> USE ListingAssumption
<1>1. TypeOK
  BY DEF ListingInv
<1>2. LoopInv'
  BY DEF Leave, ListingInv, TypeOK, LoopInv
<1>3. CallsConsistent'
  BY DEF Leave, ListingInv, TypeOK, CallsConsistent
<1> QED
  BY <1>1, <1>2, <1>3, FreshIsConsistent DEF Leave, TypeOK

(* Dropping cursors disturbs no listing.                                   *)
LEMMA KeepPreserves ==
    ASSUME ListingInv, NEW tokens \in SUBSET table, Keep(tokens)
    PROVE  /\ table' = tokens /\ table' \subseteq Tokens /\ old' \subseteq table'
           /\ cursor' \in [Tokens -> Listings]
           /\ Bounded' /\ TableConsistent'
<1>1. table' = tokens /\ old' = {} /\ table \subseteq Tokens
  BY DEF Keep, ListingInv, TypeOK
<1>2. Bounded'
  <2>1. /\ Cardinality(tokens) \in Nat /\ Cardinality(table) \in Nat
        /\ Cardinality(tokens) <= Cardinality(table)
    BY <1>1, PartIsSmaller
  <2> QED
    BY <1>1, <2>1, ListingAssumption DEF ListingInv, Bounded
<1>3. cursor' \in [Tokens -> Listings]
  BY FreshIsConsistent, ListingAssumption DEF Keep, ListingInv, TypeOK
<1>4. TableConsistent'
  BY <1>1 DEF Keep, ListingInv, TableConsistent
<1> QED
  BY <1>1, <1>2, <1>3, <1>4

(* A listing that enters a call comes from the table or is new.            *)
LEMMA EnterPreserves ==
    ASSUME ListingInv, NEW c \in Callers, place[c] = "out",
           NEW l \in Listings, Consistent(l, {}), NEW token \in 0 .. issued, Enter(c, l, token),
           UNCHANGED issued, table' \subseteq table, old' \subseteq table',
           token # 0 => token \in table \ table',
           cursor' \in [Tokens -> Listings], Bounded', TableConsistent'
    PROVE  ListingInv'
<1>1. TypeOK /\ TokenInv /\ LoopInv /\ CallsConsistent
  BY DEF ListingInv, CallsConsistent
<1>2. PICK n \in Limits : limit' = [limit EXCEPT ![c] = n]
  BY DEF Enter
<1>3. n \in Nat /\ n > 0
  BY ListingAssumption
<1>4. TypeOK'
  <2>1. token \in 0 .. MaxTokens
    BY <1>1, ListingAssumption DEF TypeOK
  <2>2. /\ place' \in [Callers -> {"out", "pulling", "full"}]
        /\ listing' \in [Callers -> Listings] /\ limit' \in [Callers -> Nat]
        /\ source' \in [Callers -> 0 .. MaxTokens]
    BY <1>1, <1>2, <1>3, <2>1 DEF Enter, TypeOK
  <2> QED
    BY <1>1, <2>2 DEF Enter, TypeOK
<1>5. TokenInv'
  <2>1. \A k \in Callers : place[k] # "out" /\ source[k] # 0 =>
           source[k] <= issued /\ source[k] \notin table
    BY <1>1 DEF TokenInv
  <2>2. \A k \in Callers : /\ k # c => place'[k] = place[k] /\ source'[k] = source[k]
                           /\ k = c => place'[k] # "out" /\ source'[k] = token
    BY <1>1 DEF Enter, TypeOK
  <2>3. ASSUME NEW k \in Callers, place'[k] # "out", source'[k] # 0
        PROVE  source'[k] <= issued' /\ source'[k] \notin table'
    <3>1. CASE k = c
      BY <1>1, <2>2, <2>3, <3>1 DEF TypeOK
    <3>2. CASE k # c
      BY <2>1, <2>2, <2>3, <3>2
    <3> QED
      BY <3>1, <3>2
  <2>4. ASSUME NEW k \in Callers, NEW j \in Callers \ {k}, place'[k] # "out", source'[k] # 0,
               place'[j] # "out"
        PROVE  source'[j] # source'[k]
    <3>1. CASE k # c /\ j # c
      BY <1>1, <2>2, <2>4, <3>1 DEF TokenInv
    <3>2. CASE k = c \/ j = c
      BY <2>1, <2>2, <2>4, <3>2
    <3> QED
      BY <3>1, <3>2
  <2>5. \A t \in table' : t <= issued'
    BY <1>1 DEF TokenInv
  <2> QED
    BY <2>3, <2>4, <2>5 DEF TokenInv
<1>6. LoopInv'
  BY <1>1, <1>2, <1>3 DEF Enter, LoopInv, TypeOK
<1>7. CallsConsistent'
  BY <1>1 DEF Enter, LoopInv, TypeOK, CallsConsistent
<1> QED
  BY <1>4, <1>5, <1>6, <1>7 DEF ListingInv, CallsConsistent, TableConsistent, Bounded

-----------------------------------------------------------------------------
LEMMA BeginPreserves ==
    ASSUME ListingInv, NEW c \in Callers, Begin(c)
    PROVE  ListingInv'
<1>1. PICK d \in Dirs : Enter(c, Fresh(d), 0)
  BY DEF Begin
<1>2. place[c] = "out" /\ UNCHANGED <<table, cursor, old, issued>>
  BY DEF Begin
<1>3. TypeOK /\ Bounded' /\ TableConsistent'
  BY <1>2 DEF ListingInv, Bounded, TableConsistent
<1>4. 0 \in 0 .. issued
  BY <1>3 DEF TypeOK
<1> HIDE DEF Enter
<1> QED
  BY <1>1, <1>2, <1>3, <1>4, FreshIsConsistent, EnterPreserves DEF TypeOK

(* A token that is accepted is removed, so that it serves once.            *)
LEMMA ContinuePreserves ==
    ASSUME ListingInv, NEW c \in Callers, Continue(c)
    PROVE  ListingInv'
<1>1. PICK t \in 1 .. issued, d \in Dirs :
          IF t \in Pruned /\ cursor[t].dir = d
          THEN Keep(Pruned \ {t}) /\ Enter(c, cursor[t], t)
          ELSE Keep(Pruned) /\ UNCHANGED calls
  BY DEF Continue
<1>2. place[c] = "out" /\ UNCHANGED issued /\ TypeOK /\ TableConsistent
  BY DEF Continue, ListingInv, TableConsistent
<1>3. Pruned \subseteq table
  BY DEF Pruned
<1>4. CASE t \in Pruned /\ cursor[t].dir = d
  <2>1. Keep(Pruned \ {t}) /\ Enter(c, cursor[t], t)
    BY <1>1, <1>4
  <2>2. cursor[t] \in Listings /\ Consistent(cursor[t], {}) /\ t \in table /\ t \in 0 .. issued
    BY <1>2, <1>3, <1>4 DEF TypeOK, TableConsistent
  <2>3. /\ table' = Pruned \ {t} /\ old' \subseteq table'
        /\ cursor' \in [Tokens -> Listings] /\ Bounded' /\ TableConsistent'
    BY <1>3, <2>1, KeepPreserves
  <2> QED
    BY <1>2, <1>3, <2>1, <2>2, <2>3, EnterPreserves
<1>5. CASE ~(t \in Pruned /\ cursor[t].dir = d)
  <2>1. Keep(Pruned) /\ UNCHANGED calls
    BY <1>1, <1>5
  <2>2. /\ table' = Pruned /\ table' \subseteq Tokens /\ old' \subseteq table'
        /\ cursor' \in [Tokens -> Listings] /\ Bounded' /\ TableConsistent'
    BY <1>3, <2>1, KeepPreserves
  <2> QED
    BY <1>2, <1>3, <2>1, <2>2
       DEF ListingInv, TypeOK, TokenInv, LoopInv, TableConsistent, Bounded, calls
<1> QED
  BY <1>4, <1>5

-----------------------------------------------------------------------------
LEMMA ExhaustPreserves ==
    ASSUME ListingInv, NEW c \in Callers, Exhaust(c)
    PROVE  ListingInv'
<1>1. /\ TypeOK /\ place[c] = "pulling" /\ Consistent(listing[c], entries[c])
      /\ entries[c] = {} => bytes[c] = 0
  BY DEF Exhaust, ListingInv, LoopInv
<1>2. listing' = [listing EXCEPT ![c] = listing[c]] /\ entries' = [entries EXCEPT ![c] = entries[c]]
      /\ bytes' = [bytes EXCEPT ![c] = bytes[c]]
  BY <1>1 DEF Exhaust, TypeOK
<1>3. /\ listing[c] \in Listings /\ entries[c] \in SUBSET Nat /\ bytes[c] \in Nat
      /\ listing[c].pending = 0 /\ listing[c].at = Count[listing[c].dir]
      /\ exhausted' = [exhausted EXCEPT ![c] = TRUE] /\ Turn(c, TRUE)
      /\ UNCHANGED <<table, cursor, old, issued>>
  BY <1>1 DEF Exhaust, TypeOK
<1> QED
  BY <1>1, <1>2, <1>3, TurnPreserves

LEMMA SkipPreserves ==
    ASSUME ListingInv, NEW c \in Callers, Skip(c)
    PROVE  ListingInv'
<1> DEFINE l == listing[c]
           m == [l EXCEPT !.at = @ + 1]
<1>1. /\ TypeOK /\ place[c] = "pulling" /\ Consistent(l, entries[c])
      /\ entries[c] = {} => bytes[c] = 0
      /\ entries[c] = {} /\ pulls[c] # 0 => Own[l.dir] \in 1 .. l.at
      /\ exhausted[c] = FALSE
  BY DEF Skip, ListingInv, LoopInv, TypeOK
<1>2. /\ l \in Listings /\ entries[c] \in SUBSET Nat /\ bytes[c] \in Nat /\ l.at \in Nat
      /\ pulls[c] \in Nat /\ Own[l.dir] \in Nat
  BY <1>1, ListingAssumption DEF TypeOK, Listings
<1>3. /\ l.pending = 0 /\ l.at < Count[l.dir] /\ l.at + 1 = Own[l.dir]
      /\ Turn(c, FALSE) /\ UNCHANGED <<table, cursor, old, issued>>
  BY DEF Skip
<1>4. m \in Listings /\ Consistent(m, entries[c]) /\ m.dir = l.dir /\ m.at = l.at + 1
  BY <1>1, <1>2, <1>3, SkipIsConsistent DEF Listings
<1>5. /\ listing' = [listing EXCEPT ![c] = m] /\ entries' = [entries EXCEPT ![c] = entries[c]]
      /\ bytes' = [bytes EXCEPT ![c] = bytes[c]] /\ exhausted' = [exhausted EXCEPT ![c] = FALSE]
  BY <1>1 DEF Skip, TypeOK
<1>6. entries[c] = {} => pulls[c] = 0 /\ Own[m.dir] \in 1 .. m.at
  BY <1>1, <1>2, <1>3, <1>4
<1> HIDE DEF m
<1> QED
  BY <1>1, <1>2, <1>3, <1>4, <1>5, <1>6, TurnPreserves

LEMMA AddPreserves ==
    ASSUME ListingInv, NEW c \in Callers, Add(c)
    PROVE  ListingInv'
<1> DEFINE l == listing[c]
           page == entries[c] \cup {Upcoming(l)}
           size == bytes[c] + Size[l.dir][Upcoming(l)]
<1>1. /\ TypeOK /\ place[c] = "pulling" /\ Consistent(l, entries[c]) /\ Yields(l)
      /\ exhausted[c] = FALSE
  BY DEF Add, ListingInv, LoopInv, TypeOK
<1>2. l \in Listings /\ entries[c] \in SUBSET Nat /\ bytes[c] \in Nat /\ l.dir \in Dirs
  BY <1>1 DEF TypeOK, Listings
<1>3. Upcoming(l) \in 1 .. Count[l.dir] /\ Taken(l) \in Listings
  BY <1>1, <1>2, TakenIsConsistent
<1>4. page \in SUBSET Nat /\ page # {} /\ size \in Nat
  BY <1>2, <1>3, ListingAssumption
<1>5. Consistent(Taken(l), page)
  BY <1>1, <1>2, AddIsConsistent
<1>6. /\ listing' = [listing EXCEPT ![c] = Taken(l)] /\ entries' = [entries EXCEPT ![c] = page]
      /\ bytes' = [bytes EXCEPT ![c] = size] /\ exhausted' = [exhausted EXCEPT ![c] = FALSE]
      /\ UNCHANGED <<table, cursor, old, issued>>
  BY <1>1 DEF Add, TypeOK
<1>7. PICK complete \in BOOLEAN : Turn(c, complete)
  BY DEF Add
<1> HIDE DEF l, page, size
<1> QED
  BY <1>1, <1>3, <1>4, <1>5, <1>6, <1>7, TurnPreserves

LEMMA PostponePreserves ==
    ASSUME ListingInv, NEW c \in Callers, Postpone(c)
    PROVE  ListingInv'
<1> DEFINE l == listing[c]
           m == [Taken(l) EXCEPT !.pending = Upcoming(l)]
<1>1. /\ TypeOK /\ place[c] = "pulling" /\ Consistent(l, entries[c]) /\ Yields(l) /\ ~Fits(c)
      /\ exhausted[c] = FALSE /\ (entries[c] = {} => bytes[c] = 0)
  BY DEF Postpone, ListingInv, LoopInv, TypeOK
<1>2. l \in Listings /\ entries[c] \in SUBSET Nat /\ bytes[c] \in Nat /\ l.dir \in Dirs
  BY <1>1 DEF TypeOK, Listings
<1>3. Upcoming(l) \in 1 .. Count[l.dir]
  BY <1>1, <1>2, TakenIsConsistent
<1>4. entries[c] # {}
  BY <1>1, <1>2, <1>3, ListingAssumption DEF Fits
<1>5. m \in Listings /\ Consistent(m, entries[c])
  BY <1>1, <1>2, PostponeIsConsistent
<1>6. /\ listing' = [listing EXCEPT ![c] = m] /\ entries' = [entries EXCEPT ![c] = entries[c]]
      /\ bytes' = [bytes EXCEPT ![c] = bytes[c]] /\ exhausted' = [exhausted EXCEPT ![c] = FALSE]
      /\ UNCHANGED <<table, cursor, old, issued>> /\ Turn(c, TRUE)
  BY <1>1 DEF Postpone, TypeOK
<1> HIDE DEF m
<1> QED
  BY <1>1, <1>2, <1>4, <1>5, <1>6, TurnPreserves

-----------------------------------------------------------------------------
LEMMA FailPreserves ==
    ASSUME ListingInv, NEW c \in Callers, Fail(c)
    PROVE  ListingInv'
<1>1. Leave(c) /\ UNCHANGED <<table, cursor, old, issued>>
  BY DEF Fail
<1> QED
  BY <1>1, LeavePreserves DEF ListingInv, TypeOK, TokenInv, CallsConsistent

(* The rest of a listing is stored where there was room for it.            *)
LEMMA StorePreserves ==
    ASSUME ListingInv, NEW c \in Callers, place[c] = "full", Cardinality(Pruned) < MaxCursors,
           Store(c)
    PROVE  /\ table' \subseteq Tokens /\ old' \subseteq table' /\ issued' \in 0 .. MaxTokens
           /\ cursor' \in [Tokens -> Listings]
           /\ table' = Pruned \cup {issued + 1} /\ issued' = issued + 1
           /\ Bounded' /\ TableConsistent'
<1> DEFINE rest == [listing[c] EXCEPT !.before = @ \cup entries[c]]
<1>1. /\ TypeOK /\ TokenInv /\ issued \in 0 .. MaxTokens /\ issued < MaxTokens
      /\ MaxTokens \in Nat /\ MaxCursors \in Nat
  BY ListingAssumption DEF ListingInv, TypeOK, Store
<1>2. /\ issued' = issued + 1 /\ table' = Pruned \cup {issued + 1} /\ old' = {}
      /\ issued + 1 \in Tokens /\ Pruned \subseteq table /\ table \subseteq Tokens
  BY <1>1 DEF Store, Pruned, Tokens, TypeOK
<1>3. rest \in Listings /\ Consistent(rest, {})
  <2>1. /\ listing[c] \in Listings /\ entries[c] \in SUBSET Nat
        /\ Consistent(listing[c], entries[c])
    BY <1>1 DEF ListingInv, TypeOK
  <2> QED
    BY <2>1, DeliveredStays
<1>4. Bounded'
  <2>1. Cardinality(Pruned \cup {issued + 1}) <= Cardinality(Pruned) + 1
    BY <1>2, OneMore
  <2>2. /\ Cardinality(Pruned) \in Nat /\ Cardinality(Pruned \cup {issued + 1}) \in Nat
    <3>1. Pruned \in SUBSET Tokens /\ Pruned \cup {issued + 1} \in SUBSET Tokens
      BY <1>2
    <3> QED
      BY <3>1, TokensAreFinite, FS_CardinalityType
  <2> QED
    BY <1>1, <1>2, <2>1, <2>2 DEF Bounded
<1>5. cursor' = [t \in Tokens |-> IF t = issued + 1 THEN rest
                                ELSE IF t \in Pruned THEN cursor[t] ELSE Fresh(Root)]
  BY <1>2 DEF Store
<1> HIDE DEF rest
<1>6. cursor' \in [Tokens -> Listings]
  BY <1>1, <1>3, <1>5, FreshIsConsistent, ListingAssumption DEF TypeOK
<1>7. TableConsistent'
  BY <1>2, <1>3, <1>5 DEF ListingInv, TableConsistent
<1> QED
  BY <1>1, <1>2, <1>4, <1>6, <1>7

LEMMA AnswerPreserves ==
    ASSUME ListingInv, NEW c \in Callers, Answer(c)
    PROVE  ListingInv'
<1>1. Leave(c) /\ place[c] = "full" /\ TypeOK /\ TokenInv
  BY DEF Answer, ListingInv
<1>2. Pruned \subseteq table
  BY DEF Pruned
<1>3. CASE UNCHANGED <<table, cursor, old, issued>>
  BY <1>1, <1>3, LeavePreserves DEF ListingInv, TypeOK, TokenInv, CallsConsistent
<1>4. CASE Keep(Pruned) /\ UNCHANGED issued
  <2>1. /\ table' = Pruned /\ table' \subseteq Tokens /\ old' \subseteq table'
        /\ cursor' \in [Tokens -> Listings] /\ Bounded' /\ TableConsistent'
    BY <1>2, <1>4, KeepPreserves
  <2> QED
    BY <1>1, <1>2, <1>4, <2>1, LeavePreserves
       DEF ListingInv, TypeOK, TokenInv, CallsConsistent, TableConsistent, Bounded
<1>5. CASE Cardinality(Pruned) < MaxCursors /\ Store(c)
  <2>1. /\ table' \subseteq Tokens /\ old' \subseteq table' /\ issued' \in 0 .. MaxTokens
        /\ cursor' \in [Tokens -> Listings]
        /\ table' = Pruned \cup {issued + 1} /\ issued' = issued + 1
        /\ Bounded' /\ TableConsistent'
    BY <1>1, <1>5, StorePreserves
  <2>2. TypeOK'
    BY <1>1, <2>1, LeavePreserves DEF TypeOK
  <2>3. TokenInv'
    <3>1. \A t \in table' : t <= issued'
      BY <1>1, <1>2, <2>1 DEF TokenInv, TypeOK, Tokens
    <3>2. \A k \in Callers : place'[k] # "out" /\ source'[k] # 0 =>
             place[k] # "out" /\ source'[k] = source[k]
      BY <1>1, LeavePreserves
    <3>3. \A k \in Callers : place'[k] # "out" /\ source'[k] # 0 =>
             source'[k] <= issued' /\ source'[k] \notin table'
      BY <1>1, <1>2, <2>1, <3>2 DEF TokenInv, TypeOK
    <3>4. ASSUME NEW k \in Callers, NEW j \in Callers \ {k}, place'[k] # "out", source'[k] # 0,
                 place'[j] # "out"
          PROVE  source'[j] # source'[k]
      <4>1. place[j] # "out" /\ (source'[j] = 0 \/ source'[j] = source[j])
        BY <1>1, <3>4, LeavePreserves
      <4> QED
        BY <1>1, <3>2, <3>4, <4>1 DEF TokenInv
    <3> QED
      BY <3>1, <3>3, <3>4 DEF TokenInv
  <2> QED
    BY <1>1, <2>1, <2>2, <2>3, LeavePreserves
       DEF ListingInv, CallsConsistent, TableConsistent, Bounded
<1> QED
  BY <1>3, <1>4, <1>5 DEF Answer

LEMMA AgePreserves ==
    ASSUME ListingInv, NEW t \in Tokens, Age(t)
    PROVE  ListingInv'
BY DEF Age, calls, ListingInv, TypeOK, TokenInv, LoopInv

LEMMA RetirePreserves ==
    ASSUME ListingInv, Retire
    PROVE  ListingInv'
<1>1. Keep({}) /\ UNCHANGED <<issued, calls>>
  BY DEF Retire
<1>2. /\ table' = {} /\ old' \subseteq table' /\ cursor' \in [Tokens -> Listings]
      /\ Bounded' /\ TableConsistent'
  BY <1>1, KeepPreserves
<1> QED
  BY <1>1, <1>2 DEF ListingInv, TypeOK, TokenInv, LoopInv, TableConsistent, Bounded, calls

(* Every step preserves the invariant.                                     *)
LEMMA NextPreserves ==
    ListingInv /\ [Next]_vars => ListingInv'
<1> SUFFICES ASSUME ListingInv, [Next]_vars PROVE ListingInv'
  OBVIOUS
<1>1. CASE UNCHANGED vars
  BY <1>1 DEF vars, calls, ListingInv, TypeOK, TokenInv, LoopInv
<1> QED
  BY <1>1, BeginPreserves, ContinuePreserves, ExhaustPreserves, SkipPreserves, AddPreserves,
     PostponePreserves, FailPreserves, AnswerPreserves, AgePreserves, RetirePreserves DEF Next

(* However calls interleave, a cursor serves once, the table keeps to its  *)
(* limit, and every listing is where its pages say it is.                  *)
THEOREM ListingInvariantHolds ==
    Spec => []ListingInv
BY InitEstablishes, NextPreserves, PTL DEF Spec

(* The pages of a listing are disjoint, the last one completes it, and no  *)
(* other page is empty.                                                    *)
THEOREM ListingsAreExact ==
    Spec => []PagesAreExact
<1>1. ListingInv => PagesAreExact
  <2> SUFFICES ASSUME ListingInv, NEW c \in Callers, place[c] = "full"
               PROVE  LET l == listing[c] IN
                      /\ l.before \cap entries[c] = {}
                      /\ exhausted[c] =>
                            l.before \cup entries[c] = (1 .. Count[l.dir]) \ {Own[l.dir]}
                      /\ ~exhausted[c] => entries[c] # {}
    BY DEF PagesAreExact
  <2>1. Consistent(listing[c], entries[c]) /\ listing[c] \in Listings
    BY DEF ListingInv, TypeOK
  <2>2. /\ exhausted[c] => listing[c].pending = 0 /\ listing[c].at = Count[listing[c].dir]
        /\ exhausted[c] \/ entries[c] # {}
    BY DEF ListingInv, LoopInv
  <2> QED
    BY <2>1, <2>2, ListingAssumption DEF Consistent, Visible, Listings
<1> QED
  BY <1>1, ListingInvariantHolds, PTL
-----------------------------------------------------------------------------
(***************************************************************************)
(* Calls that change files.                                                *)
(***************************************************************************)
Special == {Absent, Torn, Foreign, Written}
Tables == [Places -> [Names -> M!Files]]

(* A directory is as it was when the call began, but for files that        *)
(* another client has created since.                                       *)
Intact(d) ==
    \A n \in Names : \/ store[d][n] = before[d][n]
                     \/ before[d][n] = Absent /\ store[d][n] = Foreign

(* What was in one directory is in another.                                *)
Arrived(j, names) ==
    \A n \in names : before[j.from][n] # Absent => store[j.to][n] = before[j.from][n]

(* What a call may rely on that is at a spot with some files left to do:   *)
(* which calls get there, what the source still holds and what the         *)
(* destination holds by then.                                              *)
CallAt(spot, j, rest) ==
    /\ spot = "look" => Intact(j.from) /\ Intact(j.to)
    /\ spot \in {"mkdir", "list", "copy", "stream", "rename"} => Intact(j.from)
    /\ spot = "mkdir" => j.whole /\ j.method \in {"rename", "mkdir"}
    /\ spot = "list" => j.whole /\ j.method = "rename"
    /\ spot \in {"copy", "stream"} =>
          /\ j.method \in M!Moving /\ rest \subseteq j.names
          /\ IF j.whole THEN j.method = "rename" ELSE ~(renames /\ j.method = "rename")
          /\ Arrived(j, j.names \ rest)
    /\ spot = "rename" =>
          /\ j.method = "rename" /\ ~j.whole /\ renames
          /\ \A n \in j.names : j.overwrite \/ store[j.to][n] \in {Absent, Foreign}
    /\ spot = "erase" =>
          /\ j.method = "rename" /\ (j.whole \/ ~renames)
          /\ Arrived(j, j.names)
          /\ \A n \in Names : store[j.from][n] \in {before[j.from][n], Absent, Foreign}
    /\ spot = "write" => j.method = "write"
    /\ spot = "delete" =>
          /\ j.method = "delete"
          /\ j.whole => \A n \in Names : store[j.from][n] \in {Absent, Foreign}

(* What a call has done that reports an outcome.                           *)
TrueOf(j, outcome) ==
    /\ outcome = "refused" => Intact(j.from) /\ Intact(j.to)
    /\ outcome = "failed" /\ j.method \in M!Moving /\ ~(renames /\ j.method = "rename") =>
          Intact(j.from)
    /\ outcome = "done" =>
          /\ j.method \in M!Moving => Arrived(j, j.names)
          /\ j.method = "write" => \A n \in j.names : store[j.to][n] = Written
          /\ j.method = "delete" => \A n \in j.names : store[j.from][n] \in {Absent, Foreign}

MoveInv ==
    /\ M!TypeOK
    /\ \A m \in Movers :
          /\ pc[m] # "over" => job[m] \in M!Jobs
          /\ pc[m] \in M!Inside => CallAt(pc[m], job[m], todo[m])
          /\ pc[m] = "report" => TrueOf(job[m], result[m])

-----------------------------------------------------------------------------
(* One file is put in its place, and the others stay.                      *)
LEMMA PutIs ==
    ASSUME store \in Tables, NEW d \in Places, NEW n \in Names, NEW file \in M!Files,
           M!Put(d, n, file)
    PROVE  /\ store' \in Tables
           /\ \A e \in Places, k \in Names :
                 store'[e][k] = IF e = d /\ k = n THEN file ELSE store[e][k]
BY DEF Tables, M!Put

(* A call of which this is known.                                          *)
LEMMA JobIs ==
    ASSUME NEW j \in M!Jobs
    PROVE  /\ j.from \in Places /\ j.to \in Places
           /\ j.names \subseteq Names /\ j.overwrite \in BOOLEAN /\ j.whole \in BOOLEAN
           /\ j.method \in {"rename", "copy", "write", "mkdir", "delete"}
           /\ j.from # j.to <=> j.method \in M!Moving
           /\ j.whole => j.names = Names /\ ~j.overwrite
           /\ ~j.whole => \E n \in Names : j.names = {n}
           /\ j.method = "write" => ~j.whole
           /\ j.method = "mkdir" => j.whole
BY DEF M!Jobs, M!Moving

(* What is no file of the beginning is told from those that are.           *)
LEMMA SpecialFiles ==
    /\ Special \subseteq M!Files /\ Names \subseteq M!Files
    /\ \A n \in Names : n \notin Special
    /\ Absent # Torn /\ Absent # Foreign /\ Absent # Written
    /\ Torn # Foreign /\ Torn # Written /\ Foreign # Written
BY M!MovesAssumption DEF M!MovesAssumption, M!Files, M!Contents, Special

(* The call that has the lock.                                             *)
LEMMA HolderIs ==
    ASSUME MoveInv, NEW m \in Movers, pc[m] \in M!Inside
    PROVE  /\ store \in Tables /\ before \in Tables /\ dirs \subseteq Places
           /\ job[m] \in M!Jobs /\ todo[m] \subseteq Names /\ result[m] \in M!Results
           /\ CallAt(pc[m], job[m], todo[m])
           /\ mutations = m /\ \A k \in Movers \ {m} : pc[k] \notin M!Inside
BY DEF MoveInv, M!TypeOK, Tables, M!Inside

(* Its steps leave the others where they are, waiting or over.             *)
LEMMA HolderSteps ==
    ASSUME MoveInv, NEW m \in Movers, pc[m] \in M!Inside,
           NEW spot \in M!Inside, NEW j, j = job[m],
           NEW rest \in SUBSET Names, NEW known \in M!Results,
           pc' = [pc EXCEPT ![m] = spot],
           \/ todo' = todo /\ rest = todo[m]
           \/ todo' = [todo EXCEPT ![m] = rest],
           \/ result' = result /\ known = result[m]
           \/ result' = [result EXCEPT ![m] = known],
           UNCHANGED <<renames, copies, mutations, before, job>>,
           store' \in Tables, dirs' \subseteq Places,
           CallAt(spot, j, rest)', spot = "report" => TrueOf(j, known)'
    PROVE  MoveInv'
<1>1. M!TypeOK /\ mutations = m /\ \A k \in Movers \ {m} : pc[k] \notin M!Inside
  BY HolderIs DEF MoveInv
<1>2. /\ pc'[m] = spot /\ todo'[m] = rest /\ result'[m] = known /\ job'[m] = j
      /\ \A k \in Movers \ {m} : pc'[k] = pc[k]
  BY <1>1 DEF M!TypeOK
<1>3. M!TypeOK'
  <2>1. pc' \in [Movers -> M!Inside \cup {"queued", "over"}]
    BY <1>1 DEF M!TypeOK
  <2>2. todo' \in [Movers -> SUBSET Names] /\ result' \in [Movers -> M!Results]
    BY <1>1 DEF M!TypeOK
  <2>3. \A k \in Movers : pc'[k] \in M!Inside <=> mutations' = k
    BY <1>1, <1>2
  <2> QED
    BY <1>1, <2>1, <2>2, <2>3 DEF M!TypeOK, Tables
<1>4. "report" \in M!Inside /\ "over" \notin M!Inside
  BY DEF M!Inside
<1>5. ASSUME NEW k \in Movers \ {m}
      PROVE  /\ pc'[k] # "over" => job'[k] \in M!Jobs
             /\ pc'[k] \notin M!Inside /\ pc'[k] # "report"
  BY <1>1, <1>2, <1>4 DEF MoveInv
<1>6. job'[m] \in M!Jobs
  BY HolderIs
<1> QED
  BY <1>2, <1>3, <1>5, <1>6 DEF MoveInv

(* When it reports, what it reports has to be true.                        *)
LEMMA HolderReports ==
    ASSUME MoveInv, NEW m \in Movers, pc[m] \in M!Inside, NEW j, j = job[m],
           NEW rest \in SUBSET Names, NEW outcome \in M!Results,
           M!Report(m, outcome),
           \/ todo' = todo /\ rest = todo[m]
           \/ todo' = [todo EXCEPT ![m] = rest],
           UNCHANGED <<renames, copies, mutations, before, job>>,
           store' \in Tables, dirs' \subseteq Places,
           TrueOf(j, outcome)'
    PROVE  MoveInv'
<1>1. pc' = [pc EXCEPT ![m] = "report"] /\ result' = [result EXCEPT ![m] = outcome]
  BY DEF M!Report, M!Goto
<1>2. "report" \in M!Inside
  BY DEF M!Inside
<1>3. CallAt("report", j, rest)'
  BY DEF CallAt
<1> QED
  BY <1>1, <1>2, <1>3, HolderSteps

(* Nobody has called yet.                                                  *)
LEMMA MovesInit == M!Init => MoveInv
<1> SUFFICES ASSUME M!Init PROVE MoveInv
  OBVIOUS
<1>1. M!TypeOK
  <2>1. M!Clean \in Tables
    BY DEF M!Clean, Tables, M!Files, M!Contents
  <2>2. Nobody \notin Movers /\ home \in Places
    BY M!MovesAssumption DEF M!MovesAssumption
  <2> QED
    BY <2>1, <2>2 DEF M!Init, M!TypeOK, Tables, M!Inside, M!Results
<1>2. \A m \in Movers : pc[m] = "queued" /\ job[m] \in M!Jobs
  BY DEF M!Init
<1> QED
  BY <1>1, <1>2 DEF MoveInv, M!Inside

(* The lock is free: nobody is inside, and what there is is what there was.*)
LEMMA LockKeeps ==
    ASSUME MoveInv, NEW m \in Movers, M!Lock(m)
    PROVE  MoveInv'
<1>1. /\ M!TypeOK /\ pc[m] = "queued" /\ mutations = Nobody /\ mutations' = m
      /\ before' = store /\ pc' = [pc EXCEPT ![m] = "look"]
      /\ UNCHANGED <<renames, copies, store, dirs, job, todo, result>>
  BY DEF MoveInv, M!Lock, M!Goto, M!remote
<1>2. /\ \A k \in Movers : pc[k] \notin M!Inside
      /\ pc'[m] = "look" /\ \A k \in Movers \ {m} : pc'[k] = pc[k]
  BY <1>1, M!MovesAssumption DEF M!MovesAssumption, M!TypeOK
<1>3. M!TypeOK'
  <2>1. pc' \in [Movers -> M!Inside \cup {"queued", "over"}]
    BY <1>1 DEF M!TypeOK, M!Inside
  <2>2. \A k \in Movers : pc'[k] \in M!Inside <=> mutations' = k
    BY <1>1, <1>2 DEF M!Inside
  <2> QED
    BY <1>1, <2>1, <2>2 DEF M!TypeOK
<1>4. CallAt(pc[m], job[m], todo[m])'
  BY <1>1, <1>2 DEF CallAt, Intact
<1>5. "report" \in M!Inside /\ "queued" # "over"
  BY DEF M!Inside
<1>6. ASSUME NEW k \in Movers
      PROVE  /\ pc'[k] # "over" => job'[k] \in M!Jobs
             /\ k # m => pc'[k] \notin M!Inside
             /\ pc'[k] # "report"
  BY <1>1, <1>2, <1>5 DEF MoveInv
<1> QED
  BY <1>3, <1>4, <1>6 DEF MoveInv

(* An error is reported as a partial move when the source may be touched.  *)
LEMMA FailureIs ==
    ASSUME NEW m
    PROVE  /\ M!Failure(m) \in {"partial", "failed"}
           /\ M!Failure(m) = "partial" <=>
                 job[m].method = "rename" /\ (job[m].whole \/ pc[m] = "erase")
           /\ M!Failure(m) \in M!Results
BY DEF M!Failure, M!Results

(* Where a call goes when nothing speaks against it.                       *)
LEMMA StartIs ==
    ASSUME NEW j \in M!Jobs, ~M!Refused(j)
    PROVE  \/ M!Start(j) = "write" /\ j.method = "write"
           \/ M!Start(j) = "mkdir" /\ j.whole /\ j.method \in {"rename", "mkdir"}
           \/ /\ M!Start(j) = "delete" /\ j.method = "delete"
              /\ j.whole => \A n \in Names : store[j.from][n] = Absent
           \/ /\ M!Start(j) = "rename" /\ j.method = "rename" /\ ~j.whole /\ renames
              /\ \A n \in j.names : j.overwrite \/ store[j.to][n] = Absent
           \/ /\ M!Start(j) = "copy" /\ j.method \in M!Moving
              /\ ~j.whole /\ ~(renames /\ j.method = "rename")
<1>1. CASE j.method = "copy"
  BY <1>1, JobIs DEF M!Refused, M!Start, M!Moving
<1>2. CASE j.method = "rename"
  BY <1>2, JobIs DEF M!Refused, M!Start, M!Moving, M!Taken, M!Present
<1>3. CASE j.method = "write"
  <2>1. M!Start(j) = "write"
    BY <1>3 DEF M!Start, M!Moving
  <2> QED
    BY <1>3, <2>1
<1>4. CASE j.method = "mkdir"
  BY <1>4, JobIs DEF M!Start
<1>5. CASE j.method = "delete"
  <2>1. M!Start(j) = "delete"
    BY <1>5 DEF M!Start, M!Moving
  <2>2. j.whole => \A n \in Names : store[j.from][n] = Absent
    BY <1>5 DEF M!Refused, M!Present
  <2> QED
    BY <1>5, <2>1, <2>2
<1> QED
  BY <1>1, <1>2, <1>3, <1>4, <1>5, JobIs

(* The tests change nothing, and what passes them is where it may start.   *)
LEMMA LookKeeps ==
    ASSUME MoveInv, NEW m \in Movers, M!Look(m)
    PROVE  MoveInv'
<1>1. PICK j : j = job[m]
  OBVIOUS
<1>2. /\ pc[m] = "look" /\ "look" \in M!Inside
      /\ todo' = [todo EXCEPT ![m] = j.names]
      /\ UNCHANGED <<renames, copies, mutations, before, job, store, dirs>>
  BY <1>1 DEF M!Look, M!remote, M!Inside
<1>3. /\ store' \in Tables /\ dirs' \subseteq Places /\ j \in M!Jobs
      /\ j.names \in SUBSET Names /\ result[m] \in M!Results
      /\ Intact(j.from) /\ Intact(j.to)
  BY <1>1, <1>2, HolderIs, JobIs DEF CallAt
<1>4. Intact(j.from)' /\ Intact(j.to)'
  BY <1>2, <1>3 DEF Intact
<1>5. ASSUME NEW outcome \in {"refused", "failed"}, M!Report(m, outcome)
      PROVE  MoveInv'
  <2>1. TrueOf(j, outcome)' /\ outcome \in M!Results
    BY <1>4 DEF TrueOf, M!Results
  <2> QED
    BY <1>1, <1>2, <1>3, <1>5, <2>1, HolderReports
<1>6. ASSUME ~M!Refused(j), M!Goto(m, M!Start(j)), result' = result
      PROVE  MoveInv'
  <2>1. pc' = [pc EXCEPT ![m] = M!Start(j)]
    BY <1>6 DEF M!Goto
  <2>2. M!Start(j) \in {"write", "mkdir", "delete", "rename", "copy"}
    BY <1>3, <1>6, StartIs
  <2>3. \/ M!Start(j) = "write" /\ j.method = "write"
        \/ M!Start(j) = "mkdir" /\ j.whole /\ j.method \in {"rename", "mkdir"}
        \/ /\ M!Start(j) = "delete" /\ j.method = "delete"
           /\ j.whole => \A n \in Names : store'[j.from][n] = Absent
        \/ /\ M!Start(j) = "rename" /\ j.method = "rename" /\ ~j.whole /\ renames'
           /\ \A n \in j.names : j.overwrite \/ store'[j.to][n] = Absent
        \/ /\ M!Start(j) = "copy" /\ j.method \in M!Moving
           /\ ~j.whole /\ ~(renames' /\ j.method = "rename")
    BY <1>2, <1>3, <1>6, StartIs
  <2>4. PICK spot : spot = M!Start(j)
    OBVIOUS
  <2>5. CallAt(spot, j, j.names)'
    BY <1>4, <2>3, <2>4 DEF CallAt, Arrived
  <2>6. spot \in M!Inside /\ spot # "report"
    BY <2>2, <2>4 DEF M!Inside
  <2> QED
    BY <1>1, <1>2, <1>3, <1>6, <2>1, <2>4, <2>5, <2>6, HolderSteps
<1> QED
  BY <1>1, <1>5, <1>6 DEF M!Look

(* A directory is created at the destination; the source is not touched.   *)
LEMMA MkdirKeeps ==
    ASSUME MoveInv, NEW m \in Movers, M!Mkdir(m)
    PROVE  MoveInv'
<1>1. PICK j : j = job[m]
  OBVIOUS
<1>2. /\ pc[m] = "mkdir" /\ "mkdir" \in M!Inside /\ "list" \in M!Inside
      /\ UNCHANGED <<renames, copies, mutations, before, job, store, todo>>
  BY <1>1 DEF M!Mkdir, M!remote, M!Inside
<1>3. /\ store' \in Tables /\ j \in M!Jobs /\ todo[m] \in SUBSET Names
      /\ result[m] \in M!Results /\ dirs \subseteq Places
      /\ Intact(j.from) /\ j.whole /\ j.method \in {"rename", "mkdir"}
  BY <1>1, <1>2, HolderIs DEF CallAt
<1>4. Intact(j.from)'
  BY <1>2, <1>3 DEF Intact
<1>5. dirs' \subseteq Places
  BY <1>1, <1>3, JobIs DEF M!Mkdir
<1>6. ASSUME M!Report(m, M!Failure(m)) PROVE MoveInv'
  <2>1. PICK outcome : outcome = M!Failure(m)
    OBVIOUS
  <2>2. outcome \in M!Results /\ outcome \in {"partial", "failed"}
    BY <2>1, FailureIs
  <2>3. TrueOf(j, outcome)'
    BY <1>4, <2>2 DEF TrueOf
  <2> QED
    BY <1>1, <1>2, <1>3, <1>5, <1>6, <2>1, <2>2, <2>3, HolderReports
<1>7. ASSUME j.method = "mkdir", M!Report(m, "done") PROVE MoveInv'
  <2>1. TrueOf(j, "done")' /\ "done" \in M!Results
    BY <1>7 DEF TrueOf, M!Moving, M!Results
  <2> QED
    BY <1>1, <1>2, <1>3, <1>5, <1>7, <2>1, HolderReports
<1>8. ASSUME j.method # "mkdir", M!Goto(m, "list"), result' = result PROVE MoveInv'
  <2>1. pc' = [pc EXCEPT ![m] = "list"]
    BY <1>8 DEF M!Goto
  <2>2. PICK rest \in SUBSET Names : rest = todo[m]
    BY <1>3
  <2>3. CallAt("list", j, rest)'
    BY <1>3, <1>4, <1>8 DEF CallAt
  <2> QED
    BY <1>1, <1>2, <1>3, <1>5, <1>8, <2>1, <2>2, <2>3, HolderSteps
<1> QED
  BY <1>1, <1>6, <1>7, <1>8 DEF M!Mkdir

(* The files to copy are those that the source has.                        *)
LEMMA ListKeeps ==
    ASSUME MoveInv, NEW m \in Movers, M!List(m)
    PROVE  MoveInv'
<1>1. PICK j : j = job[m]
  OBVIOUS
<1>2. /\ pc[m] = "list" /\ "list" \in M!Inside /\ {"erase", "copy"} \subseteq M!Inside
      /\ UNCHANGED <<renames, copies, mutations, before, job, store, dirs>>
  BY <1>1 DEF M!List, M!remote, M!Inside
<1>3. /\ store' \in Tables /\ j \in M!Jobs /\ todo[m] \in SUBSET Names
      /\ result[m] \in M!Results /\ dirs' \subseteq Places
      /\ Intact(j.from) /\ j.whole /\ j.method = "rename"
  BY <1>1, <1>2, HolderIs DEF CallAt
<1>4. Intact(j.from)'
  BY <1>2, <1>3 DEF Intact
<1>5. ASSUME M!Report(m, M!Failure(m)), todo' = todo PROVE MoveInv'
  <2>1. PICK outcome : outcome = M!Failure(m)
    OBVIOUS
  <2>2. outcome \in M!Results /\ outcome \in {"partial", "failed"}
    BY <2>1, FailureIs
  <2>3. TrueOf(j, outcome)'
    BY <1>4, <2>2 DEF TrueOf
  <2> QED
    BY <1>1, <1>2, <1>3, <1>5, <2>1, <2>2, <2>3, HolderReports
<1>6. ASSUME todo' = [todo EXCEPT ![m] = {n \in Names : M!Present(job[m].from, n)}],
             M!Goto(m, IF todo'[m] = {} THEN "erase" ELSE "copy"), result' = result
      PROVE  MoveInv'
  <2>1. PICK rest \in SUBSET Names : rest = {n \in Names : store[j.from][n] # Absent}
    OBVIOUS
  <2>2. todo' = [todo EXCEPT ![m] = rest] /\ todo'[m] = rest
    BY <1>1, <1>6, <2>1 DEF M!Present, MoveInv, M!TypeOK
  <2>3. PICK spot \in {"erase", "copy"} :
          spot = (IF rest = {} THEN "erase" ELSE "copy") /\ pc' = [pc EXCEPT ![m] = spot]
    BY <1>6, <2>2 DEF M!Goto
  <2>4. j.names = Names /\ j.method \in M!Moving
    BY <1>3, JobIs DEF M!Moving
  <2>5. Arrived(j, j.names \ rest)'
    BY <1>2, <1>3, <2>1, <2>4 DEF Arrived, Intact
  <2>6. CallAt(spot, j, rest)'
    <3>1. CASE rest = {}
      <4>1. spot = "erase"
        BY <2>3, <3>1
      <4>2. j.names \ rest = j.names
        BY <3>1
      <4>3. \A n \in Names : store'[j.from][n] \in {before'[j.from][n], Absent, Foreign}
        BY <1>4 DEF Intact
      <4> QED
        BY <1>3, <2>5, <4>1, <4>2, <4>3 DEF CallAt
    <3>2. CASE rest # {}
      <4>1. spot = "copy"
        BY <2>3, <3>2
      <4> QED
        BY <1>3, <1>4, <2>4, <2>5, <4>1 DEF CallAt
    <3> QED
      BY <3>1, <3>2
  <2>7. spot \in M!Inside /\ spot # "report"
    BY <1>2, <2>3
  <2> QED
    BY <1>1, <1>2, <1>3, <1>6, <2>2, <2>3, <2>6, <2>7, HolderSteps
<1> QED
  BY <1>1, <1>5, <1>6 DEF M!List

-----------------------------------------------------------------------------
(* Copying changes nothing at the source.                                  *)
LEMMA CopyingIs ==
    ASSUME MoveInv, NEW m \in Movers, pc[m] \in {"copy", "stream"}, NEW j, j = job[m]
    PROVE  /\ pc[m] \in M!Inside /\ {"copy", "stream", "erase"} \subseteq M!Inside
           /\ j \in M!Jobs /\ j.from \in Places /\ j.to \in Places /\ j.from # j.to
           /\ j.method \in M!Moving /\ todo[m] \subseteq j.names
           /\ j.names \in SUBSET Names /\ todo[m] \in SUBSET Names /\ result[m] \in M!Results
           /\ IF j.whole THEN j.method = "rename" ELSE ~(renames /\ j.method = "rename")
           /\ Arrived(j, j.names \ todo[m]) /\ Intact(j.from)
           /\ store \in Tables /\ dirs \subseteq Places
<1>1. pc[m] \in M!Inside /\ {"copy", "stream", "erase"} \subseteq M!Inside
  BY DEF M!Inside
<1> QED
  BY <1>1, HolderIs, JobIs DEF CallAt

(* An error while a file is copied.                                        *)
LEMMA CopyFails ==
    ASSUME MoveInv, NEW m \in Movers, pc[m] \in {"copy", "stream"},
           UNCHANGED <<renames, copies, dirs, mutations, before, job, todo>>,
           NEW n \in Names, NEW file \in M!Files,
           store' = store \/ M!Put(job[m].to, n, file),
           M!Report(m, M!Failure(m))
    PROVE  MoveInv'
<1>1. PICK j : j = job[m]
  OBVIOUS
<1>2. /\ pc[m] \in M!Inside /\ j \in M!Jobs
      /\ j.from \in Places /\ j.to \in Places /\ j.from # j.to
      /\ todo[m] \in SUBSET Names /\ Intact(j.from) /\ store \in Tables /\ dirs \subseteq Places
  BY <1>1, CopyingIs
<1>3. store' \in Tables /\ \A k \in Names : store'[j.from][k] = store[j.from][k]
  BY <1>1, <1>2, PutIs
<1>4. Intact(j.from)'
  BY <1>2, <1>3 DEF Intact
<1>5. PICK outcome \in M!Results : outcome = M!Failure(m) /\ outcome \in {"partial", "failed"}
  BY FailureIs
<1>6. TrueOf(j, outcome)'
  BY <1>4, <1>5 DEF TrueOf
<1> QED
  BY <1>1, <1>2, <1>3, <1>5, <1>6, HolderReports

(* A file is complete.                                                     *)
LEMMA FileArrives ==
    ASSUME MoveInv, NEW m \in Movers, pc[m] \in {"copy", "stream"},
           UNCHANGED <<renames, copies, dirs, mutations, before, job>>,
           NEW n \in todo[m], M!Put(job[m].to, n, store[job[m].from][n]), M!Copied(m, n)
    PROVE  MoveInv'
<1>1. PICK j : j = job[m]
  OBVIOUS
<1>2. /\ pc[m] \in M!Inside /\ {"copy", "stream", "erase"} \subseteq M!Inside
      /\ j \in M!Jobs /\ j.from \in Places /\ j.to \in Places /\ j.from # j.to
      /\ j.method \in M!Moving /\ todo[m] \subseteq j.names
      /\ j.names \in SUBSET Names /\ result[m] \in M!Results
      /\ IF j.whole THEN j.method = "rename" ELSE ~(renames /\ j.method = "rename")
      /\ Arrived(j, j.names \ todo[m]) /\ Intact(j.from)
      /\ store \in Tables /\ dirs \subseteq Places
  BY <1>1, CopyingIs
<1>3. PICK file \in M!Files : file = store[j.from][n]
  BY <1>2 DEF Tables
<1>4. /\ store' \in Tables /\ store'[j.to][n] = store[j.from][n]
      /\ \A k \in Names : store'[j.from][k] = store[j.from][k]
      /\ \A k \in Names \ {n} : store'[j.to][k] = store[j.to][k]
  BY <1>1, <1>2, <1>3, PutIs
<1>5. PICK rest \in SUBSET Names : rest = todo[m] \ {n}
  BY <1>2
<1>6. todo' = [todo EXCEPT ![m] = rest]
  BY <1>5 DEF M!Copied
<1>7. Intact(j.from)'
  BY <1>2, <1>4 DEF Intact
<1>8. Arrived(j, j.names \ rest)'
  BY <1>2, <1>4, <1>5 DEF Arrived, Intact
<1>9. CASE j.method = "rename"
  <2>1. PICK spot \in {"erase", "copy"} :
          /\ spot = (IF todo[m] = {n} THEN "erase" ELSE "copy")
          /\ pc' = [pc EXCEPT ![m] = spot] /\ result' = result
    BY <1>1, <1>9 DEF M!Copied, M!Goto
  <2>2. CallAt(spot, j, rest)'
    <3>1. CASE todo[m] = {n}
      <4>1. spot = "erase" /\ j.names \ rest = j.names
        BY <1>5, <2>1, <3>1
      <4>2. \A k \in Names : store'[j.from][k] \in {before'[j.from][k], Absent, Foreign}
        BY <1>7 DEF Intact
      <4>3. j.whole \/ ~renames'
        BY <1>2, <1>9
      <4> QED
        BY <1>8, <1>9, <4>1, <4>2, <4>3 DEF CallAt
    <3>2. CASE todo[m] # {n}
      <4>1. spot = "copy"
        BY <2>1, <3>2
      <4>2. rest \subseteq j.names
        BY <1>2, <1>5
      <4>3. IF j.whole THEN j.method = "rename" ELSE ~(renames' /\ j.method = "rename")
        BY <1>2
      <4> QED
        BY <1>2, <1>7, <1>8, <4>1, <4>2, <4>3 DEF CallAt
    <3> QED
      BY <3>1, <3>2
  <2>3. spot \in M!Inside /\ spot # "report"
    BY <1>2, <2>1
  <2> QED
    BY <1>1, <1>2, <1>4, <1>6, <2>1, <2>2, <2>3, HolderSteps
<1>10. CASE j.method # "rename"
  <2>1. M!Report(m, "done")
    BY <1>1, <1>10 DEF M!Copied
  <2>2. j.names = {n}
    BY <1>2, <1>10, JobIs
  <2>3. j.names \ rest = j.names
    BY <1>5, <2>2
  <2>4. TrueOf(j, "done")' /\ "done" \in M!Results
    BY <1>2, <1>8, <2>3 DEF TrueOf, M!Moving, M!Results
  <2> QED
    BY <1>1, <1>2, <1>4, <1>6, <2>1, <2>4, HolderReports
<1> QED
  BY <1>9, <1>10

(* A stream begins with a file that is not complete.                       *)
LEMMA StreamBegins ==
    ASSUME MoveInv, NEW m \in Movers, pc[m] = "copy",
           UNCHANGED <<renames, copies, dirs, mutations, before, job, todo, result>>,
           NEW n \in todo[m], M!Put(job[m].to, n, Torn), M!Goto(m, "stream")
    PROVE  MoveInv'
<1>1. PICK j : j = job[m]
  OBVIOUS
<1>2. /\ pc[m] \in M!Inside /\ {"copy", "stream", "erase"} \subseteq M!Inside
      /\ j \in M!Jobs /\ j.from \in Places /\ j.to \in Places /\ j.from # j.to
      /\ j.method \in M!Moving /\ todo[m] \subseteq j.names
      /\ j.names \in SUBSET Names /\ result[m] \in M!Results
      /\ IF j.whole THEN j.method = "rename" ELSE ~(renames /\ j.method = "rename")
      /\ Arrived(j, j.names \ todo[m]) /\ Intact(j.from)
      /\ store \in Tables /\ dirs \subseteq Places
  BY <1>1, CopyingIs
<1>3. Torn \in M!Files
  BY DEF M!Files
<1>4. /\ store' \in Tables
      /\ \A k \in Names : store'[j.from][k] = store[j.from][k]
      /\ \A k \in Names \ {n} : store'[j.to][k] = store[j.to][k]
  BY <1>1, <1>2, <1>3, PutIs
<1>5. PICK rest \in SUBSET Names : rest = todo[m]
  BY <1>2
<1>6. Intact(j.from)' /\ Arrived(j, j.names \ rest)'
  BY <1>2, <1>4, <1>5 DEF Intact, Arrived
<1>7. CallAt("stream", j, rest)'
  BY <1>2, <1>5, <1>6 DEF CallAt
<1>8. pc' = [pc EXCEPT ![m] = "stream"]
  BY DEF M!Goto
<1> QED
  BY <1>1, <1>2, <1>4, <1>5, <1>7, <1>8, HolderSteps

(* The cases of a copy.                                                    *)
LEMMA CopyKeeps ==
    ASSUME MoveInv, NEW m \in Movers, M!Copy(m)
    PROVE  MoveInv'
<1>1. pc[m] \in {"copy", "stream"} /\ UNCHANGED <<renames, copies, dirs, mutations, before, job>>
  BY DEF M!Copy, M!remote
<1>2. PICK n \in todo[m] :
        \/ M!Put(job[m].to, n, store[job[m].from][n]) /\ M!Copied(m, n)
        \/ M!Put(job[m].to, n, Torn) /\ M!Goto(m, "stream") /\ UNCHANGED <<result, todo>>
        \/ /\ M!Put(job[m].to, n, store[job[m].from][n])
           /\ M!Report(m, M!Failure(m)) /\ UNCHANGED todo
        \/ UNCHANGED <<store, todo>> /\ M!Report(m, M!Failure(m))
  BY DEF M!Copy
<1>3. n \in Names /\ store[job[m].from][n] \in M!Files
  BY <1>1, CopyingIs DEF Tables
<1> QED
  BY <1>1, <1>2, <1>3, FileArrives, StreamBegins, CopyFails DEF M!Copy

(* The cases of a stream, whose abort may leave less than it found.        *)
LEMMA StreamKeeps ==
    ASSUME MoveInv, NEW m \in Movers, M!Stream(m)
    PROVE  MoveInv'
<1>1. pc[m] \in {"copy", "stream"} /\ UNCHANGED <<renames, copies, dirs, mutations, before, job>>
  BY DEF M!Stream, M!remote
<1>2. PICK n \in todo[m] :
        \/ M!Put(job[m].to, n, store[job[m].from][n]) /\ M!Copied(m, n)
        \/ \E left \in {Absent, Torn, store[job[m].from][n]} :
              M!Put(job[m].to, n, left) /\ M!Report(m, M!Failure(m)) /\ UNCHANGED todo
  BY DEF M!Stream
<1>3. n \in Names /\ store[job[m].from][n] \in M!Files
  BY <1>1, CopyingIs DEF Tables
<1>4. {Absent, Torn, store[job[m].from][n]} \subseteq M!Files
  BY <1>3 DEF M!Files
<1> QED
  BY <1>1, <1>2, <1>3, <1>4, FileArrives, CopyFails

-----------------------------------------------------------------------------
(* The source is deleted when the destination holds what it held; an error *)
(* of that is reported as a partial move.                                  *)
LEMMA EraseKeeps ==
    ASSUME MoveInv, NEW m \in Movers, M!Erase(m)
    PROVE  MoveInv'
<1>1. PICK j : j = job[m]
  OBVIOUS
<1>2. /\ pc[m] = "erase" /\ "erase" \in M!Inside
      /\ UNCHANGED <<renames, copies, mutations, before, job, todo>>
  BY <1>1 DEF M!Erase, M!remote, M!Inside
<1>3. /\ store \in Tables /\ dirs \subseteq Places /\ j \in M!Jobs
      /\ todo[m] \in SUBSET Names /\ result[m] \in M!Results
      /\ j.method = "rename" /\ (j.whole \/ ~renames) /\ Arrived(j, j.names)
      /\ \A n \in Names : store[j.from][n] \in {before[j.from][n], Absent, Foreign}
  BY <1>1, <1>2, HolderIs DEF CallAt
<1>4. /\ j.from \in Places /\ j.to \in Places /\ j.from # j.to
      /\ j.names \subseteq Names /\ j.method \in M!Moving
  BY <1>3, JobIs DEF M!Moving
<1>5. /\ store' \in Tables
      /\ \A n \in Names : store'[j.to][n] = store[j.to][n]
      /\ \A n \in Names : store'[j.from][n] \in {before[j.from][n], Absent, Foreign}
  <2>1. CASE store' = store
    BY <1>3, <2>1
  <2>2. CASE store' # store
    <3>1. PICK n \in j.names : M!Put(j.from, n, Absent)
      BY <1>1, <2>2 DEF M!Erase
    <3>2. n \in Names /\ Absent \in M!Files
      BY <1>4 DEF M!Files
    <3>3. /\ store' \in Tables
          /\ \A e \in Places, k \in Names :
                store'[e][k] = IF e = j.from /\ k = n THEN Absent ELSE store[e][k]
      BY <1>3, <1>4, <3>1, <3>2, PutIs
    <3> QED
      BY <1>3, <1>4, <3>3
  <2> QED
    BY <2>1, <2>2
<1>6. dirs' \subseteq Places
  BY <1>3 DEF M!Erase
<1>7. Arrived(j, j.names)'
  BY <1>2, <1>3, <1>4, <1>5 DEF Arrived
<1>8. ASSUME M!Report(m, M!Failure(m)) PROVE MoveInv'
  <2>1. PICK outcome \in M!Results : outcome = M!Failure(m)
    BY FailureIs
  <2>2. outcome = "partial"
    BY <1>1, <1>2, <1>3, <2>1, FailureIs
  <2>3. TrueOf(j, outcome)'
    BY <2>2 DEF TrueOf
  <2> QED
    BY <1>1, <1>2, <1>3, <1>5, <1>6, <1>8, <2>1, <2>3, HolderReports
<1>9. ASSUME M!Report(m, "done") PROVE MoveInv'
  <2>1. TrueOf(j, "done")' /\ "done" \in M!Results
    BY <1>3, <1>7 DEF TrueOf, M!Results
  <2> QED
    BY <1>1, <1>2, <1>3, <1>5, <1>6, <1>9, <2>1, HolderReports
<1>10. ASSUME UNCHANGED <<pc, result>> PROVE MoveInv'
  <2>1. pc' = [pc EXCEPT ![m] = "erase"]
    BY <1>2, <1>10 DEF MoveInv, M!TypeOK
  <2>2. PICK rest \in SUBSET Names : rest = todo[m]
    BY <1>3
  <2>3. CallAt("erase", j, rest)'
    BY <1>2, <1>3, <1>5, <1>7 DEF CallAt
  <2> QED
    BY <1>1, <1>2, <1>3, <1>5, <1>6, <1>10, <2>1, <2>2, <2>3, HolderSteps
<1> QED
  BY <1>8, <1>9, <1>10 DEF M!Erase

(* What a renamed file leaves and replaces.                                *)
LEMMA RenamingIs ==
    ASSUME store \in Tables, NEW j \in M!Jobs, j.method = "rename", NEW n \in Names,
           store' = [store EXCEPT ![j.to][n] = store[j.from][n], ![j.from][n] = Absent]
    PROVE  /\ store' \in Tables
           /\ \A e \in Places, k \in Names :
                 store'[e][k] = IF k = n /\ e = j.to THEN store[j.from][n]
                                ELSE IF k = n /\ e = j.from THEN Absent ELSE store[e][k]
<1>1. j.from \in Places /\ j.to \in Places /\ j.from # j.to
  BY JobIs DEF M!Moving
<1>2. Absent \in M!Files /\ store[j.from][n] \in M!Files
  BY <1>1 DEF M!Files, Tables
<1> QED
  BY <1>1, <1>2 DEF Tables

(* The destination of a renamed file has what the source had.              *)
LEMMA RenameKeeps ==
    ASSUME MoveInv, NEW m \in Movers, M!Rename(m)
    PROVE  MoveInv'
<1>1. PICK j : j = job[m]
  OBVIOUS
<1>2. /\ pc[m] = "rename" /\ pc[m] \in M!Inside
      /\ UNCHANGED <<renames, copies, dirs, mutations, before, job, todo>>
  BY <1>1 DEF M!Rename, M!remote, M!Inside
<1>3. /\ store \in Tables /\ dirs \subseteq Places /\ j \in M!Jobs
      /\ todo[m] \in SUBSET Names
      /\ j.method = "rename" /\ ~j.whole /\ renames /\ Intact(j.from)
  BY <1>1, <1>2, HolderIs DEF CallAt
<1>4. j.from \in Places /\ j.to \in Places /\ j.from # j.to /\ j.names \subseteq Names
  BY <1>3, JobIs DEF M!Moving
<1>5. PICK n \in j.names :
        \/ /\ store' = [store EXCEPT ![j.to][n] = store[j.from][n], ![j.from][n] = Absent]
           /\ M!Report(m, "done") \/ M!Report(m, M!Failure(m))
        \/ UNCHANGED store /\ M!Report(m, M!Failure(m))
  BY <1>1 DEF M!Rename
<1>6. n \in Names /\ j.names = {n}
  BY <1>3, <1>4, <1>5, JobIs
<1>7. store' \in Tables
  BY <1>3, <1>5, <1>6, RenamingIs
<1>8. ASSUME M!Report(m, M!Failure(m)) PROVE MoveInv'
  <2>1. PICK outcome \in M!Results : outcome = M!Failure(m) /\ outcome \in {"partial", "failed"}
    BY FailureIs
  <2>2. TrueOf(j, outcome)'
    BY <1>2, <1>3, <2>1 DEF TrueOf
  <2> QED
    BY <1>1, <1>2, <1>3, <1>7, <1>8, <2>1, <2>2, HolderReports
<1>9. ASSUME store' = [store EXCEPT ![j.to][n] = store[j.from][n], ![j.from][n] = Absent],
             M!Report(m, "done")
      PROVE  MoveInv'
  <2>1. store'[j.to][n] = store[j.from][n]
    BY <1>3, <1>4, <1>6, <1>9 DEF Tables
  <2>2. Arrived(j, j.names)'
    BY <1>2, <1>3, <1>6, <2>1 DEF Arrived, Intact
  <2>3. TrueOf(j, "done")' /\ "done" \in M!Results
    BY <1>3, <2>2 DEF TrueOf, M!Results
  <2> QED
    BY <1>1, <1>2, <1>3, <1>7, <1>9, <2>3, HolderReports
<1> QED
  BY <1>5, <1>8, <1>9

(* What was written is there, or less of it with an error.                 *)
LEMMA WriteKeeps ==
    ASSUME MoveInv, NEW m \in Movers, M!Write(m)
    PROVE  MoveInv'
<1>1. PICK j : j = job[m]
  OBVIOUS
<1>2. /\ pc[m] = "write" /\ pc[m] \in M!Inside
      /\ UNCHANGED <<renames, copies, dirs, mutations, before, job, todo>>
  BY <1>1 DEF M!Write, M!remote, M!Inside
<1>3. /\ store \in Tables /\ dirs \subseteq Places /\ j \in M!Jobs
      /\ todo[m] \in SUBSET Names /\ j.method = "write"
  BY <1>1, <1>2, HolderIs DEF CallAt
<1>4. PICK n \in j.names :
        \/ M!Put(j.to, n, Written) /\ M!Report(m, "done")
        \/ M!Put(j.to, n, Torn) /\ M!Report(m, M!Failure(m))
        \/ UNCHANGED store /\ M!Report(m, M!Failure(m))
  BY <1>1 DEF M!Write
<1>5. j.to \in Places /\ n \in Names /\ j.names = {n}
  BY <1>3, <1>4, JobIs
<1>6. Torn \in M!Files /\ Written \in M!Files
  BY DEF M!Files
<1>7. store' \in Tables
  BY <1>3, <1>4, <1>5, <1>6, PutIs
<1>8. ASSUME M!Report(m, M!Failure(m)) PROVE MoveInv'
  <2>1. PICK outcome \in M!Results : outcome = M!Failure(m) /\ outcome \in {"partial", "failed"}
    BY FailureIs
  <2>2. TrueOf(j, outcome)'
    BY <1>3, <2>1 DEF TrueOf, M!Moving
  <2> QED
    BY <1>1, <1>2, <1>3, <1>7, <1>8, <2>1, <2>2, HolderReports
<1>9. ASSUME M!Put(j.to, n, Written), M!Report(m, "done") PROVE MoveInv'
  <2>1. store'[j.to][n] = Written
    BY <1>3, <1>5, <1>6, <1>9, PutIs
  <2>2. TrueOf(j, "done")' /\ "done" \in M!Results
    BY <1>3, <1>5, <2>1 DEF TrueOf, M!Results, M!Moving
  <2> QED
    BY <1>1, <1>2, <1>3, <1>7, <1>9, <2>2, HolderReports
<1> QED
  BY <1>4, <1>8, <1>9

(* What a delete leaves of a directory.                                    *)
LEMMA DeletingIs ==
    ASSUME store \in Tables, NEW j \in M!Jobs,
           store' = [store EXCEPT ![j.from] = [n \in Names |-> IF n \in j.names THEN Absent ELSE @[n]]]
    PROVE  /\ store' \in Tables
           /\ \A e \in Places, k \in Names :
                 store'[e][k] = IF e = j.from /\ k \in j.names THEN Absent ELSE store[e][k]
<1>1. j.from \in Places /\ Absent \in M!Files
  BY JobIs DEF M!Files
<1> QED
  BY <1>1 DEF Tables

(* What was deleted is gone when that is reported.                         *)
LEMMA DeleteKeeps ==
    ASSUME MoveInv, NEW m \in Movers, M!Delete(m)
    PROVE  MoveInv'
<1>1. PICK j : j = job[m]
  OBVIOUS
<1>2. /\ pc[m] = "delete" /\ pc[m] \in M!Inside
      /\ UNCHANGED <<renames, copies, mutations, before, job, todo>>
  BY <1>1 DEF M!Delete, M!remote, M!Inside
<1>3. /\ store \in Tables /\ dirs \subseteq Places /\ j \in M!Jobs
      /\ todo[m] \in SUBSET Names /\ j.method = "delete"
  BY <1>1, <1>2, HolderIs DEF CallAt
<1>4. j.from \in Places /\ j.names \subseteq Names
  BY <1>3, JobIs
<1>5. dirs' \subseteq Places
  BY <1>3 DEF M!Delete
<1>6. store' \in Tables
  BY <1>1, <1>3, DeletingIs DEF M!Delete
<1>7. ASSUME M!Report(m, M!Failure(m)) PROVE MoveInv'
  <2>1. PICK outcome \in M!Results : outcome = M!Failure(m) /\ outcome \in {"partial", "failed"}
    BY FailureIs
  <2>2. TrueOf(j, outcome)'
    BY <1>3, <2>1 DEF TrueOf, M!Moving
  <2> QED
    BY <1>1, <1>2, <1>3, <1>5, <1>6, <1>7, <2>1, <2>2, HolderReports
<1>8. ASSUME store' = [store EXCEPT ![j.from] = [n \in Names |-> IF n \in j.names THEN Absent ELSE @[n]]],
             M!Report(m, "done")
      PROVE  MoveInv'
  <2>1. \A n \in j.names : store'[j.from][n] = Absent
    BY <1>3, <1>4, <1>8, DeletingIs
  <2>2. TrueOf(j, "done")' /\ "done" \in M!Results
    BY <1>3, <2>1 DEF TrueOf, M!Results, M!Moving
  <2> QED
    BY <1>1, <1>2, <1>3, <1>5, <1>6, <1>8, <2>2, HolderReports
<1> QED
  BY <1>1, <1>7, <1>8 DEF M!Delete

-----------------------------------------------------------------------------
(* What is known of a call stays known while nothing moves.                *)
LEMMA NothingMoves ==
    ASSUME NEW spot, NEW j, NEW rest, NEW outcome, UNCHANGED <<renames, store, before>>
    PROVE  /\ CallAt(spot, j, rest) => CallAt(spot, j, rest)'
           /\ TrueOf(j, outcome) => TrueOf(j, outcome)'
BY DEF CallAt, TrueOf, Arrived, Intact

(* A call that is over waits for nothing and holds nothing.                *)
LEMMA CallEnds ==
    ASSUME M!TypeOK, NEW m \in Movers, M!End(m)
    PROVE  /\ pc' \in [Movers -> M!Inside \cup {"queued", "over"}]
           /\ job' \in [Movers -> M!Jobs \cup {M!Over}]
           /\ todo' \in [Movers -> SUBSET Names] /\ result' \in [Movers -> M!Results]
           /\ pc'[m] = "over" /\ "over" \notin M!Inside /\ "over" # "report"
           /\ \A k \in Movers \ {m} : /\ pc'[k] = pc[k] /\ job'[k] = job[k]
                                      /\ todo'[k] = todo[k] /\ result'[k] = result[k]
BY DEF M!TypeOK, M!End, M!Goto, M!Inside, M!Results

(* An interruption is reported as such; a call that still waits is over.   *)
LEMMA InterruptKeeps ==
    ASSUME MoveInv, NEW m \in Movers, M!Interrupt(m)
    PROVE  MoveInv'
<1>1. CASE /\ pc[m] \in M!Inside \ {"report"} /\ M!Report(m, "interrupted")
           /\ UNCHANGED <<renames, copies, store, dirs, mutations, before, job, todo>>
  <2>1. PICK j : j = job[m]
    OBVIOUS
  <2>2. store' \in Tables /\ dirs' \subseteq Places /\ todo[m] \in SUBSET Names
    BY <1>1, HolderIs
  <2>3. TrueOf(j, "interrupted")' /\ "interrupted" \in M!Results
    BY DEF TrueOf, M!Results
  <2> QED
    BY <1>1, <2>1, <2>2, <2>3, HolderReports
<1>2. CASE /\ pc[m] = "queued" /\ M!End(m)
           /\ UNCHANGED <<renames, copies, store, dirs, mutations, before>>
  <2>1. M!TypeOK /\ "queued" \notin M!Inside
    BY DEF MoveInv, M!Inside
  <2>2. M!TypeOK'
    <3>1. \A k \in Movers : pc'[k] \in M!Inside <=> mutations' = k
      BY <1>2, <2>1, CallEnds DEF M!TypeOK
    <3> QED
      BY <1>2, <2>1, <3>1, CallEnds DEF M!TypeOK
  <2>3. ASSUME NEW k \in Movers \ {m}
        PROVE  /\ pc'[k] # "over" => job'[k] \in M!Jobs
               /\ pc'[k] \in M!Inside => CallAt(pc[k], job[k], todo[k])'
               /\ pc'[k] = "report" => TrueOf(job[k], result[k])'
    <3>1. PICK spot : spot = pc[k]
      OBVIOUS
    <3>2. PICK j : j = job[k]
      OBVIOUS
    <3>3. PICK rest : rest = todo[k]
      OBVIOUS
    <3>4. PICK outcome : outcome = result[k]
      OBVIOUS
    <3>5. spot = pc'[k] /\ j = job'[k] /\ rest = todo'[k] /\ outcome = result'[k]
      BY <1>2, <2>1, <3>1, <3>2, <3>3, <3>4, CallEnds
    <3>6. /\ spot # "over" => j \in M!Jobs
          /\ spot \in M!Inside => CallAt(spot, j, rest)
          /\ spot = "report" => TrueOf(j, outcome)
      BY <3>1, <3>2, <3>3, <3>4 DEF MoveInv
    <3>7. /\ spot \in M!Inside => CallAt(spot, j, rest)'
          /\ spot = "report" => TrueOf(j, outcome)'
      BY <1>2, <3>6, NothingMoves
    <3> QED
      BY <3>5, <3>6, <3>7
  <2>4. pc'[m] = "over" /\ "over" \notin M!Inside /\ "over" # "report"
    BY <1>2, <2>1, CallEnds
  <2> QED
    BY <2>2, <2>3, <2>4 DEF MoveInv
<1> QED
  BY <1>1, <1>2 DEF M!Interrupt, M!remote

(* Nobody is inside when the lock is dropped.                              *)
LEMMA ReturnKeeps ==
    ASSUME MoveInv, NEW m \in Movers, M!Return(m)
    PROVE  MoveInv'
<1>1. /\ M!TypeOK /\ pc[m] = "report" /\ pc[m] \in M!Inside /\ M!End(m)
      /\ mutations' = Nobody /\ before' = M!Clean
      /\ UNCHANGED <<renames, copies, store, dirs>>
  BY DEF MoveInv, M!Return, M!Inside, M!remote
<1>2. \A k \in Movers : k # m => pc[k] \notin M!Inside
  BY <1>1, HolderIs
<1>3. \A k \in Movers : /\ pc'[k] \notin M!Inside
                        /\ pc'[k] # "over" => job'[k] \in M!Jobs
  BY <1>1, <1>2, CallEnds DEF MoveInv
<1>4. Nobody \notin Movers
  BY M!MovesAssumption DEF M!MovesAssumption
<1>5. M!Clean \in Tables
  BY DEF M!Clean, Tables, M!Files, M!Contents
<1>6. M!TypeOK'
  BY <1>1, <1>3, <1>4, <1>5, CallEnds DEF M!TypeOK, Tables
<1>7. "report" \in M!Inside
  BY DEF M!Inside
<1> QED
  BY <1>3, <1>6, <1>7 DEF MoveInv

(* Another client creates a file where there is none: no test and no copy  *)
(* that a call has made is undone by that.                                 *)
LEMMA OutsiderKeeps ==
    ASSUME MoveInv, M!Outsider
    PROVE  MoveInv'
<1>1. /\ M!TypeOK /\ store \in Tables /\ before \in Tables
      /\ UNCHANGED <<renames, copies, dirs, mutations, before, pc, job, todo, result>>
  BY DEF MoveInv, M!TypeOK, Tables, M!Outsider, M!remote
<1>2. PICK d \in Places, n \in Names : store[d][n] = Absent /\ M!Put(d, n, Foreign)
  BY DEF M!Outsider, M!Present
<1>3. Foreign \in M!Files
  BY DEF M!Files
<1>4. /\ store' \in Tables
      /\ \A e \in Places, k \in Names :
            store'[e][k] = IF e = d /\ k = n THEN Foreign ELSE store[e][k]
  BY <1>1, <1>2, <1>3, PutIs
<1>5. \A e \in Places, k \in Names :
         store'[e][k] = store[e][k] \/ (store[e][k] = Absent /\ store'[e][k] = Foreign)
  BY <1>2, <1>4
<1>6. ASSUME NEW e \in Places, Intact(e) PROVE Intact(e)'
  BY <1>1, <1>5, <1>6 DEF Intact
<1>7. ASSUME NEW j \in M!Jobs, NEW names \in SUBSET Names, Arrived(j, names)
      PROVE  Arrived(j, names)'
  BY <1>1, <1>5, <1>7, JobIs DEF Arrived
<1>8. ASSUME NEW spot, NEW j \in M!Jobs, NEW rest, CallAt(spot, j, rest)
      PROVE  CallAt(spot, j, rest)'
  <2>1. j.from \in Places /\ j.to \in Places /\ j.names \subseteq Names
    BY JobIs
  <2>2. /\ Intact(j.from) => Intact(j.from)'
        /\ Intact(j.to) => Intact(j.to)'
        /\ Arrived(j, j.names) => Arrived(j, j.names)'
        /\ Arrived(j, j.names \ rest) => Arrived(j, j.names \ rest)'
    BY <1>6, <1>7, <2>1
  <2>3. /\ (\A k \in j.names : j.overwrite \/ store[j.to][k] \in {Absent, Foreign})
             => (\A k \in j.names : j.overwrite \/ store'[j.to][k] \in {Absent, Foreign})
        /\ (\A k \in Names : store[j.from][k] \in {before[j.from][k], Absent, Foreign})
             => (\A k \in Names : store'[j.from][k] \in {before[j.from][k], Absent, Foreign})
        /\ (\A k \in Names : store[j.from][k] \in {Absent, Foreign})
             => (\A k \in Names : store'[j.from][k] \in {Absent, Foreign})
    BY <1>5, <2>1
  <2> QED
    BY <1>1, <1>8, <2>2, <2>3 DEF CallAt
<1>9. ASSUME NEW j \in M!Jobs, NEW outcome, TrueOf(j, outcome)
      PROVE  TrueOf(j, outcome)'
  <2>1. j.from \in Places /\ j.to \in Places /\ j.names \subseteq Names
    BY JobIs
  <2>2. /\ Intact(j.from) => Intact(j.from)'
        /\ Intact(j.to) => Intact(j.to)'
        /\ Arrived(j, j.names) => Arrived(j, j.names)'
    BY <1>6, <1>7, <2>1
  <2>3. Written # Absent
    BY SpecialFiles
  <2>4. /\ (\A k \in j.names : store[j.to][k] = Written)
             => (\A k \in j.names : store'[j.to][k] = Written)
        /\ (\A k \in j.names : store[j.from][k] \in {Absent, Foreign})
             => (\A k \in j.names : store'[j.from][k] \in {Absent, Foreign})
    BY <1>5, <2>1, <2>3
  <2> QED
    BY <1>1, <1>9, <2>2, <2>4 DEF TrueOf
<1>10. M!TypeOK'
  BY <1>1, <1>4 DEF M!TypeOK, Tables
<1>11. ASSUME NEW m \in Movers
       PROVE  /\ pc'[m] # "over" => job'[m] \in M!Jobs
              /\ pc'[m] \in M!Inside => CallAt(pc[m], job[m], todo[m])'
              /\ pc'[m] = "report" => TrueOf(job[m], result[m])'
  <2>1. PICK spot : spot = pc[m]
    OBVIOUS
  <2>2. PICK j : j = job[m]
    OBVIOUS
  <2>3. PICK rest : rest = todo[m]
    OBVIOUS
  <2>4. PICK outcome : outcome = result[m]
    OBVIOUS
  <2>5. spot = pc'[m] /\ j = job'[m] /\ rest = todo'[m] /\ outcome = result'[m]
    BY <1>1, <2>1, <2>2, <2>3, <2>4
  <2>6. /\ spot # "over" => j \in M!Jobs
        /\ spot \in M!Inside => CallAt(spot, j, rest)
        /\ spot = "report" => TrueOf(j, outcome)
        /\ "over" \notin M!Inside /\ "over" # "report"
    BY <2>1, <2>2, <2>3, <2>4 DEF MoveInv, M!Inside
  <2>7. /\ spot \in M!Inside => CallAt(spot, j, rest)'
        /\ spot = "report" => TrueOf(j, outcome)'
    BY <1>8, <1>9, <2>6
  <2> QED
    BY <2>5, <2>6, <2>7
<1> QED
  BY <1>10, <1>11 DEF MoveInv

(* Every step keeps what is known of the calls.                            *)
LEMMA MovesNext == MoveInv /\ [M!Next]_moves => MoveInv'
<1> SUFFICES ASSUME MoveInv, [M!Next]_moves PROVE MoveInv'
  OBVIOUS
<1>1. CASE UNCHANGED moves
  <2>1. /\ UNCHANGED <<renames, copies, store, dirs, mutations, before, pc, job, todo, result>>
    BY <1>1 DEF moves
  <2>2. M!TypeOK'
    BY <2>1 DEF MoveInv, M!TypeOK
  <2>3. ASSUME NEW m \in Movers
        PROVE  /\ pc'[m] # "over" => job'[m] \in M!Jobs
               /\ pc'[m] \in M!Inside => CallAt(pc[m], job[m], todo[m])'
               /\ pc'[m] = "report" => TrueOf(job[m], result[m])'
    <3>1. PICK spot : spot = pc[m]
      OBVIOUS
    <3>2. PICK j : j = job[m]
      OBVIOUS
    <3>3. PICK rest : rest = todo[m]
      OBVIOUS
    <3>4. PICK outcome : outcome = result[m]
      OBVIOUS
    <3>5. spot = pc'[m] /\ j = job'[m] /\ rest = todo'[m] /\ outcome = result'[m]
      BY <2>1, <3>1, <3>2, <3>3, <3>4
    <3>6. /\ spot # "over" => j \in M!Jobs
          /\ spot \in M!Inside => CallAt(spot, j, rest)
          /\ spot = "report" => TrueOf(j, outcome)
      BY <3>1, <3>2, <3>3, <3>4 DEF MoveInv
    <3>7. /\ spot \in M!Inside => CallAt(spot, j, rest)'
          /\ spot = "report" => TrueOf(j, outcome)'
      BY <2>1, <3>6, NothingMoves
    <3> QED
      BY <3>5, <3>6, <3>7
  <2> QED
    BY <2>2, <2>3 DEF MoveInv
<1>2. CASE M!Outsider
  BY <1>2, OutsiderKeeps
<1>3. ASSUME NEW m \in Movers,
             \/ M!Lock(m) \/ M!Look(m) \/ M!Mkdir(m) \/ M!List(m) \/ M!Copy(m) \/ M!Stream(m)
             \/ M!Erase(m) \/ M!Rename(m) \/ M!Write(m) \/ M!Delete(m)
             \/ M!Interrupt(m) \/ M!Return(m)
      PROVE  MoveInv'
  BY <1>3, LockKeeps, LookKeeps, MkdirKeeps, ListKeeps, CopyKeeps, StreamKeeps, EraseKeeps,
     RenameKeeps, WriteKeeps, DeleteKeeps, InterruptKeeps, ReturnKeeps
<1> QED
  BY <1>1, <1>2, <1>3 DEF M!Next

(* The variables of Moves are those that a run of MCRemote gives it.       *)
LEMMA MovesVars == UNCHANGED M!vars <=> UNCHANGED moves
BY DEF M!vars, M!remote, moves

(* What a call relies on holds, whatever the others do.                    *)
LEMMA MoveInvariantHolds == M!Spec => []MoveInv
<1>1. MoveInv /\ [M!Next]_(M!vars) => MoveInv'
  BY MovesNext, MovesVars
<1> QED
  BY <1>1, MovesInit, PTL DEF M!Spec

(* What is known of a call that reports makes its outcome true.            *)
LEMMA TrueReports == MoveInv => M!CallsAreHonest
<1> SUFFICES ASSUME MoveInv, NEW m \in Movers, pc[m] = "report"
             PROVE  LET j == job[m] IN
                    /\ result[m] = "refused" => M!Kept(j.from) /\ M!Kept(j.to)
                    /\ result[m] = "failed" /\ j.method \in M!Moving
                          /\ ~(renames /\ j.method = "rename") => M!Kept(j.from)
                    /\ result[m] = "done" =>
                          \A n \in j.names :
                             /\ j.method \in M!Moving /\ before[j.from][n] # Absent =>
                                   store[j.to][n] = before[j.from][n]
                             /\ j.method = "write" => store[j.to][n] = Written
                             /\ j.method = "delete" => store[j.from][n] \in {Absent, Foreign}
  BY DEF MoveInv, M!CallsAreHonest, M!ReportsAreHonest
<1>1. TrueOf(job[m], result[m])
  BY DEF MoveInv
<1>2. \A d : Intact(d) => M!Kept(d)
  BY DEF Intact, M!Kept
<1> QED
  BY <1>1, <1>2 DEF TrueOf, Arrived

(* What a call that changes files reports of them is true, whatever fails, *)
(* however many calls wait for each other, and whatever another client     *)
(* creates meanwhile (backend/src/operations.rs).                          *)
THEOREM OutcomesAreTrue == M!Spec => [](M!CallsAreHonest /\ CallsAreHonest)
<1>1. MoveInv => M!CallsAreHonest /\ CallsAreHonest
  BY TrueReports DEF CallsAreHonest
<1> QED
  BY <1>1, MoveInvariantHolds, PTL

-----------------------------------------------------------------------------
(* A content that a step makes disappear was where the step wrote.         *)
LEMMA LostThere ==
    ASSUME store \in Tables, NEW d \in Places, NEW n \in Names, NEW file \in M!Files,
           M!Put(d, n, file), NEW c, M!Somewhere(c), ~M!Somewhere(c)'
    PROVE  store[d][n] = c
<1>1. PICK e \in Places, k \in Names : store[e][k] = c
  BY DEF M!Somewhere
<1>2. store'[e][k] # c
  BY DEF M!Somewhere
<1> QED
  BY <1>1, <1>2, PutIs

(* What its caller asked to be overwritten or deleted.                     *)
Asked(m, c) ==
    /\ pc[m] \in M!Inside
    /\ job[m].overwrite \/ (job[m].method = "delete" /\ ~job[m].whole)
    /\ \E n \in job[m].names : store[job[m].to][n] = c

(* A copy, at once or streamed, replaces what it may overwrite.            *)
LEMMA CopyLoses ==
    ASSUME MoveInv, NEW m \in Movers, M!Copy(m) \/ M!Stream(m),
           NEW c \in Names, M!Somewhere(c), ~M!Somewhere(c)'
    PROVE  Asked(m, c)
<1>1. PICK j : j = job[m]
  OBVIOUS
<1>2. pc[m] \in {"copy", "stream"}
  BY DEF M!Copy, M!Stream
<1>3. /\ pc[m] \in M!Inside /\ j \in M!Jobs /\ j.from \in Places /\ j.to \in Places
      /\ todo[m] \subseteq j.names /\ j.names \in SUBSET Names /\ store \in Tables
  BY <1>1, <1>2, CopyingIs
<1>4. store' # store
  BY DEF M!Somewhere
<1>5. PICK n \in todo[m] :
        /\ \/ M!Free(j, n) \/ store[j.to][n] = Torn
        /\ \E file \in {store[j.from][n], Absent, Torn} : M!Put(j.to, n, file)
  BY <1>1, <1>4 DEF M!Copy, M!Stream
<1>6. n \in Names /\ n \in j.names /\ store[j.from][n] \in M!Files
  BY <1>3, <1>5 DEF Tables
<1>7. PICK file \in M!Files : M!Put(j.to, n, file)
  BY <1>5, <1>6 DEF M!Files
<1>8. store[j.to][n] = c
  BY <1>3, <1>6, <1>7, LostThere
<1>9. c \notin Special
  BY SpecialFiles
<1>10. j.overwrite
  BY <1>5, <1>8, <1>9 DEF M!Free, Special
<1> QED
  BY <1>1, <1>3, <1>6, <1>8, <1>10 DEF Asked

(* A source is erased when its destination has what it had.                *)
LEMMA EraseLoses ==
    ASSUME MoveInv, NEW m \in Movers, M!Erase(m),
           NEW c \in Names, M!Somewhere(c), ~M!Somewhere(c)'
    PROVE  FALSE
<1>1. PICK j : j = job[m]
  OBVIOUS
<1>2. pc[m] = "erase" /\ pc[m] \in M!Inside
  BY DEF M!Erase, M!Inside
<1>3. /\ store \in Tables /\ j \in M!Jobs /\ j.method = "rename" /\ Arrived(j, j.names)
      /\ \A n \in Names : store[j.from][n] \in {before[j.from][n], Absent, Foreign}
  BY <1>1, <1>2, HolderIs DEF CallAt
<1>4. /\ j.from \in Places /\ j.to \in Places /\ j.from # j.to /\ j.names \subseteq Names
  BY <1>3, JobIs DEF M!Moving
<1>5. store' # store
  BY DEF M!Somewhere
<1>6. PICK n \in j.names : M!Put(j.from, n, Absent)
  BY <1>1, <1>5 DEF M!Erase
<1>7. n \in Names /\ Absent \in M!Files
  BY <1>4, <1>6 DEF M!Files
<1>8. store[j.from][n] = c
  BY <1>3, <1>4, <1>6, <1>7, LostThere
<1>9. before[j.from][n] = c /\ c # Absent
  BY <1>3, <1>7, <1>8, SpecialFiles DEF Special
<1>10. store[j.to][n] = c
  BY <1>3, <1>6, <1>9 DEF Arrived
<1>11. store'[j.to][n] = c
  BY <1>3, <1>4, <1>6, <1>7, <1>10, PutIs
<1> QED
  BY <1>4, <1>7, <1>11 DEF M!Somewhere

(* A native rename takes its content along.                                *)
LEMMA RenameLoses ==
    ASSUME MoveInv, NEW m \in Movers, M!Rename(m),
           NEW c \in Names, M!Somewhere(c), ~M!Somewhere(c)'
    PROVE  Asked(m, c)
<1>1. PICK j : j = job[m]
  OBVIOUS
<1>2. pc[m] = "rename" /\ pc[m] \in M!Inside
  BY DEF M!Rename, M!Inside
<1>3. /\ store \in Tables /\ j \in M!Jobs /\ j.method = "rename"
      /\ \A n \in j.names : j.overwrite \/ store[j.to][n] \in {Absent, Foreign}
  BY <1>1, <1>2, HolderIs DEF CallAt
<1>4. j.from \in Places /\ j.to \in Places /\ j.from # j.to /\ j.names \subseteq Names
  BY <1>3, JobIs DEF M!Moving
<1>5. store' # store
  BY DEF M!Somewhere
<1>6. PICK n \in j.names :
        store' = [store EXCEPT ![j.to][n] = store[j.from][n], ![j.from][n] = Absent]
  BY <1>1, <1>5 DEF M!Rename
<1>7. \A e \in Places, k \in Names :
         store'[e][k] = IF k = n /\ e = j.to THEN store[j.from][n]
                        ELSE IF k = n /\ e = j.from THEN Absent ELSE store[e][k]
  BY <1>3, <1>4, <1>6, RenamingIs
<1>8. PICK e \in Places, k \in Names : store[e][k] = c
  BY DEF M!Somewhere
<1>9. store'[e][k] # c /\ store'[j.to][n] # c
  BY <1>4, <1>6, <1>8 DEF M!Somewhere
<1>10. e = j.to /\ k = n
  <2>1. n \in Names /\ store'[j.to][n] = store[j.from][n]
    BY <1>3, <1>4, <1>6 DEF Tables
  <2>2. ~(k = n /\ e = j.from)
    BY <1>8, <1>9, <2>1
  <2>3. store'[e][k] = IF k = n /\ e = j.to THEN store[j.from][n]
                       ELSE IF k = n /\ e = j.from THEN Absent ELSE store[e][k]
    BY <1>7
  <2>4. store'[e][k] # store[e][k]
    BY <1>8, <1>9
  <2> QED
    BY <2>2, <2>3, <2>4
<1>11. c \notin Special
  BY SpecialFiles
<1>12. j.overwrite
  BY <1>3, <1>6, <1>8, <1>10, <1>11 DEF Special
<1> QED
  BY <1>1, <1>2, <1>6, <1>8, <1>10, <1>12 DEF Asked

(* A write replaces what it may overwrite.                                 *)
LEMMA WriteLoses ==
    ASSUME MoveInv, NEW m \in Movers, M!Write(m),
           NEW c \in Names, M!Somewhere(c), ~M!Somewhere(c)'
    PROVE  Asked(m, c)
<1>1. PICK j : j = job[m]
  OBVIOUS
<1>2. pc[m] = "write" /\ pc[m] \in M!Inside
  BY DEF M!Write, M!Inside
<1>3. /\ store \in Tables /\ j \in M!Jobs /\ j.to \in Places /\ j.names \subseteq Names
  BY <1>1, <1>2, HolderIs, JobIs
<1>4. store' # store
  BY DEF M!Somewhere
<1>5. PICK n \in j.names : M!Free(j, n) /\ (M!Put(j.to, n, Written) \/ M!Put(j.to, n, Torn))
  BY <1>1, <1>4 DEF M!Write
<1>6. n \in Names /\ Written \in M!Files /\ Torn \in M!Files
  BY <1>3, <1>5 DEF M!Files
<1>7. store[j.to][n] = c
  BY <1>3, <1>5, <1>6, LostThere
<1>8. c \notin Special
  BY SpecialFiles
<1>9. j.overwrite
  BY <1>5, <1>7, <1>8 DEF M!Free, Special
<1> QED
  BY <1>1, <1>2, <1>5, <1>7, <1>9 DEF Asked

(* A directory that is deleted has nothing of this connection in it.       *)
LEMMA DeleteLoses ==
    ASSUME MoveInv, NEW m \in Movers, M!Delete(m),
           NEW c \in Names, M!Somewhere(c), ~M!Somewhere(c)'
    PROVE  Asked(m, c)
<1>1. PICK j : j = job[m]
  OBVIOUS
<1>2. pc[m] = "delete" /\ pc[m] \in M!Inside
  BY DEF M!Delete, M!Inside
<1>3. /\ store \in Tables /\ j \in M!Jobs /\ j.method = "delete"
      /\ j.whole => \A n \in Names : store[j.from][n] \in {Absent, Foreign}
  BY <1>1, <1>2, HolderIs DEF CallAt
<1>4. j.from \in Places /\ j.to = j.from
  BY <1>3, JobIs DEF M!Moving
<1>5. store' # store
  BY DEF M!Somewhere
<1>6. store' = [store EXCEPT ![j.from] = [n \in Names |-> IF n \in j.names THEN Absent ELSE @[n]]]
  BY <1>1, <1>5 DEF M!Delete
<1>7. \A e \in Places, k \in Names :
         store'[e][k] = IF e = j.from /\ k \in j.names THEN Absent ELSE store[e][k]
  BY <1>3, <1>6, DeletingIs
<1>8. PICK e \in Places, k \in Names : store[e][k] = c /\ store'[e][k] # c
  BY DEF M!Somewhere
<1>9. e = j.from /\ k \in j.names
  BY <1>7, <1>8
<1>10. c \notin Special
  BY SpecialFiles
<1>11. ~j.whole
  BY <1>3, <1>8, <1>9, <1>10 DEF Special
<1> QED
  BY <1>1, <1>2, <1>3, <1>4, <1>8, <1>9, <1>11 DEF Asked

(* The other steps change no file; another client's adds one.              *)
LEMMA OthersLoseNothing ==
    ASSUME MoveInv, NEW c \in Names, M!Somewhere(c), ~M!Somewhere(c)'
    PROVE  /\ ~M!Outsider
           /\ \A m \in Movers : ~(\/ M!Lock(m) \/ M!Look(m) \/ M!Mkdir(m) \/ M!List(m)
                                  \/ M!Interrupt(m) \/ M!Return(m))
<1>1. store' # store
  BY DEF M!Somewhere
<1>2. ASSUME M!Outsider PROVE FALSE
  <2>1. PICK d \in Places, n \in Names : store[d][n] = Absent /\ M!Put(d, n, Foreign)
    BY <1>2 DEF M!Outsider, M!Present
  <2>2. store \in Tables /\ Foreign \in M!Files
    BY DEF MoveInv, M!TypeOK, Tables, M!Files
  <2>3. store[d][n] = c
    BY <2>1, <2>2, LostThere
  <2> QED
    BY <2>1, <2>3, SpecialFiles DEF Special
<1> QED
  BY <1>1, <1>2 DEF M!Lock, M!Look, M!Mkdir, M!List, M!Interrupt, M!Return

(* No content of the remote disappears that nobody asked for: the only     *)
(* steps that make one disappear are an overwrite and the delete of a file *)
(* that their callers asked for, however calls fail or are cut short.      *)
THEOREM NoContentIsLost == M!Spec => NothingIsLost
<1>1. MoveInv /\ [M!Next]_(M!vars) => [M!LossIsAsked]_moves
  <2> SUFFICES ASSUME MoveInv, M!Next, NEW c \in Names, M!Somewhere(c), ~M!Somewhere(c)'
               PROVE  \E m \in Movers : Asked(m, c)
    BY MovesVars DEF M!LossIsAsked, M!Contents, Asked
  <2>1. PICK m \in Movers : \/ M!Copy(m) \/ M!Stream(m) \/ M!Erase(m)
                            \/ M!Rename(m) \/ M!Write(m) \/ M!Delete(m)
    BY OthersLoseNothing DEF M!Next
  <2> QED
    BY <2>1, CopyLoses, EraseLoses, RenameLoses, WriteLoses, DeleteLoses
<1> QED
  BY <1>1, MoveInvariantHolds, PTL DEF M!Spec, NothingIsLost

-----------------------------------------------------------------------------
(***************************************************************************)
(* Connections.                                                            *)
(***************************************************************************)
Fault == BOOLEAN \X {"configuration", "unsupported"}

(* A few tests have a first one that is met, if any is.                    *)
LEMMA FirstIs ==
    ASSUME NEW S \in SUBSET (1 .. 8), S # {}
    PROVE  \E i \in S : \A j \in S : i <= j
<1>1. \A i \in S : i \in {1, 2, 3, 4, 5, 6, 7, 8}
  OBVIOUS
<1>2. CASE 1 \in S
  BY <1>1, <1>2
<1>3. CASE 1 \notin S /\ 2 \in S
  BY <1>1, <1>3
<1>4. CASE S \cap {1, 2} = {} /\ 3 \in S
  BY <1>1, <1>4
<1>5. CASE S \cap {1, 2, 3} = {} /\ 4 \in S
  BY <1>1, <1>5
<1>6. CASE S \cap {1, 2, 3, 4} = {} /\ 5 \in S
  BY <1>1, <1>6
<1>7. CASE S \cap {1, 2, 3, 4, 5} = {} /\ 6 \in S
  BY <1>1, <1>7
<1>8. CASE S \cap {1, 2, 3, 4, 5, 6} = {} /\ 7 \in S
  BY <1>1, <1>8
<1>9. CASE S \cap {1, 2, 3, 4, 5, 6, 7} = {}
  <2>1. PICK i \in S : i \in {1, 2, 3, 4, 5, 6, 7, 8}
    BY <1>1
  <2>2. S = {8}
    BY <1>1, <1>9, <2>1
  <2> QED
    BY <2>2
<1> QED
  BY <1>2, <1>3, <1>4, <1>5, <1>6, <1>7, <1>8, <1>9

(* No fault is found only where there is none.                             *)
LEMMA NoFault ==
    ASSUME NEW faults \in Seq(Fault), Len(faults) <= 8, C!FirstFault(faults) = "none",
           NEW i \in 1 .. Len(faults)
    PROVE  ~faults[i][1]
<1> DEFINE met == {k \in DOMAIN faults : faults[k][1]}
<1>1. met \in SUBSET (1 .. 8)
  OBVIOUS
<1>2. ASSUME met # {} PROVE FALSE
  <2>1. PICK e \in met : \A j \in met : e <= j
    BY <1>1, <1>2, FirstIs
  <2>2. (CHOOSE k \in met : \A j \in met : k <= j) \in met
    BY <2>1
  <2>3. PICK f \in met : f = CHOOSE k \in met : \A j \in met : k <= j
    BY <2>2
  <2>4. C!FirstFault(faults) = faults[f][2]
    BY <1>2, <2>3 DEF C!FirstFault
  <2>5. faults[f] \in Fault
    OBVIOUS
  <2>6. faults[f][2] # "none"
    BY <2>5 DEF Fault
  <2> QED
    BY <2>4, <2>6
<1> QED
  BY <1>2

(* The third of three tests is not met when there is no fault.             *)
LEMMA NoThirdFault ==
    ASSUME NEW A \in BOOLEAN, NEW f \in {"configuration", "unsupported"},
           NEW B \in BOOLEAN, NEW g \in {"configuration", "unsupported"},
           NEW D \in BOOLEAN, NEW h \in {"configuration", "unsupported"},
           NEW faults, faults = << <<A, f>>, <<B, g>>, <<D, h>> >>,
           C!FirstFault(faults) = "none"
    PROVE  ~D
<1>1. faults \in Seq(Fault) /\ Len(faults) = 3
  BY DEF Fault
<1>2. faults[3] = <<D, h>>
  OBVIOUS
<1>3. 3 \in 1 .. Len(faults) /\ Len(faults) <= 8
  BY <1>1
<1>4. ~faults[3][1]
  BY <1>1, <1>3, NoFault
<1> QED
  BY <1>2, <1>4

(* A dedicated type of connection that has no fault takes no way but the   *)
(* one its request says.                                                   *)
LEMMA NoOtherWay ==
    ASSUME NEW r, C!DedicatedFault(r) = "none"
    PROVE  r.protocol \in C!Tcp \/ ~(C!Overridden(r) \/ C!Transport(r))
<1>1. PICK A \in BOOLEAN : A = (r.shape = "other" /\ ~C!Overlaid(r))
  OBVIOUS
<1>2. PICK B \in BOOLEAN : B = (C!Setting(r, "root") = "number")
  OBVIOUS
<1>3. C!Overridden(r) \in BOOLEAN /\ C!Transport(r) \in BOOLEAN
  BY DEF C!Overridden, C!Transport
<1>4. PICK D \in BOOLEAN : D = (r.protocol \notin C!Tcp /\ (C!Overridden(r) \/ C!Transport(r)))
  OBVIOUS
<1>5. PICK faults : faults = << <<A, "configuration">>, <<B, "configuration">>, <<D, "unsupported">> >>
  OBVIOUS
<1>6. C!SharedFaults(r) = faults
  BY <1>1, <1>2, <1>4, <1>5 DEF C!SharedFaults
<1>7. C!FirstFault(faults) = "none"
  BY <1>6 DEF C!DedicatedFault
<1>8. ~D
  BY <1>5, <1>7, NoThirdFault
<1> QED
  BY <1>4, <1>8

(* Each key of a generic service has one line.                             *)
LEMMA NoOtherLine ==
    ASSUME NEW r, C!FirstFault(C!GenericFaults(r)) = "none"
    PROVE  \A i, j \in DOMAIN r.lines : i # j => r.lines[i][1] # r.lines[j][1]
<1>1. PICK A \in BOOLEAN : A = (r.secret["service"] = Absent)
  OBVIOUS
<1>2. PICK B \in BOOLEAN : B = (\E i \in DOMAIN r.lines : r.lines[i][1] = "")
  OBVIOUS
<1>3. PICK D \in BOOLEAN :
        D = (\E i, j \in DOMAIN r.lines : i # j /\ r.lines[i][1] = r.lines[j][1])
  OBVIOUS
<1>4. PICK faults :
        faults = << <<A, "configuration">>, <<B, "configuration">>, <<D, "configuration">> >>
  OBVIOUS
<1>5. C!GenericFaults(r) = faults
  BY <1>1, <1>2, <1>3, <1>4 DEF C!GenericFaults
<1>6. ~D
  BY <1>4, <1>5, NoThirdFault
<1> QED
  BY <1>3, <1>6

-----------------------------------------------------------------------------
(* What RouteIsKept and SettingsAreTheirs say of the parameters that a     *)
(* request has led to.                                                     *)
RouteIn(params, r) ==
    params # {} /\ r.protocol \in C!Dedicated =>
        IF r.protocol \in C!Tcp
        THEN r.runtime # Absent /\ r.runtime.host # "" =>
                {p[2] : p \in {q \in params : q[1] = "endpoint"}} = {r.runtime}
        ELSE /\ r.runtime \in {Absent, [host |-> r.host, port |-> r.port]}
             /\ \A l \in r.layers :
                   l.enabled = "false" \/ (l.enabled = "absent" /\ l.list # "transport_layers")

SettingsIn(params, r) ==
    /\ \A p, q \in params : p[1] = q[1] => p = q
    /\ r.protocol \in C!Dedicated =>
          \A p \in params :
             /\ p[1] \in C!Bindable \ ({"endpoint"} \cap {k \in C!Bindable : r.protocol \in C!Tcp})
             /\ r.secret[p[1]] # Absent
             => p[2] = r.secret[p[1]]
    /\ r.protocol = "opendal" => params \subseteq {r.lines[i] : i \in DOMAIN r.lines}

(* The parameters of each type of connection.                              *)
LEMMA FtpHas ==
    ASSUME NEW r, r.protocol = "ftp"
    PROVE  C!Parameters(r) = {<<"root", C!Text(r, "root", "/")>>, <<"endpoint", C!Endpoint(r)>>,
                              <<"user", r.user>>, <<"password", C!Secret(r, "password")>>}
BY DEF C!Parameters, C!Place, C!Login, C!Tcp

(* SFTP: the path of a key where a key is asked for.                       *)
LEMMA SftpHas ==
    ASSUME NEW r, r.protocol = "sftp"
    PROVE  /\ C!Parameters(r) \subseteq
                 {<<"root", C!Text(r, "root", "/")>>, <<"endpoint", C!Endpoint(r)>>,
                  <<"user", r.user>>, <<"key", C!Secret(r, "private_key")>>}
           /\ <<"endpoint", C!Endpoint(r)>> \in C!Parameters(r)
BY DEF C!Parameters, C!Place, C!Login, C!Tcp

(* S3: the token of the session where there is one.                        *)
LEMMA S3Has ==
    ASSUME NEW r, r.protocol = "s3"
    PROVE  C!Parameters(r) \subseteq
              {<<"root", C!Text(r, "root", "/")>>,
               <<"endpoint", C!Setting(r, "endpoint")>>, <<"region", C!Setting(r, "region")>>,
               <<"bucket", C!Setting(r, "bucket")>>,
               <<"enable_virtual_host_style", ~C!Flag(r, "path_style", TRUE)>>,
               <<"access_key_id", C!Secret(r, "access_key")>>,
               <<"secret_access_key", C!Secret(r, "secret_key")>>,
               <<"disable_config_load", "true">>, <<"disable_ec2_metadata", "true">>,
               <<"session_token", C!Secret(r, "session_token")>>}
BY DEF C!Parameters, C!Place, C!Login, C!Tcp, C!Pairs

(* Each parameter of S3 has one value.                                     *)
LEMMA S3Values ==
    ASSUME NEW r, r.protocol = "s3"
    PROVE  /\ \A p, q \in C!Parameters(r) : p[1] = q[1] => p = q
           /\ \A p \in C!Parameters(r) :
                 p[1] \in C!Bindable => \/ p[1] = "root" /\ p[2] = C!Text(r, "root", "/")
                                        \/ p[2] = C!Setting(r, p[1])
<1>1. PICK style : style = ~C!Flag(r, "path_style", TRUE)
  OBVIOUS
<1>2. \A p \in C!Parameters(r) :
         \/ p = <<"root", C!Text(r, "root", "/")>>
         \/ p = <<"endpoint", C!Setting(r, "endpoint")>>
         \/ p = <<"region", C!Setting(r, "region")>>
         \/ p = <<"bucket", C!Setting(r, "bucket")>>
         \/ p = <<"enable_virtual_host_style", style>>
         \/ p = <<"access_key_id", C!Secret(r, "access_key")>>
         \/ p = <<"secret_access_key", C!Secret(r, "secret_key")>>
         \/ p = <<"disable_config_load", "true">> \/ p = <<"disable_ec2_metadata", "true">>
         \/ p = <<"session_token", C!Secret(r, "session_token")>>
  BY <1>1, S3Has
<1>3. ASSUME NEW p \in C!Parameters(r)
      PROVE  /\ p = <<p[1], p[2]>>
             /\ p[1] = "root" => p[2] = C!Text(r, "root", "/")
             /\ p[1] \in {"endpoint", "region", "bucket"} => p[2] = C!Setting(r, p[1])
             /\ p[1] = "enable_virtual_host_style" => p[2] = style
             /\ p[1] = "access_key_id" => p[2] = C!Secret(r, "access_key")
             /\ p[1] = "secret_access_key" => p[2] = C!Secret(r, "secret_key")
             /\ p[1] \in {"disable_config_load", "disable_ec2_metadata"} => p[2] = "true"
             /\ p[1] = "session_token" => p[2] = C!Secret(r, "session_token")
  BY <1>2
<1>4. \A p \in C!Parameters(r) :
         p[1] \in {"root", "endpoint", "region", "bucket", "enable_virtual_host_style",
                  "access_key_id", "secret_access_key", "disable_config_load",
                  "disable_ec2_metadata", "session_token"}
  BY <1>2
<1>5. ASSUME NEW p \in C!Parameters(r), NEW q \in C!Parameters(r), p[1] = q[1]
      PROVE  p = q
  <2>1. p[2] = q[2]
    BY <1>3, <1>4, <1>5
  <2> QED
    BY <1>3, <1>5, <2>1
<1>6. \A p \in C!Parameters(r) :
         p[1] \in C!Bindable => \/ p[1] = "root" /\ p[2] = C!Text(r, "root", "/")
                                \/ p[2] = C!Setting(r, p[1])
  BY <1>3, <1>4 DEF C!Bindable
<1> QED
  BY <1>5, <1>6

(* WebDAV: a user and a password, or a token.                              *)
LEMMA WebdavHas ==
    ASSUME NEW r, r.protocol = "webdav"
    PROVE  C!Parameters(r) \subseteq
              {<<"root", C!Text(r, "root", "/")>>, <<"endpoint", C!Setting(r, "endpoint")>>,
               <<"username", r.user>>, <<"password", C!Secret(r, "password")>>,
               <<"token", C!Secret(r, "bearer_token")>>}
BY DEF C!Parameters, C!Place, C!Login, C!Tcp, C!Pairs

(* WebHDFS: a delegation token, or a user.                                 *)
LEMMA WebhdfsHas ==
    ASSUME NEW r, r.protocol = "webhdfs"
    PROVE  C!Parameters(r) \subseteq
              {<<"root", C!Text(r, "root", "/")>>, <<"endpoint", C!Setting(r, "endpoint")>>,
               <<"delegation", C!Secret(r, "delegation_token")>>,
               <<"user_name", C!Setting(r, "simple_user")>>}
BY DEF C!Parameters, C!Place, C!Login, C!Tcp, C!Pairs

(* Native HDFS: the name node, and the options of its directory.           *)
LEMMA HdfsHas ==
    ASSUME NEW r, r.protocol = "hdfs-native"
    PROVE  C!Parameters(r) \subseteq
              {<<"root", C!Text(r, "root", "/")>>,
               <<"name_node", C!Setting(r, "name_node_uri")>>, <<"options", "map">>}
BY DEF C!Parameters, C!Place, C!Login, C!Tcp

(* One of them is where an FTP or SFTP connection goes to.                 *)
LEMMA OneWay ==
    ASSUME NEW r, r.protocol \in C!Tcp, NEW way, way = <<"endpoint", C!Endpoint(r)>>
    PROVE  way \in C!Parameters(r) /\ \A q \in C!Parameters(r) : q[1] = "endpoint" => q = way
<1>1. way \in C!Parameters(r)
  BY FtpHas, SftpHas DEF C!Tcp
<1>2. ASSUME NEW q \in C!Parameters(r), q # way PROVE q[1] # "endpoint"
  <2>1. \/ q = <<"root", C!Text(r, "root", "/")>> \/ q = <<"user", r.user>>
        \/ q = <<"password", C!Secret(r, "password")>>
        \/ q = <<"key", C!Secret(r, "private_key")>>
    BY <1>2, FtpHas, SftpHas DEF C!Tcp
  <2> QED
    BY <2>1
<1> QED
  BY <1>1, <1>2

(* A request without a fault goes its own way.                             *)
LEMMA RouteIsRight ==
    ASSUME NEW r \in Requests, C!DedicatedFault(r) = "none"
    PROVE  RouteIn(C!Parameters(r), r)
<1>1. CASE r.protocol \in C!Tcp
  <2> SUFFICES ASSUME r.runtime # Absent, r.runtime.host # ""
               PROVE  {p[2] : p \in {q \in C!Parameters(r) : q[1] = "endpoint"}} = {r.runtime}
    BY <1>1 DEF RouteIn
  <2>1. C!Endpoint(r) = r.runtime
    BY RequestsAreTyped DEF C!ConfigurationAssumption, C!Endpoint
  <2>2. PICK way : way = <<"endpoint", C!Endpoint(r)>>
    OBVIOUS
  <2>3. way[1] = "endpoint" /\ way[2] = r.runtime
    BY <2>1, <2>2
  <2>4. way \in C!Parameters(r) /\ \A q \in C!Parameters(r) : q[1] = "endpoint" => q = way
    BY <1>1, <2>2, OneWay
  <2> QED
    BY <2>3, <2>4
<1>2. CASE r.protocol \notin C!Tcp
  <2>1. ~C!Overridden(r) /\ ~C!Transport(r)
    BY <1>2, NoOtherWay
  <2>2. \A l \in r.layers : l.enabled \in {"true", "false", "absent"}
    BY RequestsAreTyped DEF C!ConfigurationAssumption
  <2> QED
    BY <1>2, <2>1, <2>2 DEF RouteIn, C!Overridden, C!Transport
<1> QED
  BY <1>1, <1>2

(* Its parameters are its settings, and secrets where there are any.       *)
LEMMA SettingsAreRight ==
    ASSUME NEW r \in Requests,
           r.protocol = "opendal" => C!FirstFault(C!GenericFaults(r)) = "none"
    PROVE  SettingsIn(C!Parameters(r), r)
<1>1. r.protocol \in {"ftp", "sftp", "s3", "webdav", "webhdfs", "hdfs-native", "opendal"}
  BY RequestsAreTyped DEF C!ConfigurationAssumption, C!Dedicated
<1>2. \A k : r.secret[k] # Absent => C!Setting(r, k) = r.secret[k]
  BY DEF C!Setting
<1>3. r.secret["root"] # Absent => C!Text(r, "root", "/") = r.secret["root"]
  BY <1>2 DEF C!Text
<1> USE DEF SettingsIn, C!Dedicated, C!Tcp, C!Bindable
<1>4. CASE r.protocol = "ftp"
  BY <1>3, <1>4, FtpHas
<1>5. CASE r.protocol = "sftp"
  <2>1. \A p \in C!Parameters(r) :
           \/ p = <<"root", C!Text(r, "root", "/")>> \/ p = <<"endpoint", C!Endpoint(r)>>
           \/ p = <<"user", r.user>> \/ p = <<"key", C!Secret(r, "private_key")>>
    BY <1>5, SftpHas
  <2>2. \A p, q \in C!Parameters(r) : p[1] = q[1] => p = q
    BY <2>1
  <2>3. \A p \in C!Parameters(r) : p[1] \in {"root", "endpoint", "user", "key"}
    BY <2>1
  <2>4. \A p \in C!Parameters(r) : p[1] = "root" => p[2] = C!Text(r, "root", "/")
    BY <2>1
  <2> QED
    BY <1>3, <1>5, <2>2, <2>3, <2>4
<1>6. CASE r.protocol = "s3"
  BY <1>2, <1>3, <1>6, S3Values
<1>7. CASE r.protocol = "webdav"
  BY <1>2, <1>3, <1>7, WebdavHas
<1>8. CASE r.protocol = "webhdfs"
  BY <1>2, <1>3, <1>8, WebhdfsHas
<1>9. CASE r.protocol = "hdfs-native"
  BY <1>2, <1>3, <1>9, HdfsHas
<1>10. CASE r.protocol = "opendal"
  <2>1. C!Parameters(r) = {r.lines[i] : i \in DOMAIN r.lines}
    BY <1>10 DEF C!Parameters
  <2>2. \A i, j \in DOMAIN r.lines : i # j => r.lines[i][1] # r.lines[j][1]
    BY <1>10, NoOtherLine
  <2> QED
    BY <1>10, <2>1, <2>2
<1> QED
  BY <1>1, <1>4, <1>5, <1>6, <1>7, <1>8, <1>9, <1>10

-----------------------------------------------------------------------------
(* How far a connection has come: its request is one that is asked, an     *)
(* operator that is built has a root of its own, the ssh program runs      *)
(* while it is probed only, and an SFTP service is supported when it has   *)
(* been reaped.                                                            *)
MadeInv ==
    /\ request \in Requests
    /\ RouteIn(config, request) /\ SettingsIn(config, request)
    /\ error # "none" <=> stage = "over"
    /\ stage \in {"built", "ready"} => ~C!BadRoot(config)
    /\ stage # "probing" => child \in {"none", "reaped"}
    /\ stage \in {"supported", "built", "ready"} /\ C!Service(request) = "sftp" => child = "reaped"

(* No connection has come further than being asked for.                    *)
LEMMA MadeInit == C!Init => MadeInv
BY DEF C!Init, MadeInv, RouteIn, SettingsIn

(* The parameters are brought together in one step; the others leave them. *)
LEMMA NormalizeKeeps ==
    ASSUME MadeInv, C!Normalize
    PROVE  MadeInv'
<1>1. CASE stage' = "over"
  <2>1. /\ error' # "none" /\ UNCHANGED <<request, config, child>> /\ child \in {"none", "reaped"}
    BY <1>1 DEF C!Normalize, C!Refuse, MadeInv
  <2> QED
    BY <1>1, <2>1 DEF MadeInv
<1>2. CASE stage' # "over"
  <2>1. PICK r \in Requests : r = request
    BY DEF MadeInv
  <2>2. /\ stage = "parsed" /\ stage' = "normalized" /\ config' = C!Parameters(r)
        /\ UNCHANGED <<request, child, error>>
        /\ r.protocol = "opendal" => C!FirstFault(C!GenericFaults(r)) = "none"
        /\ r.protocol # "opendal" => C!DedicatedFault(r) = "none"
    BY <1>2, <2>1 DEF C!Normalize, C!Refuse
  <2>3. SettingsIn(C!Parameters(r), r)
    BY <2>2, SettingsAreRight
  <2>4. RouteIn(C!Parameters(r), r)
    <3>1. CASE r.protocol = "opendal"
      BY <3>1 DEF RouteIn, C!Dedicated
    <3>2. CASE r.protocol # "opendal"
      BY <2>2, <3>2, RouteIsRight
    <3> QED
      BY <3>1, <3>2
  <2>5. RouteIn(config', request') /\ SettingsIn(config', request')
    BY <2>1, <2>2, <2>3, <2>4
  <2>6. /\ request' \in Requests /\ error' = "none" /\ child' \in {"none", "reaped"}
    BY <2>1, <2>2 DEF MadeInv
  <2> QED
    BY <2>2, <2>5, <2>6 DEF MadeInv
<1> QED
  BY <1>1, <1>2

(* The other steps of a connection leave its parameters alone.             *)
LEMMA MadeNext == MadeInv /\ [C!Next]_connect => MadeInv'
<1> SUFFICES ASSUME MadeInv, [C!Next]_connect PROVE MadeInv'
  OBVIOUS
<1>1. CASE UNCHANGED connect
  BY <1>1 DEF connect, MadeInv, C!BadRoot, C!Service
<1>2. CASE C!Normalize
  BY <1>2, NormalizeKeeps
<1>3. ASSUME UNCHANGED <<request, config>>
      PROVE  /\ request' \in Requests /\ RouteIn(config, request)' /\ SettingsIn(config, request)'
             /\ C!BadRoot(config)' <=> C!BadRoot(config)
             /\ C!Service(request)' = C!Service(request)
  BY <1>3 DEF MadeInv, C!BadRoot, C!Service
<1>4. CASE C!Parse
  BY <1>3, <1>4 DEF C!Parse, C!Refuse, MadeInv
<1>5. CASE C!Check
  BY <1>3, <1>5 DEF C!Check, C!Refuse, MadeInv
<1>6. CASE C!Spawn
  BY <1>3, <1>6 DEF C!Spawn, C!Refuse, MadeInv
<1>7. CASE C!Exit
  BY <1>3, <1>7 DEF C!Exit, MadeInv
<1>8. CASE C!GiveUp
  BY <1>3, <1>8 DEF C!GiveUp, MadeInv
<1>9. CASE C!Poll
  BY <1>3, <1>9 DEF C!Poll, MadeInv
<1>10. CASE C!Build
  BY <1>3, <1>10 DEF C!Build, C!Refuse, MadeInv
<1>11. CASE C!Verify
  BY <1>3, <1>11 DEF C!Verify, C!Refuse, MadeInv
<1> QED
  BY <1>1, <1>2, <1>4, <1>5, <1>6, <1>7, <1>8, <1>9, <1>10, <1>11 DEF C!Next

(* A connection goes the way its request says, with the settings that are  *)
(* its own and in secrets where it has any, and leaves no ssh program      *)
(* behind, whatever is asked for (config.rs, generic.rs and                *)
(* service_support.rs).                                                    *)
THEOREM ConnectionsAreTheirs == C!Spec => [](C!ConnectInv /\ ConnectInv)
<1>1. UNCHANGED C!vars <=> UNCHANGED connect
  BY DEF C!vars, connect
<1>2. MadeInv /\ [C!Next]_(C!vars) => MadeInv'
  BY <1>1, MadeNext
<1>3. MadeInv => C!ConnectInv /\ ConnectInv
  <2>1. RouteIn(config, request) => C!RouteIsKept
    BY DEF RouteIn, C!RouteIsKept, C!Parameter
  <2>2. SettingsIn(config, request) => C!SettingsAreTheirs
    BY DEF SettingsIn, C!SettingsAreTheirs
  <2> QED
    BY <2>1, <2>2 DEF MadeInv, C!ConnectInv, ConnectInv, C!ProbeIsOver
<1> QED
  BY <1>2, <1>3, MadeInit, PTL DEF C!Spec

-----------------------------------------------------------------------------
(***************************************************************************)
(* Functions.                                                              *)
(***************************************************************************)

(* What a remote may answer to the tests of a destination.                 *)
AnswersIn ==
    [kind : {"answers"}, of : L!Answers, again : L!Answers,
     lists : BOOLEAN, overwrite : BOOLEAN]

(* The code of an error is no entry, and not_found only for NotFound.      *)
LEMMA CodesAre ==
    ASSUME NEW kind \in L!Kinds
    PROVE  /\ L!Code(kind) \notin L!Entries
           /\ L!Code(kind) \notin {"present", "absent", "free"}
           /\ L!Code(kind) = "not_found" <=> kind = "NotFound"
BY DEF L!Kinds, L!Code, L!Entries

(* What stat makes of an answer.                                           *)
LEMMA StatIs ==
    ASSUME NEW a \in L!Answers
    PROVE  /\ L!Stat(a) \in L!Entries =>
                 a.path \in L!Entries \/ a.slash = "dir"
           /\ L!Stat(a) \in L!Entries \ {"dir"} => a.path \in L!Entries \ {"dir"}
           /\ L!Stat(a) = "not_found" => a.path = "NotFound" /\ a.slash \in L!Kinds
           /\ L!Stat(a) \notin {"present", "absent", "free"}
<1>1. /\ a.path \in L!Entries \cup L!Kinds /\ a.slash \in {"dir"} \cup L!Kinds
      /\ "dir" \notin L!Kinds /\ L!Entries \cap L!Kinds = {}
  BY DEF L!Answers, L!Kinds, L!Entries
<1>2. CASE a.path \in L!Entries
  BY <1>2 DEF L!Stat, L!Entries
<1>3. CASE a.path \in L!Kinds /\ a.path \in {"NotFound", "Unexpected"} /\ a.slash \notin L!Kinds
  <2>1. L!Stat(a) = "dir" /\ a.slash = "dir"
    BY <1>1, <1>3 DEF L!Stat
  <2> QED
    BY <2>1 DEF L!Entries
<1>4. CASE a.path \in L!Kinds /\ ~(a.path \in {"NotFound", "Unexpected"} /\ a.slash \notin L!Kinds)
  <2>1. L!Stat(a) = L!Code(a.path)
    BY <1>1, <1>4 DEF L!Stat
  <2> QED
    BY <1>4, <2>1, CodesAre
<1> QED
  BY <1>1, <1>2, <1>3, <1>4

(* A destination is called free only after the remote has said so or what  *)
(* is there may be overwritten, whatever it answers (operations.rs, stat,  *)
(* exists and destination).                                                *)
THEOREM DestinationsAreKnown == input \in AnswersIn => FunctionsAreRight
<1> SUFFICES ASSUME NEW a \in L!Answers, NEW again \in L!Answers,
                    NEW lists \in BOOLEAN, NEW overwrite \in BOOLEAN,
                    L!Destination(a, again, lists, overwrite) = "free"
             PROVE  \/ /\ a.path = "NotFound" /\ a.slash \in L!Kinds
                       /\ lists => a.list \in {"empty", "NotFound"}
                    \/ /\ overwrite
                       /\ again.path \in L!Entries \ {"dir"}
                       /\ a.path \in L!Entries \/ a.slash = "dir" \/ a.list = "entries"
  BY DEF AnswersIn, FunctionsAreRight, L!DestinationIsKnown
<1>1. a.list \in {"entries", "empty"} \cup L!Kinds
  BY DEF L!Answers
<1>2. CASE L!Exists(a, lists) = "absent"
  BY <1>1, <1>2, StatIs, CodesAre DEF L!Exists, L!Entries
<1>3. CASE L!Exists(a, lists) = "present"
  <2>1. overwrite /\ L!Stat(again) \in L!Entries \ {"dir"}
    BY <1>3, StatIs DEF L!Destination, L!Entries
  <2>2. L!Stat(a) \in L!Entries \/ a.list = "entries"
    BY <1>1, <1>3, StatIs, CodesAre DEF L!Exists
  <2> QED
    BY <2>1, <2>2, StatIs
<1>4. CASE L!Exists(a, lists) \notin {"absent", "present"}
  <2>1. L!Exists(a, lists) = "free"
    BY <1>4 DEF L!Destination
  <2> QED
    BY <1>1, <2>1, StatIs, CodesAre DEF L!Exists
<1> QED
  BY <1>2, <1>3, <1>4

-----------------------------------------------------------------------------
(* Any set of capabilities.                                                *)
OfferIn == [kind : {"capabilities"}, of : SUBSET K!Remote, readOnly : BOOLEAN]

(* What is advertised, operation by operation.                             *)
LEMMA OfferIs ==
    ASSUME NEW c \in SUBSET K!Remote, "list" \notin c \/ "stat" \in c,
           NEW readOnly \in BOOLEAN, NEW op \in K!Operations
    PROVE  op \in K!Advertised(c, readOnly) <=>
              K!Requested(op, c) \subseteq c /\ (readOnly => op \notin K!Mutations)
<1>1. op \in {"write", "mkdir", "delete", "copy", "rename", "upload", "edit",
              "list", "read", "stat", "download"}
  BY DEF K!Operations, K!Mutations
<1> USE DEF K!Advertised, K!Requested, K!Operations, K!Mutations, K!Probe, K!Metadata
<1>2. CASE op \in {"stat", "list", "read", "download"}
  BY <1>2
<1>3. CASE op \in {"write", "mkdir", "delete", "edit"}
  BY <1>3
<1>4. CASE op = "copy"
  BY <1>4 DEF K!CopyFile
<1>5. CASE op = "rename"
  BY <1>5 DEF K!CopyFile
<1>6. CASE op = "upload"
  BY <1>6 DEF K!CopyFile, K!Publish
<1> QED
  BY <1>1, <1>2, <1>3, <1>4, <1>5, <1>6

(* An open session refuses exactly the operations whose requests its       *)
(* remote cannot all serve, and with a read-only connection those that     *)
(* change files, whatever the remote can do (session.rs, capabilities and  *)
(* require).                                                               *)
THEOREM OffersWork == input \in OfferIn => FunctionsAreRight
<1> SUFFICES ASSUME NEW c \in SUBSET K!Remote, "list" \notin c \/ "stat" \in c,
                    NEW readOnly \in BOOLEAN, NEW op \in K!Operations
             PROVE  K!Require(op, c, readOnly, FALSE) = "none" <=>
                       K!Requested(op, c) \subseteq c /\ (readOnly => op \notin K!Mutations)
  <2>1. input.kind = "capabilities" => input.kind # "string" /\ input.kind # "answers"
    OBVIOUS
  <2> QED
    BY <2>1 DEF OfferIn, FunctionsAreRight, K!AdvertisedWorks
<1>1. op \in K!Advertised(c, readOnly) => ~(op \in K!Mutations /\ readOnly)
  BY DEF K!Advertised
<1>2. K!Require(op, c, readOnly, FALSE) = "none" <=> op \in K!Advertised(c, readOnly)
  BY <1>1 DEF K!Require
<1> QED
  BY <1>2, OfferIs
=============================================================================
