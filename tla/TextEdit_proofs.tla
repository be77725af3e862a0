---------------------------- MODULE TextEdit_proofs ----------------------------
(***************************************************************************)
(* Proofs about TextEdit, for any number of calls, previews and texts of   *)
(* any length: a save replaces what its preview shows, or what somebody    *)
(* wrote without the lock in between, and previews follow their saves.     *)
(***************************************************************************)
EXTENDS TextEdit, SequenceTheorems, TLAPS

USE DEF remote, Goto, Missing, Stale, Nothing, Locked

(* The text limit as a condition on sequences.                             *)
LEMMA TextsAreSequences ==
    /\ Texts = {s \in Seq(Pieces) : Len(s) <= MaxPieces}
    /\ Empty \in Texts
<1>1. ASSUME NEW s \in Texts PROVE s \in Seq(Pieces) /\ Len(s) <= MaxPieces
  <2>1. PICK n \in 0 .. MaxPieces : s \in [1 .. n -> Pieces]
    BY <1>1 DEF Texts
  <2>2. n \in Nat
    BY TextEditAssumption
  <2>3. s \in Seq(Pieces)
    BY <2>1, <2>2, SeqDef
  <2>4. Len(s) = n
    BY <2>1, <2>2, <2>3, LenProperties
  <2> QED
    BY <2>3, <2>4
<1>2. ASSUME NEW s \in Seq(Pieces), Len(s) <= MaxPieces PROVE s \in Texts
  <2>1. Len(s) \in 0 .. MaxPieces /\ s \in [1 .. Len(s) -> Pieces]
    BY <1>2, LenProperties, TextEditAssumption
  <2> QED
    BY <2>1 DEF Texts
<1>3. Empty \in Seq(Pieces) /\ Len(Empty) <= MaxPieces
  BY EmptySeq, TextEditAssumption DEF Empty
<1> QED
  BY <1>1, <1>2, <1>3

(* Staging keeps to the limit.                                             *)
LEMMA StagedIsText ==
    ASSUME NEW s \in Texts, NEW piece \in {Empty} \cup {<<p>> : p \in Pieces},
           Len(s) + Len(piece) <= MaxPieces
    PROVE  s \o piece \in Texts
<1>1. s \in Seq(Pieces) /\ piece \in Seq(Pieces)
  <2>1. s \in Seq(Pieces) /\ Empty \in Seq(Pieces)
    BY TextsAreSequences
  <2>2. \A p \in Pieces : <<p>> \in Seq(Pieces)
    OBVIOUS
  <2> QED
    BY <2>1, <2>2
<1>2. s \o piece \in Seq(Pieces) /\ Len(s \o piece) = Len(s) + Len(piece)
  BY <1>1, ConcatProperties
<1> QED
  BY <1>2, TextsAreSequences

(* What a call knows of the file.  The writer of a save has compared it    *)
(* with its preview, and every later change of the file is one that the    *)
(* holder of the lock, or who may still write for it, did not make.        *)
CallInv ==
    \A c \in Calls :
        /\ pc[c] \in Locked \cup {"lock"} => op[c].token \in Tokens
        /\ c \in lingering => pc[c] = "idle"
        /\ pc[c] = "write" /\ ~op[c].force /\ file # op[c].base => c \in meddled
        /\ c \in lingering /\ ~op[c].force /\ file # op[c].base => c \in changed
        /\ pc[c] = "book" /\ c \notin changed => file = op[c].text

WriterInv ==
    writer # NoToken => Live(writer) /\ previews[writer].bytes = file

SaveInv == TypeOK /\ CallInv /\ WriterInv

-----------------------------------------------------------------------------
LEMMA InitEstablishes ==
    Init => SaveInv
BY TextsAreSequences, TextEditAssumption
   DEF Init, SaveInv, TypeOK, CallInv, WriterInv, Preview

(* Steps that only move previews: no call and no file is concerned.        *)
LEMMA PreviewsPreserve ==
    ASSUME SaveInv,
           Reconnect \/ \E t \in Tokens : StageText(t) \/ ReleasePreview(t) \/ Age(t)
    PROVE  SaveInv'
<1> USE TextEditAssumption DEF SaveInv
<1>1. UNCHANGED <<remote, file, mutations, pc, op, changed, meddled, lingering>>
  BY DEF Reconnect, StageText, ReleasePreview, Age
<1>2. CallInv'
  BY <1>1 DEF CallInv
<1>3. CASE Reconnect
  BY <1>1, <1>2, <1>3, TextsAreSequences DEF Reconnect, TypeOK, WriterInv, Preview, Live
<1>4. ASSUME NEW t \in Tokens, ReleasePreview(t) \/ Age(t) PROVE SaveInv'
  <2>1. PICK p \in {Missing, Stale} :
           /\ Live(t) /\ previews' = [previews EXCEPT ![t] = p]
           /\ writer' = IF writer = t THEN NoToken ELSE writer
    BY <1>4 DEF ReleasePreview, Age
  <2>2. p \in Preview
    BY TextsAreSequences DEF Preview
  <2>3. TypeOK'
    BY <1>1, <2>1, <2>2 DEF TypeOK
  <2>4. WriterInv'
    BY <1>1, <2>1 DEF TypeOK, WriterInv, Live
  <2> QED
    BY <1>2, <2>3, <2>4
<1>5. ASSUME NEW t \in Tokens, StageText(t) PROVE SaveInv'
  <2>1. PICK piece \in {Empty} \cup {<<p>> : p \in Pieces},
             draft \in {Empty, previews[t].draft} :
           /\ Len(draft) + Len(piece) <= MaxPieces
           /\ previews' = [previews EXCEPT ![t].draft = draft \o piece]
    BY <1>5 DEF StageText
  <2>2. previews[t].draft \in Texts /\ draft \in Texts
    BY <2>1, TextsAreSequences DEF TypeOK, Preview
  <2>3. PICK text \in Texts : previews' = [previews EXCEPT ![t].draft = text]
    BY <2>1, <2>2, StagedIsText
  <2>4. TypeOK'
    <3>1. previews[t] \in Preview
      BY DEF TypeOK
    <3>2. [previews[t] EXCEPT !.draft = text] \in Preview
      BY <3>1 DEF Preview
    <3>3. previews' = [previews EXCEPT ![t] = [previews[t] EXCEPT !.draft = text]]
      BY <2>3
    <3> QED
      BY <1>1, <1>5, <3>2, <3>3 DEF StageText, TypeOK
  <2>5. WriterInv'
    BY <1>1, <1>5, <2>3 DEF StageText, TypeOK, Preview, WriterInv, Live
  <2> QED
    BY <1>2, <2>4, <2>5
<1> QED
  BY <1>3, <1>4, <1>5

(* The end of a call, seen by the others and by itself.                    *)
LEMMA EndLeavesTheRest ==
    ASSUME SaveInv, NEW c \in Calls, pc[c] # "idle", End(c), UNCHANGED <<remote, file, lingering>>
    PROVE  /\ CallInv'
           /\ pc' \in [Calls -> Locked \cup {"idle", "reading", "insert", "lock"}]
           /\ mutations' \in Calls \cup {Nobody}
           /\ \A d \in Calls : pc'[d] \in Locked <=> mutations' = d
           /\ op' \in [Calls -> [token : Tokens \cup {NoToken}, base : Texts, text : Texts,
                                 force : BOOLEAN]]
           /\ changed' \subseteq Calls /\ meddled' \subseteq changed'
<1> USE TextEditAssumption, TextsAreSequences DEF SaveInv
<1>1. CallInv'
  BY DEF End, CallInv, TypeOK
<1>2. \A d \in Calls : pc'[d] \in Locked <=> mutations' = d
  BY DEF End, TypeOK
<1> QED
  BY <1>1, <1>2 DEF End, TypeOK

(* Calls that read a preview in and calls that give up.                    *)
LEMMA PreviewPreserves ==
    ASSUME SaveInv, NEW c \in Calls, Open(c) \/ PreviewRead(c) \/ Insert(c) \/ GiveUp(c)
    PROVE  SaveInv'
<1> USE TextEditAssumption DEF SaveInv
<1>1. CASE Open(c)
  BY <1>1 DEF Open, Ready, TypeOK, CallInv, WriterInv, Live
<1>2. CASE PreviewRead(c)
  BY <1>2 DEF PreviewRead, TypeOK, CallInv, WriterInv, Live
<1>3. CASE Insert(c)
  <2>1. pc[c] = "insert" /\ End(c) /\ UNCHANGED <<remote, file, lingering, writer>>
    BY <1>3 DEF Insert
  <2>2. /\ previews' \in [Tokens -> Preview]
        /\ \A t \in Tokens : Live(t) => previews'[t] = previews[t]
    <3>1. PICK aged \in SUBSET {t \in Tokens : previews[t] = Stale} :
             LET kept == [t \in Tokens |-> IF t \in aged THEN Missing ELSE previews[t]] IN
             \/ \E t \in Tokens :
                   /\ kept[t] = Missing
                   /\ previews' = [kept EXCEPT ![t] = [state |-> "live", bytes |-> op[c].base,
                                                       draft |-> Empty]]
             \/ previews' = kept
      BY <1>3 DEF Insert
    <3> DEFINE kept == [t \in Tokens |-> IF t \in aged THEN Missing ELSE previews[t]]
    <3>2. kept \in [Tokens -> Preview]
      BY TextsAreSequences DEF TypeOK, Preview
    <3>3. \A t \in Tokens : Live(t) => kept[t] = previews[t] /\ kept[t] # Missing
      BY DEF Live
    <3>4. op[c].base \in Texts
      BY DEF TypeOK
    <3> HIDE DEF kept
    <3>5. CASE previews' = kept
      BY <3>2, <3>3, <3>5
    <3>6. ASSUME NEW t \in Tokens, kept[t] = Missing,
                 previews' = [kept EXCEPT ![t] = [state |-> "live", bytes |-> op[c].base,
                                                  draft |-> Empty]]
          PROVE  /\ previews' \in [Tokens -> Preview]
                 /\ \A u \in Tokens : Live(u) => previews'[u] = previews[u]
      BY <3>2, <3>3, <3>4, <3>6, TextsAreSequences DEF Preview
    <3> QED
      BY <3>1, <3>5, <3>6 DEF kept
  <2>3. WriterInv'
    BY <2>1, <2>2 DEF WriterInv, Live, TypeOK
  <2>4. TypeOK'
    BY <2>1, <2>2, EndLeavesTheRest DEF TypeOK
  <2> QED
    BY <2>1, <2>3, <2>4, EndLeavesTheRest
<1>4. CASE GiveUp(c)
  <2>1. WriterInv' /\ UNCHANGED <<remote, file, previews, lingering, writer>>
    BY <1>4 DEF GiveUp, WriterInv, Live
  <2> QED
    BY <1>4, <2>1, EndLeavesTheRest DEF GiveUp, TypeOK
<1> QED
  BY <1>1, <1>2, <1>3, <1>4

(* The way of a save up to its write, and its abandoned write's end.       *)
LEMMA WayPreserves ==
    ASSUME SaveInv, NEW c \in Calls,
           Lock(c) \/ Stat(c) \/ Compare(c) \/ Abandon(c) \/ Vanish(c)
    PROVE  SaveInv'
<1> USE TextEditAssumption, TextsAreSequences DEF SaveInv
<1>1. UNCHANGED <<file, previews, writer>>
  BY DEF Lock, Stat, Compare, Abandon, Vanish
<1>2. WriterInv'
  BY <1>1 DEF WriterInv, Live
<1>3. TypeOK'
  <2>1. CASE Lock(c)
    BY <2>1 DEF Lock, TypeOK
  <2>2. CASE Stat(c) \/ Compare(c)
    BY <2>2 DEF Stat, Compare, TypeOK
  <2>3. CASE Abandon(c)
    BY <2>3 DEF Abandon, TypeOK
  <2>4. CASE Vanish(c)
    BY <2>4 DEF Vanish, Forget, TypeOK
  <2> QED
    BY <2>1, <2>2, <2>3, <2>4
<1>4. CallInv'
  BY DEF Lock, Stat, Compare, Abandon, Vanish, Forget, TypeOK, CallInv
<1> QED
  BY <1>2, <1>3, <1>4

LEMMA CommitPreserves ==
    ASSUME SaveInv, NEW c \in Calls, NEW t \in Tokens, NEW force \in BOOLEAN, Commit(c, t, force)
    PROVE  SaveInv'
<1> USE TextEditAssumption DEF SaveInv
<1>1. TypeOK'
  BY DEF Commit, Ready, TypeOK, Preview
<1>2. CallInv'
  BY DEF Commit, Ready, TypeOK, CallInv
<1>3. WriterInv'
  BY DEF Commit, WriterInv, Live
<1> QED
  BY <1>1, <1>2, <1>3

(* Whoever writes the file, those who watch it learn of it.                *)
LEMMA WritePreserves ==
    ASSUME SaveInv, Outsider \/ \E c \in Calls : Write(c) \/ Land(c)
    PROVE  SaveInv'
<1> USE TextEditAssumption, TextsAreSequences DEF SaveInv, Watching
<1>1. CASE Outsider
  BY <1>1 DEF Outsider, TypeOK, CallInv, WriterInv
<1>2. ASSUME NEW c \in Calls, Write(c) PROVE SaveInv'
  <2>1. TypeOK'
    BY <1>2 DEF Write, TypeOK
  <2>2. CallInv'
    BY <1>2 DEF Write, TypeOK, CallInv
  <2> QED
    BY <1>2, <2>1, <2>2 DEF Write, WriterInv
<1>3. ASSUME NEW c \in Calls, Land(c) PROVE SaveInv'
  <2>1. TypeOK'
    BY <1>3 DEF Land, Forget, TypeOK
  <2>2. CallInv'
    BY <1>3 DEF Land, Forget, TypeOK, CallInv
  <2> QED
    BY <1>3, <2>1, <2>2 DEF Land, WriterInv
<1> QED
  BY <1>1, <1>2, <1>3

(* The preview of a save takes what was written over.                      *)
LEMMA BookPreserves ==
    ASSUME SaveInv, NEW c \in Calls, Book(c)
    PROVE  SaveInv'
<1> USE TextEditAssumption, TextsAreSequences DEF SaveInv
<1> DEFINE t == op[c].token
<1>1. /\ pc[c] = "book" /\ End(c) /\ UNCHANGED <<remote, file, lingering>>
      /\ t \in Tokens /\ op[c].text \in Texts
  BY DEF Book, CallInv, TypeOK
<1>2. previews' = [previews EXCEPT ![t] =
                     IF ~Live(t) THEN @ ELSE [@ EXCEPT !.bytes = op[c].text, !.draft = Empty]]
  BY DEF Book
<1>3. previews' \in [Tokens -> Preview]
  <2>1. previews[t] \in Preview
    BY <1>1 DEF TypeOK
  <2>2. [previews[t] EXCEPT !.bytes = op[c].text, !.draft = Empty] \in Preview
    BY <1>1, <2>1 DEF Preview
  <2>3. \E p \in Preview : previews' = [previews EXCEPT ![t] = p]
    BY <1>2, <2>1, <2>2
  <2> QED
    BY <2>3 DEF TypeOK
<1>4. WriterInv' /\ writer' \in Tokens \cup {NoToken}
  BY <1>1, <1>2 DEF Book, CallInv, WriterInv, Live, TypeOK, Preview
<1> QED
  BY <1>1, <1>3, <1>4, EndLeavesTheRest DEF TypeOK

LEMMA NextPreserves ==
    SaveInv /\ [Next]_vars => SaveInv'
<1>1. SaveInv /\ UNCHANGED vars => SaveInv'
  BY DEF vars, SaveInv, TypeOK, CallInv, WriterInv, Live
<1> QED
  BY <1>1, PreviewsPreserve, PreviewPreserves, WayPreserves, CommitPreserves, WritePreserves,
     BookPreserves DEF Next

LEMMA SaveInvariantHolds ==
    Spec => []SaveInv
BY InitEstablishes, NextPreserves, PTL DEF Spec

-----------------------------------------------------------------------------
(* After a save, and while nobody else writes, its preview shows what the  *)
(* remote has.                                                             *)
THEOREM PreviewsFollowSaves ==
    Spec => []PreviewFollowsSaves
<1>1. SaveInv => PreviewFollowsSaves
  BY DEF SaveInv, WriterInv, PreviewFollowsSaves
<1> QED
  BY <1>1, SaveInvariantHolds, PTL

(* A save without force overwrites nothing it has not seen, but for what a *)
(* writer outside of the lock put there of which the remote cannot tell.   *)
THEOREM SavesLoseNothing ==
    Spec => NoLostUpdate
<1>1. ASSUME SaveInv, [Next]_vars, NEW c \in Calls, ~op[c].force, file # op[c].base
      PROVE  /\ pc[c] = "write" /\ pc'[c] = "book" => ~conditional /\ c \in meddled
             /\ c \in lingering /\ c \notin lingering' /\ file' # file => ~conditional
  <2> USE DEF SaveInv
  <2>1. CASE UNCHANGED vars
    BY <1>1, <2>1 DEF vars, TypeOK
  <2>2. ASSUME NEW d \in Calls, Write(d)
        PROVE  /\ lingering' = lingering
               /\ pc[c] = "write" /\ pc'[c] = "book" => d = c
    BY <2>2 DEF Write, TypeOK
  <2>3. Write(c) => ~conditional /\ c \in meddled
    BY <1>1 DEF Write, Accepted, CallInv, TypeOK
  <2>4. ASSUME NEW d \in Calls, Land(d)
        PROVE  /\ pc' = pc
               /\ c \in lingering /\ c \notin lingering' => ~conditional
    BY <1>1, <2>4 DEF Land, Forget, Accepted, CallInv, TypeOK
  <2>5. ASSUME NEW d \in Calls, Vanish(d) PROVE pc' = pc /\ file' = file
    BY <2>5 DEF Vanish
  <2>6. ASSUME Outsider \/ Reconnect \/ \E t \in Tokens : StageText(t) \/ ReleasePreview(t) \/ Age(t)
        PROVE  lingering' = lingering /\ pc' = pc
    BY <2>6 DEF Outsider, Reconnect, StageText, ReleasePreview, Age
  <2>7. ASSUME NEW d \in Calls, NEW t \in Tokens, NEW force \in BOOLEAN, Commit(d, t, force)
        PROVE  lingering' = lingering /\ (pc'[c] = "book" => pc[c] = "book")
    BY <2>7 DEF Commit, TypeOK
  <2>8. ASSUME NEW d \in Calls,
               \/ Open(d) \/ PreviewRead(d) \/ Insert(d) \/ Lock(d) \/ Stat(d)
               \/ Compare(d) \/ Book(d) \/ GiveUp(d) \/ Abandon(d)
        PROVE  lingering \subseteq lingering' /\ (pc'[c] = "book" => pc[c] = "book")
    <3>1. PICK place \in {"idle", "reading", "insert", "stat", "read", "write"} :
             pc' = [pc EXCEPT ![d] = place]
      BY <2>8 DEF Open, PreviewRead, Insert, Lock, Stat, Compare, Book, GiveUp, Abandon, End
    <3>2. lingering \subseteq lingering'
      BY <2>8 DEF Open, PreviewRead, Insert, Lock, Stat, Compare, Book, GiveUp, Abandon
    <3> QED
      BY <3>1, <3>2 DEF TypeOK
  <2> QED
    BY <1>1, <2>1, <2>2, <2>3, <2>4, <2>5, <2>6, <2>7, <2>8 DEF Next
<1>2. SaveInv /\ [Next]_vars
        => [\A c \in Calls : ~op[c].force /\ file # op[c].base =>
              /\ pc[c] = "write" /\ pc'[c] = "book" => ~conditional /\ c \in meddled
              /\ c \in lingering /\ c \notin lingering' /\ file' # file => ~conditional]_vars
  BY <1>1
<1> QED
  BY <1>2, SaveInvariantHolds, PTL DEF Spec, NoLostUpdate
=============================================================================
