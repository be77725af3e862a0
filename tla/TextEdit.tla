-------------------------------- MODULE TextEdit --------------------------------
(***************************************************************************)
(* Text previews and their saves (backend/src/workbench.rs, State::remote).*)
(*                                                                         *)
(* A preview keeps the content it was opened with and a draft that is      *)
(* staged in pieces.  saveText copies both, takes the mutations lock, asks *)
(* for the ETag, compares the remote with the content of the preview,      *)
(* writes the draft (under the ETag, if the remote has conditional writes) *)
(* and records what it wrote in the preview.  Other calls go on meanwhile, *)
(* on the same preview too; other clients of the remote write when they    *)
(* like, and a write that was given up may be applied later.               *)
(***************************************************************************)
EXTENDS Naturals, Sequences, FiniteSets

CONSTANTS
    Calls,        \* calls in flight: preview and saveText
    Tokens,       \* names for previews
    Pieces,       \* what a text is made of
    MaxPieces,    \* the limit of a text (2 MiB in the code)
    MaxPreviews,  \* 16 in the code
    Nobody,       \* the mutations lock is free
    NoToken       \* a call without a preview

ASSUME TextEditAssumption ==
    /\ MaxPieces \in Nat /\ MaxPreviews \in Nat
    /\ Nobody \notin Calls /\ NoToken \notin Tokens

Texts == UNION {[1 .. n -> Pieces] : n \in 0 .. MaxPieces}
Empty == <<>>

VARIABLES
    conditional,  \* whether the remote writes under an ETag
    late,         \* whether it may apply a write that was given up
    file,         \* the content of the remote file
    previews,     \* token -> preview
    mutations,    \* holder of the connection's mutations lock
    pc, op,       \* where each call is, and what it works with
    changed,      \* calls whose ETag is outdated
    meddled,      \* calls since whose ETag somebody wrote without the lock
    lingering,    \* calls whose abandoned write the remote may still apply
    writer        \* the preview of the last save, if it ended well

remote == <<conditional, late>>
vars == <<remote, file, previews, mutations, pc, op, changed, meddled, lingering,
          writer>>

(* A stale preview is of an earlier generation of the session or was not   *)
(* used for half an hour.  It takes up room, but nobody sees what it holds.*)
Preview == [state : {"none", "live", "stale"}, bytes : Texts, draft : Texts]
Missing == [state |-> "none", bytes |-> Empty, draft |-> Empty]
Stale == [Missing EXCEPT !.state = "stale"]

Locked == {"stat", "read", "write", "book"}
Nothing == [token |-> NoToken, base |-> Empty, text |-> Empty, force |-> FALSE]

(* Calls are where the lock says they are.                                 *)
TypeOK ==
    /\ conditional \in BOOLEAN /\ late \in BOOLEAN
    /\ file \in Texts
    /\ previews \in [Tokens -> Preview]
    /\ mutations \in Calls \cup {Nobody}
    /\ pc \in [Calls -> Locked \cup {"idle", "reading", "insert", "lock"}]
    /\ \A c \in Calls : pc[c] \in Locked <=> mutations = c
    /\ op \in [Calls -> [token : Tokens \cup {NoToken}, base : Texts, text : Texts,
                         force : BOOLEAN]]
    /\ changed \subseteq Calls /\ meddled \subseteq changed
    /\ lingering \subseteq Calls
    /\ writer \in Tokens \cup {NoToken}

Init ==
    /\ conditional \in BOOLEAN /\ late \in BOOLEAN
    /\ file = Empty
    /\ previews = [t \in Tokens |-> Missing]
    /\ mutations = Nobody
    /\ pc = [c \in Calls |-> "idle"]
    /\ op = [c \in Calls |-> Nothing]
    /\ changed = {} /\ meddled = {} /\ lingering = {}
    /\ writer = NoToken

-----------------------------------------------------------------------------
Goto(c, place) == pc' = [pc EXCEPT ![c] = place]
Live(t) == previews[t].state = "live"
Ready(c) == pc[c] = "idle" /\ c \notin lingering

(* Calls that have, or may have, an ETag.                                  *)
Watching == {c \in Calls : pc[c] \in Locked} \cup lingering

(* Mutant of End: the guard of the lock outlives the call.                 *)
EndLocked(c) ==
    /\ Goto(c, "idle")
    /\ op' = [op EXCEPT ![c] = Nothing]
    /\ UNCHANGED mutations
    /\ changed' = changed \ {c}
    /\ meddled' = meddled \ {c}

(* The end of a call: its locals and its lock are gone.                    *)
End(c) ==
    /\ Goto(c, "idle")
    /\ op' = [op EXCEPT ![c] = Nothing]
    /\ mutations' = IF mutations = c THEN Nobody ELSE mutations
    /\ changed' = changed \ {c}
    /\ meddled' = meddled \ {c}

(* workbench/preview reads the remote ...                                  *)
Open(c) ==
    /\ Ready(c)
    /\ Goto(c, "reading")
    /\ UNCHANGED <<remote, file, previews, mutations, op, changed, meddled,
                   lingering, writer>>

PreviewRead(c) ==
    /\ pc[c] = "reading"
    /\ op' = [op EXCEPT ![c].base = file]
    /\ Goto(c, "insert")
    /\ UNCHANGED <<remote, file, previews, mutations, changed, meddled, lingering,
                   writer>>

(* ... and inserts the preview under a fresh token.  The aged ones of the  *)
(* stale previews leave; there is room for MaxPreviews and for 64 MiB,     *)
(* which are not weighed: the call may be refused with fewer.              *)
Insert(c) ==
    /\ pc[c] = "insert"
    /\ \E aged \in SUBSET {t \in Tokens : previews[t] = Stale} :
          LET kept == [t \in Tokens |-> IF t \in aged THEN Missing ELSE previews[t]]
              fresh == {t \in Tokens : kept[t] = Missing /\ \A d \in Calls : op[d].token # t} IN
          \/ /\ Cardinality({t \in Tokens : kept[t] # Missing}) < MaxPreviews
             /\ \E t \in fresh :
                   previews' = [kept EXCEPT ![t] = [state |-> "live", bytes |-> op[c].base,
                                                    draft |-> Empty]]
          \/ previews' = kept
    /\ End(c)
    /\ UNCHANGED <<remote, file, lingering, writer>>

(* workbench/stageText: a piece at the offset where the draft ends; offset *)
(* 0 starts the draft over.  Anything else is refused.                     *)
StageText(t) ==
    /\ Live(t)
    /\ \E piece \in {Empty} \cup {<<p>> : p \in Pieces} :
          \E draft \in {Empty, previews[t].draft} :
             /\ Len(draft) + Len(piece) <= MaxPieces
             /\ previews' = [previews EXCEPT ![t].draft = draft \o piece]
    /\ UNCHANGED <<remote, file, mutations, pc, op, changed, meddled, lingering, writer>>

ReleasePreview(t) ==
    /\ Live(t)
    /\ previews' = [previews EXCEPT ![t] = Missing]
    /\ writer' = IF writer = t THEN NoToken ELSE writer
    /\ UNCHANGED <<remote, file, mutations, pc, op, changed, meddled, lingering>>

-----------------------------------------------------------------------------
(* workbench/saveText clones the content and the draft, which is the text  *)
(* whose size and digest the caller has confirmed.                         *)
Commit(c, t, force) ==
    /\ Ready(c) /\ Live(t)
    /\ op' = [op EXCEPT ![c] = [token |-> t, base |-> previews[t].bytes,
                                text |-> previews[t].draft, force |-> force]]
    /\ Goto(c, "lock")
    /\ UNCHANGED <<remote, file, previews, mutations, changed, meddled, lingering,
                   writer>>

Lock(c) ==
    /\ pc[c] = "lock" /\ mutations = Nobody
    /\ mutations' = c
    /\ Goto(c, "stat")
    /\ UNCHANGED <<remote, file, previews, op, changed, meddled, lingering, writer>>

(* The ETag is the one of this moment.                                     *)
Stat(c) ==
    /\ pc[c] = "stat"
    /\ Goto(c, IF op[c].force THEN "write" ELSE "read")
    /\ changed' = changed \ {c}
    /\ meddled' = meddled \ {c}
    /\ UNCHANGED <<remote, file, previews, mutations, op, lingering, writer>>

(* The remote still has what the preview shows, or the save is a conflict  *)
(* (see Interrupt for its end).                                            *)
Compare(c) ==
    /\ pc[c] = "read"
    /\ file = op[c].base
    /\ Goto(c, "write")
    /\ UNCHANGED <<remote, file, previews, mutations, op, changed, meddled,
                   lingering, writer>>

(* Mutant of Accepted: the ETag is not sent with the write.                *)
AcceptedAlways(c) == c \in Calls

(* The remote applies a write, unless its ETag is outdated.                *)
Accepted(c) == conditional /\ ~op[c].force => c \notin changed

Write(c) ==
    /\ pc[c] = "write" /\ Accepted(c)
    /\ file' = op[c].text
    /\ changed' = (changed \cup Watching) \ {c}
    /\ meddled' = meddled \ {c}
    /\ writer' = NoToken
    /\ Goto(c, "book")
    /\ UNCHANGED <<remote, previews, mutations, op, lingering>>

(* Mutant of Book: the draft of the moment is taken for the one saved.     *)
BookDraft(c) ==
    LET t == op[c].token IN
    /\ pc[c] = "book"
    /\ previews' = [previews EXCEPT ![t] =
                      IF ~Live(t) THEN @
                      ELSE [@ EXCEPT !.bytes = previews[t].draft, !.draft = Empty]]
    /\ writer' = IF Live(t) /\ c \notin changed THEN t ELSE NoToken
    /\ End(c)
    /\ UNCHANGED <<remote, file, lingering>>

(* The preview now shows what was saved; whatever was staged meanwhile has *)
(* to be staged again.                                                     *)
Book(c) ==
    LET t == op[c].token IN
    /\ pc[c] = "book"
    /\ previews' = [previews EXCEPT ![t] =
                      IF ~Live(t) THEN @ ELSE [@ EXCEPT !.bytes = op[c].text, !.draft = Empty]]
    /\ writer' = IF Live(t) /\ c \notin changed THEN t ELSE NoToken
    /\ End(c)
    /\ UNCHANGED <<remote, file, lingering>>

-----------------------------------------------------------------------------
(* A call ends early: refused, in conflict, failed, timed out or cancelled *)
(* with its session.  A write that was answered too late was applied (see  *)
(* Write), was not, or is still under way.                                 *)
GiveUp(c) ==
    /\ pc[c] # "idle"
    /\ End(c)
    /\ UNCHANGED <<remote, file, previews, lingering, writer>>

Abandon(c) ==
    /\ late /\ pc[c] = "write"
    /\ lingering' = lingering \cup {c}
    /\ mutations' = Nobody
    /\ Goto(c, "idle")
    /\ UNCHANGED <<remote, file, previews, op, changed, meddled, writer>>

Forget(c) ==
    /\ lingering' = lingering \ {c}
    /\ op' = [op EXCEPT ![c] = Nothing]

Land(c) ==
    /\ c \in lingering /\ Accepted(c)
    /\ file' = op[c].text
    /\ changed' = (changed \cup Watching) \ {c}
    /\ meddled' = (meddled \cup Watching) \ {c}
    /\ writer' = NoToken
    /\ Forget(c)
    /\ UNCHANGED <<remote, previews, mutations, pc>>

Vanish(c) ==
    /\ c \in lingering
    /\ changed' = changed \ {c} /\ meddled' = meddled \ {c}
    /\ Forget(c)
    /\ UNCHANGED <<remote, file, previews, mutations, pc, writer>>

(* Another client of the remote.                                           *)
Outsider ==
    /\ file' \in Texts \ {file}
    /\ changed' = changed \cup Watching
    /\ meddled' = meddled \cup Watching
    /\ writer' = NoToken
    /\ UNCHANGED <<remote, previews, mutations, pc, op, lingering>>

(* Half an hour passes without a use.                                      *)
Age(t) ==
    /\ Live(t)
    /\ previews' = [previews EXCEPT ![t] = Stale]
    /\ writer' = IF writer = t THEN NoToken ELSE writer
    /\ UNCHANGED <<remote, file, mutations, pc, op, changed, meddled, lingering>>

(* The next generation of the session, which is built when the calls of    *)
(* the last one have ended.                                                *)
Reconnect ==
    /\ \A c \in Calls : pc[c] = "idle"
    /\ previews' = [t \in Tokens |-> IF Live(t) THEN Stale ELSE previews[t]]
    /\ writer' = NoToken
    /\ UNCHANGED <<remote, file, mutations, pc, op, changed, meddled, lingering>>

Next ==
    \/ Outsider \/ Reconnect
    \/ \E t \in Tokens :
          \/ StageText(t) \/ ReleasePreview(t) \/ Age(t)
          \/ \E c \in Calls, force \in BOOLEAN : Commit(c, t, force)
    \/ \E c \in Calls :
          \/ Open(c) \/ PreviewRead(c) \/ Insert(c)
          \/ Lock(c) \/ Stat(c) \/ Compare(c) \/ Write(c) \/ Book(c)
          \/ GiveUp(c) \/ Abandon(c) \/ Land(c) \/ Vanish(c)

Spec == Init /\ [][Next]_vars

-----------------------------------------------------------------------------
(* Properties.                                                             *)

(* A save without force replaces what its preview shows and nothing newer. *)
(* With conditional writes this holds against every other writer, and even *)
(* for a write that is applied after it was given up; without them the     *)
(* mutations lock still keeps the saves of this connection apart, and only *)
(* a writer outside of the lock, between the ETag and the write, can be    *)
(* overwritten ("无法消除其他客户端在检查与写入之间的竞争",                 *)
(* docs/PLUGIN-DEVELOPMENT.md:77).                                         *)
NoLostUpdate ==
    [][\A c \in Calls : ~op[c].force /\ file # op[c].base =>
          /\ pc[c] = "write" /\ pc'[c] = "book" => ~conditional /\ c \in meddled
          /\ c \in lingering /\ c \notin lingering' /\ file' # file => ~conditional]_vars

(* After a save that succeeded, and while nobody else writes, its preview  *)
(* shows what the remote has, whatever was staged, saved or opened         *)
(* meanwhile: the next save does not conflict with the user's own text.    *)
(* (And the calls are where the lock says they are.)                       *)
PreviewFollowsSaves ==
    /\ TypeOK
    /\ writer # NoToken => previews[writer].bytes = file
=============================================================================
