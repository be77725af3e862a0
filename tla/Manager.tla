-------------------------------- MODULE Manager --------------------------------
(***************************************************************************)
(* One view of the file manager (frontend/src/useManager.ts, the dialog of *)
(* FileManager.vue).                                                       *)
(*                                                                         *)
(* The user's operations go through run, one at a time; each waits for     *)
(* dialogs and for answers of the plugin.  Beside them a timer polls the   *)
(* transfers, a preview can be closed, and the view can be unmounted while *)
(* an operation waits; what the operation does then it does without view.  *)
(* The listing and the tree are left out: every load is one answer.        *)
(***************************************************************************)
EXTENDS Naturals

CONSTANTS
    Tokens,   \* previews of the plugin
    NoToken   \* no preview

ASSUME ManagerAssumption == NoToken \notin Tokens

VARIABLES
    mounted,   \* the view exists
    pc,        \* where the operation is; busy unless idle
    kind,      \* which operation
    fresh,     \* the preview it has opened
    previous,  \* the preview it replaces
    question,  \* who waits for the answer of the dialog
    preview,   \* the preview on display
    dirty,     \* its text has unsaved edits
    agreed,    \* the user agreed to give up the text as it is
    staged,    \* the text being saved is the text as it is
    stored,    \* and the plugin has saved it
    live,      \* previews the plugin keeps, whose release was not asked for
    truth,     \* the state of a transfer
    shown,     \* its state in the list on display
    tick,      \* where the polling timer is
    saw        \* the state of the transfer in the answers on their way

text == <<preview, dirty, agreed, staged, stored, live>>
op == <<pc, kind, fresh, previous>>
polling == <<shown, tick, saw>>
vars == <<mounted, op, question, text, truth, polling>>

TypeOK ==
    /\ mounted \in BOOLEAN
    /\ pc \in {"idle", "discard", "call", "chunks", "overwrite", "forced", "poll", "polled",
               "list"}
    /\ kind \in {"open", "leave", "save", "other"}
    /\ {fresh, previous, preview} \subseteq Tokens \cup {NoToken}
    /\ question \in {"nobody", "operation", "close", "notice"}
    /\ {dirty, agreed, staged, stored} \subseteq BOOLEAN
    /\ live \subseteq Tokens
    /\ {truth, shown} \subseteq {"active", "ended"}
    /\ tick \in {"timer", "sent", "taken", "reload", "off"}
    /\ saw \in [{"timer", "operation"} -> {"active", "ended"}]

Init ==
    /\ mounted = TRUE
    /\ pc = "idle" /\ kind = "other"
    /\ fresh = NoToken /\ previous = NoToken
    /\ question = "nobody"
    /\ preview = NoToken
    /\ dirty = FALSE /\ agreed = FALSE /\ staged = FALSE /\ stored = FALSE
    /\ live = {}
    /\ truth = "active" /\ shown = "active"
    /\ tick = "timer"
    /\ saw = [who \in {"timer", "operation"} |-> "active"]

-----------------------------------------------------------------------------
(* The operation ends, and the view is no longer busy.                     *)
End ==
    /\ pc' = "idle"
    /\ fresh' = NoToken /\ previous' = NoToken
    /\ UNCHANGED kind

(* release: the preview on display is given back.                          *)
Release ==
    /\ preview' = NoToken
    /\ dirty' = FALSE
    /\ live' = live \ {preview}

(* run refuses a second operation.  While a dialog is open the user can do *)
(* nothing else, but a click made before may still open a file or unfold a *)
(* directory; what has to ask takes the dialog over, and whoever waited    *)
(* for it waits for ever.  open and leave (navigate, remove, move) ask     *)
(* before edits are given up.                                              *)
Begin(k) ==
    /\ mounted /\ pc = "idle"
    /\ question = "nobody" \/ k \in {"open", "other"}
    /\ k = "save" => preview # NoToken /\ dirty
    /\ kind' = k
    /\ IF k \in {"open", "leave"} /\ dirty
       THEN pc' = "discard" /\ question' = "operation"
       ELSE pc' = "call" /\ UNCHANGED question
    /\ previous' = IF k = "open" THEN preview ELSE NoToken
    /\ staged' = (k = "save")
    /\ UNCHANGED <<mounted, fresh, preview, dirty, agreed, stored, live, truth, polling>>

(* The answer to the question of the operation.                            *)
Reply ==
    /\ question = "operation"
    /\ question' = "nobody"
    /\ \/ /\ agreed' = (agreed \/ pc = "discard")
          /\ pc' = (IF pc = "discard" THEN "call" ELSE "forced")
          /\ UNCHANGED <<kind, fresh, previous>>
       \/ End /\ UNCHANGED agreed
    /\ UNCHANGED <<mounted, preview, dirty, staged, stored, live, truth, polling>>

(* closePreview: at once without edits, otherwise when the user agrees.    *)
Close ==
    /\ mounted /\ pc = "idle" /\ question = "nobody" /\ preview # NoToken
    /\ \/ ~dirty /\ Release /\ UNCHANGED question
       \/ dirty /\ question' = "close" /\ UNCHANGED <<preview, dirty, live>>
    /\ UNCHANGED <<mounted, op, agreed, staged, stored, truth, polling>>

CloseReply ==
    /\ question = "close"
    /\ question' = "nobody"
    /\ \/ Release /\ agreed' = TRUE
       \/ UNCHANGED <<preview, dirty, live, agreed>>
    /\ UNCHANGED <<mounted, op, staged, stored, truth, polling>>

(* The path of an entry could not be copied, which is noticed some time    *)
(* after the click and said in the dialog: who waited for that waits for   *)
(* ever.                                                                   *)
CopyFails ==
    /\ mounted
    /\ question' = "notice"
    /\ UNCHANGED <<mounted, op, text, truth, polling>>

NoticeReply ==
    /\ question = "notice"
    /\ question' = "nobody"
    /\ UNCHANGED <<mounted, op, text, truth, polling>>

(* Mutant of Edit: the editor stays enabled while the view is busy.        *)
EditBusy ==
    /\ mounted /\ question = "nobody" /\ preview # NoToken
    /\ dirty' = TRUE /\ agreed' = FALSE /\ staged' = FALSE /\ stored' = FALSE
    /\ UNCHANGED <<mounted, op, question, preview, live, truth, polling>>

(* The editor is disabled while the view is busy or a dialog open.         *)
Edit ==
    /\ mounted /\ pc = "idle" /\ question = "nobody" /\ preview # NoToken
    /\ dirty' = TRUE /\ agreed' = FALSE /\ staged' = FALSE /\ stored' = FALSE
    /\ UNCHANGED <<mounted, op, question, preview, live, truth, polling>>

-----------------------------------------------------------------------------
(* Answers of the plugin.  An error ends the operation, as does a no in one *)
(* of the dialogs left out (a name, a confirmation, an overwriting).       *)
CallFails ==
    /\ pc \in {"call", "forced", "list"}
    /\ End
    /\ UNCHANGED <<mounted, question, text, truth, polling>>

PreviewOpened ==
    /\ pc = "call" /\ kind = "open"
    /\ \E t \in Tokens \ live :
          live' = live \cup {t} /\ fresh' = t
    /\ pc' = "chunks"
    /\ UNCHANGED <<mounted, kind, previous, question, preview, dirty, agreed, staged,
                   stored, truth, polling>>

(* Mutant of ChunksArrive: the generation is not compared.                 *)
ChunksArriveLate ==
    /\ pc = "chunks"
    /\ \/ /\ preview' = fresh /\ dirty' = FALSE
          /\ live' = live \ {previous}
       \/ /\ live' = live \ {fresh}
          /\ UNCHANGED <<preview, dirty>>
    /\ End
    /\ UNCHANGED <<mounted, question, agreed, staged, stored, truth, polling>>

(* All of it has arrived and is shown in the place of the last one; after  *)
(* an error or without a view the new preview is given back.               *)
ChunksArrive ==
    /\ pc = "chunks"
    /\ \/ /\ mounted
          /\ preview' = fresh /\ dirty' = FALSE
          /\ live' = live \ {previous}
       \/ /\ live' = live \ {fresh}
          /\ UNCHANGED <<preview, dirty>>
    /\ End
    /\ UNCHANGED <<mounted, question, agreed, staged, stored, truth, polling>>

(* navigate has its listing, remove and move are done.                     *)
Left ==
    /\ pc = "call" /\ kind = "leave"
    /\ Release
    /\ pc' = "list"
    /\ UNCHANGED <<mounted, kind, fresh, previous, question, agreed, staged, stored, truth,
                   polling>>

(* The text on display counts as saved.                                    *)
Saved ==
    /\ pc \in {"call", "forced"} /\ kind = "save"
    /\ dirty' = FALSE
    /\ stored' = staged
    /\ pc' = "list"
    /\ UNCHANGED <<mounted, kind, fresh, previous, question, preview, agreed, staged, live,
                   truth, polling>>

(* Somebody else has changed the file: overwrite it?  Without a view       *)
(* nobody can answer.                                                      *)
Conflict ==
    /\ pc = "call" /\ kind = "save" /\ mounted
    /\ pc' = "overwrite" /\ question' = "operation"
    /\ UNCHANGED <<mounted, kind, fresh, previous, text, truth, polling>>

(* Other operations change nothing here; transfer and cancel poll.         *)
Done ==
    /\ \/ pc = "call" /\ kind = "other" /\ pc' \in {"poll", "list"}
          /\ UNCHANGED <<kind, fresh, previous>>
       \/ pc = "list" /\ End
    /\ UNCHANGED <<mounted, question, text, truth, polling>>

-----------------------------------------------------------------------------
(* transfer/list reports the state of a moment and may arrive later than   *)
(* one that was asked for after it.                                        *)
Look(who) == saw' = [saw EXCEPT ![who] = truth]

OperationPolls ==
    /\ pc = "poll"
    /\ pc' = "polled" /\ Look("operation")
    /\ UNCHANGED <<mounted, kind, fresh, previous, question, text, truth, shown, tick>>

OperationPolled ==
    /\ pc = "polled"
    /\ shown' \in {shown, IF mounted THEN saw["operation"] ELSE shown}
    /\ pc' = "list"
    /\ UNCHANGED <<mounted, kind, fresh, previous, question, text, truth, tick, saw>>

Off == IF mounted THEN "timer" ELSE "off"

TimerFires ==
    /\ tick = "timer"
    /\ tick' = IF mounted THEN "sent" ELSE "off"
    /\ UNCHANGED <<mounted, op, question, text, truth, shown, saw>>

TimerPolls ==
    /\ tick = "sent"
    /\ tick' = "taken" /\ Look("timer")
    /\ UNCHANGED <<mounted, op, question, text, truth, shown>>

(* A transfer that has ended since the last time reloads the listing,      *)
(* unless the view is busy.                                                *)
TimerPolled ==
    /\ tick = "taken"
    /\ shown' = IF mounted THEN saw["timer"] ELSE shown
    /\ tick' = IF mounted /\ pc = "idle" /\ shown = "active" /\ saw["timer"] = "ended"
               THEN "reload" ELSE Off
    /\ UNCHANGED <<mounted, op, question, text, truth, saw>>

(* Mutant of TimerFails: an error of a poll ends the polling.              *)
TimerFailsForGood ==
    /\ tick \in {"sent", "taken", "reload"}
    /\ tick' = "off"
    /\ UNCHANGED <<mounted, op, question, text, truth, shown, saw>>

(* An error is shown, and the timer is set again.                          *)
TimerFails ==
    /\ tick \in {"sent", "taken", "reload"}
    /\ tick' = Off
    /\ UNCHANGED <<mounted, op, question, text, truth, shown, saw>>

Reloaded ==
    /\ tick = "reload"
    /\ tick' = Off
    /\ UNCHANGED <<mounted, op, question, text, truth, shown, saw>>

TransferEnds ==
    /\ truth' = "ended"
    /\ UNCHANGED <<mounted, op, question, text, polling>>

(* The host closes the tab: the preview is released and an open question   *)
(* is answered with no.                                                    *)
Unmount ==
    /\ mounted
    /\ mounted' = FALSE
    /\ Release
    /\ question' = "nobody"
    /\ IF question = "operation" THEN End ELSE UNCHANGED op
    /\ UNCHANGED <<agreed, staged, stored, truth, polling>>

Next ==
    \/ \E k \in {"open", "leave", "save", "other"} : Begin(k)
    \/ Reply \/ Close \/ CloseReply \/ CopyFails \/ NoticeReply \/ Edit
    \/ CallFails \/ PreviewOpened \/ ChunksArrive \/ Left \/ Saved \/ Conflict \/ Done
    \/ OperationPolls \/ OperationPolled
    \/ TimerFires \/ TimerPolls \/ TimerPolled \/ TimerFails \/ Reloaded
    \/ TransferEnds \/ Unmount

(* The timer fires; the bridge answers every call, with an error after     *)
(* five minutes at the latest, and not with errors only.                   *)
Fairness ==
    /\ WF_vars(TimerFires) /\ WF_vars(Reloaded)
    /\ SF_vars(TimerPolls) /\ SF_vars(TimerPolled)

Spec == Init /\ [][Next]_vars /\ Fairness

-----------------------------------------------------------------------------
(* Properties.                                                             *)

(* Edits disappear from a view only when the user has agreed to give them  *)
(* up as they are, or when exactly they have been saved; a tab that the    *)
(* host closes is the exception (docs/PLUGIN-DEVELOPMENT.md:79).           *)
DraftIsKept ==
    [][mounted' /\ dirty /\ ~dirty' => agreed \/ agreed' \/ stored']_vars

(* Every preview the plugin keeps for a view is on display, being opened,  *)
(* or given back, even if the tab is closed at any moment: the plugin has  *)
(* room for 16 of them and keeps each for half an hour.                    *)
TokensAreReleased ==
    /\ TypeOK
    /\ live \subseteq {fresh} \cup (IF mounted THEN {preview} ELSE {})

(* In a view that stays open the end of a transfer is shown, and finally   *)
(* shown for good, although answers overtake each other and polls fail.    *)
EndIsShown ==
    <>[](mounted /\ truth = "ended" => shown = "ended")
=============================================================================
