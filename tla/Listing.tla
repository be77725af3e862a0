--------------------------------- MODULE Listing ---------------------------------
(***************************************************************************)
(* filesystem/list and its continuation (backend/src/operations.rs list,   *)
(* session.rs Cursor and prune_cursors).                                   *)
(*                                                                         *)
(* A page is pulled from a lister; a listing that is not exhausted leaves  *)
(* its lister in the session's table of cursors under a new token.  A      *)
(* continuation takes the cursor out of the table before it pulls.  The    *)
(* table is locked only at both ends of a call, so that calls interleave.  *)
(* Directories do not change here; an entry is called by the position at   *)
(* which the lister yields it.                                             *)
(***************************************************************************)
EXTENDS Naturals, FiniteSets

CONSTANTS
    Callers,     \* calls of one session that list at the same time
    Dirs,        \* directories
    Root,        \* the one of the connection's root
    Count,       \* directory -> number of entries its lister yields
    Own,         \* directory -> position of its own entry, 0 for none
    Hostile,     \* directory -> positions of the names that path() refuses
    Size,        \* directory -> position -> encoded size of the entry
    Limits,      \* entries a page may have (1 .. 1000 in the code)
    Budget,      \* encoded size of a page (6 MiB in the code)
    MaxCursors,  \* 64 in the code
    MaxTokens    \* tokens ever issued (a bound, not in the code)

ASSUME ListingAssumption ==
    /\ Root \in Dirs
    /\ Count \in [Dirs -> Nat] /\ Own \in [Dirs -> Nat]
    /\ \A d \in Dirs : Hostile[d] \subseteq 1 .. Count[d]
    /\ \A d \in Dirs : \A i \in 1 .. Count[d] : Size[d][i] \in 0 .. Budget
    /\ Limits \subseteq Nat \ {0} /\ Budget \in Nat
    /\ MaxCursors \in Nat /\ MaxTokens \in Nat

Tokens == 1 .. MaxTokens

(* A listing under way: its directory, what the lister has yielded, the    *)
(* entry that did not fit into the last page (0 for none) and, for the     *)
(* properties, the entries of the pages before.                            *)
Listings == [dir : Dirs, at : Nat, pending : Nat, before : SUBSET Nat]
Fresh(d) == [dir |-> d, at |-> 0, pending |-> 0, before |-> {}]

VARIABLES
    table,      \* tokens in Session::cursors
    cursor,     \* token -> the listing it stands for
    old,        \* cursors last touched 300 seconds ago
    issued,     \* the last token
    place,      \* of a call: out, pulling, or full (its page is complete)
    listing,    \* the one in the hands of a call
    limit,      \* and the limit it was called with
    source,     \* the token it came with, 0 for none
    entries,    \* the page
    bytes,      \* its size
    pulls,      \* turns of the loop
    exhausted   \* the lister has no more

calls == <<place, listing, limit, source, entries, bytes, pulls, exhausted>>
vars == <<table, cursor, old, issued, calls>>

TypeOK ==
    /\ table \subseteq Tokens /\ issued \in 0 .. MaxTokens
    /\ cursor \in [Tokens -> Listings]
    /\ old \subseteq table
    /\ place \in [Callers -> {"out", "pulling", "full"}]
    /\ listing \in [Callers -> Listings]
    /\ limit \in [Callers -> Nat]
    /\ source \in [Callers -> 0 .. MaxTokens]
    /\ entries \in [Callers -> SUBSET Nat]
    /\ bytes \in [Callers -> Nat] /\ pulls \in [Callers -> Nat]
    /\ exhausted \in [Callers -> BOOLEAN]

Init ==
    /\ table = {} /\ old = {} /\ issued = 0
    /\ cursor = [t \in Tokens |-> Fresh(Root)]
    /\ place = [c \in Callers |-> "out"]
    /\ listing = [c \in Callers |-> Fresh(Root)]
    /\ limit = [c \in Callers |-> 0] /\ source = [c \in Callers |-> 0]
    /\ entries = [c \in Callers |-> {}]
    /\ bytes = [c \in Callers |-> 0] /\ pulls = [c \in Callers |-> 0]
    /\ exhausted = [c \in Callers |-> FALSE]

-----------------------------------------------------------------------------
(* prune_cursors: every use of the table first drops the old ones.         *)
Pruned == table \ old

(* The table after such a use.                                             *)
Keep(tokens) ==
    /\ table' = tokens
    /\ old' = {}
    /\ cursor' = [t \in Tokens |-> IF t \in tokens THEN cursor[t] ELSE Fresh(Root)]

(* A call leaves, with an answer or an error; its lister is dropped.       *)
Leave(c) ==
    /\ place' = [place EXCEPT ![c] = "out"]
    /\ listing' = [listing EXCEPT ![c] = Fresh(Root)]
    /\ limit' = [limit EXCEPT ![c] = 0] /\ source' = [source EXCEPT ![c] = 0]
    /\ entries' = [entries EXCEPT ![c] = {}]
    /\ bytes' = [bytes EXCEPT ![c] = 0] /\ pulls' = [pulls EXCEPT ![c] = 0]
    /\ exhausted' = [exhausted EXCEPT ![c] = FALSE]

Enter(c, l, token) ==
    /\ place' = [place EXCEPT ![c] = "pulling"]
    /\ listing' = [listing EXCEPT ![c] = l]
    /\ \E n \in Limits : limit' = [limit EXCEPT ![c] = n]
    /\ source' = [source EXCEPT ![c] = token]
    /\ UNCHANGED <<entries, bytes, pulls, exhausted>>

(* A new listing, of what is a directory.                                  *)
Begin(c) ==
    /\ place[c] = "out"
    /\ \E d \in Dirs : Enter(c, Fresh(d), 0)
    /\ UNCHANGED <<table, cursor, old, issued>>

(* Mutant of Continue: the cursor stays until its page has been answered.  *)
ContinueKept(c) ==
    /\ place[c] = "out"
    /\ \E t \in 1 .. issued, d \in Dirs :
          IF t \in Pruned /\ cursor[t].dir = d
          THEN Keep(Pruned) /\ Enter(c, cursor[t], t)
          ELSE Keep(Pruned) /\ UNCHANGED calls
    /\ UNCHANGED issued

(* A continuation with any token that was ever issued, of any directory: a *)
(* cursor of that directory is removed, everything else is refused.        *)
Continue(c) ==
    /\ place[c] = "out"
    /\ \E t \in 1 .. issued, d \in Dirs :
          IF t \in Pruned /\ cursor[t].dir = d
          THEN Keep(Pruned \ {t}) /\ Enter(c, cursor[t], t)
          ELSE Keep(Pruned) /\ UNCHANGED calls
    /\ UNCHANGED issued

-----------------------------------------------------------------------------
(* One turn of the loop.                                                   *)

(* Mutant of Turns: a page of limit entries takes limit turns.             *)
TurnsExact(c) == limit[c]

(* Turns of the loop of one call, the own entry of the directory included. *)
Turns(c) == limit[c] + 1

(* The loop goes on after this turn, or the page is complete.              *)
Turn(c, complete) ==
    /\ pulls' = [pulls EXCEPT ![c] = @ + 1]
    /\ place' = [place EXCEPT ![c] = IF complete \/ pulls[c] + 1 = Turns(c) THEN "full" ELSE @]
    /\ UNCHANGED <<limit, source>>

(* The lister has no more.                                                 *)
Exhaust(c) ==
    LET l == listing[c] IN
    /\ place[c] = "pulling" /\ l.pending = 0 /\ l.at = Count[l.dir]
    /\ exhausted' = [exhausted EXCEPT ![c] = TRUE]
    /\ Turn(c, TRUE)
    /\ UNCHANGED <<table, cursor, old, issued, listing, entries, bytes>>

(* The directory's own entry is skipped.                                   *)
Skip(c) ==
    LET l == listing[c] IN
    /\ place[c] = "pulling" /\ l.pending = 0 /\ l.at < Count[l.dir]
    /\ l.at + 1 = Own[l.dir]
    /\ listing' = [listing EXCEPT ![c].at = @ + 1]
    /\ Turn(c, FALSE)
    /\ UNCHANGED <<table, cursor, old, issued, entries, bytes, exhausted>>

(* The next entry: the pending one, or the lister's when it is not its own *)
(* and its name is accepted.                                               *)
Upcoming(l) == IF l.pending # 0 THEN l.pending ELSE l.at + 1

Yields(l) ==
    l.pending # 0 \/ (l.at < Count[l.dir] /\ l.at + 1 # Own[l.dir] /\ l.at + 1 \notin Hostile[l.dir])

Taken(l) == IF l.pending # 0 THEN [l EXCEPT !.pending = 0] ELSE [l EXCEPT !.at = @ + 1]

Fits(c) == bytes[c] + Size[listing[c].dir][Upcoming(listing[c])] <= Budget

(* It joins the page, which is complete with limit entries.                *)
Add(c) ==
    LET l == listing[c] IN
    /\ place[c] = "pulling" /\ Yields(l) /\ Fits(c)
    /\ entries' = [entries EXCEPT ![c] = @ \cup {Upcoming(l)}]
    /\ bytes' = [bytes EXCEPT ![c] = @ + Size[l.dir][Upcoming(l)]]
    /\ listing' = [listing EXCEPT ![c] = Taken(l)]
    /\ Turn(c, Cardinality(entries'[c]) = limit[c])
    /\ UNCHANGED <<table, cursor, old, issued, exhausted>>

(* Mutant of Postpone: the entry is left to the lister, which is past it.  *)
PostponeLost(c) ==
    LET l == listing[c] IN
    /\ place[c] = "pulling" /\ Yields(l) /\ ~Fits(c)
    /\ listing' = [listing EXCEPT ![c] = Taken(l)]
    /\ Turn(c, TRUE)
    /\ UNCHANGED <<table, cursor, old, issued, entries, bytes, exhausted>>

(* It would make the page too large: the next page begins with it.         *)
Postpone(c) ==
    LET l == listing[c] IN
    /\ place[c] = "pulling" /\ Yields(l) /\ ~Fits(c)
    /\ listing' = [listing EXCEPT ![c] = [Taken(l) EXCEPT !.pending = Upcoming(l)]]
    /\ Turn(c, TRUE)
    /\ UNCHANGED <<table, cursor, old, issued, entries, bytes, exhausted>>

(* A refused name, an error of the remote, the deadline or a cancellation  *)
(* ends the call and the listing with it.                                  *)
Fail(c) ==
    /\ place[c] = "pulling"
    /\ Leave(c)
    /\ UNCHANGED <<table, cursor, old, issued>>

-----------------------------------------------------------------------------
(* A new cursor, with what is left of the listing.                         *)
Store(c) ==
    /\ issued < MaxTokens
    /\ issued' = issued + 1
    /\ table' = Pruned \cup {issued'}
    /\ old' = {}
    /\ cursor' = [t \in Tokens |->
          IF t = issued' THEN [listing[c] EXCEPT !.before = @ \cup entries[c]]
          ELSE IF t \in Pruned THEN cursor[t] ELSE Fresh(Root)]

(* Mutant of Answer: the table is not looked at before it grows.           *)
AnswerUnbounded(c) ==
    /\ place[c] = "full"
    /\ \/ exhausted[c] /\ UNCHANGED <<table, cursor, old, issued>>
       \/ ~exhausted[c] /\ Store(c)
    /\ Leave(c)

(* The page is answered: the last one without a token, another one with    *)
(* the token of a new cursor, and none when the table is full.             *)
Answer(c) ==
    /\ place[c] = "full"
    /\ \/ exhausted[c] /\ UNCHANGED <<table, cursor, old, issued>>
       \/ ~exhausted[c] /\ Cardinality(Pruned) >= MaxCursors /\ Keep(Pruned) /\ UNCHANGED issued
       \/ ~exhausted[c] /\ Cardinality(Pruned) < MaxCursors /\ Store(c)
    /\ Leave(c)

Age(t) ==
    /\ t \in table \ old
    /\ old' = old \cup {t}
    /\ UNCHANGED <<table, cursor, issued, calls>>

(* The session is retired: no call is left, and the table is cleared.      *)
Retire ==
    /\ \A c \in Callers : place[c] = "out"
    /\ Keep({})
    /\ UNCHANGED <<issued, calls>>

Next ==
    \/ \E c \in Callers :
          \/ Begin(c) \/ Continue(c) \/ Exhaust(c) \/ Skip(c) \/ Add(c) \/ Postpone(c)
          \/ Fail(c) \/ Answer(c)
    \/ \E t \in Tokens : Age(t)
    \/ Retire

Spec == Init /\ [][Next]_vars

-----------------------------------------------------------------------------
(* Properties.                                                             *)

Visible(l) == (1 .. l.at) \ {Own[l.dir]}

(* The pages of a listing and the pending entry are what the lister has    *)
(* yielded so far.                                                         *)
Consistent(l, page) ==
    /\ l.at <= Count[l.dir]
    /\ l.pending # 0 => l.pending \in Visible(l) /\ l.pending \notin l.before \cup page
    /\ l.before \cap page = {}
    /\ l.before \cup page = Visible(l) \ {l.pending}

(* A token serves once: a cursor is in the table or with one call.         *)
TokenInv ==
    /\ \A t \in table : t <= issued
    /\ \A c \in Callers : place[c] # "out" /\ source[c] # 0 =>
          /\ source[c] <= issued /\ source[c] \notin table
          /\ \A k \in Callers \ {c} : place[k] # "out" => source[k] # source[c]

(* What the loop has done so far: a call outside has nothing, an empty     *)
(* page has cost one turn at most, that of the own entry, and nothing is   *)
(* left of a lister that has said so.                                      *)
LoopInv ==
    \A c \in Callers :
        /\ place[c] = "out" => entries[c] = {} /\ bytes[c] = 0 /\ pulls[c] = 0 /\ ~exhausted[c]
        /\ place[c] = "pulling" => limit[c] > 0 /\ ~exhausted[c]
        /\ entries[c] = {} => bytes[c] = 0
        /\ place[c] = "pulling" /\ entries[c] = {} /\ pulls[c] # 0 =>
              pulls[c] = 1 /\ Own[listing[c].dir] \in 1 .. listing[c].at
        /\ exhausted[c] => listing[c].pending = 0 /\ listing[c].at = Count[listing[c].dir]
        /\ place[c] = "full" => exhausted[c] \/ entries[c] # {}

(* No more cursors than allowed, each of them usable once and consistent   *)
(* with its directory, whatever calls run at the same time.                *)
ListingInv ==
    /\ TypeOK /\ TokenInv /\ LoopInv
    /\ Cardinality(table) <= MaxCursors
    /\ \A t \in table : Consistent(cursor[t], {})
    /\ \A c \in Callers : place[c] # "out" => Consistent(listing[c], entries[c])

(* Page by page, a listing delivers every entry of its directory exactly   *)
(* once: a page that says it is the last completes it, and any other page  *)
(* brings at least one entry, so that following the tokens comes to an     *)
(* end.                                                                    *)
PagesAreExact ==
    \A c \in Callers : place[c] = "full" =>
        LET l == listing[c] IN
        /\ l.before \cap entries[c] = {}
        /\ exhausted[c] => l.before \cup entries[c] = (1 .. Count[l.dir]) \ {Own[l.dir]}
        /\ ~exhausted[c] => entries[c] # {}
=============================================================================
