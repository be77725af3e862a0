# Verification of the DBX file manager plugin

This directory keeps TLA+ models of the plugin in this repository, the TLC
configurations that check them on small instances, and proofs that TLAPS checks
for every instance. The plugin is a sidecar process in Rust (`backend/`) that a
host application talks to over a framed JSON protocol, and a Vue window
(`frontend/`) that talks to the sidecar through the host. The backend lists,
copies, edits, uploads and downloads files on remotes through OpenDAL.

## 1. The system

### Parts

| Part | Source | State | Operations |
| --- | --- | --- | --- |
| Connection and session registry | `backend/src/lib.rs`, `session.rs` | descriptors, sessions, generation counter, lifecycle mutex, stopping flag | `invoke`, `dispatch`, `workbench_call`, `session`, `retire`, `connection` (connect, disconnect, test), `evict_idle`, `shutdown` |
| Waiting for the end | `session.rs` `wait_drained`, `transfer.rs` `Task::wait` | counter of live guards, list of registered waiters | clone and drop a guard, wait |
| Admission of remote work | `session.rs` `execute`, `transfer.rs` `start`, `workbench.rs` | two permits and one mutations lock per session, eight global slots | acquire in the order of the job, work, be cancelled or time out, release |
| Uploads | `transfer.rs` `upload_file`, `cleanup_upload` | the temporary file, the destination, the cancellation token, `publication_started`, the task's outcome | write, publish, abort, clean up, report |
| Downloads | `transfer.rs` `download_file` | local temporary file, host leases | read, publish by one rename, cancel |
| Transfer table | `transfer.rs` `Transfers` | map of tasks, 256 active and 512 in all | start, list, status, cancel, prune, shutdown |
| Remote operations | `operations.rs`, `session.rs` | 64 listing cursors per session | list, stat, read, write, create, delete, rename, copy |
| Workbench calls | `workbench.rs` | previews and drafts, their budget and expiry | preview, stageText, saveText, releasePreview |
| Connection configuration | `config.rs`, `generic.rs`, `service_support.rs` | what is left of a request on its way to an operator, the ssh program that is probed | parse, normalize, check, build, verify |
| Locations | `uri.rs` | none | `path`, `uri`, `non_root` |
| WebDAV writer | `webdav.rs` | a channel of one chunk, a task that sends the request, its answer | write, close, abort, drop |
| Errors | `error.rs` | none | map to codes |
| Process entry | `main.rs` | eight worker threads | serve, then shutdown |
| Window | `frontend/src/` | path, entries, tree, preview, polled transfers | navigate, refresh, save, transfer, bind |
| Development host | `devtools/mock-host/` | the plugin process, the requests that wait for it, the connections taken for connected | request, connect, disconnect, time out, restart, stop |

### How they interact

Eight threads of the plugin server call `Plugin::invoke` concurrently, each
blocking on the async runtime. A call takes its session from the registry and
keeps an `Activity` (a counted guard) on it; remote work goes through
`Session::execute`, which selects between the session's cancellation, the
query timeout of the connection and the work itself, and acquires a permit and
a global slot before it runs. `startTransfer` inserts a task in the transfer
table and spawns it with an `Activity` of its own. A workbench call
holds an `Activity` and, for the plain methods, dispatches the call a second
time through the registry. Connect, disconnect, a rebuild of an outdated session
and shutdown hold the lifecycle mutex; they unpublish the session, cancel it and
wait until its last `Activity` is dropped. A maintenance task evicts sessions
that were idle for long enough.

### What is hard

Nearly everything that matters happens between two awaits: a session looked up
before an await and used after it, a guard that outlives its session, a lock held
while a remote is silent, a publication that is abandoned half way. The hazards,
each at its line and with the properties that would catch it, are listed in
`PROJECT.json`; the modules were chosen from that list.

What makes each part correct:

- *registry*: one generation of a connection at a time; what is published
  matches what is described; a rebuild never pulls the session from under a
  call; disconnect and shutdown leave nothing in use and nothing comes back;
  lifecycle calls answer;
- *admission*: changes of one remote are serialized; a busy connection leaves
  slots to the others; jobs end; a cancelled session drains;
- *uploads*: the report tells what became of the destination and of the
  temporary file, whatever was cut short, and whether more may follow; without
  overwrite, only what came after the recheck can be replaced;
- *previews*: a save replaces what its user saw; its preview shows what was saved;
- *rename and copy*: no file disappears; the report is true of both locations;
- *transfer table*: its limits hold and no transfer at work is lost from it;
- *downloads*: a destination is published completely or not at all, and the report
  tells which;
- *window*: no preview is leaked, no edit is given up without consent, and the end
  of a transfer is finally shown;
- *waiting*: no wake-up is lost;
- *listings*: page by page, every entry exactly once;
- *streams*: success means that the whole file is there; when a session has been
  retired nothing feeds its streams any more, and their requests come to an end;
- *configuration*: a connection goes the way its request says, with its own settings;
- *locations, capabilities*: no accepted path leaves the root; what is offered works;
- *development host*: it is not deceived by crashes, restarts and late answers.

## 2. Modules

| Module | Models | Checked by | Proved in |
| --- | --- | --- | --- |
| `Registry` | what the registry promises its callers (abstract) | `session_safety` | `SessionLifecycle_proofs` |
| `SessionLifecycle` | the registry | `session_*` runs | `SessionLifecycle_proofs` |
| `SessionInvariant` | its inductive invariant, by parts | `session_safety` | `SessionLifecycle_proofs` |
| `Quiesce` | what waiting promises (abstract) | `closing` | `Closing_proofs` |
| `Drained` | the counter and the notification that implement it | `closing` | `Closing_proofs` |
| `Sink` | what streaming a file promises (abstract) | `closing` | `Closing_proofs` |
| `Webdav` | the streaming PUT that implements it | `closing` | `Closing_proofs` |
| `Closing` | `Webdav` and `Drained` together: a session retired under a stream | `closing` | `Closing_proofs` |
| `Slots` | admission | `slots_*` runs | `Slots_proofs` |
| `Upload` | uploads, with its inductive invariant | `upload_reports` | `Upload_proofs` |
| `Transfers` | the table of transfers and downloads | `transfers` | `Transfers_proofs` |
| `TextEdit` | previews, drafts and `saveText` | `text_edit` | `TextEdit_proofs` |
| `Listing` | listings and their cursors | `remote_operations` | `Remote_proofs` |
| `Moves` | rename, copy, write, createDirectory, delete | `remote_operations` | `Remote_proofs` |
| `Configuration` | from a connection request to a session | `remote_operations` | `Remote_proofs` |
| `Lookup`, `Capabilities` | what stands at a path; what is offered and asked for | `remote_operations` | `Remote_proofs` |
| `Uri` | locations | `remote_operations` | |
| `Manager` | one view of the window | `manager` | `Manager_proofs` |
| `Sidecar` | the development host | `manager` | `Manager_proofs` |

`MC*` modules give the constants small values for TLC. `MCRemote` and `MCManager`
hold several modules that do not interact; `part`, chosen in the beginning, tells
which of them a behaviour is about, and the others stand still in it.

Components are composed in two ways. `Closing` is a product: the writer, the guards and the
cancellation of one session, step by step. The others are composed by promise.
`SessionLifecycle` waits for "nobody uses this session" in one step; `Drained`
and `Closing` show that the counter and the notification of `wait_drained` do that. `Slots` has
one generation per connection, because `SessionLifecycle` proves that two are never in use
together, and shows in turn that a cancelled session drains, which is the
fairness `SessionLifecycle` assumes of cancelled calls and tasks. `Upload`
takes the lock and the slot in one step, because `Slots` shows who can hold
them; what it does under the lock is its own. `Upload` and `Moves` see of a stream what
`Sink` promises of it: complete on success, anything after an error. `Transfers` leaves
permits and slots to `Slots` and the snapshot of shutdown to `SessionLifecycle`;
`Listing` leaves the end of a session to both: the table of cursors is cleared when no
call is left. `Manager` sees of the transfer table only that a transfer ends and stays ended.

### Names

Operators have the names of the Rust items they stand for where there is one
(`Retire`, `EvictIdle`, `Describe`, `execute` becomes `Execute`); "map" in
`PROJECT.json` gives every definition its lines. Operators whose comment begins
with "Mutant of" are plausible bugs; the mutants of `PROJECT.json` put them in
the place of the real definition to show that a property notices.

## 3. SessionLifecycle

**State.** `descriptors` and `sessions` are the two maps of `Plugin`. A session
is its generation number, 0 is none; `origin` is what it was built from.
`cancelled` are the fired tokens, `aged` the sessions whose last use is longer
ago than their idle timeout. `outer`, `inner` and `task` are the `Activity`
guards: of the call, of the nested dispatch and of the transfer task; the counter
`Session::active` is how many of them name a session. `work` is the session in
a local variable of a lifecycle call. `lifecycle` is the mutex.

**Actions.** A client is a thread of the plugin server; `pc` is where its call
waits. Each action is the code from one await or lock acquisition to the next:
`LookupHit` (fast path of `session`), `Acquire`, `LockedHit`, `LockedRefuse`,
`LockedRebuild` (under the mutex), `Retire` and `Drain`, `Build` or `BuildFails`,
`Describe`, `PublishConnect`, `PublishRebuilt`, the `Admin*` decisions of
connect, disconnect and test, `Start*` for the transfer table, `Evict`, and the
steps of `shutdown`. The removal from the map and the cancellation in `retire` are
one action: no lookup can see the difference, as the session is out of the map.
The upgrade gate (`gate.write`) taken after the drain is free then, and is
not modelled.

**Bounds.** `MaxGeneration` stops new calls once that many sessions were
built (calls under way go on); `MaxDescriptors` is the real limit of 128, made
small. A client has one live transfer. Two generations, two connections and two
configurations are enough for a replacement, an unrelated connection and a
mismatch; two clients for a holder of the mutex and a user of the session, and a
client can be both a caller and the owner of a task. Larger numbers are left to
the proofs.

**Fairness.** Every step of a call that needs neither a remote nor the mutex is
weakly fair (the runtime schedules ready tasks). `Acquire` is strongly fair:
tokio's mutex is first come, first served. Calls and tasks of a *cancelled*
session end (`Abort`, `TaskAborts`): `execute` and `Control::run` poll the
cancellation first. Nothing is assumed of an operation whose session is alive.
`AnsweringSpec` adds that the remote answers the preflights
(`operations::destination` in `startTransfer`) and that the child process of `openLocal` ends, which
nothing can cancel; `FairSpec` does not.

**Runs.**

- `session_safety`: every kind of call but `openLocal` (which differs from
  `startTransfer` only in what follows the preflight), two clients, two
  connections, two providers. All safety properties and the inductive invariant.
- `session_liveness`: lifecycle calls answer and shutdown returns, with transfers and operations that may hang, without nested calls.
- `session_nested` (violation): with nested calls they do not. The nested lookup
  misses when a disconnect cancels and unpublishes the session between
  the two lookups, waits for the mutex, and keeps the guard the disconnect waits for.
- `session_hung` (violation): a remote that never answers the preflight of
  `startTransfer` keeps disconnect waiting, although the cancellation has fired.

Both violations contradict the test `saved_query_timeout_controls_rpc_and_zero_waits_until_disconnect`
(`backend/src/tests.rs:698`), which disconnects while a call hangs and expects
the answer.

**Properties.**

- `OneLiveGeneration`: guards on two generations of one connection never coexist.
- `PublishedMatchesDescriptor`: what lookups grant was built from the descriptor.
- `RebuildSparesUsedSessions`: a request that rebuilds tears down nobody's session.
- `EndsAreFinal` (`DisconnectedIsQuiet` and `ShutdownIsFinal`): nothing is left, nothing comes back.
- `ImplementsRegistry`: all this as callers see it, see below.
- `DescriptorLimit`: the limit, tested long before the insertion, holds.
- `AdminsAnswer`, `ShutdownReturns`: liveness.
- `NestedCallKeepsItsSession`, which has a theorem and no run of its own: the nested guard
  is on the session of the outer one.

**Proof.** `SessionInv` is the inductive invariant; each of its parts says something
the properties need and do not say. `MutexInv` and `CallInv` tie the program
points to the mutex and to the kind of call. `PublishedInv` is
`PublishedMatchesDescriptor` with the moments at which the descriptor has already
gone and the session not yet. `HolderInv` is what the holder of the mutex has
already taken out of the maps or knows of the session in its hands. `UnusedInv` says
that a rebuild and a new session concern nobody else. `UseInv` is the heart: a
session that is in use is published, or somebody is draining it; as the next
generation is built only when the mutex holder has drained, two can never be in
use together. `GuardInv` and `ShutdownInv` do the same for the guards of one call
and for the progress of shutdown. `SessionLifecycle_proofs` proves
`Init => SessionInv` and, with one lemma per action and one step per part, that every action
preserves it; the properties follow. `DescriptorsAreBounded` needs the additional
fact that a connect between its test and its insertion still has room. The
proofs assume `ConstantsAssumption` and `NoCallAssumption`: finitely many
connections, and distinct markers for "none".

**Refinement.** `Registry` says the same without sessions, generations, lookups and builds: a call
enters with the configuration its connection has at that moment (`Enter`), a transfer
takes over that of its call, a descriptor can be forgotten while it is used but set
only when its connection is quiet, a change of the connections is answered when they
are what they are said to be (`Answered`), and after shutdown nothing is described any more. In the mapping a
guard stands for what its session was built from, the mutex for "a change is under
way", and the end of `shutdown` for `stopped`. Retiring, building, evicting, the second
lookup of a nested call and the phases of shutdown do not show. `SessionsImplementRegistry` proves that
each step is a step of `Registry` or none. It needs `SessionInv` before and after the step: a
cached session enters with the right configuration because of `PublishedInv`, `Describe` is
quiet because of `UseInv`, an answer is true because of both. One fact more, `StartInv`,
is about the bound of one transfer per client. `UsersAgree` then follows from `Registry` alone: whoever
uses a connection uses what it is described by, or was before it was forgotten, and
all its users the same.

## 4. Streams and waiting: Sink, Webdav, Quiesce, Drained, Closing

**Waiting.** `Quiesce` is what callers of `wait_drained` rely on: guards come only from other
guards (the session is unpublished), the wait ends only when none is left and
ends then. `Drained` has the counter, the decrement and the `notify_waiters` of the
last guard as two steps, and the loop of the waiter (register, look, sleep, wake) as four.

**Streams.** OpenDAL's WebDAV service is replaced by one that does not hold a file in
memory: `write` passes chunks through a channel of one place to the body of a request that a
task of its own sends, `close` drops the sender, which ends the body, and waits for the
answer; `abort` and `drop` ask the task to stop, and only `abort` waits until it has
(`Awaited`, `TaskStops`). `Webdav` has the caller (the loop of
`copy_file` or of an upload), the channel, the task, the body and the server as separate
actors. An early answer or a broken connection breaks the body off; a `write` that
notices it takes the answer instead. `abort` drops the sender *before* it asks the task to stop,
`drop` after: the body may come to its regular end in between, and a server may
take what it has for the complete file. This is why `Sink` promises nothing of
errors, and why success has to exclude everything else: `Store` ends with it. What is
external (client and server) does what HTTP allows: an answer at any moment,
success only for an ended body, anything kept of a broken one.

**Closing.** The call that streams holds a guard; `Retire` fires the cancellation, `execute`
drops the call wherever it is (`Cancelled`), and the waiter of `retire` goes
through its handshake with this guard and the others. The guard goes with the call, not
with the task of the request: `StreamingWriter::drop` awaits nothing. `RetiredIsQuiet`
therefore says no more than the code grants: when `retire` goes on, the call is over,
its sender is gone, and the request has its answer or was told to stop. The task may run
a moment longer, and the one chunk that was in the channel may still be sent, while the next
generation is already at work; `RetiredStreamsEnd` says that this has an end.

**Run `closing`** checks `ClosingInv` (with `StreamInv`: every chunk is in exactly one
place), `RetiredIsQuiet` and `RetiredStreamsEnd`, both refinements, the one of `Quiesce` with its liveness, and
`EveryWriteEnds`: the channel that is full, the body that waits for the sender and
the close that waits for the answer do not wait for each other. Files have up to two chunks and
buffers too, so that a buffer can need two places in the channel and a file two writes; three
guards make a clone of a clone. Fairness: the caller, the runtime (which gets to a task that was
told to stop), the HTTP client and the server go on
(`EveryWriteEnds` is not true of a server that is silent: deadlines and the
cancellation end that), `execute` polls the cancellation, the waiter is scheduled, and a thread that
has decremented goes on to notify. The system may stop when all is over, hence no
check for deadlock.

**Proof.** `StreamInv` is `TypeOK`, `BodyInv` (as long as the body is not broken, what is
with the server, on the wire and in the channel is what was handed over) and `AnswerInv` (a
success is the answer to an ended body). `Closing_proofs` shows it inductive and derives
`ImplementsSink`: `Succeed` is enabled when it happens, and `Store` is not taken afterwards. It
repeats both with the session around the stream and proves `RetiredIsQuiet` from
"the call has its guard until it is over" and "the waiter returns to an empty
counter"; the counter is exact by the library's facts on cardinalities. `WaitFollowsQuiesce`
is the safety of `ImplementsQuiesce`.

## 5. Slots

A job takes its resources in the order of its kind (`Order`) and starts remote work
with the last. Uploads take the mutations lock before the global slot (the
comment at `transfer.rs:221` says why), RPC mutations and `saveText` after it, so
the two orders cross. `GridlockTakesEverySlot` says what it takes for this to stop
everything: every global slot held by a mutation that waits for an upload of its
own connection, hence, with two permits per connection and eight slots, eight connections
doing both at once; deadlines end it. `EveryJobEnds` says that they do, and
excuses only jobs without a deadline while a connection without one has a hung
remote. Two *untimed* connections that cross in the model's two slots would stay
blocked; the instances have one untimed connection, the real system would need
eight.

`slots_safety` has three jobs per connection, more than the permits, and three
global slots, one more than a connection may take. `slots_liveness` has the four
jobs whose orders cross and two global slots, so that the crossing can take them
all. Fairness: semaphores and
mutex are first come first served (strong fairness of `Take`), timers fire, a cancelled
session's jobs are polled with the cancellation first, cleanup has its own
timeout, and only remotes that do not hang answer. Deadlock is checked.

**Proof.** `SlotsInv` says that the lock and the permits have at most as many holders as
there are of them and that whoever works holds all that its kind needs.
The run checks it too. `Slots_proofs` derives `ChangesAreSerialized` (no run of its own: it is
a consequence of the invariant) from the lock that every changing job holds, and `BusyConnectionLeavesRoom` from the order of the
acquisitions: who holds a global slot holds a permit of its connection.
`GridlockNeedsEverySlot` proves the arithmetic of the crossing orders for any number of jobs and slots. When
all wait for each other, whoever waits waits in the end for a global slot (`SlotsAreTaken`), every holder of
one waits for a mutations lock, and the holder of that lock is an upload that waits for a slot
(`StuckJobs`, `LockIsBusy`). This upload has a permit and no slot, so that its connection has at most
one slot less than permits (`CrossedConnections`); `Counting`, a pigeonhole argument, adds them up.

## 6. Upload

State and steps follow `upload_file`: destination test, writer opened, buffers sent, closed,
destination tested again under the lock, publication, cleanup. Every remote await can be
refused, time out or be cancelled. The remote publishes (`how`) by `rename`, by a native
`copy`, by a native copy that can be told to replace nothing (`exclusive`), or by a stream through
the plugin; all but the rename go through `copy_file`, which looks at the destination once more
(`Inspect`). Native requests are taken to be atomic, a stream can leave a torn destination. A
publication that was given up may be applied later where `late` is set: a rename or copy
as a whole, and of a stream what the dropped writer had handed over, in parts, and
its end (`Undecided`, `Land`), which is what `Sink` leaves open after an error. Another client
writes the destination at any time (`Outsider`). `since` remembers which uploads had begun
to publish when the destination last changed. `Pieces = 1` suffices: the properties tell an
empty, a partial and a full temporary file apart.

`OutcomesAreTrue` is what the report tells: `CompletedIsPublished` (completed means that no
temporary file is left and that the upload was at the destination: what is there else came after
it), `InterruptedIsHarmless` (an upload reported as
cancelled or failed left nothing and has nothing pending), `LeftoverIsReported` (a temporary file
that outlives its upload is reported) and `TornIsReported` (so is a destination that is half
written).

`ConfirmedCleanupIsFinal` says when a report is the last word, although requests that were given up
may be applied at any later time: after completed, cancelled and failed always; after
`partial_transfer`, which tells that the temporary file is gone, where a rename or a native copy
publishes, since both need that file. A stream does not: after its `partial_transfer` the destination
can still change, so that inspecting it, as the report recommends, may be too early.

`NeverClobbers` says what an upload without overwrite can replace. The code has a
window: between the test at `transfer.rs:463` (or that of `copy_file`) and the request at
`transfer.rs:468` another client may create the file, and a rename, a stream or a plain copy then
replaces it; the session says so with `atomicNoClobber: false` (`session.rs:127`). The property is that nothing else
is lost: what such an upload replaces was written after its recheck, by another client, or
at remotes that apply requests late by such a request; two uploads of the plugin do not meet in the window (the lock), what
another client wrote while the file was being sent is noticed, and an exclusive copy replaces
nothing. Another client only writes here; that it removes the destination is left out. A
streamed copy is taken to replace what it finds even where it could be told not to, and one that is
answered is a single step.

Run `upload_reports` checks these with `UploadInv` and `CancelledUploadEnds`, for two uploads to one
destination, one of them with overwrite, as a retry is.

**Proof.** `UploadInv` is inductive: its parts tie the place of an upload to its temporary file,
its position under the lock, its recorded cause and whether it has started to publish.
`Upload_proofs` derives the parts of `OutcomesAreTrue`, `ConfirmedCleanupIsFinal` and
`NeverClobbers` for any number of uploads, any number of pieces and every way to
publish. The half-written destination needs an invariant more (`TornInv`: a torn destination always has an
upload that answers for it), and so does the window (`FreshInv`: an upload about to publish that would
not replace what it saw is in `since` if something is there, and what is there came late or from outside). `CancelledUploadEnds` assumes that the task
is scheduled, that cancellation is polled first and that the cleanup has its
timeout; nothing is assumed of the remote.

## 7. TextEdit

`State::remote` of the workbench. A preview keeps the content it was opened with
and a draft; `saveText` clones both under the mutex of the previews and then, under the
mutations lock of the session, asks for the ETag, compares the remote with the
preview, writes, and records. `changed` are the calls whose ETag is outdated, which
stands for the comparison the remote makes; `meddled` those since whose ETag
somebody wrote who does not hold the lock. `lingering` writes were given up (deadline
or cancellation) and are applied later, or never. A preview becomes `Stale` when its
half hour or its generation is over; what it holds cannot be seen any more.

`NoLostUpdate` is the promise a user of the editor relies on: an unforced save
replaces the content its preview shows. With conditional writes it holds against
everybody, because the ETag is asked for *before* the comparison; without
them it holds among the saves of the connection, and the exception for writers outside of the
lock is the one `docs/PLUGIN-DEVELOPMENT.md:77` admits. `PreviewFollowsSaves` says that the next
save does not conflict with the user's own text. What the model shows and no
property states: a save that ends clears the draft of its preview even when the user
has staged a new one meanwhile, and the save of the new one is then refused as incomplete.

Run `text_edit` has two calls and two previews (the two sides of a race), texts
of at most one piece (two different contents) and both kinds of remote. Whether
64 MiB are in use is left open: the model may refuse any preview.

**Proof.** `SaveInv` adds to the types what a call knows at each of its places: what it
has cloned, what it has compared (`CallInv`), and who may write (`WriterInv`: only the
holder of the lock, and writes that were given up). `TextEdit_proofs` derives
`PreviewFollowsSaves` and `NoLostUpdate` for any number of calls and previews and all texts.

## 8. What a session asks of its remote

All of this is checked by the run `remote_operations`; its parts are those of `MCRemote`.

### Listing

`operations::list`: a page is pulled entry by entry, the lister of a page that is not the last
one goes to the table of cursors under a new token, and a continuation takes its cursor out
*before* it pulls. An entry that does not fit into 6 MiB is kept with the cursor
(`pending`) and begins the next page. The table is locked at both ends of a call only, so the
limit of 64 is tested long after the cursor was taken out.

`PagesAreExact`: whoever follows the tokens gets every entry of the directory once, the page
without a token is the last one, and no other page is empty, which is what the one turn
more than `limit` is for: the directory's own entry costs a turn. `ListingInv` says why: a cursor is in the table
or with one call (`TokenInv`), and each is `Consistent` with what its lister has yielded. It is
inductive, and `Remote_proofs` derives `PagesAreExact` for every directory, limit and budget.

What the model shows and nothing promises otherwise: a page that fails, or whose table
is full, ends its listing; there is no going back to an earlier token.

Bounds: two calls, a root of four entries with its own and a directory with a name that is
refused, pages of one or two entries and a budget of two, so that pages end for each reason;
two cursors; `MaxTokens` ends the run. Directories do not change: what a lister makes of one that does is
its service's business.

### Moves

`move_or_copy`, `copy_file`, `rename_directory`, and `write`, `createDirectory` and `delete`
beside them, with every request to the remote answered, refused, applied without an answer, or
given up. `renames` and `copies` are the capabilities of the remote. A copy that is not
native leaves a torn target on its way. `before` is the remote when the lock was taken,
to state what the outcome promises.

`NothingIsLost`: the last complete copy of a file disappears only through the
overwrite or the deletion its user asked for, and no directory is deleted with a file in it. It needs
the lock (two renames that chain, or cross, would erase each other's copies), the order of
copies and deletes, and the test of every copy's result.
`CallsAreHonest`: an error without the advice to inspect both locations leaves the
source complete (except from a native rename, of which the plugin knows nothing), a
refusal leaves both, and success has done everything.

Limits, stated so that nobody reads more into it: a file that another client puts into a directory
after its listing is deleted with the directory; a streamed overwrite that fails has
already destroyed its target and is reported as a plain error; requests that are applied
after the next call has taken the lock are not modelled here (they are in `Upload` and
`TextEdit`). Directories have no sub-directories: the listing is recursive, and a
sub-directory is created like the target.

Bounds: two calls, three directories (a chain needs three) and two files (a directory rename
can be half way). Calls, names and the two empty directories are interchangeable.

**Proof.** `MoveInv` (in `Remote_proofs`) says what the call that holds the lock may rely on at each of its places (`CallAt`):
until it erases, the source is as it was but for files that another client has created (`Intact`); what was copied
has arrived (`Arrived`); nothing is erased or removed with its directory that has not. Whoever is about to report has done what the
report says (`TrueOf`). `OutcomesAreTrue` follows at once, `NoContentIsLost` action by action: only
`Erase`, `Rename`, `Write`, `Delete` and a copy over a file can make a content disappear, and
each is either asked for or comes after `Arrived`. Both hold for any number of calls, directories and
files. The assumption is that markers are no file names and differ from each other.

### Configuration

One request goes through `parse`, the normalization of its protocol, the check of the
service (for SFTP a child process that is polled every ten milliseconds for two
seconds), the construction of the operator and its first request. A setting is reduced to what the
code tells apart: absent, empty, a text, a truth value, something that is no string. `config` is
what reaches the service; how the service reads it is OpenDAL's.

`ConnectInv`: `RouteIsKept` (a connection whose host has prepared a tunnel goes
through it, or nowhere, whichever protocol and whichever of the two lists of
layers), `SettingsAreTheirs` (a parameter bound to a secret has the secret, a generic service has no
parameter but its own) and `ProbeIsOver` (no ssh program outlives its probe). The generic protocol has
no endpoint the plugin knows of; it takes no transports by design and is excluded from
`RouteIsKept`.

Inputs: a complete request for each of the seven protocols, with routes, settings, logins,
Hadoop files and generic lines varied within each group (`Routes` to `Generic`): every test
of the code is met and passed by some of them. They are `RequestsOf` in `MCRemote`; the
module itself has them as a constant.

**Proof.** `ConnectionsAreTheirs` proves `ConnectInv` for every set of requests that are well typed
(`ConfigurationAssumption`: a known protocol, a runtime endpoint that has a host and a port, layers that are enabled, disabled or silent on it),
whatever the settings, secrets and lines are. `MadeInv` adds to `ConnectInv` how far the connection has come and
when the ssh program may run. Of the tests before an operator is built the route needs one, that of
transports that are in force without a runtime endpoint, and the settings of a generic
service that of duplicate names; the other tests do not protect either.

### Uri, Lookup, Capabilities

Functions, evaluated over all small inputs by `FunctionsAreRight`. `Uri` is `path()` and its
inverse over the seven characters that matter, for strings of up to four of them, alone and after an encoded
percent sign (two levels of encoding): an accepted path stays below the root however often a
service decodes it, and its location leads back to it. `Lookup` is `stat`, `exists` and
`destination` over everything a remote can answer: a destination is free only when the remote has
said so. `Capabilities` compares what a session offers with the requests its operations
make, for all 512 combinations of capabilities and read-only: an operation is refused exactly when the remote cannot serve it. A service
that lists and does not stat is excluded, as there is none.

`DestinationsAreKnown` proves the part about `Lookup` for all inputs, `OffersWork` that about `Capabilities`. The
part about `Uri` is recursive over strings, which is induction over data and stays with TLC.

## 9. Transfers

`Transfers::start` holds the lock of the table while it prunes, counts, evicts and
inserts (`Prune`, `Count`, `Evict`, `Insert`); transfers end *without* that lock
(`Finish`), at any moment in between. `TableInv` says that the two limits hold all
the same and that every transfer that has not ended is in the table, where it can be
listed, cancelled and waited for. It is inductive; the parts that make it so tie
the place of a transfer to the lock and to its snapshot (`LockInv`, `ResultInv`) and say
that whoever is being admitted still has room (`RoomInv`): others may end
meanwhile, which only helps, and nobody else can be admitted.

A download follows `download_file`: size, early look at the destination, temporary
file, bytes, synchronization and a last test of the size and the token, publication
by one rename that nothing interrupts. `ReportsAreTrue` holds when the task is
about to report: "completed" exactly when the destination was published, with as many bytes as the
remote had announced, and a temporary file with content stays behind only under
`cleanup_failed`. The early look may be out of date by the time of the publication; that
a rename without overwrite replaces nothing is then up to `persist_noclobber` of the tempfile
library, which tests and renames in one step: `Publish` takes this as given and no property
restates it. What is checked is that a refusal at that point is reported, with what it leaves.

Abstractions: the ten minutes of an ended transfer are a choice of how many of the
oldest leave; `retain` sees all snapshots at one moment; a destination that is not a
regular file is one of the failures of `Look`; the permits and the slot are one
step (`Run`); what a transfer had at work is reset when it ends. Transfers to other
places differ only in what they do not share.

Run `transfers`: one download with overwrite and two without (enough for each kind to
meet its own and the other), a table for two of which both may be active, so that
pruning, refusal and eviction all happen; a file of at most one buffer that grows and
shrinks. `Transfers_proofs` proves `TableInv` and, from an invariant on the
work of one download (`WorkInv`: the temporary file has the bytes that were counted, a
published destination the announced size), `ReportsAreTrue` for any number of
transfers, any limits and files of every size.

## 10. Between the user and the plugin: Manager, Sidecar

Both are checked by the run `manager`; `part` tells which one a behaviour is about.

### Manager

One view of the window: `useManager.ts` with the dialog of `FileManager.vue` and the
editor. An operation goes through `run`, one at a time (`pc`), and waits for dialogs
(`question`) and for answers; a timer polls the transfers beside it (`tick`); the
host may close the tab at any moment (`Unmount`), after which an operation goes on
without its view. `kind` tells the operations that open a preview, that leave
one (navigate, remove, move), that save, and the others. `live` are the previews
the plugin keeps and was not asked to release, `truth` and `shown` the state of a
transfer and what the view shows of it. `agreed`, `staged` and `stored` are observers for
`DraftIsKept`: what the user agreed to give up, what is being sent, what was saved.

`TokensAreReleased`: every preview is on display, being opened, or given back.
`DraftIsKept`: text disappears from a view that stays open only with consent or after
it was saved, although the consent is asked long before the text goes and the save
takes what the editor holds when it *ends* for what it sent when it began; both
rest on the editor being disabled while the view is busy. `EndIsShown`: although polls fail and
answers overtake each other, the end of a transfer is finally shown for good. This
assumes that the timer fires, that calls are answered (the bridge gives up after five
minutes), and that not all polls fail.

The listing and the tree, and the undo of edits, are left out, and of the dialogs those without consequences
for the preview. Observed and not stated as a property, as
nothing in the repository promises the contrary: the reload after a transfer has
ended (`useManager.ts:296`) is not guarded against a navigation that overtakes it, and is
skipped when the view is busy; a second question takes the dialog over from the
first (`FileManager.vue:12`), which an operation may wait for.

Bounds: three previews (on display, replacing it, one more) and one transfer.

**Proof.** `ViewInv` (in `Manager_proofs`) says what an operation that is under way may rely on whatever the timer, late answers and
the host do beside it: the preview it replaces is on display or gone, no other preview is kept, and edits it is about
to drop were agreed to or are being saved. `PreviewsAreGivenBack` and `DraftsAreKept` follow
for any set of previews.

### Sidecar

The development host keeps a table of numbered requests to the plugin process
(`sidecar.mjs`) and the set of connections it takes for connected (`server.mjs`). `pending` are the
requests that wait, `calls` those the process has not answered, `answers` its output that was
not read yet, which is read even after the process has ended and another one was
started. `linked` are the connections that are really there. `serial` is the one operation
(connect, disconnect, restart) that `serialize` lets go on, and the request it waits for.
A request whose time is over is forgotten by the host and carried out by the plugin
all the same; output that is no frame fails everything; the process may end at any
moment.

`ConnectionsAreKnown`: what the host takes for connected is connected in the process that runs now, and
nothing else is, except where a connect or disconnect timed out (`doubted`), which
`devtools/mock-host/README.md:76` says of timeouts. It rests on request numbers that are never
used twice, also not by the next process. `HostAnswers`: the serialized operations end,
whatever the plugin does or leaves undone. This assumes that node goes on with what is
ready, that timers fire, that the second signal of a stop (`SIGKILL`) ends a process and that builds
end; nothing of the plugin.

Bounds: two connections, and `MaxRequests` = 4, after which nothing new is begun: a connect, a
restart with its initialization and one request that stays behind. The run stops there,
hence no check for deadlock. Requests that are refused (256 pending, a full pipe) change nothing and are
left out; closing the host is a restart whose build fails. Frames, browser sessions, the stored
configuration and the HTTP server are left out.

**Proof.** `HostInv` (in `Manager_proofs`) has five parts: types; a request is unanswered or answered, and that once
(`OneAnswer`); a serialized operation waits for a request that is still pending (`WaitsForOne`); of a process that
has ended nothing is left but its answers, and a new one knows no connection (`ProcessesAreNew`); while the host serves,
each connection it does not doubt is either settled or in the hands of the serialized operation, whose
one request tells its fate (`ServedAreKnown`). New requests get numbers beyond all that are in `pending`,
`calls` and `answers`, which is why a late answer of an old process is never taken for
a new one. `HostKnowsConnections` is `ConnectionsAreKnown` for any number of connections and
requests; the assumption is that the marker of no connection is none.

## 11. What is proved, what is only checked

Proved for every value of the constants that satisfies the assumptions of the modules
(`ConstantsAssumption`, `NoCallAssumption`, `SlotsAssumption`, `UploadAssumption`, `TransfersAssumption`,
`TextEditAssumption`, `ListingAssumption`, `WebdavAssumption`, `ClosingAssumption`, `MovesAssumption`,
`ConfigurationAssumption`, `ManagerAssumption`, `SidecarAssumption`: finite sets,
natural limits, requests of the right type, markers that are no members of what they mark), each by an inductive
invariant:

| Module | Inductive invariant | What follows |
| --- | --- | --- |
| `SessionLifecycle` | `SessionInv` (and `LimitInv`, `StartInv`) | all its safety properties, `ImplementsRegistry` |
| `Registry` | `AgreementInv` | `OneConfiguration` |
| `Slots` | `SlotsInv` | `ChangesAreSerialized`, `BusyConnectionLeavesRoom`, `GridlockTakesEverySlot` |
| `Upload` | `UploadInv`, `TornInv`, `FreshInv` | `OutcomesAreTrue`, `ConfirmedCleanupIsFinal`, `NeverClobbers` |
| `Transfers` | `TableInv`, `WorkInv` | `ReportsAreTrue` |
| `TextEdit` | `SaveInv` | `PreviewFollowsSaves`, `NoLostUpdate` |
| `Listing` | `ListingInv` | `PagesAreExact` |
| `Moves` | `MoveInv` | `CallsAreHonest`, `NothingIsLost` |
| `Configuration` | `MadeInv` | `ConnectInv` |
| `Manager` | `ViewInv` | `TokensAreReleased`, `DraftIsKept` |
| `Sidecar` | `HostInv` | `ConnectionsAreKnown` |
| `Webdav` | `StreamInv` | `ImplementsSink` |
| `Closing` | `ClosingInv` | `RetiredIsQuiet`, `ImplementsSink`, the safety of `ImplementsQuiesce` |

The parts of `FunctionsAreRight` about `Lookup` and `Capabilities` are proved for all inputs, without an
invariant.

Only model-checked: the part of `FunctionsAreRight` about `Uri`, which is recursive over strings, hence induction
over data; and everything about liveness (`AdminsAnswer`,
`ShutdownReturns`, `EveryJobEnds`, `ClosedDrains`, `CancelledUploadEnds`, `EveryWriteEnds`, `RetiredStreamsEnd`, the liveness of
`ImplementsQuiesce`, `EndIsShown`, `HostAnswers`), which the prover cannot treat under fairness.

## 12. What is not modelled

- Local files: `chooseLocal`, `openLocal` and the tokens of a selection (`workbench.rs:135`,
  `lib.rs:242`) are dialogs and child processes of the desktop; their place among the calls of a
  session is in `SessionLifecycle`.
- The 64 MiB of previews (`workbench.rs:216`): the test counts what previews hold when one is
  opened, and staged drafts grow without it. No line promises a bound on the sum.
- Writes to a temporary file that the remote applies after they were abandoned: the
  plugin cannot see them and promises nothing.
- How `persist_noclobber` makes test and rename one step on the local disk: the tempfile library.
- The listing and the tree of the window, with the reload after a transfer that may be overtaken by a
  navigation (`useManager.ts:296`), and rendering.
- The distribution of calls to the eight threads of the plugin server, which is in
  an external SDK: `session_*` has as many threads as calls.
- The headers and the URL of WebDAV requests, the bytes of `read`, the numbers and the
  wording of errors: data without control.
- Frames, browser sessions, the stored configuration and the HTTP server of the development host.

## 13. What is left

1. The listing of the window against navigation, reloads and the cursors of `Listing`.
2. The budget of previews, with drafts that are staged and previews that expire.
3. Abstract specifications of an upload and of the table of transfers that `Upload` and `Transfers` implement.
