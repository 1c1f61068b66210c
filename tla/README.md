# A TLA+ verification of the evreos browser core

This directory models the parts of evreos whose correctness depends on the
order in which things happen: worker threads, observations that arrive late,
time-outs, files saved and programs killed, several processes on one file. The
reference is the Rust source under `src/crates`; every definition that models
code is traced to its lines in `PROJECT.json` (`map`).

Run a model with `tlc -config MCWorkerPool.cfg MCWorkerPool`, check proofs with
`tlapm WorkerPool_proofs.tla`.

## 1. Inventory

evreos is a Rust workspace. `evreos-engine` is the contract of a web engine;
`evreos-engine-headless` is the scripted engine that implements it for the
tests; `evreos-shell` is the browser around an engine; `evreos-platform` holds
what depends on the operating system (updates, default browser);
`evreos-net`, `evreos-i18n` and `evreos-chrome` are small supports. No
production event loop connects the tab model, the stores and the engine at this
commit: `app.rs` runs windows with one view each, and the connection the
models follow (engine call, tracker, tab) is the one the tests of
`evreos-shell` and the conformance suite make.

| Component | State | Operations | Talks to | What is hard |
|---|---|---|---|---|
| Worker pool `shell/work.rs` | job channel (bounded), result channel, mutex round the receiver, threads | submit, drain_results, drop, the worker loop | jobs of any component; UI thread | interleaving, panics, shutdown, saturation |
| Navigation `shell/tabs.rs` | `NavigationTracker.navigations`; per tab address, epoch, lifecycle, indicator, in-flight id | start, process_event, check_timeouts, handle_navigation_observation, suspend, resume | engine (observations polled one by one), clock | stale and superseded observations, time-out against late answer |
| Tab strip `shell/tabs.rs` | tabs of a window, positions, active id, id counter | open, restore, activate, suspend, resume, close, reorder | session store | long sequences keep positions and the active tab consistent |
| Session store `shell/session.rs` | `session.toml` | save, load, restore_into, clear | tab strip, file system | crash between two calls, refused writes, escapes, private windows |
| Download list `shell/store/downloads.rs` | entries, `next_id`, `downloads.toml` | start, progress, complete, cancel, fail, remove, clear, discard private, open | file system, engine downloads | memory changed before its save, refused saves, ids after restart |
| Bookmarks `shell/store/bookmarks.rs` | tree of folders and bookmarks, file | create, rename, move, delete, batch | file system, import | tree stays a tree; batch rolls back |
| History `shell/store/history.rs` | entries, file | record, batch, delete, clear | file system, suggestions, import | deletion propagates and reaches the disk |
| Permissions `shell/permissions.rs` | decisions per site and kind, pending prompts, file | query, record, revoke, purge, evaluate, answer | private windows, engine | an answer after its window closed |
| Private windows `shell/private.rs` | window's store and its surfaces | open, close (destroy everything) | permissions, downloads, engine | everything destroyed in every order |
| Windows and event loop `shell/app.rs`, `main.rs` | windows, active views, control flow | create, close, resize, exit | winit, engine | a failing step of window creation |
| Suggestions `shell/suggest.rs` | none (clones of the stores) | query_async | worker pool, stores | an answer computed from a stale clone |
| Import: job and writes `shell/import.rs` | job state, the rows read | read on the pool, `write_imported` | worker pool, bookmarks, history | two stores written, the second fails; the program ends between them; a repeated import |
| Import: snapshot `shell/import/snapshot.rs`, `sqlite.rs` | the copy, the held fingerprint | `take`, `scan` | another browser's files | copying files another program writes; telling busy from interrupted |
| Import: browser formats `shell/import/{chromium,firefox,json}.rs` | - | files to rows | the copy | pure parsing |
| Hand-off `shell/handoff.rs` | - | choose a browser, build its command line | profile, platform | no state between calls |
| Profile `shell/profile.rs` | settings, file | load, save | file system | as the session store |
| Headless engine `engine-headless/lib.rs` | surfaces, epochs, pages, observation queue, downloads, data stores, exemptions | create, activate, suspend, resume, close, navigate, downloads, messages | shell | the shell always reads about the past; downloads finished before they are cancelled |
| Engine contract `engine/lib.rs`, `conformance.rs` | - | trait, value types, invariants as test functions | both | source of the statements the engine modules are checked against |
| Rollout draw `platform/update/rollout.rs` | one file, one partial file per call | load_or_draw | other processes, file system | interleaving, kills, power loss, file systems without links |
| Update decision and artefact `platform/update.rs`, `update/{manifest,artefact}.rs` | the offer held | decide, verify | rollout draw, network | one rollout value in every decision; an offer that is stale when its artefact arrives |
| Update schedule and wake `platform/update/{schedule,wake}.rs` | - | next_due, parsing | - | pure functions |
| Default browser `platform/default_browser*.rs` | registry keys | register, unregister | operating system | failing half way |
| Chrome, i18n, net, brand, keymap, omnibox, theme, scaling, site key, search provider, errors, log, repository scripts | pure functions or text | - | - | no state, no order |

What makes each of them correct is stated as properties in the modules of
section 3, and each hazard of the code, with its line and the properties that
would catch it, in `PROJECT.json`. Components without a module are in section 8.

## 2. Plan

Order: what runs concurrently or is cut short first, pure data last. A module of
proofs covers the components whose arguments share their lemmas.

1. `JobService` (abstract), `WorkerPool`, and the proof that the second
   implements the first.
2. `EngineNavigation` and, on top of it, `TabNavigation`.
3. `TabStrip`; `SavedSession` (abstract), `SessionCodec`, `SessionStore` over
   the strip; `Tabs_proofs` about these and the navigation.
4. `DownloadStore`; `EngineDownloads`; `Downloads_proofs` about both.
5. `RolloutDraw` and `UpdateCheck` over it; `UpdateCheck_proofs` about both.
6. `EngineSurfaces`, `PermissionStore`, and `Windows` over both;
   `Windows_proofs` about all three.
7. `BookmarkStore`, `HistoryStore`, `Suggestions`; `ProfileImport` over the last
   two; `Stores_proofs` about all four.
8. `SqliteFile`, `SourceStore`, `Snapshot`, each over the one before;
   `Snapshot_proofs`.
9. `DefaultBrowser`; `DefaultBrowser_proofs`.

All of it is modelled, and every property that is not about liveness is proved
(section 6).

## 3. The modules

`MC*` modules only give constants their values. A definition marked `Mutant` is
an operation changed as a plausible bug would change it; no specification uses it.

### Worker pool: `JobService`, `WorkerPool`, `WorkerPool_proofs`

`JobService` says what the UI thread may rely on: a submission is answered at
once; a refusal is given only while at least `Capacity` accepted jobs are
unreported; each accepted job is reported at most once.

`WorkerPool` is `work.rs` thread by thread. `Submit` mints the id before
`try_send`, so a refusal consumes an id; `TrySend` looks for a disconnected
channel before it looks for room. `DrainStart`, `DrainOne` and `DrainEnd` are
the loop of `drain_results`, between whose rounds workers run. `Lock`,
`Receive` (`recv`, then the guard is dropped), `Run` (with `catch_unwind`) and
`Send` are the worker loop; `Disconnected` is its end. `DropSender` and
`Joined` are `Drop`. A worker waits in `recv` *holding the mutex*; the model
keeps that, since it is what a shutdown has to get through (`DropReturns`).

### Navigation: `EngineNavigation`, `TabNavigation`, `Tabs_proofs`

`EngineNavigation` is the engine's side: `StartNavigation` runs a navigation's
whole script at once and queues all its observations, as the headless engine
does. The scripts are those of its builder functions (`page`, `failure`,
`redirect`, `delayed_title`, `abandoned`, `hanging`) and a sequence that commits
and stops (`stalled`).

`TabNavigation` is the shell's: `Poll` takes one observation into
`ProcessEvent` (the tracker) and `Handled` (the tab). Which tab an observation
is for is the model's bookkeeping: `NavigationObservation` names no surface, and
the caller of `poll_observation` knows it from the navigation. `Tick` moves the
clock; `CheckInFlightTimeouts` is the check for expired loads over a set of tabs:
a window's (`check_in_flight_timeouts`), or one tab's (`resolve_in_flight_timeout`).

### Tabs and session: `TabStrip`, `SessionStore`, `SessionCodec`, `SavedSession`, `Tabs_proofs`

`TabStrip` has one operator per method of `WindowTabs` and one action per
operator, over several windows. `SessionStore` saves them: `SaveOpen`,
`SaveWrite`, `SaveRename` with `SaveFails` and `Stop` between any two.
`SessionCodec` is the text encoding: the debug format that writes a string and
the chain of replacements that reads it. Its characters are those either looks
at, the ones Debug writes as `\0` and `\u{..}` included, which nothing undoes;
`Faithful` says which texts are read back as they were. `SavedSession` is the
promise: what the program shows when it starts is what it last kept, whole, each
address as it is read back; `SessionStore` implements it. A `load` that returns
an error is left out: it changes nothing, and nothing but tests calls it, so what
a program does then is not in the code.

### Downloads: `DownloadStore`, `EngineDownloads`, `Downloads_proofs`

`DownloadStore` is the shell's list. An operation changes the entries first and
saves afterwards (`Change`), so it is one action up to the save, which then
succeeds, fails or is cut short. `Open` reads the file back or, where it cannot
be read or deserialised, starts with an empty list and ids from one; `unread`
remembers that until the next save, which replaces the file.

`EngineDownloads` is the engine's handshake: `Trigger` announces under a token,
`ShellAnswers` accepts (running the download's whole script, files and events
included) or rejects, at any time and again and again, `ShellCancels` takes back
what has not been polled. The file system may refuse to write the file or to
remove it, which the engine ignores; `unwritten` and `unremoved` remember where
it did. The shell accepts with an id of its own that it has not used, and cancels
what it has accepted and not heard the end of.

### Updates: `RolloutDraw`, `UpdateCheck`, `UpdateCheck_proofs`

`RolloutDraw` is `load_or_draw` with one action per file-system call, by several
processes at once. `file` is what the shared name reads as, `durable` what it
would read as after a power loss. `mishaps` remembers what has happened that the
code makes a weaker promise about: an unreadable file, a link that failed for
another reason than the name being taken, a power loss. A path that is a
dangling symbolic link is not modelled; such a call ends in an error, as `Fail`
does.

`UpdateCheck` extends it: each process, its value once loaded, decides on
manifests (`Decide`, the checks in `decide`'s order) and verifies an artefact
for the offer it holds (`Verify`), with a clock that may be set.

### Surfaces and windows: `EngineSurfaces`, `PermissionStore`, `Windows`, `Windows_proofs`

`EngineSurfaces` is the engine's surfaces: lifecycle, the data of each store
kind, content policy and exemptions, blocked counts, the request gate.
`PermissionStore` has the operations on permission decisions, memory and file; a
file that cannot be read or parsed opens as no decision (`FileRead`), and
`unread` remembers it until the next save.
`Windows` composes both: application windows, with the platform refusing one
after its surface exists (`app.rs`), and private windows (`private.rs`), whose
closing clears exceptions and permissions. A prompt is answered whenever the
member does, so also after its window has gone.

### Bookmarks: `BookmarkStore`, `Stores_proofs`

The tree, single operations, batches (`BatchBegins`, `BatchSaved`,
`BatchTakenBack`), and `Restart`, which reads and validates a file: one the
store wrote or one of any soundness (`Files`). The index of children is kept as
the code keeps it, patched by each operation. The rows are sets, since each has
its place and its id; a file is a listing, how many times it has each row,
because one with a row twice is refused.

### History, suggestions, import: `HistoryStore`, `Suggestions`, `ProfileImport`, `Stores_proofs`

`HistoryStore` has the operations on rows, with times of which the file keeps
only the millisecond. A row goes by the serial it was made under, so that the
rows held are a function of serials and their order that of the serials; an
erasure names the serials kept. `Suggestions` is the ranking: the map of
candidates as a function recursive over what the three sources offer, its
elements sorted, and the first of them. `IsAnswer` says what an answer must be
without saying how it is found.
`ProfileImport` runs an import against both stores while the member browses,
erases and asks for suggestions: the read on the pool (`StartReading`,
`ReadReturns`, `ReadFailed`), then `WriteBookmarks`, `WriteHistory` and, when
the second is refused, `UndoBookmarks`.

### Another browser's store: `SqliteFile`, `SourceStore`, `Snapshot`, `Snapshot_proofs`

`SqliteFile` reads a store from bytes: the log's overlay up to its last commit
and the walk of a table's tree. `SourceStore` is the other browser, in either
journal mode, stopping anywhere (external: what `snapshot.rs` relies on).
`Snapshot` is `take`, a step per page or frame read, with the browser moving
between any two, and `scan` over the accepted copy.

### Default browser: `DefaultBrowser`, `DefaultBrowser_proofs`

`register` and `unregister`, one action per registry call, any of which may fail
or be the last. `Fold` says which names are one to the registry.

## 4. The runs

| Run | Checks | Bounds, and why they are enough |
|---|---|---|
| `worker_pool` | no job lost, repeated or abandoned; accepted jobs finish, drop returns; `JobService` | 2 workers, queue of 2, 5 jobs: every worker busy, a full queue and one job too many. 275,238 states. Safety proved for all values. |
| `tab_navigation` | what the tab shows against the engine; a load that never commits stops showing as loading | 2 tabs of a window and its tracker, 2 navigations of any script, 2 addresses (a redirect needs the second), a time-out of one tick: an old load and the one that supersedes it, or one in each tab. 216,760 states. Safety proved for all values. |
| `session_store` | the strip, nothing private on disk, the restored session | 3 tabs in 2 windows of either kind (a move has tabs on both sides), one normal address with a quote and a backslash to escape, one private; that the `Faithful` texts and no others come back is evaluated over all texts of up to 4 characters. 757,992 states. Proved for all values. |
| `download_store` | acknowledged is durable, ids are fresh | 3 ids: one finished, one private, one removed; any opening may fail to read the file. 388,917 states. Proved for all values. |
| `download_handshake` | cancelled is final, a file means finished, events are of accepted downloads | 2 tokens, 4 scripts: one is cancelled while the other's events are queued; any file may be refused. 126,751 states. Proved for all values. |
| `update_check` | one rollout value, no torn value, a wider rollout keeps its offers, calls return | 2 processes, rollouts out of 2, versions 1 to 3 (older, installed, newer), 2 times: the least that can disagree. 387,484 states. Safety proved for all values. |
| `engine_surfaces` | one foreground surface, what closing leaves behind | 2 surfaces, a page and a resource on different sites, one policy. 70,968 states. Proved for all values. |
| `private_windows` | grants are the member's, every window has its surface | 2 windows, 1 site, 1 capability: one window closes while the other stays. 1,025,552 states. Proved for all values. |
| `bookmark_store` | a tree in memory, index and file | 2 folders (the least for a cycle), 1 bookmark, 1 refused save, 3 changes in a batch, files of five kinds of soundness. 126,202 states. Proved for all values. |
| `history_import` | a failed import leaves nothing, a repeated one adds nothing twice, erased is gone, suggestions are the best | 2 addresses, 3 rows, 2 refused saves, 2 imports of 2 profiles: one import fails and is tried again. 231,451 states. Proved for all values. |
| `profile_snapshot` | an accepted copy is of one moment, a refusal is true, rows are of one moment, `take` ends | 2 pages (ahead and behind), 2 transactions, 1 restart of the log, 2 attempts (a fingerprint and one to compare), depth 2. 294,668 states. With 3 pages it passes too: 3,756,823 states. The three invariants proved for all values. |
| `default_browser` | a listed browser is whole and listed once | 3 names, two of which differ in letter case: renamed both ways. 1,476,402 states. Proved for all values. |

`CHECK_DEADLOCK FALSE` stands where a behaviour really ends within its bounds:
`tab_navigation`, `download_handshake`, `bookmark_store`, `engine_surfaces`,
`private_windows`, `history_import` and `profile_snapshot` stop when their ids,
rows, runs or attempts are used up.

### Where the code and its documents part

These were met while modelling. The models follow the code, and the properties
are stated so as to hold of it.

* **Release profile.** `Cargo.toml:32` builds releases with `panic = "abort"`,
  so the pool's `catch_unwind` does not contain a job's panic as `work.rs:27-28`
  says. `WorkerPool` models the profile that unwinds.
* **Stalled committed load.** `check_timeouts` (`tabs.rs:205`) looks at
  navigations that have not committed; one that commits and then stalls shows as
  loading for ever, which `specs/001-evreos-v1/spec.md:1312` rules out.
  `UncommittedLoadResolves` is about the others. It says that their indicator goes
  off at some time, by a check that finds them past the bound; it does not say
  when, and the tab's lifecycle stays Loading.
* **Shared expiries.** `resolve_in_flight_timeout` (`tabs.rs:618-633`) fails
  every expired navigation in the shared tracker and reports only its own; a
  window that checks its tabs one by one loses the others'. The success of an
  older navigation, polled after the member asked for another, clears the tab's
  in-flight id (`tabs.rs:862`), so that the time-out of the newer one belongs
  to no tab. `Started` changes `displayed_address` without the epoch
  (`tabs.rs:853`), so an address is compared with the page only when no load is
  under way.
* **Session escape.** `unescape_toml_str` (`session.rs:380`) undoes `\\` first,
  so an address with a backslash and an n (or r, t) is read back with a line
  break (a return, a tab). `{:?}` (`session.rs:144`) writes a null character as
  `\0`, and one that is unprintable or extends the one before it as `\u{..}`;
  neither is undone (`session.rs:376-388`), so the escape itself is what is
  restored, and escaped again by the next save. `SessionIsRestored` therefore
  promises each address as it is read back (`Regained`).
* **Files that open unread.** An unreadable or malformed `downloads.toml`
  (`store/downloads.rs:264-282`) or `permissions.toml` (`permissions.rs:281-288`)
  opens as an empty store, and the next save writes that over the rows or
  decisions that were acknowledged. `AcknowledgedIsDurable` and
  `PermissionsAreTheMembers` except the time from such an opening to that save.
* **Refused files of a download.** `Finished` is documented as written to the
  shell's destination (`evreos-engine/src/lib.rs:873`), but the headless engine
  ignores the errors of `create_dir_all`, `write` and `remove_file`
  (`lib.rs:1350-1352`, `1396`): a download may be said to have finished with no file,
  or part of one, and a cancelled one may leave its file. `FileMeansFinished` and
  `CancelledIsFinal` except exactly the files so refused.
* **Blocked counts.** The headless engine sets a surface's blocked count when a
  navigation starts, not when it commits. A page on an exempted site can still
  have a resource of another site blocked.
* **Application id.** `set_surface_app_id` is documented as assigning an
  immutable id; the headless engine overwrites one.
* **Windows and permissions.** `App::close_window` (`app.rs:289`) of a private
  window does not purge its permissions; only `private.rs` does. An answer
  given after the window closed is recorded in its scope and stays in memory
  until the program ends. The properties speak of what was recorded by whom
  and never reaches the disk.
* **Cancelling.** A download whose `Finished` has been polled can still be
  cancelled by its id, which deletes the file; the shell of the contract does
  not do it.
* **Default browser.** `unregister` removes the keys even when removing a
  pointer failed, so the system may list capabilities half removed, which
  `default_browser.rs:305-306` says never happens; `ListedIsWhole` excepts
  exactly the pointers whose removal failed (`stuck`). `register` overwrites another application's value of the
  same name.
* **History.** A save is said to leave "no intermediate files"
  (`store/history.rs:456`), but goes through a temporary file, and one left by
  a refused rename may hold rows erased since. An import may leave out a row
  because an equal one is in memory that no save has written.
* **Suggestions.** A query works on clones: between the clone and the answer an
  entry may be erased and still be suggested. `suggest.rs` has no generation to
  compare, so nothing is stated of it.
* **Update schedule.** "Never holds checks off for longer than one period" holds
  if `next_due` is evaluated once and armed; evaluated anew after a clock change
  it may be put off again.
* **Rollout.** The first read of `load_or_draw` may return a value whose name
  another process has not flushed yet, which a power loss may take back.
* **Snapshot.** The interleaving `snapshot.rs:29-36` states does produce a torn
  accepted copy: without `~escape`, `AcceptedIsOfOneMoment` is violated. With
  it, it holds, so the one stated is the only one.

## 5. Fairness

* `WorkerPool`: weak fairness of each worker's loop (threads are scheduled, jobs
  return) and of what the UI thread has begun (`DrainOne`, `DrainEnd`,
  `Joined`). Nothing makes it submit, drain or drop. A worker waiting for the
  mutex is not promised it: the properties hold without strong fairness because
  a worker that holds it always lets it go.
* `TabNavigation`: the event loop polls, time passes, the shell checks the
  clock. `tabs.rs` offers the checks and names the bound; the calls are the
  caller's, and the property is about a caller that makes them.
* `RolloutDraw`, `UpdateCheck`: a process that is not killed runs on.
* `Snapshot`: the reader runs on in its thread; the browser may do anything or
  stop.
* The stores, the engine and the windows have no liveness: every operation is
  called from outside.

## 6. What is proved

With TLAPS, for every value of the constants under the modules' named
assumptions. Eight modules; the theorems a reader should know are listed in
`PROJECT.json`.

**`WorkerPool_proofs`** (`TypeCorrect`, `JobsAreConserved`, `JobsStartInOrder`,
`WorkersServe`, `DropAbandonsNothing`, `ImplementsService`). None of the
properties is inductive. `ControlOK` ties a worker's program counter to the
mutex and the job in its hand, and says a worker leaves only when the sender is
gone and the queue empty. Over it, conservation needs `Fresh` (ids in the system
are below `nextId`); the order needs both. `DropAbandonsNothing` follows: the
pool is gone only when all workers have left, so the queue is empty and no hand
is full, and conservation leaves only the results. `ImplementsService` maps
every step to one of `JobService` or a stutter. The refusal is the case that
needs the invariant: the queue is full of distinct jobs, none reported, so at
least `Capacity` are owed.

**`Tabs_proofs`**, of the strip and the session file (`StripStaysConsistent`,
`PrivateStaysUnwritten`, `OthersStayInOrder`, `SessionsAreRestored`). Inductive
is `SessionInv`: every window's tabs are typed, in place, with distinct ids
minted below the counter, one active, and of addresses of the window's kind; and
every text in the session file or a temporary one is of normal addresses. One
lemma per operation, as re-indexing after a removal or a move is what could go
wrong; sorting, filtering and restoring are recursive functions, about which the
module proves what each returns. `SessionsAreRestored` maps every step of
`SessionStore` to a step of `SavedSession` or a stutter, for any addresses: what
is kept of one is what `Decode` makes of its escapes, whether or not that is what
it was. Which texts come back as they were (`Faithful`) is evaluated over bounded
texts only, since it would take an induction over the replacements.

Of the navigation (`TabsShowTheirPage`, `EpochsFollow`). What a tab shows is
behind the engine by what is still queued, so `NavigationInv` speaks of the
queue: epochs in it never fall and none is beyond the engine's; the last
observation of a tab that moves the epoch has the engine's, the last that gives
an address has its page; no success follows a mere start. When the queue is
empty the tab has what the last of them left.

**`Downloads_proofs`** (`AcknowledgedStays`, `NextIdStaysFresh`,
`CancelledStaysFinal`, `FilesAreFinished`, `OthersAreSilent`). `StoreInv` ties
memory, the save under way and the file to each other at every step of a save,
and says the next id is above every id held, or handed out in this run; ids of a
file that opened unread may be handed out again. `HandshakeInv` has the three
properties of the engine together, which are inductive only so: a file is there
when its `Finished` is queued or polled, but for the refusals, and what a
cancellation or a rejection takes out of the queue is all that was there of that
download.

**`UpdateCheck_proofs`**, of the draw (`TypeCorrect`, `ProcessesAgree`,
`KeptValueStays`, `NoTornValue`, `FlushedValueStays`). The strengthening is
`Informed`: while only power losses have happened, a call that kept a value kept
the file's, a call about to reread found the name taken by something still
there, no call is about to rename, and the disk has the file's name or none.
Rename is thereby shown unreachable where links work, which is the argument of
`keep()`'s comment.

Of the check (`CheckersAgree`, `OffersWiden`). A step of the check is a step of
`RolloutDraw` or leaves its variables alone (`CheckRefines`), so agreement
carries over. Over it, `OneValueDecides`: while nothing has gone wrong, every
value returned is below each rollout under which an offer was made and not below
any under which one was withheld, so no rollout withheld is the wider.

**`Windows_proofs`**, of the surfaces (`TypeCorrect`, `OneInTheForeground`,
`PrivateLeavesNothing`, `PersistentDataAreKept`). The type invariant is
strengthened by `Unborn`: ids stay within the bound and the persistent data hold
nothing of a surface not yet created, or a private one could be born with
another's data.

Of the windows (`GrantsAreTheMembers`, `WindowsTakeTheirSurfaces`). For the
first, `RecordedByTheMember` is about what is *recorded* rather than granted,
since a capability a platform cannot deliver may be deliverable after a restart;
with it goes that the disk is the persistent scope's, but while a save is owed,
was refused, or an opening did not read the file. For the second,
`SurfaceInv`: a window's surface has the window's id, since the two are minted
together, and the count of views is the cardinality of the open ones.

**`Stores_proofs`**, of the bookmarks (`BookmarksAreATree`, `BatchIndexIsTrue`,
`FileIsTheStore`). Each operation makes a sound tree of a sound one (`Sound`: a
tree whose next ids are free), also the reading of any file: what `Opened` makes
of a file of whatever soundness is sound. `BookmarkInv` adds that the copy a
batch keeps is as sound and is what the file holds while the batch runs, which
makes taking it back safe; that the index, where a batch has one, is what a scan
finds goes along operation by operation.

Of the import (`FailedLeavesNothing`, `NothingIsImportedTwice`,
`WrittenStaysWhole`, `ErasedStaysGone`). `ImportInv` says whose rows the history
holds and under which serials, which of them the file has, and, stage by stage
of `write_imported`, what the run under way has written so far (`JobInv`,
`TraceInv`): before its history is written a run has no row, in memory or in the
file, and after an undo it has no folder. That a row read back is not imported
again needs that memory and file agree on a row's millisecond.

Of the suggestions (`SuggestionsStayBest`). By induction over what is offered,
the map holds for each page met the best offer so far (`HeldIs`), where a better
source counts before a better score (`BetterIs`: no score makes up for a
source, since a match adds at most `MaxBonus`). That a sorting exists is proved
too (`Sorted` chooses one), so the first of the sorted candidates leave nothing
better out.

**`DefaultBrowser_proofs`** (`TypeCorrect`, `ListingsAreWhole`, `ListedOnce`).
`OrderOK` says, stage by stage of a call, which values are already written and
which pointers are still to go; `OnceInv` that each pointer is filed under the
folding of its name (`Spelled`) and that what a registration has written so far
is under the one name it was called with.

**`Snapshot_proofs`** (`ReasonsAreTrue`, `CopiesAreOfOneMoment`,
`RowsAreOfOneMoment`). The first is of `RefusalIsTrue`. `Steady`: until the browser
writes, whatever has been read of the store is what it holds, so no
comparison fails and Busy is never said. `CommitInv`: once the first fingerprint
is held, a commit leaves a mark no later fingerprint can miss (`Gone`). When the
fingerprint found a transaction open, its number is never the open one's again;
when it found none, the one that commits put its number on some page, and what
is written over it or put back there later is newer than the fingerprint. That a
transaction put back leaves the mark in place needs the journal's contents in
the invariant, and that one that committed wrote something needs `StoreInv`'s
last conjunct.

The second is of `AcceptedIsOfOneMoment`, and rests on `MomentInv`. In
write-ahead-log mode nothing overwritten comes back, neither a page, nor a frame,
nor a salt (`LogInv`): so what was copied is what was committed when the second
read began, or some part that read has yet to compare will be found different
(`LogTake`). In rollback mode the journal does put a page back. `JournalInv` says
of each page that it is as committed or as the open transaction left it, with the
committed version in the journal; `JournalTake`, that the copy is of one moment,
or holds a page that will never be in the store again (`Lost`), or may be just
what the open transaction commits (`Pending`). `SealedInv` carries an accepted
copy on. The interleaving of `snapshot.rs:29-36` is excepted by `~escape`, as in
the run.

The third is of `RowsOfOneMoment`, and adds `WalkInv`: the rows read, followed by
those below each page on the stack, top first, are the table's. A page visited
gives its own rows and puts its children in its place, so the whole is unchanged
(`WalkVisit`); the walk ends with the stack empty. That needs what the recursion
over the tree returns at each level (`RowsInIs`) and that flattening a
concatenation concatenates (`FlattenConcat`).

What the theorems assume of the constants is in the `ASSUME`s of the modules:
numbers are numbers, markers such as `NoTab` or `NoFile` are none of the values
they are apart from, what is read back of a saved address is an address of the
same kind (`ReadBackAssumption`, `ApartAssumption`), the places of addresses as
text are distinct, a page of a store holds a sequence of children and of rows
(`NodeAssumption`). TLC evaluates each of them in a run.

## 7. Only model-checked

* Liveness: `AcceptedJobsFinish`, `DropReturns`, `UncommittedLoadResolves`,
  `CallsReturn`, `TakeEnds`. The prover has no rules for fairness.
* That the `Faithful` texts, and no others, are read back as they were
  (`FaithfulAssumption` of `MCSessionStore`): all texts of up to 4 characters.

## 8. Not modelled, and why

* Profile (`profile.rs`): a settings value saved as the session is.
* Hand-off (`handoff.rs`): a choice and a command line at the member's action;
  no state between calls.
* Update schedule and wake: pure functions, the first without a caller at this
  commit.
* Browser formats, JSON, TOML beyond the escapes, SQLite's records, schema and
  overflow chains: parsing, without an order of events. The import takes rows
  as an input, the scan a page's children and rows.
* Omnibox, keymap, site key, theme, scaling, search provider, brand,
  localisation, errors and logging: pure functions over text or settings.
* The chrome crate: a trait and a recorder. The network crate: an enumeration
  enforced by types.
* The repository's scripts: not part of the program.
* Within modelled components: zoom and find state, titles, saved times, byte
  counts, names of folders; messages between a page and its application, which
  are queues of payloads no other state depends on; the rule compiler of the
  content policy; `drain_results`'s assertion that it runs on the UI thread (the
  model has one).
* Unit tests and the conformance suite are not modelled; the invariants the
  suite states are where several of the engine's properties come from.
