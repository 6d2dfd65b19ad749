# BrainVault: a TLA+ verification development

BrainVault is a self-hosted workspace of pages made of blocks.  Its server is
a Node process in TypeScript over a MySQL/MariaDB database, its client a browser
application.  Most of it is request, transaction, answer.  The part whose
correctness does not show in any single request is live collaboration: a page
can be edited by several accounts at once through a Yjs document, whose update
log lives in the database, whose current state is cached in the memory of the
process that serves it, and whose content is periodically written back to the
ordinary `blocks` table, so that the log can be thrown away when sharing ends.
This directory models that part first.  It then follows the other places where several actors meet
over state none of them owns: the tabs of a browser that save one block, the tabs that must stand
still while a page is deleted, the pool of validation workers, and the restore of a backup over files
and rows.

Paths below are relative to the repository.

## 1. Inventory

| Part | Where | State it keeps | Operations |
|---|---|---|---|
| Live collaboration hub | `src/lib/collaboration-server.ts`, `collaboration-protocol.ts`, `-update-policy.ts`, `-bootstrap.ts` | rooms (Yjs state, cursor into the log, clients, bootstrap leader, write queue), loads in flight, cached access verdicts | load a room, admit a client, validate / commit / publish an update, compact, invalidate, elect a bootstrap leader, recheck access |
| Durable log | `page_yjs_updates`, `page_collaboration_state`, `page_collaboration_write_leases`; `collaboration-lineage.ts`, `collaboration-write-lease.ts` | update rows, document epoch, materialization checkpoint, leases | create or delete a lineage, insert, compact, reserve and release a lease |
| Sharing | `routes/collaboration.routes.ts`, `routes/collection-sharing.routes.ts`, `page-access.ts`, `collaboration-quarantine.ts`, `recovery-candidates.ts` | direct and collection grants with generations, recovery vault of the owner | grant, revoke, change permission, start or end a lineage, quarantine |
| Materialization | `routes/collaboration.routes.ts` (PUT snapshot), `collaboration-materialization.ts` | blocks, checkpoint | copy the log, replay it, rewrite the blocks |
| Page lifecycle | `routes/page.routes.ts`, `page-*-mutation.ts`, `page-version-history.ts` | page tree, archive flag, receipts of idempotent mutations, versions | create, move, archive, restore, delete, reset to a version |
| Block mutations | `routes/block.routes.ts`, `block-*-mutation.ts` | blocks, edit versions, receipts | create, edit, move, delete |
| Update worker pool | `collaboration-update-worker-pool.ts`, `yjs-validation.ts` | slots, queue, byte accounts | submit, dispatch, time out, respawn, close |
| Browser session | `public/collaboration.js` | Yjs document, pending updates, recovery flag, reconnect timer | connect, bootstrap, send, acknowledge, reconnect |
| Browser persistence | `public/save-queue.js`, `draft-store.js`, `collaboration-recovery-store.js`, `indexeddb-recovery-storage.js`, `page-transition-lock.js` | unsaved edits, draft and recovery records, cross-tab locks | save, retry, discard, compare and remove, take over |
| Authentication | `routes/auth.routes.ts`, `mfa.routes.ts`, `passkey-login.routes.ts`, `auth-sessions.ts`, `login-lockout.ts`, `totp-ip-block.ts` | sessions, tombstones of revoked sessions, failure counters | log in, step up, revoke, lock, decay |
| Data transfer | `data-transfer.ts`, `data-import-admission.ts` | restore journal, staged files, admission slots | export, import, restore, recover after a crash |
| Attachments | `attachments.ts`, `attachment-upload-admission.ts`, `custom-icons.ts` | files beside rows, admission counters | upload, move, delete, reconcile |
| Process level | `application-instance-lock.ts`, `db.ts`, `bounded-rate-limit-store.ts`, `websocket.ts` | instance lock, transactions, rate counters, frames | acquire, heartbeat, commit, time out |

How they interact.  A browser opens a WebSocket; the hub checks access, finds or
loads the room, and sends state and cursor.  An update goes from the socket to
the room's write queue, to a validation worker (awaited), to the database for a
lease (awaited), to the database for the commit (awaited), back into the
room, and out to the other sockets.  Share, move, archive and
materialization requests never touch a room directly: they lock the page row,
decide from the database, and afterwards ask the hub to close what is stale.
Two processes can be attached to one database for a while, because the
instance lock is checked by a heartbeat (`application-instance-lock.ts:57`).

What is hard: every `await` above is a window.  Between any two of them another
process may compact the log, a request may end the lineage or start the next, a
COMMIT may get lost, a process may die, a lease may expire.  A cached room can
become old without hearing of it.  And history is *deleted*, on the strength of
flags that say it is safe elsewhere.  `PROJECT.json` lists the hazards at their
lines, with the property that would notice each, or why none does yet.

What makes each part correct:

* log and rooms: an acknowledged edit survives compaction, crash, reload, an
  uncertain COMMIT and a second process; a room never shows what is not durable,
  and a room at the newest row is the replayed log;
* sharing: collaboration is on exactly while the page is shared; no destructive
  request runs under an admitted write; nothing is deleted that is nowhere else;
* materialization: the checkpoint tells the truth and never empties blocks;
* session protocol: one client bootstraps a document, nobody waits for ever;
* worker pool: every task settles once, accounts return to zero, no starvation;
* page and block mutations: a repeated request has the effect of one;
* save queue and drafts: the newest edit is saved last, and no text is lost or overwritten unseen;
* transitions: a destructive operation meets no unsaved edit, and an abandoned one locks nobody out;
* sessions: a revoked session is never admitted again;
* restore: after a crash the workspace is the old one or the new one.

## 2. Modules

| Module | What it is |
|---|---|
| `CollaborationDocument` | one page: its log, lineage, grants, leases, rooms, sockets, writes and materializations |
| `CollaborationBootstrap` | the browsers that open a newly shared page, the room's bootstrap leader, and the connections between them |
| `SharedDocument` | what collaboration promises about a page, without servers |
| `TextRegister` | what saving promises about a block, without tabs, queues and requests |
| `WorkerPool` | the pool of validation workers: admission, accounts, queue, dispatch |
| `BlockSaving` | one block of a private page, edited in several tabs: rows, drafts, save queues, edit versions |
| `PageTransition` | destructive operations against the editors of all tabs: Web Locks, leases, storage events |
| `RestoreJournal` | restoring a backup: renames, transaction, journal, recovery, beside uploads and deletions |
| `MCCollaborationDocument`, `MCWorkerPool`, `MCPageTransition` | instances, and state constraints, for TLC |
| `CollaborationDocumentProofs` | theorems about `CollaborationDocument`, and that it implements `SharedDocument` |
| `SharedDocumentProofs` | the promise of the abstract specification |
| `WorkerPoolProofs` | theorems about `WorkerPool` |
| `RestoreJournalProofs` | theorems about `RestoreJournal` |
| `PageTransitionProofs` | theorems about `PageTransition` |
| `CollaborationBootstrapProofs` | theorems about `CollaborationBootstrap` |
| `BlockSavingProofs` | theorems about `BlockSaving` |
| `SequenceFacts` | lemmas on sequences without repetition, for the proofs about queues of locks, editors and messages |

The first module looks at the database and the processes, the second at one room and its
sockets.  They meet in the log: a `Connect` of `CollaborationDocument` is the admission and
synchronization that `CollaborationBootstrap` takes apart, and a write of the one is a
committed or failed write of the other.  Both use the worker pool: in `CollaborationDocument` a
replay or a validation ends or fails at any time, which is what `WorkerPool` shows of its tasks.
`BlockSaving` is the other way a text reaches the blocks table, by PATCH; `CollaborationDocument`
has it as `DirectEdit`.  `PageTransition` is the browser's side of the archive, move and deletion
requests and of a restore, and `RestoreJournal` the server's side of the last.

### State of CollaborationDocument

The database rows are `updates`, `lastInsertId` (the AUTO_INCREMENT), `documentEpoch`
(0 when there is no `page_collaboration_state` row), `materializedUpdateId`, `blocks`,
`vault`, the grants (as generations, 0 for none), `inCollection`, `isArchived` and
`leases`.  `removals` are requests that remove a collection grant and wait for the page: the account,
and the number of rows their snapshot shows.  Per server there is at most one room and one history load; the load is a variable
of its own because it outlives an invalidated room, just as the promise does in the code.
`writes` holds updates between validation and acknowledgement, with the copy of the room they
were validated against.  `acked` records what clients were told; nothing reads it.

Document content is the set of changes it contains.  Merging Yjs updates is union,
an update stored as a difference is set difference, the hash of a row is its
content.  That keeps what the properties tell apart: whether a change is in a row, in
a state, in the blocks.  It does not keep deletions inside a document or the
identity of a Yjs history (two histories with the same content); the second
is what `CollaborationBootstrap` is about.

### Actions of CollaborationDocument

A transaction is one step if it reads nothing plainly before it has the page row: it locks the user
rows it works for, then the page, and what it reads afterwards is current (the comments at
`collaboration-write-lease.ts:68` and `page.routes.ts:820` say why), so it is serialised by that
lock.  The removal of a collection grant is not like that.  It reads the collection's
owner plainly (`page-access.ts:233`), which fixes its REPEATABLE READ snapshot, and then waits for
the pages of the collection (`collection-sharing.routes.ts:895`).  It is two steps,
`BeginCollectionRemoval` and `RemoveCollectionShare`; the plain `COUNT(*)` of the quarantine
(`collaboration-quarantine.ts:53`) answers in the second what was true in the first.  In between
the user rows it locked (`:889`) keep other requests of the owner (`OwnerRowFree`) and the commits of the
removed account (`UserRowFree`) away, and nobody else.  What is awaited between
transactions separates steps:

* `OpenRoom`, `ReadHistory`, `FinishLoad`: `getOrCreateRoom`.  The copy is
  replayed without locks; the second transaction compares id and hash of
  every row and retries or gives up.  An oversized log is rewritten there.
* `Connect`, `Disconnect`, `DropRoom`: admission with the durable recheck of an
  idle room; closing of sockets; eviction, invalidation and access recheck.
* `ValidateUpdate`, `ReserveLease`, `CommitWrite` (or `LoseCommitOutcome`,
  `AbortWrite`), `ReleaseLease`, `FinishWrite`: `persistUpdate`.  `Verdict` lists the checks
  of the commit transaction in the code's order.  `AckNoChange` is its early return.
* `AddPageShare`, `RemovePageShare`, `AddCollectionShare`, `BeginCollectionRemoval` with
  `RemoveCollectionShare` (which takes the collection and direct grants that descend from the removed
  one along, any set of them) or `AbortCollectionRemoval`, `MovePage`, `ArchivePage`, `RestorePage`, `DirectEdit`: the REST requests, each with
  its refusals.  Their request to the hub afterwards is `DropRoom` or `Disconnect`,
  separate steps that may come at any time or, after a crash, never.
* `CopyHistory`, `Materialize`, `AbandonMaterialization`: the two transactions of
  PUT `collaboration/snapshot`.
* `ExpireLease`, `Crash`: time and failure.

Initially the page is private, or it was shared by an older build that left the rows
`LegacyUpdates`, with materialization checkpoint 0.

### CollaborationBootstrap

`log` is what the room holds and the database has; `room` is the bootstrap part of a `Room`
(leader, whether its timer runs, `bootstrapWritePending`, waiters in order, synced clients);
`queue` is its write queue; `clients` are the browsers' `CollaborationSession`s; `conns` has both
ends of every connection and the messages in flight each way.  A document is a set of items,
and each Yjs document that is built from the page has an item of its own
(`initializeFromPage` runs in a client's n-th `Y.Doc`), so two copies of the page differ.

Server: `Admit` (end of `handleUpgrade`), `ServerReceive` (`handleMessage`), `StartWrite` and
`FinishWrite` (`enqueueRoomWrite` around `persistUpdate`; it ends in `AcceptWrite`, `FailWrite`,
`RejectBootstrap` when the page changed, or `LoseCommitOutcome`), `LeaderTimeout`,
`NoticeClientGone` and `HeartbeatTimeout` (`handleClientClose`).  Browser: `Connect`, `ClientReceive`
(one message, or the close frame), `LoseConnection`, `NoticeServerGone`, `Edit`.

The two ends of a connection close separately.  After `LoseConnection` the server may still read
what was sent; after a close frame the browser may still send what nobody reads.  A
connection of the model is used again only when nothing refers to the old one, because every
connection of the code has a new identifier.  The whole admission after the room is loaded is
one step, as is publishing an update with the release of the waiters.

`room.waiting` is a sequence without repetition (the code's `Set` keeps the order of insertion, and
`Without` is its `delete`).  `Promoted` takes from it whoever is no longer open until it finds one who is;
`Demoted` puts the leader back only while the server's end is open; `Released` synchronizes only those
still open.  `rejected` is a history variable: some first document has differed from the page.

### WorkerPool

`queue`, `slots` (the `activeTask` of each slot), `accounts` and `closed` are the fields of
`CollaborationValidationPool`.  `work` is what the thread behind each slot has been handed, and
`pending` the promises not settled; the two let a property say what a late answer could do.
`Submit` is `admitTask` and the push; `HandleMessage`, `Timeout`, `WorkerDies` are the three
handlers around `failWorkerSlot`; `Close` is `close`.  `dispatch` is one step per slot (`Pass`,
`Assign`, `PostFails`, `Return`), because `postMessage` may throw inside its loop, and
`failWorkerSlot` then calls `dispatch` again under the first call: `calls` is that stack, each
call with its slot and with the two flags it computed when it began.  Nothing else runs while the
stack is not empty, as on one thread.  Requests are made again and again, so a steady stream is a
behaviour.  Left out: workers are there from the start (the code makes them at the first request),
refused requests leave no trace, `new Worker` does not throw, a malformed answer is a `Fail`.

### BlockSaving

One block of a page that is not shared.  A text is the number of the edit that typed it.  `log` has
the versions on the server, `drafts` the journal of the browser (one record per page load, as its
keys are), `tabs` per tab the row, its edit revision and base version, its origin in a recovery, the
timer, the saves before the durability barrier (`admitting`) and the block's `LatestWriteQueue`
(`retry`, `pending`, `run`), and `wire` the requests the server has not processed.
Actions: `Open` (GET, `applyPersistedPageDraft`, `activatePersistedPageDraft`), `Close`, `Rebuild`
(rows rendered again), `Type` (`markBlockDirty`), `Save` and `TimerFires` (`saveBlockRow` up to the
barrier), `Admit` (after it: into the queue), `Patch` (the whole handler, its replay check
included), `ReceiveSaved`, `ReceiveConflict`, `LoseAnswer` (what the writer does with each
outcome), `Flush`, `StartOrder`, `Reorder`, `OrderAnswered` (a reorder and the versions its answer
brings).  The field `seen` is what the code does not have: the newest version whose
text the user had before them, or agreed to overwrite.

### PageTransition

A tab that has a page open for writing holds the shared writer locks of the page and of its owner's
workspace (`activePageWriterSession`: `session`, which acquires them one after the other).
`withPagePersistenceTransition` is `Begin` (exclusive locks, lease in localStorage, the
tab's own session told to stop), `Drained` (the session has saved and let go, the exclusive writer
lock is asked for), `GiveUp` (ten seconds), `Act` (the lock is granted; for a workspace, leases of
other pages are swept or are in the way), `Finish`.  The other tabs have
`HandleStorageEvent`; `FlushSession`, `FlushFails` and `ReleaseSession` are
`stopPageWriterSession`.  Leases `Expire`, are renewed late (`Renew`), and are reaped under the
exclusive locks (`Reap`).  `Crash` takes a tab's locks and leaves its lease, `SignOut` releases the
lease under a transition that still runs.  `writers` are the queues of Web Locks requests: the
browser grants in order, shared requests together.  Everything a tab does ends in `syncPageModeUi`
(`Becomes`), which starts or stops the session.

### RestoreJournal

One account with two areas of files, attachments and icons.  On disk: the live directory of each area
(`target`), the one renamed aside (`old`), the staged one (`staged`), each with the generation its marker
file names, and the journals.  `db` has the rows, the files retained without a row, and the markers
the transaction of a restore inserts.  `lock` is the lock on the account's row, shared by restore,
recovery, uploads and deletions.  `job` is the restore in progress or its recovery, step by step:
`Stage` ... `SendCommit` and the outcomes of a COMMIT, then `RecoverBegin` and the cases of
`recoverTrackedRestoreDirectory`, one action for each (`DropPrevious`, `KeepLink`, `RemoveBegin` ...
`MoveBack`, `RemoveAdded`, `Unmark` ...).  `Crash` ends the process between any two of
them; `RecoverAtStart` does the same for every journal before `Listen`.  A failed call
to disk or database may come anywhere, at most `MaxFaults` of them with the crashes.

`SweepEntry` is the cleanup of old temporary files (`cleanupStaleDataTransferTempFiles`).  It lists the
operation roots that have no journal and removes the old ones, so a root may be listed before its
journal is written and be removed, entry after entry, while the restore renames its directories
into place.  Two history variables record what it took: `swept` the files of each restore, and
`db.lacking` those that were missing when a restore committed.  The code has neither.

Definitions whose comment begins with "Fault" are not part of the specifications.  Each is a
mistake this code could contain, beside the definition it would replace; `PROJECT.json` pairs
every checked property with one that breaks it.

## 3. Runs

| Run | Question | Instance |
|---|---|---|
| `document_lineages` | Do lineages follow sharing, do leases protect them, does history survive every request, is an oversized log compacted without loss? | two users (one of them a client) and the owner, one server, one write, direct *and* collection grants, moves, archive; a log of 3 legacy rows with room for 2; 2 lineages, 2 grants, 2 more rows |
| `document_two_servers` | Do acknowledged edits stay through compaction, lost COMMITs and reloads? Can two processes serve one page? Does the log implement `SharedDocument`? | two servers, two clients, a log of one row and two more to come, room for 2 |
| `document_move_retained` | (violation) does the move of an unshared page keep retained history? | as `document_lineages` with one user, from an empty log, one row |
| `bootstrap_session` | Does a newly shared page get its history, does everyone end with it, and does every editor get to edit, whatever one failure does? | two editors, or an editor and a reader; three connections, one loss or failed write, one slow leader, one editor types |
| `bootstrap_two_histories` | (violation) does waiting prevent separate initial histories? | two editors |
| `bootstrap_reader` | (violation) the same for a reader | one editor, one reader, no failure |
| `saving` | Is a text ever lost, or overwritten unseen? Do saves end? | two page loads (two tabs, or one reloaded), two texts, two saves, one lost answer, one reorder or rebuild |
| `saving_reorder` | (violation) does a reorder of other blocks keep the text saved by another tab? | as `saving`, the reordered list without the block |
| `pool` | Do accounts match, is the second worker reserved, is everyone served? | one or two workers, five validations and two histories, two of the validations of one account and two expensive |
| `transition` | Does a transition act alone? Do leases stand and editors return? | two tabs, one page, its workspace, one crash or sign-out |
| `restore` | Do files and rows agree after every recovery? Is anything lost on the way? | two restores, one upload, one deletion, two faults, of which one may be a cleanup that reaches the staged icons |
| `restore_recovery` | (violation) does recovery finish by itself? | one restore, two faults |

The bounds `MaxUpdateId`, `MaxEpoch` and `MaxGeneration` appear in the guards of `InsertUpdate`,
`ReplaceLineage` and `NewGeneration`.  They are enough in this sense: a stale room,
load, write or materialization needs one row, lineage or grant before it and
one after; the second lineage lets a lease, a room or a copy outlive the first.
`RetainedEntries` is 2, and `MinSnapshotEntries` 1, or 2 in `document_lineages`, so that compaction happens
within three rows (the code has larger values and only compares with them).  A write compacts the log in
both of the first two runs; compaction at load (`CompactedAtLoad`) needs a log beyond the limit, which only
`document_lineages` begins with.  What a load of one server does to a load or a room of another one, which sees
the log rewritten under the same newest id, is therefore shown by the theorem `RoomsAreConsistent` (for every log,
limit and number of servers) and by no run.
The second user of `document_lineages` is the account whose collection grant is removed while the
first one, whose grant descends from it, writes.  The proofs below need none of these bounds.

In the bootstrap runs two editors are a leader and a waiter, and the third connection lets one of
them come back while the server still has its old one.  `MaxFailures` and `MaxTimeouts` say that
things go wrong finitely often, which a liveness property needs in any case; a failure may
come at every point of the protocol.  They are the only bounds: a document, a queue and a
channel stay finite because an editor types once (`Typists`).  `CHECK_DEADLOCK` is off there: the
system rests when all is delivered and typed.

`RoomsAndWritesOnly`, which includes `DirectSharesOnly`, is a state constraint that keeps
`document_two_servers` away from collections, archive and materialization, whose
interplay with rooms and writes `document_lineages` explores.  That run uses symmetry of
servers and write identities.  `CHECK_DEADLOCK` stays on
in the document runs: in every reachable state something is enabled.

`saving`: a conflict needs two tabs and two texts, a newer edit under a save two texts and two
saves.  A lost answer comes before or after the server has processed the request.  `OrderLists` is
`{"own"}`: the list that is reordered has the block, so its row is locked meanwhile; with
`{"other"}` TLC finds the overwrite of `saving_reorder`.  `RebuildsInFlight` is FALSE: the editor's
rows are built again only when no save is under way (see section 5 for what TRUE shows).
`restore`: two faults are a crash in a recovery from a crash; a second restore meets the journal of
the first; `Previous` and `Backup` share the name `x`, which the user may delete.  A cleanup that
reaches a restore counts as a fault when it takes its first entry.  `Sweepable` is the icons there: of the two
areas it is the one whose files a listing also looks at; in `restore_recovery` it is empty, so that what
that run finds is found without a cleanup.
`pool`: `MaxTasks` is 5, so that both slots are busy with three tasks of any kinds behind
them.  `transition`: one page and its workspace are two scopes that overlap, and the
page's name sorts before the workspace's, so that the locks are acquired in that order.
The safety invariants also hold with two pages whose names are on either side of the workspace's
(5.7 million states, four minutes; too long to stay in the runs beside the liveness property).
`MaxLosses` is 1: a crash or a sign-out may come at every point.  `CHECK_DEADLOCK` is off where a
system that has done all it may is at rest.

### Fairness

The document runs state none and check no liveness: persistence has none to offer (every
request may fail).  `CollaborationBootstrap` assumes weak fairness of

* `Connect` of each client: `scheduleReconnect` sets a timer after every close;
* each browser's end of a connection, that is to read what arrived or to notice that the server
  is gone, and each server's end likewise: sockets deliver in order and both ends have event
  loops; the heartbeat closes what no longer answers;
* the write queue: it is a chain of promises whose every link has a time limit (worker, transaction).

Nothing is assumed of `LeaderTimeout`, although the code sets a timer for it: no property may
depend on a client being slow.  Nothing is assumed of typing, losses and failures.
`EditorsBecomeReady` has the condition that no leader was too slow.  Without it the property is
false, and the runs' state space shows why: a leader that is demoted while its document is in
flight has that document dropped with `COLLABORATION_NOT_SYNCED`
(`collaboration-server.ts:1194`), a message the browser only displays.  It goes on counting the
update as pending, so it is not ready when its successor's history arrives, until its connection
happens to be replaced.

`WorkerPool` assumes that a call of `dispatch` returns, and of each slot strong fairness of its
task's end: every task has a timer, whose callback runs between two calls whatever else arrives.
`HistoriesServed` has the condition that validations do not overtake for ever, because `takeNextTask`
prefers them by design; what the property then shows is that no path forgets to look at the queue.
`BlockSaving` assumes that a save gets past the durability barrier, that a request whose answer is
awaited is processed, and that the tab takes the answer.  Timers are not assumed to fire:
`SavesEnd` speaks of saves that have begun.  `RestoreJournal` assumes that a job goes on, that the
database answers, that transactions end, that a stopped process is started, and strong fairness of
recovery, which takes its turn for the lock with uploads.  `PageTransition` assumes of each tab that locks
are granted, saves end and events and timers are served (weak fairness), that a transition
whose lock is free again and again gets it (strong), and that leases expire.
`EditorsReturn` has the condition that at some time no transition begins any more: a user who starts
one after the other can keep an editor locked.

### What the violation runs show

* `document_move_retained`.  The owner shares a page, an edit is logged, the last
  share is removed while the recovery vault is full: the log stays behind as inert
  rows, as `collaboration-quarantine.ts:39-42` describes, to be dealt with by "a later
  lifecycle transition".  The move of that page into a shared collection
  (`page.routes.ts:2243-2250`) checks materialization and leases only if the page
  was shared before the move, and then deletes rows and state whenever it
  is shared before *or* after.  The retained history is gone.  Sharing the page
  directly instead (`StartLineage`) would quarantine it first.
  The neighbouring promise of `docs/collaboration/2026-07-29/collaboration.md:57`, that the last share
  cannot be removed before the newest update has been materialized, is not kept either: the code no
  longer insists, it quarantines the history, or keeps it, and revokes.

  The property that does hold is `ShareChangesKeepHistory`, of every request but this move and one more.
  Without its second exception, `LogCountedEmpty`, TLC finds the following in the instance of
  `document_lineages`.  A page has just got a new lineage and its log is empty.  The removal of an account's
  collection grant begins and fixes its snapshot.  An account whose grant descends from that one
  and whose user row is therefore not locked bootstraps the page and edits it; both rows are committed and
  the lease is released.  The removal goes on, takes both grants, reads the newest row with a
  lock, finds that it has not been materialized, and asks for quarantine.  The plain
  `COUNT(*)` says 0, so there is nothing to keep (`collaboration-quarantine.ts:53-63`), and the rows are deleted
  (`collection-sharing.routes.ts:536`) with no copy in the vault.  The comment at
  `collection-sharing.routes.ts:497-500` describes the snapshot and why the newest row is read with a lock;
  the count is read without.  If the log was not empty at the beginning, the count differs from
  the rows found, the quarantine answers false and the rows stay.
* `bootstrap_two_histories`.  `docs/collaboration/2026-07-29/collaboration.md:37` says waiting
  prevents separate initial histories.  A leader that times out has built a Yjs document from
  the page and sent it.  Its successor bootstraps, the old leader is synced with the rest
  (`collaboration-server.ts:1774-1787`), and its own first document, still in flight, is now
  accepted as an ordinary update: only the first row of a lineage is compared with the
  page (`collaboration-server.ts:1629`).  The same happens when a leader's connection is lost and it
  sends its document again after reconnecting (`collaboration.js:1650`).  The property that does
  hold is `OneHistoryUndisturbed`: without a loss or a timeout no interleaving produces two.
* `bootstrap_reader`.  A reader does not wait: it is told to build a document from the page
  (`collaboration-server.ts:888-899`), to which the leader's history is then added.
* `saving_reorder`.  Tab A reorders a list of the page while tab B saves a text of a block that is
  not in it.  The answer holds every block with its version; `submitBlockOrderTask`
  (`app.js:17138-17161`) puts them all into the state, but the rows are not rendered again.  The next
  edit in A's row, which still shows the old text, is saved on top of the new version and
  no conflict is reported.
* `restore_recovery`.  A restore fails after its directory went live, and while recovery removes that
  directory with one recursive `rm` (`data-transfer.ts:3465`) the process crashes, the marker file
  gone and other files not.  The next start finds a directory that nobody claims, throws,
  and does not listen.  `restore` has the other three ways to get there, each of them necessary for
  `HelpOnlyAfterMishaps` ("superseded": a second restore begins while a journal waits; "torn": this
  one; "recreated": an upload makes the directory anew between two renames; "unmarked": the cleanup of
  temporary files has taken the marker of a staged directory that is then renamed into place).

  That cleanup has a milder effect, too.  `data-transfer.ts:3655-3671` protects the roots whose journal is there when
  it lists the directory.  A restore that stays long enough before its journal (the root must be older than
  `ATTACHMENT_TEMP_MAX_AGE_MS`, a day unless configured, one minute at least) can be listed, write its
  journal, lose some files of the staged directory, rename the rest into place and commit.  Rows and
  files then disagree with no journal left.  `NothingIsLost`, `SettledWorkspace` and `LibraryKept` except
  exactly the files the cleanup took (`db.lacking`); without the exceptions TLC finds the violation.

## 4. Proofs

`CollaborationDocumentProofs` proves, for every set of accounts, servers and changes and
all values of the bounds:

| Theorem | Statement |
|---|---|
| `Invariance` | `Spec => []IInv` |
| `TypeCorrect` | `Spec => []TypeOK` |
| `RoomsAreConsistent` | `Spec => []RoomsFollowLog` |
| `AcknowledgementsHold` | `Spec => []AckedEditsDurable` |
| `CheckpointIsHonest` | `Spec => []CheckpointHonest` |
| `SharingHasLineage` | `Spec => []LineageMatchesSharing` |
| `LeasesProtect` | `Spec => []LeaseProtectsLineage` |
| `HistorySurvives` | `Spec => ShareChangesKeepHistory` (with its two exceptions, see section 3) |
| `MaterializationIsSafe` | `Spec => MaterializationKeepsBlocks` |
| `Refinement` | `Spec => ImplementsSharedDocument` |

and `SharedDocumentProofs` proves `PromisesAreKept`: `Spec => []PromisesKept`.

The assumptions are the three named ones of `CollaborationDocument`: the owner is not one of the
users it shares with, limits and bounds are naturals, and the legacy log is a
finite set of rows with distinct ids.

None of the properties is inductive.  What they need besides is that time only
moves forward for whoever holds an old copy.  `IInv` says, for every copy a
process holds (the room, the room inside a write, a load, a materialization): its
epoch is not newer than `lastEpoch`; within the current lineage its cursor is not
beyond the newest row, its content is part of the replayed log, and if it is at the newest
row it is equal to it.  From this the checkpoint comparison in `CommitWrite`
means what it is meant to mean, although it compares one row and not the log: a
room whose cursor equals the newest row holds the whole log, so storing its state
in place of the log loses nothing.  Compaction at load keeps the id of the
newest row, and `IInv` keeps ids fresh, so a cursor cannot come to match
a different log by accident.  The content of blocks enters through the
checkpoint: it is only moved by `Materialize`, which writes the replay of exactly the
rows it compares, and block mutations are refused as long as a page is shared.  For
`MaterializationKeepsBlocks` the invariant carries that while the page is shared and has
history, the blocks are part of the replayed log.

`HistorySurvives` needs no more of a waiting removal than the type of its count: if the count is neither 0 nor the
number of rows, the quarantine fails and `Retained` keeps everything; if it is the number, the vault gets the replay;
if it is 0, the log is empty or the step is the exception.

The proof that a step preserves `IInv` has a lemma per action and, where an action
disturbs several conjuncts, a step per conjunct.

`WorkerPoolProofs` proves about the pool, for every set of requests, all sizes and limits, and one
worker or two:

| Theorem | Statement |
|---|---|
| `PoolInvariance` | `Spec => []IInv` |
| `PoolTypeCorrect` | `Spec => []TypeOK` |
| `TasksAreHeldOnce` | `Spec => []HeldOnce` |
| `SecondWorkerIsReserved` | `Spec => []OneOfAKind` |
| `NoSlotIdles` | between two calls, an idle slot has no waiting task it could take |
| `AccountsAreTasks` | `Spec => []AccountsMatch` |

The assumption is `PoolAssumption`: requests have an account and a size, expensive requests are
validations, there are one or two workers, limits are naturals.

`HeldOnce` is nearly inductive; `OneOfAKind` is not, because of the call of `dispatch` inside
`dispatch`.  After an exception the inner call fills slots, and the outer one goes on with the flags
it computed before: if it could hand out anything, it might start a second history.  The invariant
says why it cannot.  A call is `Fresh` (its flags are what the slots say, and it has left no slot idle
behind it that could take a task) or `Spent` (it hands out nothing to the slots it has left).  Of the
calls on the stack only the last may be `Fresh`, and when none is, the pool is `Quiet`: no idle slot
could take a task.  An interrupted call becomes `Spent` for this reason: it still has an idle slot
before it only if both slots were idle, and then the waiting tasks are `Alike` (one at most, or all histories,
or all expensive validations), since the slot freed last had been holding them up.  The call already counts
the task it failed to hand out as running, so it takes none of its kind.
`Quiet` is also `NoSlotIdles`: no task waits for a slot that nobody looks at again.

`AccountsMatch` needs an invariant beside `IInv`, `AccountsOf(pending)`: what is counted are the tasks and bytes
of exactly the requests without an answer.  By `HeldOnce` those are the ones that are held.  It follows that
`releaseTaskAccounting` never has to cut off a negative number at 0: a path that
gave back twice would be hidden by that and not noticed, and there is none.  A sum over a set is written as
the number of its bytes, each told from the others by its request and its place (`BytesOf`), because the theorems
on finite sets are about cardinalities.

`RestoreJournalProofs` proves about restores, for any files, backup, uploads, and numbers of restores,
deletions and faults:

| Theorem | Statement |
|---|---|
| `Sound` | `Spec => []IInv` |
| `RestoreTyped` | `Spec => []TypeOK` |
| `FilesKept` | `Spec => []NothingIsLost` |
| `WorkspaceSettled` | `Spec => []SettledWorkspace` |
| `HelpIsRare` | `Spec => []HelpOnlyAfterMishaps` |
| `OnlySeenReplaced` | `Spec => ReplacesOnlySeen` |
| `LibraryStays` | `Spec => LibraryKept` |

The assumptions are `RestoreAssumption` (areas are attachments and icons, retained files are in the backup,
an upload has a name of its own, bounds are naturals) and `NoneAssumption`.

`NothingIsLost` is far from inductive.  The live directory may have a file that is only there as part of a
restore whose COMMIT did not happen; recovery will remove that directory, so the file is not safe
there.  `Protected` counts differently: a file is safe in a live directory whose generation is not going to be
undone, or in a directory renamed aside by a restore that is; and a directory being removed counts for
nothing.  That this is kept needs the stages of a restore (`Moving`: nothing is committed unless both
directories are in place; when the marker of the COMMIT is written nothing has changed since), the stages of
recovery (`Putting`: whatever is removed is a part of the backup and there is another directory to put
in its place, whatever is finished with has nothing aside any more), who holds the lock (`Locked`), that a
restore not yet begun has left no trace (`Unbegun`) and that its rows are the ones shown (`SeenFits`).
`Tidy` is the part for `HelpOnlyAfterMishaps`: as long as no mishap is known, at most one journal
waits and recovery has a case for what it meets in each area.

The cleanup of temporary files takes two things from these arguments and gives an exception for each.  A staged
directory is complete but for what was swept (`Brought`, and `InPlace` for both areas once a restore is about to
commit), so the files owed after a COMMIT are the rows without `db.lacking`; and every staged directory, and what
it becomes, has its marker until the mishap "unmarked" says otherwise (`Marked`).

`PageTransitionProofs` proves about destructive operations, for any tabs, pages and workspaces and any order
of their names:

| Theorem | Statement |
|---|---|
| `Fits` | `Spec => []Inv` |
| `TransitionTyped` | `Spec => []TypeOK` |
| `TypedLocked` | `Spec => []TypedBehindLocks` |
| `AloneWhenActing` | `Spec => []ActsAlone` |
| `LeasesStand` | `Spec => []LeaseStands` |

The assumptions are `TransitionAssumption` (pages belong to workspaces, whose names are other names) and `NoneAssumption`.

The invariant says that the queue of each writer lock holds exactly what sessions and transitions have asked
for, and each request once: a session in a state its record names, an exclusive request only for the transition
that waits or acts.  A lock that was granted stays granted while others join behind or
leave, so a session that has acquired its locks and not released them still has them; what is typed is
typed in such a session.  Transitions of two tabs have no scope in common, and each has its lease in
its own name, because leases are written and taken away under the exclusive locks only, except by expiry, by their owner, and at sign-out.

`CollaborationBootstrapProofs` proves about the first history of a page, for any browsers, connections, editors
and any number of failures and slow leaders:

| Theorem | Statement |
|---|---|
| `SessionsTyped` | `Spec => []TypeOK` |
| `NobodyWaitsInVain` | `Spec => []WaitersAreServed` |
| `OneHistoryWhileCalm` | `Spec => []OneHistoryUndisturbed` |

The assumption is `SessionAssumption` (typists are editors, editors are clients, `NoConn` is nobody).

The invariant has two layers.  `Base` holds whatever goes wrong.  While the log is empty, `Early`: the
only messages that travel to clients are those of the bootstrap itself, no editor is ready, and
of the editors only the leader is synced, so that no update but a first document can be accepted.
`Served` adds to `WaitersAreServed` whose writes the queue has.  It needs `Once`: unless a leader was too slow,
an editor's connection is told to build a document at most once and has written nothing before, so it has at most one first
document on the way, in a channel or in the queue.  `Undisturbed` is for states before the first failure: all
connections are steady, and before the first history is logged only the leader's session has a document,
the first one of its client (`Before`); afterwards that one is the only one in any channel, queue or session (`After`).
An update whose connection is lost, a rejection or a change of leader leads out of these
states and not to a second history, which takes one of them.

`BlockSavingProofs` proves about the saves of one block, for any number of page loads, texts, saves, lost
answers and interruptions:

| Theorem | Statement | Under the condition |
|---|---|---|
| `SavingIsSafe` | `Spec => []Safety` | none |
| `TypesHold` | `Spec => []TypeOK` | none |
| `ConflictsHold` | `Spec => ConflictsAreReal` | none |
| `NothingIsOverwrittenBlindly` | `Spec => []NoBlindOverwrite` | lists that are reordered have the block |
| `NoEditIsLost` | `Spec => []EditsKept` | no row is built again during a save |
| `TheNewestTextWins` | `Spec => []NewestWins` | both |
| `SavesAreWrites` | `Spec => ImplementsRegister` | both |

The assumptions are `SavingAssumption` (bounds are naturals) and `NoneAssumption`.  The conditions are
`OrderLists \subseteq {"own"}` and `~RebuildsInFlight`.  They are the values of the run `saving`, and what the program does
without them is a finding and not a gap of the proof: without the first, TLC finds the overwrite of
`saving_reorder`; without the second, `EditsKept` does not hold until a timer fires (section 5).

`Safety` is the invariant of the editor's queues, in parts.  `TabsFit`: what an open tab saves is based on the version it
knows, at most one request is awaited, a recovery nobody confirmed saves nothing, and a block is not reordered
while it is being saved.  `Bookkeeping`: drafts are not ahead of the server, and every task was a save begun.
`ClaimsFit`: what a tab asks the server for, in a task or in a request that is still on its way, is a *claim*; one
mutation id is one claim, and the version it made, if it made one, is the next after the version it was based
on.  This is why a repeated request is either answered as the replay of its own save or refused.
`WaitingFits`: a task that waits behind another was never sent.  `AnswersFit`: an answer names the version that
the task made.  `BehindFits`: a tab that knows an older version than the newest either was overtaken by somebody else or
waits for the answer that will tell it; `ConflictsAreReal` follows.

Three layers rest on `Safety`.  `SeenFits`: a claim covers every text up to the version it is based on, so that the version it makes
overwrites nothing unseen; the answer of a reorder brings versions that repeat a text and no new one, which is where
the condition on the lists is needed.  `EditsFit`: the draft of an open tab holds what its row
shows, and a task of the same revision has the same text, so that an acknowledgement that removes the
draft of its revision removes a text that is on the server; rows that are built again count revisions from 0,
which is where the other condition is needed.  `Typed` and `NewestFits`: unless somebody else has overtaken it, in which case its
save will meet a conflict, what a tab shows, keeps as a task and sends is not older than what it has saved
before, a waiting task is not older than the one it waits for, and every claim on the newest version is not older
than what its own page has saved.  So a retry of an old save cannot come after a newer one of the same page.

The versions then implement `TextRegister`: every step that adds one is a `Write` by a page that has seen all texts
before, the claim it answers being covered and not older than its page's own, or a `Touch` that repeats the newest
text, and no version is ever changed.  `ImplementsRegister` is only proved: its two guards are the invariants
`NoBlindOverwrite` and `NewestWins`, which the run `saving` checks.

Where the invariants were not inductive TLC and the provers showed states that the program cannot be in; in
one case the model can, see `WaitersAreServed` in section 5.  Each inductive invariant was checked by TLC
on an instance before it was proved.

Only model-checked: all liveness properties (`DocumentInitialized`, `EditsReachLog`,
`SessionsConverge`, `EditorsBecomeReady`, `ValidationsServed`, `HistoriesServed`, `SavesEnd`, `EditorsReturn`,
`RecoveryEnds`), which are out of the prover's reach (so are, in general, ENABLED, induction over
data and recursive operators); and the properties the violation runs refute, which are false.

## 5. What the modules leave out

`CollaborationDocument`:

* Permissions below edit (`READ`) and permission changes: an account can edit or cannot see.
* Permanent deletion of a page; the legacy materialization version; byte limits.
* Revocation of a login session: its effect on a write is `AbortWrite`.
* Presence and awareness; the choice of bootstrap leader: `BootstrapMatches` is checked
  whoever writes first, and `CollaborationBootstrap` has the rest.
* Who made a grant (`shared_by`).  The removal of a collection grant takes any set of others along,
  which includes the subtree that the code follows (`collection-sharing.routes.ts:277-392`).  A change of a collection
  grant's permission (`:712-866`), which may take the same subtree along, is left out with the other permission changes.
* Attachment blocks.  The files and blocks of a shared page's attachments are not in its update log: they are
  written by the routes of `block.routes.ts` and reconciled by the browser, and `blocks`
  here is the content that the log has a part in.
* One account has at most one socket and one materialization at a time, a server at
  most one load: a second one adds interleavings of the same kind.
* Publishing an update and acknowledging it are one step; nothing durable happens between.

`CollaborationBootstrap`:

* Local recovery records and edits made while disconnected: a session edits only when it is ready.
  `EditsReachLog` therefore speaks of edits that were sent.
* Attachments reconciled from the page, compaction, presence, rate limits, changes of permission or
  access while connected, a second process.
* Why the saved page differs from a leader's document: `RejectBootstrap` may happen to any first write.
* `WaitersAreServed` has the condition that no first document was rejected or no leader was too slow.  The proof
  attempt without it met the following, which the bounds of the runs do not reach (TLC confirms the violation of the
  unconditional property with one timeout and three failures).  It rests on two queued writes of one connection, which
  the model allows and the code does not: `websocket.ts:635-665` hands over one message of a connection
  at a time, and its handler waits for the write (`collaboration-server.ts:1257`).  The condition is thus weaker than the code needs, and the
  following is no statement about the program.  A leader that was too slow leads again
  and sends a second first document behind the first.  The first one is rejected because the page has changed, the next
  leader is promoted, and its document sets `bootstrapWritePending`.  Now the second one is rejected, which clears
  `room.bootstrapWritePending` without asking who leads (`collaboration-server.ts:1700`): there is a leader with neither
  a timer nor, as the room believes, a write.  If its connection was lost before, its write is dropped
  without promoting another, and those who wait go on waiting.  If the second document is accepted instead, a leader
  stays appointed for a document that has its history.

`BlockSaving`:

* Other blocks, titles, the queue of a deleted block, discarding edits, the branch for shared pages,
  going to another page and back within a tab, second attempts of a reorder.
* The mirror of the journal is the same in all tabs at once (the code mirrors IndexedDB through a
  BroadcastChannel), and reading the page and its drafts is one step.
* Rows that are built again (a change of language) while a save is under way: with
  `RebuildsInFlight = TRUE` TLC finds that the row starts at revision 0 again, so the next edit
  gets the revision of the save in flight, whose acknowledgement removes the newer draft and marks the row
  clean.  The text is then only in the row until its 700 ms timer saves it: `EditsKept` does not hold
  in between.

`PageTransition`:

* A tab has one transition at a time.  Taking the exclusive locks, which is never waited for, is one
  step; a refused transition leaves no trace.  Opening a page is one step, because edits are locked while it
  saves and loads.
* Storage is the same for all tabs at once, its events come late and in any order, and several of them as one.
* Browsers without Web Locks, leases of older builds, storage that cannot be read, and the reaping in
  `assertWorkspacePersistenceUnlocked`.
* `ActsAlone` speaks of what was typed.  An edit recovered from a draft may exist in a tab without its
  locks; the operations themselves refuse while there are drafts (`assertNoPendingLocalPageDrafts`).
* `EditorsReturn` excepts a session that was granted its locks while stopping and gave them
  back (`app.js:7366`): if its save then fails, `stopping` is reset (`app.js:7415`) with no lock held,
  and the page stays locked in that tab until another one is opened, although the comment there
  says that the lock is kept.
* An expired lease of a crashed tab on a page makes transitions of another workspace refuse
  (`app.js:8454-8456`) until a tab opens that page; no property speaks of transitions that succeed.

`WorkerPool`: what is named in section 2, and what the workers compute.

`RestoreJournal`:

* Journals of version 4 only.  Renames and fsynced files are durable when the call returns.  One import of an account
  at a time (`data-rate-limit.ts`).  `SweepEntry` removes temporary files only of a restore that still needs them:
  the roots of finished ones are of no consequence.  The age limit that protects a young root is not a time in
  the model, which lets the cleanup come at any moment, once for each fault.
* Loss of the database connection in the middle of a recovery's file work; the branch of an upload whose
  COMMIT has no answer; a link that finds another file under its name; the branch that promotes a
  staged directory (a COMMIT is sent only after both renames).
* `LibraryKept` excepts the time a journal waits.  `listCustomIcons` (`custom-icons.ts:243-296`) then
  takes the absence of a file for a proof that its row is stale, although the file is in the
  directory that was renamed aside, and deletes the row.

Not modelled at all: authentication and sessions, access policies, HTTP and WebSocket framing, rate limits, content
features.  Their state is in single database statements or lookups, or they are pure functions of one request.  Of the
23,000 lines of `app.js` most are rendering and DOM event handling.

## 6. Plan

Every safety property and action property the passing runs check is a theorem.  What is left:

1. An abstract specification of `CollaborationBootstrap` (at most one initialisation, then growth), which its
   undisturbed behaviours implement.
2. Discarding in `save-queue.js`, and the recovery records of collaboration, in `BlockSaving`'s manner.
3. Receipts of page and block creation and deletion; sessions and their tombstones.
