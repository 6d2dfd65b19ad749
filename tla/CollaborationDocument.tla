----------------------- MODULE CollaborationDocument -----------------------
(***************************************************************************)
(* The shared document of one BrainVault page: the durable Yjs log, the    *)
(* lineage (document epoch) it belongs to, the process-local rooms that    *)
(* cache it, the write pipeline that extends it, and the share, move,      *)
(* archive and materialization requests that retire or checkpoint it.      *)
(*                                                                         *)
(* A database transaction locks the user rows it works for, then the page  *)
(* row, and is one step here where it reads nothing plainly before the     *)
(* page row is its own.  The removal of a collection grant does: it reads  *)
(* the collection's owner, which fixes its REPEATABLE READ snapshot, and   *)
(* then waits for the pages of the collection.  It is two steps, and a     *)
(* plain read in the second one sees what the first one saw.  Everything   *)
(* the code awaits between transactions (a worker replay, a lease, a       *)
(* COMMIT acknowledgement) is a boundary between steps, and other actors   *)
(* move there.                                                             *)
(*                                                                         *)
(* Document content is the set of changes it contains.  A Yjs state is the *)
(* join of the updates that made it, so replaying a log is the union of    *)
(* its rows, and the part of an update that a state misses is a set        *)
(* difference.  The hash of a row stands for its content.                  *)
(*                                                                         *)
(* Definitions whose comment says "Fault" are not part of the model: each  *)
(* is a mistake this code could contain, kept next to the definition it    *)
(* would replace, to show that a property would notice it.                 *)
(***************************************************************************)
EXTENDS Naturals, FiniteSets

CONSTANTS
    Users,                  \* accounts other than the page owner
    Owner,                  \* the page owner
    Clients,                \* the accounts that have the page open in a browser
    Servers,                \* application processes attached to the database
    WriteIds,               \* identities of writes and of their leases (cwl_...)
    Edits,                  \* the changes a document can contain
    RetainedEntries,        \* maxCollaborationRetainedHistoryEntries
    MinSnapshotEntries,     \* minCollaborationSnapshotHistoryEntries
    LegacyUpdates,          \* history an older build may have left in the log
    MaxUpdateId,            \* bound: rows ever inserted
    MaxEpoch,               \* bound: lineages ever created
    MaxGeneration           \* bound: grants ever created

Accounts == Users \cup {Owner}
Content  == SUBSET Edits
Row      == [id : Nat \ {0}, data : Content]

ASSUME AccountAssumption == Owner \notin Users /\ Clients \subseteq Accounts
ASSUME BoundAssumption ==
    /\ RetainedEntries \in Nat \ {0}
    /\ MinSnapshotEntries \in Nat \ {0}
    /\ MaxUpdateId \in Nat /\ MaxEpoch \in Nat /\ MaxGeneration \in Nat
ASSUME LegacyAssumption ==
    /\ LegacyUpdates \subseteq Row /\ IsFiniteSet(LegacyUpdates)
    /\ \A r, q \in LegacyUpdates : r.id = q.id => r = q
    /\ LegacyUpdates # {} =>
          \E r \in LegacyUpdates : \A q \in LegacyUpdates : q.id <= r.id

VARIABLES
    \* the database rows of the page
    updates,                \* page_yjs_updates
    lastInsertId,           \* AUTO_INCREMENT of page_yjs_updates
    documentEpoch,          \* page_collaboration_state.document_epoch, 0: no row
    lastEpoch,              \* newest epoch ever created
    materializedUpdateId,   \* page_collaboration_state.materialized_update_id
    blocks,                 \* content of the blocks table
    vault,                  \* recovery candidates of the page owner
    pageShares,             \* generation of each direct grant, 0: none
    collectionShares,       \* generation of each grant on the shared collection
    inCollection,           \* the page belongs to that collection
    lastGeneration,         \* newest grant generation ever created
    isArchived,             \* pages.is_archived
    removals,               \* removals of a collection grant that wait for pages
    leases,                 \* page_collaboration_write_leases
    \* the application processes
    rooms,                  \* PageCollaborationHub.rooms, per server
    loads,                  \* history load of the room of each server
    sockets,                \* admitted WebSocket clients
    writes,                 \* updates between validation and acknowledgement
    materializations,       \* PUT collaboration/snapshot requests in flight
    \* what clients were told
    acked                   \* changes acknowledged, with their lineage

database  == <<updates, lastInsertId, documentEpoch, lastEpoch,
               materializedUpdateId, blocks, vault>>
grants    == <<pageShares, collectionShares, inCollection, lastGeneration,
               isArchived, removals>>
processes == <<rooms, loads, sockets, writes, materializations>>
vars      == <<updates, lastInsertId, documentEpoch, lastEpoch,
               materializedUpdateId, blocks, vault, pageShares,
               collectionShares, inCollection, lastGeneration, isArchived,
               removals, leases, rooms, loads, sockets, writes, materializations, acked>>
-----------------------------------------------------------------------------
(***************************************************************************)
(* Reading the log.                                                        *)
(***************************************************************************)

\* What a replay of the rows yields.
Replay(rows) == UNION {r.data : r \in rows}

\* MAX(id), 0 when there is no row.
LastId(rows) ==
    IF rows = {} THEN 0
    ELSE CHOOSE n \in {r.id : r \in rows} : \A r \in rows : r.id <= n

\* SHA2 of the newest row, as a set: empty when there is no row.
LastHash(rows) == {r.data : r \in {q \in rows : q.id = LastId(rows)}}

NeedsMaterialization == LastId(updates) # materializedUpdateId

(***************************************************************************)
(* Page access.  A collection grant is authoritative over a direct grant.  *)
(***************************************************************************)

\* The grant generation an account's access rests on; 0 is no grant.
Generation(a) ==
    IF a = Owner THEN 0
    ELSE IF inCollection /\ collectionShares[a] # 0
         THEN collectionShares[a]
         ELSE pageShares[a]

CanEdit(a) == a = Owner \/ Generation(a) # 0

\* The effective share count of the page is positive.
SharedBy(direct, collection, member) ==
    \/ \E u \in Users : direct[u] # 0
    \/ member /\ \E u \in Users : collection[u] # 0

Shared == SharedBy(pageShares, collectionShares, inCollection)

(***************************************************************************)
(* The process-local records.                                              *)
(***************************************************************************)
ClosedRoom ==
    [phase |-> "none", epoch |-> 0, state |-> {}, maxUpdateId |-> 0,
     maxUpdateHash |-> {}, entries |-> 0, idle |-> FALSE]

NoLoad == [phase |-> "none", epoch |-> 0, copy |-> {}]

\* invalidateRoom: the room leaves the hub, its sockets close, and a write
\* it has in flight finds itself stale.
Invalidated(ws, s) ==
    {IF w.server = s THEN [w EXCEPT !.live = FALSE] ELSE w : w \in ws}

InvalidateRoom(s, ws) ==
    /\ rooms' = [rooms EXCEPT ![s] = ClosedRoom]
    /\ sockets' = {c \in sockets : c.server # s}
    /\ writes' = Invalidated(ws, s)

\* removeRoomWhenIdle: a room is idle once its last socket is gone and no
\* write is queued.
Idled(room, s, ss, ws) ==
    IF /\ room.phase = "loaded"
       /\ \A c \in ss : c.server # s
       /\ \A w \in ws : w.server = s => ~w.live
    THEN [room EXCEPT !.idle = TRUE] ELSE room

CloseSockets(closed) ==
    /\ sockets' = sockets \ closed
    /\ rooms' = [s \in Servers |->
            IF \E c \in closed : c.server = s
            THEN Idled(rooms[s], s, sockets \ closed, writes) ELSE rooms[s]]

SocketsOf(w) == {c \in sockets : c.account = w.account /\ c.server = w.server}

\* The end of a queued write that leaves its room as it was.
EndWrite(w, closed) ==
    /\ writes' = writes \ {w}
    /\ sockets' = sockets \ closed
    /\ rooms' = IF w.live
                THEN [rooms EXCEPT ![w.server] =
                        Idled(@, w.server, sockets \ closed, writes \ {w})]
                ELSE rooms
-----------------------------------------------------------------------------
(***************************************************************************)
(* Initially the page is private, or was shared by an older build, with    *)
(* the accounts that have it open, and its history is still in the log.    *)
(***************************************************************************)
Init ==
    /\ updates = LegacyUpdates
    /\ lastInsertId = LastId(LegacyUpdates)
    /\ documentEpoch = IF LegacyUpdates = {} THEN 0 ELSE 1
    /\ lastEpoch = documentEpoch
    /\ materializedUpdateId = 0
    /\ blocks \in {{}, Replay(LegacyUpdates)}
    /\ vault = {}
    /\ pageShares = [u \in Users |->
            IF LegacyUpdates # {} /\ u \in Clients THEN 1 ELSE 0]
    /\ collectionShares = [u \in Users |-> 0]
    /\ inCollection = FALSE
    /\ lastGeneration = IF LegacyUpdates = {} THEN 0 ELSE 1
    /\ isArchived = FALSE
    /\ removals = {}
    /\ leases = {}
    /\ rooms = [s \in Servers |-> ClosedRoom]
    /\ loads = [s \in Servers |-> NoLoad]
    /\ sockets = {}
    /\ writes = {}
    /\ materializations = {}
    /\ acked = {}

(***************************************************************************)
(* Lineages.  A page enters collaboration in a fresh lineage; whatever log *)
(* an earlier lineage left behind must first reach the owner's recovery    *)
(* vault.  `quarantined' is what quarantineCollaborationHistoryForOwner    *)
(* answers, asked only where a lineage exists.  It counts the log with a   *)
(* plain read first: a count of 0 is taken for an empty log, and one that  *)
(* differs from the rows it then locks makes the answer FALSE, as a full   *)
(* vault or an exhausted worker does.                                      *)
(***************************************************************************)
Quarantine(counted, quarantined) ==
    /\ IF quarantined
       THEN documentEpoch # 0 /\ counted \in {0, Cardinality(updates)}
       ELSE documentEpoch = 0 \/ counted # 0
    /\ vault' = IF quarantined /\ counted # 0
                THEN vault \cup {[epoch |-> documentEpoch,
                                  content |-> Replay(updates)]}
                ELSE vault

ReplaceLineage(shared) ==
    /\ updates' = {}
    /\ materializedUpdateId' = 0
    /\ IF shared
       THEN /\ lastEpoch < MaxEpoch
            /\ lastEpoch' = lastEpoch + 1
            /\ documentEpoch' = lastEpoch + 1
       ELSE /\ documentEpoch' = 0
            /\ UNCHANGED lastEpoch

KeepLineage ==
    UNCHANGED <<updates, materializedUpdateId, documentEpoch, lastEpoch, vault>>

\* Fault: destructive requests do not wait for admitted writes.
LeasesIgnored == TRUE

\* assertNoActiveCollaborationWriteLeases.
NoActiveLeases == leases = {}

\* The first effective share of a page.
StartLineage ==
    /\ NoActiveLeases
    /\ IF documentEpoch = 0 THEN UNCHANGED vault ELSE Quarantine(Cardinality(updates), TRUE)
    /\ ReplaceLineage(TRUE)

\* Fault: teardown trusts that the log has been materialized.
EndLineageUnchecked(counted) == ReplaceLineage(FALSE) /\ UNCHANGED vault

\* The last effective share of a page is gone.  Revocation is never undone:
\* a log that is neither materialized nor quarantined stays where it is.
EndLineage(counted) ==
    \/ /\ ~NeedsMaterialization
       /\ ReplaceLineage(FALSE)
       /\ UNCHANGED vault
    \/ /\ NeedsMaterialization
       /\ Quarantine(counted, TRUE)
       /\ ReplaceLineage(FALSE)
    \/ /\ NeedsMaterialization
       /\ Quarantine(counted, FALSE)
       /\ UNCHANGED <<updates, materializedUpdateId, documentEpoch, lastEpoch>>

\* Requests on grants, moves, archiving, materialization and block edits lock
\* the owner's user row first, and a waiting removal holds it; it also holds
\* the row of the account it removes, which a commit of that account needs.
OwnerRowFree == removals = {}
UserRowFree(a) == \A r \in removals : a \notin {Owner, r.account}

NewGeneration ==
    /\ lastGeneration < MaxGeneration
    /\ lastGeneration' = lastGeneration + 1

\* POST /pages/:pageId/shares
AddPageShare(u) ==
    /\ OwnerRowFree
    /\ ~isArchived
    /\ pageShares[u] = 0
    /\ IF Shared THEN KeepLineage ELSE StartLineage
    /\ NewGeneration
    /\ pageShares' = [pageShares EXCEPT ![u] = lastGeneration + 1]
    /\ UNCHANGED <<lastInsertId, blocks, collectionShares, inCollection,
                   isArchived, removals, leases, processes, acked>>

\* DELETE /pages/:pageId/shares/:userId
RemovePageShare(u) ==
    /\ OwnerRowFree
    /\ ~isArchived
    /\ NoActiveLeases
    /\ pageShares[u] # 0
    /\ pageShares' = [pageShares EXCEPT ![u] = 0]
    /\ IF SharedBy(pageShares', collectionShares, inCollection)
       THEN KeepLineage ELSE EndLineage(Cardinality(updates))
    /\ UNCHANGED <<lastInsertId, blocks, collectionShares, inCollection,
                   lastGeneration, isArchived, removals, leases, processes,
                   acked>>

\* POST /collections/:collectionId/shares.  A hidden direct grant of the same
\* account is rotated, so that its old sockets can be told apart.
AddCollectionShare(u) ==
    /\ OwnerRowFree
    /\ inCollection => ~isArchived
    /\ collectionShares[u] = 0
    /\ IF inCollection /\ ~Shared THEN StartLineage ELSE KeepLineage
    /\ NewGeneration
    /\ collectionShares' = [collectionShares EXCEPT ![u] = lastGeneration + 1]
    /\ pageShares' = IF inCollection /\ pageShares[u] # 0
                     THEN [pageShares EXCEPT ![u] = lastGeneration + 1]
                     ELSE pageShares
    /\ UNCHANGED <<lastInsertId, blocks, inCollection, isArchived, removals,
                   leases, processes, acked>>

\* DELETE /collections/:collectionId/shares/:userId, up to the page locks: the
\* user rows are locked and the snapshot of the transaction is fixed.
BeginCollectionRemoval(u) ==
    /\ OwnerRowFree
    /\ collectionShares[u] # 0
    /\ removals' = {[account |-> u, counted |-> Cardinality(updates)]}
    /\ UNCHANGED <<database, pageShares, collectionShares, inCollection,
                   lastGeneration, isArchived, leases, processes, acked>>

\* The rest of it, under the page locks.  With the grant go those that descend
\* from it: the collection grants of `delegates' and, on the pages of the
\* collection, the direct grants of `direct'.  Who made a grant is not kept
\* here, so that any set of accounts may be meant.
RemoveCollectionShare(r, delegates, direct) ==
    /\ inCollection => NoActiveLeases
    /\ removals' = removals \ {r}
    /\ collectionShares' = [u \in Users |->
            IF u \in delegates \cup {r.account} THEN 0 ELSE collectionShares[u]]
    /\ pageShares' = [u \in Users |->
            IF inCollection /\ u \in direct THEN 0 ELSE pageShares[u]]
    /\ IF inCollection /\ ~SharedBy(pageShares', collectionShares', TRUE)
       THEN EndLineage(r.counted) ELSE KeepLineage
    /\ UNCHANGED <<lastInsertId, blocks, inCollection, lastGeneration,
                   isArchived, leases, processes, acked>>

\* The removal is refused, or its process or database connection fails.
AbortCollectionRemoval(r) ==
    /\ removals' = removals \ {r}
    /\ UNCHANGED <<database, pageShares, collectionShares, inCollection,
                   lastGeneration, isArchived, leases, processes, acked>>

\* Fault: only the destination of a move is looked at.
LineageReplacedAtTarget(sharedThere) == sharedThere

LineageReplaced(sharedThere) == Shared \/ sharedThere

\* PATCH /pages/:pageId with a parent in another collection.
MovePage ==
    /\ OwnerRowFree
    /\ ~isArchived
    /\ Shared => /\ ~NeedsMaterialization
                 /\ NoActiveLeases
    /\ inCollection' = ~inCollection
    /\ LET sharedThere == SharedBy(pageShares, collectionShares, inCollection')
       IN  IF LineageReplaced(sharedThere)
           THEN ReplaceLineage(sharedThere)
           ELSE UNCHANGED <<updates, materializedUpdateId, documentEpoch, lastEpoch>>
    /\ UNCHANGED <<lastInsertId, blocks, vault, pageShares, collectionShares,
                   lastGeneration, isArchived, removals, leases, processes,
                   acked>>

\* DELETE /pages/:pageId (archive) and PATCH isArchived.
ArchivePage ==
    /\ OwnerRowFree
    /\ ~isArchived
    /\ ~NeedsMaterialization
    /\ NoActiveLeases
    /\ isArchived' = TRUE
    /\ UNCHANGED <<database, pageShares, collectionShares, inCollection,
                   lastGeneration, removals, leases, processes, acked>>

RestorePage ==
    /\ OwnerRowFree
    /\ isArchived
    /\ isArchived' = FALSE
    /\ UNCHANGED <<database, pageShares, collectionShares, inCollection,
                   lastGeneration, removals, leases, processes, acked>>

\* Fault: block mutations go on while collaboration owns the page.
EditsSharedPage == ~isArchived

\* assertDirectBlockMutationAllowed.
DirectEditAllowed == ~isArchived /\ ~Shared

\* A block mutation through the REST API.
DirectEdit(e) ==
    /\ OwnerRowFree
    /\ DirectEditAllowed
    /\ blocks' \in {blocks \cup {e}, blocks \ {e}}
    /\ UNCHANGED <<updates, lastInsertId, documentEpoch, lastEpoch,
                   materializedUpdateId, vault, grants, leases, processes, acked>>
-----------------------------------------------------------------------------
(***************************************************************************)
(* Rooms.  getOrCreateRoom starts a load that copies the log under the     *)
(* page lock, replays the copy in a worker with no lock held, then takes   *)
(* the lock again and admits the room only if the log is still that copy.  *)
(* A load outlives the room it was started for.                            *)
(***************************************************************************)
OpenRoom(s) ==
    /\ rooms[s].phase = "none"
    /\ loads[s].phase = "none"
    /\ Shared /\ ~isArchived
    /\ documentEpoch # 0
    /\ rooms' = [rooms EXCEPT ![s].phase = "loading", ![s].epoch = documentEpoch]
    /\ loads' = [loads EXCEPT ![s].phase = "read", ![s].epoch = documentEpoch]
    /\ UNCHANGED <<database, grants, leases, sockets, writes, materializations,
                   acked>>

FailLoad(s) ==
    /\ loads' = [loads EXCEPT ![s] = NoLoad]
    /\ rooms' = [rooms EXCEPT ![s] = IF rooms[s].phase = "loading"
                                     THEN ClosedRoom ELSE rooms[s]]

ReadHistory(s) ==
    /\ loads[s].phase = "read"
    /\ IF loads[s].epoch = documentEpoch
       THEN /\ loads' = [loads EXCEPT ![s].phase = "replay", ![s].copy = updates]
            /\ UNCHANGED rooms
       ELSE FailLoad(s)
    /\ UNCHANGED <<database, grants, leases, sockets, writes, materializations,
                   acked>>

\* Fault: the compacted row takes the next id without the table's counter.
RenumberedAtLoad(copy) ==
    IF Cardinality(copy) > RetainedEntries
    THEN {[id |-> LastId(copy) + 1, data |-> Replay(copy)]} ELSE copy

\* An oversized history of an older build is replaced in place, under the id
\* of its newest row, by the state the replay produced.
CompactedAtLoad(copy) ==
    IF Cardinality(copy) > RetainedEntries
    THEN {[id |-> LastId(copy), data |-> Replay(copy)]}
    ELSE copy

LoadedRoom(epoch, rows) ==
    [phase |-> "loaded", epoch |-> epoch, state |-> Replay(rows),
     maxUpdateId |-> LastId(rows), maxUpdateHash |-> LastHash(rows),
     entries |-> Cardinality(rows), idle |-> FALSE]

FinishLoad(s) ==
    /\ loads[s].phase = "replay"
    /\ \/ /\ loads[s].epoch = documentEpoch
          /\ loads[s].copy = updates
          /\ updates' = CompactedAtLoad(updates)
          /\ loads' = [loads EXCEPT ![s] = NoLoad]
          /\ rooms' = [rooms EXCEPT ![s] =
                IF rooms[s].phase = "loading"
                THEN LoadedRoom(loads[s].epoch, updates') ELSE rooms[s]]
       \/ /\ loads[s].epoch = documentEpoch
          /\ loads[s].copy # updates
          /\ loads' = [loads EXCEPT ![s].phase = "read", ![s].copy = {}]
          /\ UNCHANGED <<updates, rooms>>
       \/ /\ loads[s].epoch # documentEpoch \/ loads[s].copy # updates
          /\ FailLoad(s)
          /\ UNCHANGED updates
    /\ UNCHANGED <<lastInsertId, documentEpoch, lastEpoch, materializedUpdateId,
                   blocks, vault, grants, leases, sockets, writes,
                   materializations, acked>>

\* The room of a lineage that is gone or suspended is dropped, by the request
\* that ended it or by the periodic access recheck; an unused room is dropped
\* when it has been idle for a while or memory is short.
DropRoom(s) ==
    /\ rooms[s].phase # "none"
    /\ \/ rooms[s].epoch # documentEpoch
       \/ isArchived
       \/ ~Shared
       \/ /\ rooms[s].phase = "loaded"
          /\ \A c \in sockets : c.server # s
          /\ \A w \in writes : w.server # s \/ ~w.live
    /\ InvalidateRoom(s, writes)
    /\ UNCHANGED <<database, grants, leases, loads, materializations, acked>>

\* The last step of an upgrade: access and lineage are checked again, and the
\* client receives the room's state and cursor.  A room that was idle first
\* compares its cursor with the log, and reloads if they differ.
CursorMatches(s) ==
    /\ rooms[s].maxUpdateId = LastId(updates)
    /\ rooms[s].maxUpdateHash = LastHash(updates)

Connect(a, s) ==
    /\ rooms[s].phase = "loaded"
    /\ \A c \in sockets : c.account # a
    /\ IF rooms[s].idle /\ ~CursorMatches(s)
       THEN InvalidateRoom(s, writes)
       ELSE /\ CanEdit(a) /\ Shared /\ ~isArchived
            /\ rooms[s].epoch = documentEpoch
            /\ sockets' = sockets \cup
                 {[account |-> a, server |-> s, epoch |-> documentEpoch,
                   generation |-> Generation(a)]}
            /\ rooms' = [rooms EXCEPT ![s].idle = FALSE]
            /\ UNCHANGED writes
    /\ UNCHANGED <<database, grants, leases, loads, materializations, acked>>

\* A client goes away, or the server closes its socket.
Disconnect(c) ==
    /\ CloseSockets({c})
    /\ UNCHANGED <<database, grants, leases, loads, writes, materializations,
                   acked>>
-----------------------------------------------------------------------------
(***************************************************************************)
(* The write pipeline (persistUpdate).  Writes of a room run one at a time. *)
(* Access is rechecked against a short-lived cached verdict before          *)
(* validation, so a write may start although access has just been revoked.  *)
(***************************************************************************)
WriteQueueIdle(s) == \A w \in writes : w.server = s => ~w.live

\* A client sends content its room already has.
AckNoChange(c, update) ==
    /\ rooms[c.server].phase = "loaded"
    /\ WriteQueueIdle(c.server)
    /\ rooms[c.server].maxUpdateId > 0
    /\ update \subseteq rooms[c.server].state
    /\ acked' = acked \cup ({c.epoch} \X update)
    /\ UNCHANGED <<database, grants, leases, processes>>

NewWrite(c, id, update, snapshot, base) ==
    [id |-> id, server |-> c.server, account |-> c.account,
     epoch |-> c.epoch, generation |-> c.generation, room |-> rooms[c.server],
     update |-> update, snapshot |-> snapshot, base |-> base,
     phase |-> "validated", result |-> "none", updateId |-> 0, live |-> TRUE]

\* The worker has validated an update, or a client's compaction snapshot,
\* against the room's state.
ValidateUpdate(c, id, update, snapshot, base) ==
    /\ rooms[c.server].phase = "loaded"
    /\ WriteQueueIdle(c.server)
    /\ \A w \in writes : w.id # id
    /\ \A l \in leases : l.id # id
    /\ \/ snapshot
       \/ rooms[c.server].maxUpdateId = 0
       \/ ~(update \subseteq rooms[c.server].state)
    /\ writes' = writes \cup {NewWrite(c, id, update, snapshot, base)}
    /\ UNCHANGED <<database, grants, leases, rooms, loads, sockets,
                   materializations, acked>>

Proceed(w, next) == (writes \ {w}) \cup {next}

\* reserveCollaborationWriteLease.  A room invalidated during validation ends
\* the write before it asks for a lease; one invalidated later does not.
LeaseGranted(w) ==
    CanEdit(w.account) /\ Shared /\ ~isArchived /\ documentEpoch = w.epoch

ReserveLease(w) ==
    /\ w.phase = "validated"
    /\ \/ /\ LeaseGranted(w)
          /\ leases' = leases \cup {[id |-> w.id, epoch |-> w.epoch]}
          /\ writes' = Proceed(w, [w EXCEPT !.phase = "leased"])
          /\ UNCHANGED <<rooms, sockets>>
       \/ /\ ~LeaseGranted(w) \/ ~w.live
          /\ EndWrite(w, IF w.live THEN SocketsOf(w) ELSE {})
          /\ UNCHANGED leases
    /\ UNCHANGED <<database, grants, loads, materializations, acked>>

\* A lease is valid for ten minutes.
ExpireLease(l) ==
    /\ leases' = leases \ {l}
    /\ UNCHANGED <<database, grants, processes, acked>>

(***************************************************************************)
(* The commit transaction.  Under the page lock it checks, in this order,  *)
(* the grant, that the room is still the hub's, that collaboration is on,  *)
(* the lineage, the room's cursor, a snapshot's base and its worth, and    *)
(* for the first row of a lineage that it copies the blocks table exactly. *)
(***************************************************************************)
GrantCurrent(w) == CanEdit(w.account) /\ Generation(w.account) = w.generation

\* Fault: the room's cursor is trusted.
CheckpointTrusted(w) == TRUE

CheckpointMatches(w) ==
    /\ w.room.maxUpdateId = LastId(updates)
    /\ w.room.maxUpdateHash = LastHash(updates)

\* The state the worker computed from the room's state and the update.
NextState(w) == w.room.state \cup w.update

\* A snapshot replaces the log it was taken from, adds nothing to it, and
\* comes when there is enough history to compact.
SnapshotAcceptable(w) ==
    /\ w.base = LastId(updates)
    /\ w.update \subseteq w.room.state
    /\ w.room.entries >= MinSnapshotEntries

\* Fault: the first row of a lineage may be a partial document.
BootstrapTrusted(w) == TRUE

BootstrapMatches(w) == LastId(updates) = 0 => NextState(w) = blocks

Verdict(w) ==
    CASE ~GrantCurrent(w) -> "refused"
      [] ~w.live -> "dropped"
      [] isArchived \/ ~Shared -> "refused"
      [] documentEpoch # w.epoch -> "lineage-changed"
      [] ~CheckpointMatches(w) -> "room-stale"
      [] w.snapshot /\ ~SnapshotAcceptable(w) -> "snapshot-rejected"
      [] ~BootstrapMatches(w) -> "bootstrap-mismatch"
      [] OTHER -> "accepted"

\* A client snapshot, and an update that would overfill the log, is stored as
\* the whole state and replaces every older row.
DurableSnapshot(w) == w.snapshot \/ w.room.entries >= RetainedEntries

\* Fault: a compaction forced by the server stores the state before the update.
InsertedEarly(w) ==
    LET id == lastInsertId + 1
    IN  IF DurableSnapshot(w)
        THEN {[id |-> id, data |-> w.room.state]}
        ELSE updates \cup {[id |-> id, data |-> w.update \ w.room.state]}

Inserted(w) ==
    LET id == lastInsertId + 1
    IN  IF DurableSnapshot(w)
        THEN {[id |-> id, data |-> NextState(w)]}
        ELSE updates \cup {[id |-> id, data |-> w.update \ w.room.state]}

InsertUpdate(w) ==
    /\ lastInsertId < MaxUpdateId
    /\ lastInsertId' = lastInsertId + 1
    /\ updates' = Inserted(w)

Decided(w, verdict, id) ==
    [w EXCEPT !.phase = "decided", !.result = verdict, !.updateId = id]

\* The transaction ends and its outcome reaches the process.  A lineage
\* change invalidates the room at once.
CommitWrite(w) ==
    /\ w.phase = "leased"
    /\ UserRowFree(w.account)
    /\ LET verdict == Verdict(w)
           decided == Decided(w, verdict, IF verdict = "accepted"
                                          THEN lastInsertId + 1 ELSE 0)
       IN  /\ IF verdict = "accepted"
              THEN InsertUpdate(w)
              ELSE UNCHANGED <<updates, lastInsertId>>
           /\ IF verdict = "lineage-changed"
              THEN InvalidateRoom(w.server, Proceed(w, decided))
              ELSE /\ writes' = Proceed(w, decided)
                   /\ sockets' = IF verdict = "refused" /\ w.live
                                 THEN sockets \ SocketsOf(w) ELSE sockets
                   /\ UNCHANGED rooms
    /\ UNCHANGED <<documentEpoch, lastEpoch, materializedUpdateId, blocks,
                   vault, grants, leases, loads, materializations, acked>>

\* The connection fails during COMMIT: the row is there or it is not, and the
\* process cannot tell.
LoseCommitOutcome(w) ==
    /\ w.phase = "leased"
    /\ UserRowFree(w.account)
    /\ Verdict(w) = "accepted"
    /\ InsertUpdate(w) \/ UNCHANGED <<updates, lastInsertId>>
    /\ writes' = Proceed(w, Decided(w, "commit-outcome-unknown", 0))
    /\ UNCHANGED <<documentEpoch, lastEpoch, materializedUpdateId, blocks,
                   vault, grants, leases, rooms, loads, sockets,
                   materializations, acked>>

\* The transaction fails before COMMIT, or the account's session is revoked.
AbortWrite(w) ==
    /\ w.phase = "leased"
    /\ writes' = Proceed(w, Decided(w, "failed", 0))
    /\ UNCHANGED <<database, grants, leases, rooms, loads, sockets,
                   materializations, acked>>

\* A lease whose release fails stays until it expires.
ReleaseLease(w) ==
    /\ w.phase = "decided"
    /\ leases' \in {{l \in leases : l.id # w.id}, leases}
    /\ writes' = Proceed(w, [w EXCEPT !.phase = "released"])
    /\ UNCHANGED <<database, grants, rooms, loads, sockets, materializations,
                   acked>>

\* The room adopts an accepted write, and a client that is still there gets
\* its acknowledgement.
PublishedRoom(w) ==
    [rooms[w.server] EXCEPT
        !.state = NextState(w),
        !.maxUpdateId = w.updateId,
        !.maxUpdateHash = {IF DurableSnapshot(w) THEN NextState(w)
                           ELSE w.update \ w.room.state},
        !.entries = IF DurableSnapshot(w) THEN 1 ELSE w.room.entries + 1]

\* Fault: an uncertain COMMIT is taken for a success.
OptimisticallyAccepted(w) == w.result \in {"accepted", "commit-outcome-unknown"}

Accepted(w) == w.result = "accepted"

FinishWrite(w) ==
    /\ w.phase = "released"
    /\ LET rest == writes \ {w}
       IN  \/ /\ w.live /\ Accepted(w)
              /\ writes' = rest
              /\ rooms' = [rooms EXCEPT ![w.server] =
                             Idled(PublishedRoom(w), w.server, sockets, rest)]
              /\ acked' = IF SocketsOf(w) = {} THEN acked
                          ELSE acked \cup ({w.epoch} \X w.update)
              /\ UNCHANGED sockets
           \/ /\ w.live
              /\ w.result \in {"room-stale", "commit-outcome-unknown"}
              /\ InvalidateRoom(w.server, rest)
              /\ UNCHANGED acked
           \/ /\ w.live /\ w.result \in {"bootstrap-mismatch", "failed"}
              /\ EndWrite(w, SocketsOf(w))
              /\ UNCHANGED acked
           \/ /\ ~w.live \/ w.result \in {"snapshot-rejected", "refused"}
              /\ EndWrite(w, {})
              /\ UNCHANGED acked
    /\ UNCHANGED <<database, grants, leases, loads, materializations>>
-----------------------------------------------------------------------------
(***************************************************************************)
(* Materialization (PUT collaboration/snapshot): copy the log under locks, *)
(* replay it in a worker, then rewrite the blocks table if nothing moved.  *)
(***************************************************************************)
MaterializationAllowed(a) == ~isArchived /\ CanEdit(a) /\ Shared

CopyHistory(a) ==
    /\ OwnerRowFree
    /\ \A m \in materializations : m.account # a
    /\ MaterializationAllowed(a)
    /\ documentEpoch # 0
    /\ NeedsMaterialization
    /\ materializations' = materializations \cup
         {[account |-> a, generation |-> Generation(a), epoch |-> documentEpoch,
           copy |-> updates, blocks |-> blocks]}
    /\ UNCHANGED <<database, grants, leases, rooms, loads, sockets, writes, acked>>

Materialize(m) ==
    /\ OwnerRowFree
    /\ MaterializationAllowed(m.account)
    /\ Generation(m.account) = m.generation
    /\ m.copy = updates
    /\ m.epoch = documentEpoch
    /\ NeedsMaterialization
    /\ m.blocks = blocks
    /\ blocks' = Replay(m.copy)
    /\ materializedUpdateId' = LastId(m.copy)
    /\ materializations' = materializations \ {m}
    /\ UNCHANGED <<updates, lastInsertId, documentEpoch, lastEpoch, vault, grants,
                   leases, rooms, loads, sockets, writes, acked>>

\* The request is refused, or its process or database connection fails.
AbandonMaterialization(m) ==
    /\ materializations' = materializations \ {m}
    /\ UNCHANGED <<database, grants, leases, rooms, loads, sockets, writes, acked>>

\* A process dies: what it kept in memory is gone, its leases stay.
Crash(s) ==
    /\ rooms' = [rooms EXCEPT ![s] = ClosedRoom]
    /\ loads' = [loads EXCEPT ![s] = NoLoad]
    /\ sockets' = {c \in sockets : c.server # s}
    /\ writes' = {w \in writes : w.server # s}
    /\ UNCHANGED <<database, grants, leases, materializations, acked>>
-----------------------------------------------------------------------------
ShareStep ==
    \/ \E u \in Users : \/ AddPageShare(u) \/ RemovePageShare(u)
                        \/ AddCollectionShare(u) \/ BeginCollectionRemoval(u)
    \/ \E r \in removals :
          \/ AbortCollectionRemoval(r)
          \/ \E delegates \in SUBSET {u \in Users : collectionShares[u] # 0},
                direct \in SUBSET {u \in Users : pageShares[u] # 0} :
                RemoveCollectionShare(r, delegates, direct)
    \/ MovePage \/ ArchivePage \/ RestorePage
    \/ \E e \in Edits : DirectEdit(e)

RoomStep ==
    \/ \E s \in Servers : \/ OpenRoom(s) \/ ReadHistory(s) \/ FinishLoad(s)
                          \/ DropRoom(s) \/ Crash(s)
                          \/ \E a \in Clients : Connect(a, s)
    \/ \E c \in sockets : Disconnect(c)

WriteStep ==
    \/ \E c \in sockets, update \in Content :
          \/ AckNoChange(c, update)
          \/ \E id \in WriteIds :
                \/ ValidateUpdate(c, id, update, FALSE, 0)
                \/ \E base \in {0, rooms[c.server].maxUpdateId, LastId(updates)} :
                      ValidateUpdate(c, id, update, TRUE, base)
    \/ \E w \in writes : \/ ReserveLease(w) \/ CommitWrite(w)
                         \/ LoseCommitOutcome(w) \/ AbortWrite(w)
                         \/ ReleaseLease(w) \/ FinishWrite(w)
    \/ \E l \in leases : ExpireLease(l)

MaterializationStep ==
    \/ \E a \in Clients : CopyHistory(a)
    \/ \E m \in materializations : Materialize(m) \/ AbandonMaterialization(m)

Next == ShareStep \/ RoomStep \/ WriteStep \/ MaterializationStep

Spec == Init /\ [][Next]_vars
-----------------------------------------------------------------------------
(***************************************************************************)
(* Correctness.                                                            *)
(***************************************************************************)
Verdicts == {"accepted", "refused", "dropped", "lineage-changed", "room-stale",
             "snapshot-rejected", "bootstrap-mismatch"}
Results  == Verdicts \cup {"none", "failed", "commit-outcome-unknown"}

Room == [phase : {"none", "loading", "loaded"}, epoch : Nat, state : Content,
         maxUpdateId : Nat, maxUpdateHash : SUBSET Content, entries : Nat,
         idle : BOOLEAN]

Socket == [account : Clients, server : Servers, epoch : Nat, generation : Nat]

Write == [id : WriteIds, server : Servers, account : Clients, epoch : Nat,
          generation : Nat, room : Room, update : Content, snapshot : BOOLEAN,
          base : Nat, phase : {"validated", "leased", "decided", "released"},
          result : Results, updateId : Nat, live : BOOLEAN]

Materialization == [account : Clients, generation : Nat, epoch : Nat,
                    copy : SUBSET Row, blocks : Content]

DatabaseTypeOK ==
    /\ updates \subseteq Row /\ IsFiniteSet(updates)
    /\ \A r \in updates : r.id <= lastInsertId
    /\ lastInsertId \in Nat
    /\ documentEpoch \in Nat
    /\ lastEpoch \in Nat
    /\ materializedUpdateId \in Nat
    /\ blocks \in Content
    /\ vault \subseteq [epoch : Nat, content : Content]

GrantsTypeOK ==
    /\ pageShares \in [Users -> Nat]
    /\ collectionShares \in [Users -> Nat]
    /\ inCollection \in BOOLEAN
    /\ lastGeneration \in Nat
    /\ isArchived \in BOOLEAN
    /\ removals \subseteq [account : Users, counted : Nat]

ProcessesTypeOK ==
    /\ rooms \in [Servers -> Room]
    /\ loads \in [Servers -> [phase : {"none", "read", "replay"}, epoch : Nat,
                              copy : SUBSET Row]]
    /\ sockets \subseteq Socket
    /\ writes \subseteq Write
    /\ materializations \subseteq Materialization

\* Every variable stays in the set of values the code gives it, and no row
\* carries an id the table has not handed out.
TypeOK ==
    /\ DatabaseTypeOK
    /\ GrantsTypeOK
    /\ ProcessesTypeOK
    /\ leases \subseteq [id : WriteIds, epoch : Nat]
    /\ acked \subseteq (Nat \X Edits)

\* The premise of the write checkpoint: a room of the current lineage never
\* shows a client anything that is not durable, and a room whose cursor is
\* the newest row holds exactly what a replay of the log would give, although
\* other processes, compactions and lost COMMIT answers move the log under it.
RoomsFollowLog ==
    \A s \in Servers :
        rooms[s].phase = "loaded" /\ rooms[s].epoch = documentEpoch =>
            /\ rooms[s].state \subseteq Replay(updates)
            /\ rooms[s].maxUpdateId = LastId(updates) =>
                  rooms[s].state = Replay(updates)

\* An acknowledged change is in the durable log for as long as its lineage
\* lives: no compaction by any process, stale or not, no crash and no reload
\* drops it.
AckedEditsDurable ==
    \A a \in acked : a[1] = documentEpoch => a[2] \in Replay(updates)

\* The materialization checkpoint tells the truth: when it names the newest
\* row, the blocks table is the document.  Teardown, archive and move delete
\* history on the strength of it.
CheckpointHonest ==
    materializedUpdateId # 0 /\ ~NeedsMaterialization => blocks = Replay(updates)

\* Collaboration is on exactly while the page is shared: a shared page has a
\* lineage, and what an unshared page still has of one is inert history that
\* could be neither materialized nor quarantined.  Sharing, collection
\* membership and moves each decide this from a different count of grants.
LineageMatchesSharing ==
    /\ Shared => documentEpoch # 0
    /\ ~Shared /\ documentEpoch # 0 => NeedsMaterialization
    /\ documentEpoch = 0 => updates = {}

\* While an admitted write holds an unexpired lease, no destructive request
\* moves the page out from under it: its lineage is current, and the page is
\* shared and not archived.
LeaseProtectsLineage ==
    \A l \in leases : l.epoch = documentEpoch /\ Shared /\ ~isArchived

\* Whatever a step removes from the log is kept: it is in the blocks table
\* already or it goes to the owner's recovery vault.
HistoryKept ==
    \/ Replay(updates) \subseteq Replay(updates')
    \/ blocks = Replay(updates) /\ blocks' = blocks
    \/ [epoch |-> documentEpoch, content |-> Replay(updates)] \in vault'

\* quarantineCollaborationHistoryForOwner promises that retained history can
\* wait for a later lifecycle transition without data loss.
RetiredHistoryIsKept == [][HistoryKept]_vars

\* A removal of a collection grant counted the log before its first row.
LogCountedEmpty ==
    \E r \in removals \ removals' : r.counted = 0 /\ updates # {}

\* The same, for every request but two: the move of an unshared page between
\* collections, and the removal of a collection grant that waited for the page
\* while the first rows of its log were committed.  A single grant never
\* waits that way, since the only accounts that could write are locked: it
\* takes a delegated account whose access ends with the removed one.
ShareChangesKeepHistory ==
    [][\/ inCollection' # inCollection /\ ~Shared
       \/ LogCountedEmpty
       \/ HistoryKept]_vars

\* A materialization adds to the blocks table and never empties it: the first
\* row of a lineage is an exact copy of the table, never a partial document.
MaterializationKeepsBlocks ==
    [][materializedUpdateId' # materializedUpdateId => blocks \subseteq blocks']_vars

\* The log, its rooms and its lineages implement a shared document.
Document == INSTANCE SharedDocument WITH
    lineage  <- documentEpoch,
    newest   <- lastEpoch,
    content  <- Replay(updates),
    promised <- acked

\* Seen through its replayed log, the page behaves as the shared document of
\* SharedDocument: within a lineage nothing is lost and no promise is broken.
ImplementsSharedDocument == Document!Spec
=============================================================================
