--------------------- MODULE CollaborationDocumentProofs ---------------------
(***************************************************************************)
(* Proofs about CollaborationDocument, for any accounts, processes, write  *)
(* identities, changes and limits.                                         *)
(***************************************************************************)
EXTENDS CollaborationDocument, FiniteSetTheorems, TLAPS

(***************************************************************************)
(* Reading the log.                                                        *)
(***************************************************************************)

\* A log has a newest row, unless it is empty.
HasNewest(rows) ==
    rows # {} => \E r \in rows : \A q \in rows : q.id <= r.id

\* An empty log reads as id 0 and no content.
LEMMA EmptyLog == LastId({}) = 0 /\ Replay({}) = {}
  BY DEF LastId, Replay

\* LastId is the id of the row that no other row exceeds.
LEMMA LastIdOfNewest ==
  ASSUME NEW rows \in SUBSET Row, NEW r \in rows, \A q \in rows : q.id <= r.id
  PROVE  LastId(rows) = r.id
<1>1. r.id \in {q.id : q \in rows} /\ \A q \in rows : q.id <= r.id
  OBVIOUS
<1>2. ASSUME NEW n \in {q.id : q \in rows}, \A q \in rows : q.id <= n
      PROVE  n = r.id
  BY <1>2 DEF Row
<1>3. rows # {}
  OBVIOUS
<1> QED
  BY <1>1, <1>2, <1>3 DEF LastId

\* LastId bounds the ids of a log, and is positive exactly when there is a row.
LEMMA LastIdBounds ==
  ASSUME NEW rows \in SUBSET Row, HasNewest(rows)
  PROVE  /\ LastId(rows) \in Nat
         /\ rows = {} <=> LastId(rows) = 0
         /\ \A r \in rows : r.id <= LastId(rows)
         /\ rows # {} => \E r \in rows : r.id = LastId(rows)
<1>1. CASE rows = {}
  BY <1>1, EmptyLog
<1>2. CASE rows # {}
  <2>1. PICK r \in rows : \A q \in rows : q.id <= r.id
    BY <1>2 DEF HasNewest
  <2>2. LastId(rows) = r.id
    BY <2>1, LastIdOfNewest
  <2>3. r.id \in Nat \ {0}
    BY DEF Row
  <2> QED
    BY <1>2, <2>1, <2>2, <2>3
<1> QED
  BY <1>1, <1>2

\* A replay yields changes of the document, and a log's rows only add to it.
LEMMA ReplayType ==
  ASSUME NEW rows \in SUBSET Row
  PROVE  Replay(rows) \in Content
  BY DEF Replay, Row, Content

LEMMA ReplayAdd ==
  ASSUME NEW rows, NEW r
  PROVE  /\ Replay(rows \cup {r}) = Replay(rows) \cup r.data
         /\ Replay({r}) = r.data
  BY DEF Replay
-----------------------------------------------------------------------------
(***************************************************************************)
(* What a step does to the log.                                            *)
(***************************************************************************)
LogUntouched ==
    UNCHANGED <<updates, lastInsertId, documentEpoch, lastEpoch>>

LineageEnds ==
    /\ updates' = {} /\ documentEpoch' = 0
    /\ UNCHANGED <<lastInsertId, lastEpoch>>

LineageStarts ==
    /\ updates' = {} /\ documentEpoch' = lastEpoch + 1 /\ lastEpoch' = lastEpoch + 1
    /\ UNCHANGED lastInsertId

LogExtended ==
    /\ documentEpoch # 0
    /\ lastInsertId' = lastInsertId + 1
    /\ LastId(updates') = lastInsertId'
    /\ Replay(updates) \subseteq Replay(updates')
    /\ UNCHANGED <<documentEpoch, lastEpoch>>

LogCompacted ==
    /\ LastId(updates') = LastId(updates)
    /\ Replay(updates') = Replay(updates)
    /\ (updates = {}) = (updates' = {})
    /\ UNCHANGED <<lastInsertId, documentEpoch, lastEpoch>>

LogStep ==
    LogUntouched \/ LineageEnds \/ LineageStarts \/ LogExtended \/ LogCompacted

(***************************************************************************)
(* The inductive invariant.                                                *)
(***************************************************************************)

\* A copy of the document taken in an epoch, up to a cursor: while its epoch
\* is current it holds nothing that is not durable, and if its cursor is the
\* newest row it is the document.
Tracks(epoch, state, cursor, current, rows, last) ==
    /\ epoch \in Nat /\ cursor \in Nat /\ cursor <= last
    /\ epoch = current =>
          /\ state \subseteq Replay(rows)
          /\ cursor = LastId(rows) => state = Replay(rows)

RoomTracks(room) ==
    Tracks(room.epoch, room.state, room.maxUpdateId,
           documentEpoch, updates, lastInsertId)

LogInv ==
    /\ HasNewest(updates)
    /\ documentEpoch <= lastEpoch

LoadInv ==
    \A s \in Servers :
        loads[s].phase # "none" => loads[s].epoch \in 1..lastEpoch

RoomInv ==
    \A s \in Servers :
        /\ rooms[s].phase # "none" => rooms[s].epoch \in 1..lastEpoch
        /\ rooms[s].phase = "loaded" => RoomTracks(rooms[s])

SocketInv ==
    \A c \in sockets :
        rooms[c.server].phase = "loaded" /\ rooms[c.server].epoch = c.epoch

\* What a write read from its room is a copy of the document as it was, and
\* what an accepted write leaves is a copy of the document it made.
WriteTracks(w) ==
    /\ w.epoch \in 1..lastEpoch
    /\ w.room.epoch = w.epoch
    /\ RoomTracks(w.room)
    /\ w.result = "accepted" =>
          Tracks(w.epoch, NextState(w), w.updateId,
                 documentEpoch, updates, lastInsertId)
    /\ w.live => rooms[w.server].phase = "loaded" /\ rooms[w.server].epoch = w.epoch

WriteInv == \A w \in writes : WriteTracks(w)

AckedInv ==
    \A a \in acked :
        /\ a[1] \in 1..lastEpoch
        /\ a[1] = documentEpoch => a[2] \in Replay(updates)

\* The document of a shared page contains its blocks table from the first row
\* of a lineage on.
CheckpointInv ==
    /\ materializedUpdateId <= lastInsertId
    /\ materializedUpdateId # 0 => updates # {}
    /\ CheckpointHonest
    /\ Shared /\ updates # {} => blocks \subseteq Replay(updates)

IInv ==
    /\ TypeOK
    /\ LogInv /\ LoadInv /\ RoomInv /\ SocketInv /\ WriteInv /\ AckedInv
    /\ LineageMatchesSharing /\ LeaseProtectsLineage /\ CheckpointInv
-----------------------------------------------------------------------------
(***************************************************************************)
(* Type correctness.                                                       *)
(***************************************************************************)

\* The room updates of the hub yield rooms.
LEMMA RoomTypes ==
  ASSUME NEW room \in Room, NEW s, NEW ss, NEW ws
  PROVE  /\ ClosedRoom \in Room
         /\ Idled(room, s, ss, ws) \in Room
         /\ Idled(room, s, ss, ws).phase = room.phase
         /\ Idled(room, s, ss, ws).epoch = room.epoch
         /\ Idled(room, s, ss, ws).state = room.state
         /\ Idled(room, s, ss, ws).maxUpdateId = room.maxUpdateId
  BY DEF Room, ClosedRoom, Idled, Content

\* Marking the writes of an invalidated room keeps them writes.
LEMMA InvalidatedTypes ==
  ASSUME NEW ws \in SUBSET Write, NEW s
  PROVE  Invalidated(ws, s) \in SUBSET Write
  BY DEF Invalidated, Write

\* Invalidating a room, and ending a write, keep the process state typed.
LEMMA InvalidateRoomTypes ==
  ASSUME ProcessesTypeOK, NEW s \in Servers, NEW ws \in SUBSET Write,
         InvalidateRoom(s, ws), UNCHANGED <<loads, materializations>>
  PROVE  ProcessesTypeOK'
<1>1. rooms' \in [Servers -> Room]
  BY RoomTypes DEF ProcessesTypeOK, InvalidateRoom
<1>2. writes' \in SUBSET Write
  BY InvalidatedTypes DEF InvalidateRoom
<1> QED
  BY <1>1, <1>2 DEF ProcessesTypeOK, InvalidateRoom

LEMMA EndWriteTypes ==
  ASSUME ProcessesTypeOK, NEW w \in writes, NEW closed, EndWrite(w, closed),
         UNCHANGED <<loads, materializations>>
  PROVE  ProcessesTypeOK'
<1>1. w.server \in Servers /\ w \in Write
  BY DEF ProcessesTypeOK, Write
<1>2. rooms' \in [Servers -> Room]
  <2>1. Idled(rooms[w.server], w.server, sockets \ closed, writes \ {w}) \in Room
    BY <1>1, RoomTypes DEF ProcessesTypeOK
  <2> QED
    BY <1>1, <2>1 DEF ProcessesTypeOK, EndWrite
<1> QED
  BY <1>2 DEF ProcessesTypeOK, EndWrite

LEMMA CloseSocketsTypes ==
  ASSUME ProcessesTypeOK, NEW closed, CloseSockets(closed),
         UNCHANGED <<loads, writes, materializations>>
  PROVE  ProcessesTypeOK'
<1>1. rooms' \in [Servers -> Room]
  <2>1. ASSUME NEW s \in Servers
        PROVE  Idled(rooms[s], s, sockets \ closed, writes) \in Room
    BY RoomTypes DEF ProcessesTypeOK
  <2> QED
    BY <2>1 DEF ProcessesTypeOK, CloseSockets
<1> QED
  BY <1>1 DEF ProcessesTypeOK, CloseSockets

\* Sharing, unsharing and moving keep the database typed.
LEMMA LineageTypes ==
  ASSUME NEW counted, DatabaseTypeOK, UNCHANGED <<lastInsertId, blocks>>,
         \/ KeepLineage \/ StartLineage \/ EndLineage(counted)
         \/ UNCHANGED vault /\ (ReplaceLineage(TRUE) \/ ReplaceLineage(FALSE))
         \/ UNCHANGED <<updates, materializedUpdateId, documentEpoch, lastEpoch, vault>>
  PROVE  DatabaseTypeOK'
<1>1. Replay(updates) \in Content
  BY ReplayType DEF DatabaseTypeOK
<1>2. ASSUME ReplaceLineage(TRUE) \/ ReplaceLineage(FALSE)
      PROVE  /\ updates' = {} /\ materializedUpdateId' = 0
             /\ documentEpoch' \in Nat /\ lastEpoch' \in Nat
  BY <1>2 DEF ReplaceLineage, DatabaseTypeOK
<1>3. ASSUME NEW n, Quarantine(n, TRUE) \/ Quarantine(n, FALSE)
      PROVE  vault' \subseteq [epoch : Nat, content : Content]
  BY <1>1, <1>3 DEF Quarantine, DatabaseTypeOK
<1>4. IsFiniteSet({})
  BY FS_EmptySet
<1>5. CASE StartLineage
  <2>1. vault' \subseteq [epoch : Nat, content : Content]
    BY <1>3, <1>5 DEF StartLineage, DatabaseTypeOK
  <2> QED
    BY <1>2, <1>4, <1>5, <2>1 DEF StartLineage, DatabaseTypeOK
<1>6. CASE EndLineage(counted)
  <2>1. vault' \subseteq [epoch : Nat, content : Content]
    <3>1. CASE UNCHANGED vault
      BY <3>1 DEF DatabaseTypeOK
    <3>2. CASE Quarantine(counted, TRUE) \/ Quarantine(counted, FALSE)
      BY <1>3, <3>2
    <3> QED
      BY <1>6, <3>1, <3>2 DEF EndLineage
  <2>2. CASE ReplaceLineage(FALSE)
    <3>1. /\ updates' = {} /\ materializedUpdateId' = 0
          /\ documentEpoch' \in Nat /\ lastEpoch' \in Nat
      BY <1>2, <2>2
    <3> QED
      BY <1>4, <2>1, <3>1 DEF DatabaseTypeOK
  <2>3. CASE UNCHANGED <<updates, materializedUpdateId, documentEpoch, lastEpoch>>
    BY <2>1, <2>3 DEF DatabaseTypeOK
  <2> QED
    BY <1>6, <2>2, <2>3 DEF EndLineage
<1>7. CASE UNCHANGED vault /\ (ReplaceLineage(TRUE) \/ ReplaceLineage(FALSE))
  <2>1. /\ updates' = {} /\ materializedUpdateId' = 0
        /\ documentEpoch' \in Nat /\ lastEpoch' \in Nat /\ vault' = vault
    BY <1>2, <1>7
  <2> QED
    BY <1>4, <2>1 DEF DatabaseTypeOK
<1> QED
  BY <1>5, <1>6, <1>7 DEF KeepLineage, DatabaseTypeOK

\* TypeOK is a matter of its parts, and a step that leaves a part's variables
\* alone keeps it.
LEMMA TypeParts ==
  /\ DatabaseTypeOK /\ UNCHANGED database /\ UNCHANGED acked => DatabaseTypeOK'
  /\ GrantsTypeOK /\ UNCHANGED grants => GrantsTypeOK'
  /\ ProcessesTypeOK /\ UNCHANGED processes => ProcessesTypeOK'
  BY DEF database, grants, processes, DatabaseTypeOK, GrantsTypeOK, ProcessesTypeOK

\* A share, move or archive request keeps every variable typed.
LEMMA ShareStepTypes ==
  ASSUME TypeOK, ShareStep
  PROVE  TypeOK'
<1> USE DEF TypeOK
<1>1. ASSUME NEW u \in Users, AddPageShare(u)
      PROVE  TypeOK'
  <2>1. DatabaseTypeOK'
    BY <1>1, LineageTypes DEF AddPageShare
  <2>2. GrantsTypeOK'
    BY <1>1 DEF AddPageShare, NewGeneration, GrantsTypeOK
  <2> QED
    BY <1>1, <2>1, <2>2, TypeParts DEF AddPageShare
<1>2. ASSUME NEW u \in Users, RemovePageShare(u)
      PROVE  TypeOK'
  <2>1. DatabaseTypeOK'
    BY <1>2, LineageTypes DEF RemovePageShare
  <2>2. GrantsTypeOK'
    BY <1>2 DEF RemovePageShare, GrantsTypeOK
  <2> QED
    BY <1>2, <2>1, <2>2, TypeParts DEF RemovePageShare
<1>3. ASSUME NEW u \in Users, AddCollectionShare(u)
      PROVE  TypeOK'
  <2>1. DatabaseTypeOK'
    BY <1>3, LineageTypes DEF AddCollectionShare
  <2>2. GrantsTypeOK'
    BY <1>3 DEF AddCollectionShare, NewGeneration, GrantsTypeOK
  <2> QED
    BY <1>3, <2>1, <2>2, TypeParts DEF AddCollectionShare
<1>4. ASSUME NEW r \in removals, NEW delegates, NEW direct,
             RemoveCollectionShare(r, delegates, direct)
      PROVE  TypeOK'
  <2>1. DatabaseTypeOK'
    BY <1>4, LineageTypes DEF RemoveCollectionShare
  <2>2. GrantsTypeOK'
    BY <1>4 DEF RemoveCollectionShare, GrantsTypeOK
  <2> QED
    BY <1>4, <2>1, <2>2, TypeParts DEF RemoveCollectionShare
<1>8. ASSUME NEW u \in Users, BeginCollectionRemoval(u)
      PROVE  TypeOK'
  <2>1. Cardinality(updates) \in Nat
    BY FS_CardinalityType DEF DatabaseTypeOK
  <2>2. GrantsTypeOK'
    BY <1>8, <2>1 DEF BeginCollectionRemoval, GrantsTypeOK
  <2> QED
    BY <1>8, <2>2, TypeParts DEF BeginCollectionRemoval
<1>9. ASSUME NEW r \in removals, AbortCollectionRemoval(r)
      PROVE  TypeOK'
  <2>1. GrantsTypeOK'
    BY <1>9 DEF AbortCollectionRemoval, GrantsTypeOK
  <2> QED
    BY <1>9, <2>1, TypeParts DEF AbortCollectionRemoval
<1>5. CASE MovePage
  <2>1. DatabaseTypeOK'
    <3>1. UNCHANGED <<lastInsertId, blocks, vault>>
      BY <1>5 DEF MovePage
    <3>2. \/ ReplaceLineage(TRUE) \/ ReplaceLineage(FALSE)
          \/ UNCHANGED <<updates, materializedUpdateId, documentEpoch, lastEpoch>>
      BY <1>5 DEF MovePage, ReplaceLineage
    <3> QED
      BY <3>1, <3>2, LineageTypes
  <2>2. GrantsTypeOK'
    BY <1>5 DEF MovePage, GrantsTypeOK
  <2> QED
    BY <1>5, <2>1, <2>2, TypeParts DEF MovePage
<1>6. CASE ArchivePage \/ RestorePage
  <2>1. GrantsTypeOK'
    BY <1>6 DEF ArchivePage, RestorePage, GrantsTypeOK
  <2> QED
    BY <1>6, <2>1, TypeParts DEF ArchivePage, RestorePage
<1>7. ASSUME NEW e \in Edits, DirectEdit(e)
      PROVE  TypeOK'
  <2>1. DatabaseTypeOK'
    BY <1>7 DEF DirectEdit, DatabaseTypeOK, Content
  <2> QED
    BY <1>7, <2>1, TypeParts DEF DirectEdit
<1> QED
  BY <1>1, <1>2, <1>3, <1>4, <1>5, <1>6, <1>7, <1>8, <1>9 DEF ShareStep

\* Compacting an oversized history in place keeps its replay and its cursor.
LEMMA CompactionAtLoad ==
  ASSUME NEW rows \in SUBSET Row, IsFiniteSet(rows), HasNewest(rows)
  PROVE  LET compacted == CompactedAtLoad(rows)
         IN  /\ compacted \in SUBSET Row /\ IsFiniteSet(compacted)
             /\ HasNewest(compacted)
             /\ Replay(compacted) = Replay(rows)
             /\ LastId(compacted) = LastId(rows)
             /\ (compacted = {}) = (rows = {})
<1> DEFINE row == [id |-> LastId(rows), data |-> Replay(rows)]
<1>1. CASE Cardinality(rows) > RetainedEntries
  <2>1. rows # {}
    BY <1>1, FS_EmptySet, BoundAssumption
  <2>2. row \in Row /\ row.id = LastId(rows) /\ row.data = Replay(rows)
    BY <2>1, LastIdBounds, ReplayType DEF Row
  <2> HIDE DEF row
  <2>3. Replay({row}) = Replay(rows)
    BY <2>2, ReplayAdd
  <2>4. LastId({row}) = LastId(rows) /\ HasNewest({row})
    <3>1. \A q \in {row} : q.id <= row.id
      BY <2>2 DEF Row
    <3> QED
      BY <2>2, <3>1, LastIdOfNewest DEF HasNewest
  <2>5. IsFiniteSet({row})
    BY FS_Singleton
  <2>6. CompactedAtLoad(rows) = {row}
    BY <1>1 DEF CompactedAtLoad, row
  <2> QED
    BY <2>1, <2>2, <2>3, <2>4, <2>5, <2>6
<1>2. CASE ~(Cardinality(rows) > RetainedEntries)
  BY <1>2 DEF CompactedAtLoad
<1> QED
  BY <1>1, <1>2

\* A load, an admission, a disconnection or a crash keeps every variable typed.
LEMMA RoomStepTypes ==
  ASSUME TypeOK, HasNewest(updates), RoomStep
  PROVE  TypeOK'
<1> USE DEF TypeOK
<1>1. LastId(updates) \in Nat /\ Replay(updates) \in Content
  BY LastIdBounds, ReplayType DEF DatabaseTypeOK
<1>2. ASSUME NEW s \in Servers, OpenRoom(s)
      PROVE  TypeOK'
  <2>1. ProcessesTypeOK'
    <3>1. rooms[s] \in Room /\ documentEpoch \in Nat
      BY DEF ProcessesTypeOK, DatabaseTypeOK
    <3>2. [rooms[s] EXCEPT !.phase = "loading", !.epoch = documentEpoch] \in Room
      BY <3>1 DEF Room
    <3>3. rooms' \in [Servers -> Room]
      BY <1>2, <3>2 DEF OpenRoom, ProcessesTypeOK
    <3>4. loads' \in [Servers -> [phase : {"none", "read", "replay"}, epoch : Nat,
                                 copy : SUBSET Row]]
      BY <1>2, <3>1 DEF OpenRoom, ProcessesTypeOK
    <3> QED
      BY <1>2, <3>3, <3>4 DEF OpenRoom, ProcessesTypeOK
  <2> QED
    BY <1>2, <2>1, TypeParts DEF OpenRoom
<1>3. ASSUME NEW s \in Servers, FailLoad(s),
             UNCHANGED <<sockets, writes, materializations>>
      PROVE  ProcessesTypeOK'
  <2>1. NoLoad \in [phase : {"none", "read", "replay"}, epoch : Nat, copy : SUBSET Row]
    BY DEF NoLoad
  <2>2. ClosedRoom \in Room
    BY DEF ClosedRoom, Room, Content
  <2> QED
    BY <1>3, <2>1, <2>2 DEF FailLoad, ProcessesTypeOK
<1>4. ASSUME NEW s \in Servers, ReadHistory(s)
      PROVE  TypeOK'
  <2>1. ProcessesTypeOK'
    <3>1. CASE loads[s].epoch = documentEpoch
      BY <1>4, <3>1 DEF ReadHistory, ProcessesTypeOK, DatabaseTypeOK
    <3>2. CASE loads[s].epoch # documentEpoch
      BY <1>3, <1>4, <3>2 DEF ReadHistory
    <3> QED
      BY <3>1, <3>2
  <2> QED
    BY <1>4, <2>1, TypeParts DEF ReadHistory
<1>5. ASSUME NEW s \in Servers, FinishLoad(s)
      PROVE  TypeOK'
  <2>1. CASE /\ loads[s].copy = updates
             /\ updates' = CompactedAtLoad(updates)
             /\ loads' = [loads EXCEPT ![s] = NoLoad]
             /\ rooms' = [rooms EXCEPT ![s] =
                   IF rooms[s].phase = "loading"
                   THEN LoadedRoom(loads[s].epoch, updates') ELSE rooms[s]]
    <3>1. /\ updates' \in SUBSET Row /\ IsFiniteSet(updates')
          /\ LastId(updates') = LastId(updates) /\ HasNewest(updates')
          /\ Replay(updates') \in Content
      BY <2>1, <1>1, CompactionAtLoad DEF DatabaseTypeOK
    <3>2. \A r \in updates' : r.id <= lastInsertId
      <4>1. \A r \in updates' : r.id <= LastId(updates)
        BY <3>1, LastIdBounds
      <4>2. LastId(updates) <= lastInsertId
        BY <1>1, LastIdBounds DEF DatabaseTypeOK
      <4> QED
        BY <1>1, <3>1, <4>1, <4>2 DEF DatabaseTypeOK, Row
    <3>3. DatabaseTypeOK'
      BY <1>5, <3>1, <3>2 DEF FinishLoad, DatabaseTypeOK
    <3>4. LoadedRoom(loads[s].epoch, updates') \in Room
      <4>1. Cardinality(updates') \in Nat
        BY <3>1, FS_CardinalityType
      <4>2. LastHash(updates') \in SUBSET Content
        BY <3>1 DEF LastHash, Row
      <4>3. loads[s].epoch \in Nat
        BY DEF ProcessesTypeOK
      <4> QED
        BY <1>1, <3>1, <4>1, <4>2, <4>3 DEF LoadedRoom, Room
    <3>5. NoLoad \in [phase : {"none", "read", "replay"}, epoch : Nat, copy : SUBSET Row]
      BY DEF NoLoad
    <3>6. UNCHANGED <<sockets, writes, materializations>>
      BY <1>5 DEF FinishLoad
    <3>7. ProcessesTypeOK'
      BY <2>1, <3>4, <3>5, <3>6 DEF ProcessesTypeOK
    <3> QED
      BY <1>5, <3>3, <3>7, TypeParts DEF FinishLoad
  <2>2. CASE /\ loads' = [loads EXCEPT ![s].phase = "read", ![s].copy = {}]
             /\ UNCHANGED <<updates, rooms>>
    <3>1. ProcessesTypeOK'
      BY <1>5, <2>2 DEF FinishLoad, ProcessesTypeOK
    <3> QED
      BY <1>5, <2>2, <3>1, TypeParts DEF FinishLoad, database
  <2>3. CASE FailLoad(s) /\ UNCHANGED updates
    <3>1. ProcessesTypeOK'
      BY <1>3, <1>5, <2>3 DEF FinishLoad
    <3> QED
      BY <1>5, <2>3, <3>1, TypeParts DEF FinishLoad, database
  <2> QED
    BY <1>5, <2>1, <2>2, <2>3 DEF FinishLoad
<1>6. ASSUME NEW s \in Servers, DropRoom(s)
      PROVE  TypeOK'
  <2>1. ProcessesTypeOK'
    <3>1. writes \in SUBSET Write /\ InvalidateRoom(s, writes)
          /\ UNCHANGED <<loads, materializations>>
      BY <1>6 DEF DropRoom, ProcessesTypeOK
    <3> QED
      BY <3>1, InvalidateRoomTypes
  <2> QED
    BY <1>6, <2>1, TypeParts DEF DropRoom
<1>7. ASSUME NEW s \in Servers, Crash(s)
      PROVE  TypeOK'
  <2>1. ProcessesTypeOK'
    BY <1>7 DEF Crash, ProcessesTypeOK, NoLoad, ClosedRoom, Room, Content
  <2> QED
    BY <1>7, <2>1, TypeParts DEF Crash
<1>8. ASSUME NEW s \in Servers, NEW a \in Clients, Connect(a, s)
      PROVE  TypeOK'
  <2>1. ProcessesTypeOK'
    <3>1. CASE rooms[s].idle /\ ~CursorMatches(s)
      <4>1. writes \in SUBSET Write /\ InvalidateRoom(s, writes)
            /\ UNCHANGED <<loads, materializations>>
        BY <1>8, <3>1 DEF Connect, ProcessesTypeOK
      <4> QED
        BY <4>1, InvalidateRoomTypes
    <3>2. CASE ~(rooms[s].idle /\ ~CursorMatches(s))
      <4>1. Generation(a) \in Nat
        BY AccountAssumption DEF Generation, GrantsTypeOK, Accounts
      <4>2. [account |-> a, server |-> s, epoch |-> documentEpoch,
             generation |-> Generation(a)] \in Socket
        BY <4>1 DEF Socket, DatabaseTypeOK
      <4>3. rooms' \in [Servers -> Room]
        <5>1. [rooms[s] EXCEPT !.idle = FALSE] \in Room
          BY DEF ProcessesTypeOK, Room
        <5> QED
          BY <1>8, <3>2, <5>1 DEF Connect, ProcessesTypeOK
      <4> QED
        BY <1>8, <3>2, <4>2, <4>3 DEF Connect, ProcessesTypeOK
    <3> QED
      BY <3>1, <3>2
  <2> QED
    BY <1>8, <2>1, TypeParts DEF Connect
<1>9. ASSUME NEW c \in sockets, Disconnect(c)
      PROVE  TypeOK'
  <2>1. ProcessesTypeOK'
    BY <1>9, CloseSocketsTypes DEF Disconnect
  <2> QED
    BY <1>9, <2>1, TypeParts DEF Disconnect
<1> QED
  BY <1>2, <1>4, <1>5, <1>6, <1>7, <1>8, <1>9 DEF RoomStep

\* The verdict on a write, and what an accepted write has passed.
LEMMA VerdictFacts ==
  ASSUME NEW w
  PROVE  /\ Verdict(w) \in Verdicts
         /\ Verdict(w) = "accepted" =>
               /\ w.live /\ ~isArchived /\ Shared /\ documentEpoch = w.epoch
               /\ CheckpointMatches(w) /\ BootstrapMatches(w)
               /\ w.snapshot => SnapshotAcceptable(w)
  BY DEF Verdict, Verdicts

\* An insertion takes the next id and stores changes of the document.
LEMMA InsertTypes ==
  ASSUME DatabaseTypeOK, NEW w \in Write, InsertUpdate(w)
  PROVE  /\ updates' \in SUBSET Row /\ IsFiniteSet(updates')
         /\ lastInsertId' \in Nat
         /\ \A r \in updates' : r.id <= lastInsertId'
<1> DEFINE whole == [id |-> lastInsertId + 1, data |-> NextState(w)]
           rest  == [id |-> lastInsertId + 1, data |-> w.update \ w.room.state]
<1>1. lastInsertId \in Nat /\ lastInsertId' = lastInsertId + 1
  BY DEF DatabaseTypeOK, InsertUpdate
<1>2. w.update \in Content /\ w.room.state \in Content
  BY DEF Write, Room
<1>3. whole \in Row /\ rest \in Row /\ whole.id = lastInsertId' /\ rest.id = lastInsertId'
  BY <1>1, <1>2 DEF Row, NextState, Content
<1>4. updates' = {whole} \/ updates' = updates \cup {rest}
  BY DEF InsertUpdate, Inserted
<1> HIDE DEF whole, rest
<1>5. IsFiniteSet({whole})
  BY FS_Singleton
<1>6. updates \subseteq Row /\ IsFiniteSet(updates)
      /\ \A r \in updates : r.id \in Nat /\ r.id <= lastInsertId
  BY DEF DatabaseTypeOK, Row
<1>7. IsFiniteSet(updates \cup {rest})
  BY <1>6, FS_AddElement
<1>8. CASE updates' = {whole}
  BY <1>1, <1>3, <1>5, <1>8
<1>9. CASE updates' = updates \cup {rest}
  BY <1>1, <1>3, <1>6, <1>7, <1>9
<1> QED
  BY <1>4, <1>8, <1>9

\* A published write leaves a room.
LEMMA PublishedRoomType ==
  ASSUME ProcessesTypeOK, NEW w \in writes
  PROVE  PublishedRoom(w) \in Room
<1>1. w \in Write /\ w.room \in Room /\ rooms[w.server] \in Room
  BY DEF ProcessesTypeOK, Write
<1>2. /\ w.update \in Content /\ w.room.state \in Content
      /\ w.room.entries \in Nat /\ w.updateId \in Nat
  BY <1>1 DEF Write, Room
<1>3. NextState(w) \in Content /\ w.update \ w.room.state \in Content
  BY <1>2 DEF NextState, Content
<1>4. {IF DurableSnapshot(w) THEN NextState(w)
       ELSE w.update \ w.room.state} \in SUBSET Content
  BY <1>3
<1>5. (IF DurableSnapshot(w) THEN 1 ELSE w.room.entries + 1) \in Nat
  BY <1>2
<1> QED
  BY <1>1, <1>2, <1>3, <1>4, <1>5 DEF PublishedRoom, Room

\* A step of the write pipeline keeps every variable typed.
LEMMA WriteStepTypes ==
  ASSUME TypeOK, HasNewest(updates), WriteStep
  PROVE  TypeOK'
<1> USE DEF TypeOK
<1>1. ASSUME NEW w \in writes
      PROVE  /\ w \in Write
             /\ \A phase \in {"leased", "released"} : [w EXCEPT !.phase = phase] \in Write
             /\ \A verdict \in Results, id \in Nat : Decided(w, verdict, id) \in Write
  <2>1. w \in Write
    BY DEF ProcessesTypeOK
  <2>2. ASSUME NEW phase \in {"leased", "released"}
        PROVE  [w EXCEPT !.phase = phase] \in Write
    BY <2>1 DEF Write
  <2>3. ASSUME NEW verdict \in Results, NEW id \in Nat
        PROVE  Decided(w, verdict, id) \in Write
    BY <2>1 DEF Write, Decided
  <2> QED
    BY <2>1, <2>2, <2>3
<1>2. ASSUME NEW w \in writes, NEW next \in Write
      PROVE  Proceed(w, next) \in SUBSET Write
  <2>1. writes \subseteq Write
    BY DEF ProcessesTypeOK
  <2> QED
    BY <2>1 DEF Proceed
<1>3. ASSUME NEW c \in sockets, NEW update \in Content, AckNoChange(c, update)
      PROVE  TypeOK'
  <2>1. acked' \subseteq Nat \X Edits
    BY <1>3 DEF AckNoChange, ProcessesTypeOK, Socket, Content
  <2> QED
    BY <1>3, <2>1, TypeParts DEF AckNoChange, database, DatabaseTypeOK
<1>4. ASSUME NEW c \in sockets, NEW update \in Content, NEW id \in WriteIds,
             NEW snapshot \in BOOLEAN, NEW base \in Nat,
             ValidateUpdate(c, id, update, snapshot, base)
      PROVE  TypeOK'
  <2>1. c \in Socket /\ rooms[c.server] \in Room
    BY DEF ProcessesTypeOK, Socket
  <2>2. NewWrite(c, id, update, snapshot, base) \in Write
    BY <2>1 DEF NewWrite, Write, Socket, Results
  <2>3. ProcessesTypeOK'
    BY <1>4, <2>2 DEF ValidateUpdate, ProcessesTypeOK
  <2> QED
    BY <1>4, <2>3, TypeParts DEF ValidateUpdate
<1>5. ASSUME NEW w \in writes, ReserveLease(w)
      PROVE  TypeOK'
  <2>1. CASE /\ leases' = leases \cup {[id |-> w.id, epoch |-> w.epoch]}
             /\ writes' = Proceed(w, [w EXCEPT !.phase = "leased"])
             /\ UNCHANGED <<rooms, sockets>>
    <3>1. leases' \subseteq [id : WriteIds, epoch : Nat]
      <4>1. w.id \in WriteIds /\ w.epoch \in Nat
        BY <1>1 DEF Write
      <4> QED
        BY <2>1, <4>1
    <3>2. writes' \in SUBSET Write
      <4>1. [w EXCEPT !.phase = "leased"] \in Write
        BY <1>1
      <4> QED
        BY <1>2, <2>1, <4>1
    <3>3. ProcessesTypeOK'
      BY <1>5, <2>1, <3>2 DEF ReserveLease, ProcessesTypeOK
    <3> QED
      BY <1>5, <3>1, <3>3, TypeParts DEF ReserveLease
  <2>2. CASE /\ EndWrite(w, IF w.live THEN SocketsOf(w) ELSE {})
             /\ UNCHANGED leases
    <3>1. \E closed : EndWrite(w, closed)
      BY <2>2
    <3>2. UNCHANGED <<loads, materializations>>
      BY <1>5 DEF ReserveLease
    <3>3. ProcessesTypeOK'
      BY <3>1, <3>2, EndWriteTypes
    <3> QED
      BY <1>5, <2>2, <3>3, TypeParts DEF ReserveLease
  <2> QED
    BY <1>5, <2>1, <2>2 DEF ReserveLease
<1>6. ASSUME NEW w \in writes, CommitWrite(w)
      PROVE  TypeOK'
  <2> DEFINE id == IF Verdict(w) = "accepted" THEN lastInsertId + 1 ELSE 0
             decided == Decided(w, Verdict(w), id)
  <2>1. decided \in Write
    <3>1. Verdict(w) \in Results /\ id \in Nat
      BY VerdictFacts DEF DatabaseTypeOK, Results
    <3> QED
      BY <1>1, <3>1
  <2>2. Proceed(w, decided) \in SUBSET Write
    BY <1>2, <2>1
  <2>3. DatabaseTypeOK'
    <3>1. CASE InsertUpdate(w)
      BY <1>1, <1>6, <3>1, InsertTypes DEF CommitWrite, DatabaseTypeOK
    <3>2. CASE UNCHANGED <<updates, lastInsertId>>
      BY <1>6, <3>2 DEF CommitWrite, DatabaseTypeOK
    <3> QED
      BY <1>6, <3>1, <3>2 DEF CommitWrite
  <2>4. ProcessesTypeOK'
    <3>1. CASE InvalidateRoom(w.server, Proceed(w, decided))
      <4>1. w.server \in Servers /\ UNCHANGED <<loads, materializations>>
        BY <1>1, <1>6 DEF CommitWrite, Write
      <4> QED
        BY <2>2, <3>1, <4>1, InvalidateRoomTypes
    <3>2. CASE /\ writes' = Proceed(w, decided)
               /\ sockets' \subseteq sockets
               /\ UNCHANGED rooms
      BY <1>6, <2>2, <3>2 DEF CommitWrite, ProcessesTypeOK
    <3> QED
      BY <1>6, <3>1, <3>2 DEF CommitWrite
  <2> QED
    BY <1>6, <2>3, <2>4, TypeParts DEF CommitWrite
<1>7. ASSUME NEW w \in writes, LoseCommitOutcome(w)
      PROVE  TypeOK'
  <2>1. DatabaseTypeOK'
    <3>1. CASE InsertUpdate(w)
      BY <1>1, <1>7, <3>1, InsertTypes DEF LoseCommitOutcome, DatabaseTypeOK
    <3>2. CASE UNCHANGED <<updates, lastInsertId>>
      BY <1>7, <3>2 DEF LoseCommitOutcome, DatabaseTypeOK
    <3> QED
      BY <1>7, <3>1, <3>2 DEF LoseCommitOutcome
  <2>2. writes' \in SUBSET Write
    BY <1>1, <1>2, <1>7 DEF LoseCommitOutcome, Results
  <2>3. ProcessesTypeOK'
    BY <1>7, <2>2 DEF LoseCommitOutcome, ProcessesTypeOK
  <2> QED
    BY <1>7, <2>1, <2>3, TypeParts DEF LoseCommitOutcome
<1>8. ASSUME NEW w \in writes, AbortWrite(w) \/ ReleaseLease(w)
      PROVE  TypeOK'
  <2>1. writes' \in SUBSET Write
    BY <1>1, <1>2, <1>8 DEF AbortWrite, ReleaseLease, Results
  <2>2. ProcessesTypeOK'
    BY <1>8, <2>1 DEF AbortWrite, ReleaseLease, ProcessesTypeOK
  <2>3. leases' \subseteq leases
    BY <1>8 DEF AbortWrite, ReleaseLease
  <2> QED
    BY <1>8, <2>2, <2>3, TypeParts DEF AbortWrite, ReleaseLease
<1>9. ASSUME NEW w \in writes, FinishWrite(w)
      PROVE  TypeOK'
  <2>1. w.server \in Servers /\ writes \ {w} \in SUBSET Write
        /\ UNCHANGED <<loads, materializations>>
    BY <1>1, <1>9 DEF FinishWrite, Write, ProcessesTypeOK
  <2>2. acked' \subseteq Nat \X Edits
    BY <1>1, <1>9 DEF FinishWrite, Write, Content
  <2>3. ProcessesTypeOK'
    <3>1. CASE /\ writes' = writes \ {w}
               /\ rooms' = [rooms EXCEPT ![w.server] =
                      Idled(PublishedRoom(w), w.server, sockets, writes \ {w})]
               /\ UNCHANGED sockets
      <4>1. PublishedRoom(w) \in Room
        BY PublishedRoomType
      <4>2. Idled(PublishedRoom(w), w.server, sockets, writes \ {w}) \in Room
        BY <4>1, RoomTypes
      <4> QED
        BY <2>1, <3>1, <4>2 DEF ProcessesTypeOK
    <3>2. CASE InvalidateRoom(w.server, writes \ {w})
      BY <2>1, <3>2, InvalidateRoomTypes
    <3>3. CASE EndWrite(w, SocketsOf(w)) \/ EndWrite(w, {})
      BY <2>1, <3>3, EndWriteTypes
    <3> QED
      BY <1>9, <3>1, <3>2, <3>3 DEF FinishWrite
  <2> QED
    BY <1>9, <2>2, <2>3, TypeParts DEF FinishWrite, database, DatabaseTypeOK
<1>10. ASSUME NEW l \in leases, ExpireLease(l)
       PROVE  TypeOK'
  BY <1>10, TypeParts DEF ExpireLease
<1>11. \A c \in sockets : rooms[c.server].maxUpdateId \in Nat /\ LastId(updates) \in Nat
  BY LastIdBounds DEF DatabaseTypeOK, ProcessesTypeOK, Socket, Room
<1>12. ASSUME NEW c \in sockets, NEW update \in Content, NEW id \in WriteIds,
              \/ ValidateUpdate(c, id, update, FALSE, 0)
              \/ \E base \in {0, rooms[c.server].maxUpdateId, LastId(updates)} :
                    ValidateUpdate(c, id, update, TRUE, base)
       PROVE  TypeOK'
  BY <1>4, <1>11, <1>12
<1> QED
  BY <1>3, <1>5, <1>6, <1>7, <1>8, <1>9, <1>10, <1>12 DEF WriteStep

\* A materialization request keeps every variable typed.
LEMMA MaterializationStepTypes ==
  ASSUME TypeOK, HasNewest(updates), MaterializationStep
  PROVE  TypeOK'
<1> USE DEF TypeOK
<1>1. ASSUME NEW a \in Clients, CopyHistory(a)
      PROVE  TypeOK'
  <2>1. Generation(a) \in Nat
    BY AccountAssumption DEF Generation, GrantsTypeOK, Accounts
  <2>2. materializations' \subseteq Materialization
    BY <1>1, <2>1 DEF CopyHistory, Materialization, ProcessesTypeOK, DatabaseTypeOK
  <2>3. ProcessesTypeOK'
    BY <1>1, <2>2 DEF CopyHistory, ProcessesTypeOK
  <2> QED
    BY <1>1, <2>3, TypeParts DEF CopyHistory
<1>2. ASSUME NEW m \in materializations, Materialize(m)
      PROVE  TypeOK'
  <2>1. Replay(m.copy) \in Content /\ LastId(m.copy) \in Nat
    BY <1>2, LastIdBounds, ReplayType DEF Materialize, DatabaseTypeOK
  <2>2. DatabaseTypeOK'
    BY <1>2, <2>1 DEF Materialize, DatabaseTypeOK
  <2>3. ProcessesTypeOK'
    BY <1>2 DEF Materialize, ProcessesTypeOK
  <2> QED
    BY <1>2, <2>2, <2>3, TypeParts DEF Materialize
<1>3. ASSUME NEW m \in materializations, AbandonMaterialization(m)
      PROVE  TypeOK'
  <2>1. ProcessesTypeOK'
    BY <1>3 DEF AbandonMaterialization, ProcessesTypeOK
  <2> QED
    BY <1>3, <2>1, TypeParts DEF AbandonMaterialization
<1> QED
  BY <1>1, <1>2, <1>3 DEF MaterializationStep

\* Every step keeps every variable typed.
LEMMA StepTypes ==
  ASSUME TypeOK, HasNewest(updates), [Next]_vars
  PROVE  TypeOK'
<1>1. CASE UNCHANGED vars
  <2>1. /\ UNCHANGED database /\ UNCHANGED grants /\ UNCHANGED processes
        /\ UNCHANGED <<leases, acked>>
    BY <1>1 DEF vars, database, grants, processes
  <2> QED
    BY <2>1, TypeParts DEF TypeOK
<1> QED
  BY <1>1, ShareStepTypes, RoomStepTypes, WriteStepTypes, MaterializationStepTypes
  DEF Next
-----------------------------------------------------------------------------
(***************************************************************************)
(* The log.                                                                *)
(***************************************************************************)

\* An accepted write extends the document: it was computed from the whole
\* log, so what it inserts is the old document and the new changes, whether
\* it is appended or replaces every older row.
LEMMA AcceptedInsertion ==
  ASSUME DatabaseTypeOK, HasNewest(updates), NEW w \in Write, RoomTracks(w.room),
         w.room.epoch = w.epoch, Verdict(w) = "accepted", InsertUpdate(w)
  PROVE  /\ Replay(updates') = NextState(w)
         /\ Replay(updates) \subseteq Replay(updates')
         /\ lastInsertId' = lastInsertId + 1
         /\ LastId(updates') = lastInsertId' /\ HasNewest(updates') /\ updates' # {}
         /\ updates = {} => Replay(updates') = blocks
<1> DEFINE whole == [id |-> lastInsertId + 1, data |-> NextState(w)]
           rest  == [id |-> lastInsertId + 1, data |-> w.update \ w.room.state]
<1>1. documentEpoch = w.epoch /\ CheckpointMatches(w) /\ BootstrapMatches(w)
  BY VerdictFacts
<1>2. w.room.state = Replay(updates)
  BY <1>1 DEF RoomTracks, Tracks, CheckpointMatches
<1>3. /\ whole.id = lastInsertId + 1 /\ whole.data = NextState(w)
      /\ rest.id = lastInsertId + 1 /\ rest.data = w.update \ w.room.state
      /\ lastInsertId' = lastInsertId + 1
  BY DEF InsertUpdate
<1>4. updates' = {whole} \/ updates' = updates \cup {rest}
  BY DEF InsertUpdate, Inserted
<1>5. whole.id \in Nat /\ rest.id \in Nat /\ lastInsertId \in Nat
  BY <1>3 DEF DatabaseTypeOK
<1> HIDE DEF whole, rest
<1>6. updates' \in SUBSET Row
  BY InsertTypes
<1>7. Replay(updates') = NextState(w)
  <2>1. CASE updates' = {whole}
    BY <1>3, <2>1, ReplayAdd
  <2>2. CASE updates' = updates \cup {rest}
    <3>1. Replay(updates') = Replay(updates) \cup rest.data
      BY <2>2, ReplayAdd
    <3> QED
      BY <1>2, <1>3, <3>1 DEF NextState
  <2> QED
    BY <1>4, <2>1, <2>2
<1>8. \E r \in updates' : r.id = lastInsertId' /\ \A q \in updates' : q.id <= r.id
  <2>1. CASE updates' = {whole}
    BY <1>3, <1>5, <2>1
  <2>2. CASE updates' = updates \cup {rest}
    <3>1. \A q \in updates : q.id \in Nat /\ q.id <= lastInsertId
      BY DEF DatabaseTypeOK, Row
    <3> QED
      BY <1>3, <1>5, <2>2, <3>1
  <2> QED
    BY <1>4, <2>1, <2>2
<1>9. updates = {} => Replay(updates') = blocks
  BY <1>1, <1>7, EmptyLog DEF BootstrapMatches
<1> QED
  BY <1>2, <1>3, <1>6, <1>7, <1>8, <1>9, LastIdOfNewest DEF NextState, HasNewest

\* Sharing requests keep, end or start a lineage.
LEMMA LineageLogStep ==
  ASSUME NEW counted, UNCHANGED lastInsertId,
         \/ KeepLineage \/ StartLineage \/ EndLineage(counted)
         \/ ReplaceLineage(TRUE) \/ ReplaceLineage(FALSE)
         \/ UNCHANGED <<updates, materializedUpdateId, documentEpoch, lastEpoch>>
  PROVE  LogUntouched \/ LineageEnds \/ LineageStarts
<1>1. ReplaceLineage(TRUE) => LineageStarts
  BY DEF ReplaceLineage, LineageStarts
<1>2. ReplaceLineage(FALSE) => LineageEnds
  BY DEF ReplaceLineage, LineageEnds
<1>3. StartLineage => LineageStarts
  BY <1>1 DEF StartLineage
<1>4. EndLineage(counted) => LineageEnds \/ LogUntouched
  BY <1>2 DEF EndLineage, LogUntouched
<1> QED
  BY <1>1, <1>2, <1>3, <1>4 DEF KeepLineage, LogUntouched

\* The steps that leave the log alone.
LEMMA OtherLogSteps ==
  ASSUME UNCHANGED database
  PROVE  LogUntouched
  BY DEF database, LogUntouched

LEMMA ShareLogStep ==
  ASSUME ShareStep
  PROVE  LogUntouched \/ LineageEnds \/ LineageStarts
<1>1. ASSUME NEW u \in Users, AddPageShare(u)
      PROVE  LogUntouched \/ LineageEnds \/ LineageStarts
  BY <1>1, LineageLogStep DEF AddPageShare
<1>2. ASSUME NEW u \in Users, RemovePageShare(u)
      PROVE  LogUntouched \/ LineageEnds \/ LineageStarts
  BY <1>2, LineageLogStep DEF RemovePageShare
<1>3. ASSUME NEW u \in Users, AddCollectionShare(u)
      PROVE  LogUntouched \/ LineageEnds \/ LineageStarts
  BY <1>3, LineageLogStep DEF AddCollectionShare
<1>4. ASSUME NEW r \in removals, NEW delegates, NEW direct,
             RemoveCollectionShare(r, delegates, direct)
      PROVE  LogUntouched \/ LineageEnds \/ LineageStarts
  BY <1>4, LineageLogStep DEF RemoveCollectionShare
<1>5. CASE MovePage
  <2>1. UNCHANGED lastInsertId
    BY <1>5 DEF MovePage
  <2>2. \/ ReplaceLineage(TRUE) \/ ReplaceLineage(FALSE)
        \/ UNCHANGED <<updates, materializedUpdateId, documentEpoch, lastEpoch>>
    BY <1>5 DEF MovePage, ReplaceLineage
  <2> QED
    BY <2>1, <2>2, LineageLogStep
<1>6. CASE ArchivePage \/ RestorePage
  BY <1>6, OtherLogSteps DEF ArchivePage, RestorePage
<1>8. CASE \/ \E u \in Users : BeginCollectionRemoval(u)
           \/ \E r \in removals : AbortCollectionRemoval(r)
  BY <1>8, OtherLogSteps DEF BeginCollectionRemoval, AbortCollectionRemoval
<1>7. ASSUME NEW e \in Edits, DirectEdit(e)
      PROVE  LogUntouched
  BY <1>7 DEF DirectEdit, LogUntouched
<1> QED
  BY <1>1, <1>2, <1>3, <1>4, <1>5, <1>6, <1>7, <1>8 DEF ShareStep

\* Every step leaves the log alone, ends or starts a lineage, inserts what
\* an accepted write made, or compacts without changing the document.
LEMMA NextLogStep ==
  ASSUME TypeOK, LogInv, LineageMatchesSharing, WriteInv, [Next]_vars
  PROVE  LogStep /\ LogInv'
<1>1. \A w \in writes : w \in Write /\ RoomTracks(w.room) /\ w.room.epoch = w.epoch
                        /\ w.epoch # 0
  BY DEF TypeOK, ProcessesTypeOK, WriteInv, WriteTracks
<1>2. LogStep /\ HasNewest(updates')
  <2>1. LogUntouched \/ LineageEnds \/ LineageStarts => LogStep /\ HasNewest(updates')
    BY DEF LogStep, LogUntouched, LineageEnds, LineageStarts, LogInv, HasNewest
  <2>2. ASSUME NEW w \in writes, Verdict(w) = "accepted", InsertUpdate(w),
               UNCHANGED <<documentEpoch, lastEpoch>>
        PROVE  LogStep /\ HasNewest(updates')
    <3>1. documentEpoch # 0
      BY <1>1, <2>2, VerdictFacts
    <3> QED
      BY <1>1, <2>2, <3>1, AcceptedInsertion DEF LogStep, LogExtended, LogInv, TypeOK
  <2>3. CASE ShareStep
    BY <2>1, <2>3, ShareLogStep
  <2>4. CASE RoomStep
    <3>1. ASSUME NEW s \in Servers, FinishLoad(s)
          PROVE  LogStep /\ HasNewest(updates')
      <4>1. CASE UNCHANGED updates
        BY <2>1, <3>1, <4>1 DEF FinishLoad, LogUntouched
      <4>2. CASE updates' = CompactedAtLoad(updates)
        <5>1. LogCompacted /\ HasNewest(updates')
          BY <3>1, <4>2, CompactionAtLoad
          DEF FinishLoad, LogCompacted, LogInv, TypeOK, DatabaseTypeOK
        <5> QED
          BY <5>1 DEF LogStep
      <4> QED
        BY <3>1, <4>1, <4>2 DEF FinishLoad
    <3>2. CASE UNCHANGED database
      BY <2>1, <3>2, OtherLogSteps
    <3> QED
      BY <2>4, <3>1, <3>2
      DEF RoomStep, OpenRoom, ReadHistory, DropRoom, Crash, Connect, Disconnect
  <2>5. CASE WriteStep
    <3>1. ASSUME NEW w \in writes, CommitWrite(w)
          PROVE  LogStep /\ HasNewest(updates')
      <4>1. CASE Verdict(w) = "accepted"
        BY <2>2, <3>1, <4>1 DEF CommitWrite
      <4>2. CASE Verdict(w) # "accepted"
        BY <2>1, <3>1, <4>2 DEF CommitWrite, LogUntouched
      <4> QED
        BY <4>1, <4>2
    <3>2. ASSUME NEW w \in writes, LoseCommitOutcome(w)
          PROVE  LogStep /\ HasNewest(updates')
      <4>1. CASE InsertUpdate(w)
        BY <2>2, <3>2, <4>1 DEF LoseCommitOutcome
      <4>2. CASE UNCHANGED <<updates, lastInsertId>>
        BY <2>1, <3>2, <4>2 DEF LoseCommitOutcome, LogUntouched
      <4> QED
        BY <3>2, <4>1, <4>2 DEF LoseCommitOutcome
    <3>3. CASE UNCHANGED database
      BY <2>1, <3>3, OtherLogSteps
    <3> QED
      BY <2>5, <3>1, <3>2, <3>3
      DEF WriteStep, AckNoChange, ValidateUpdate, ReserveLease, AbortWrite,
          ReleaseLease, FinishWrite, ExpireLease
  <2>6. CASE MaterializationStep
    <3>1. LogUntouched
      BY <2>6 DEF MaterializationStep, CopyHistory, Materialize,
                  AbandonMaterialization, database, LogUntouched
    <3> QED
      BY <2>1, <3>1
  <2>7. CASE UNCHANGED vars
    BY <2>1, <2>7 DEF vars, LogUntouched
  <2> QED
    BY <2>3, <2>4, <2>5, <2>6, <2>7 DEF Next
<1>3. documentEpoch' <= lastEpoch'
  BY <1>2 DEF LogStep, LogUntouched, LineageEnds, LineageStarts, LogExtended,
              LogCompacted, LogInv, TypeOK, DatabaseTypeOK
<1> QED
  BY <1>2, <1>3 DEF LogInv, HasNewest
-----------------------------------------------------------------------------
(***************************************************************************)
(* Rooms, sockets and writes.                                              *)
(***************************************************************************)

\* A copy that tracks the log still tracks it after any step.
LEMMA TracksPreserved ==
  ASSUME TypeOK, LogInv, LogStep, NEW epoch \in 1..lastEpoch, NEW state, NEW cursor,
         Tracks(epoch, state, cursor, documentEpoch, updates, lastInsertId)
  PROVE  Tracks(epoch, state, cursor, documentEpoch', updates', lastInsertId')
<1>1. lastInsertId \in Nat /\ lastEpoch \in Nat /\ documentEpoch \in Nat
      /\ cursor \in Nat /\ cursor <= lastInsertId /\ epoch \in Nat
  BY DEF TypeOK, DatabaseTypeOK, Tracks
<1>2. CASE LogUntouched
  BY <1>2 DEF LogUntouched, Tracks
<1>3. CASE LineageEnds
  BY <1>1, <1>3 DEF LineageEnds, Tracks
<1>4. CASE LineageStarts
  BY <1>1, <1>4 DEF LineageStarts, Tracks
<1>5. CASE LogExtended
  BY <1>1, <1>5 DEF LogExtended, Tracks
<1>6. CASE LogCompacted
  BY <1>1, <1>6 DEF LogCompacted, Tracks
<1> QED
  BY <1>2, <1>3, <1>4, <1>5, <1>6 DEF LogStep

\* What a step may do to the room of a process.
SameDocument(room, next) ==
    /\ next.phase = room.phase /\ next.epoch = room.epoch
    /\ next.state = room.state /\ next.maxUpdateId = room.maxUpdateId

RoomMove(s) ==
    \/ rooms'[s].phase = "none"
    \/ SameDocument(rooms[s], rooms'[s])
    \/ /\ rooms[s].phase = "none"
       /\ rooms'[s].phase = "loading"
       /\ documentEpoch # 0 /\ rooms'[s].epoch = documentEpoch
    \/ /\ rooms[s].phase = "loading" /\ loads[s].phase # "none"
       /\ rooms'[s].phase = "loaded" /\ rooms'[s].epoch = loads[s].epoch
       /\ rooms'[s].state = Replay(updates')
       /\ rooms'[s].maxUpdateId = LastId(updates')
    \/ \E w \in writes :
          /\ w.live /\ w.server = s /\ w.result = "accepted"
          /\ rooms'[s].phase = rooms[s].phase /\ rooms'[s].epoch = rooms[s].epoch
          /\ rooms'[s].state = NextState(w) /\ rooms'[s].maxUpdateId = w.updateId

\* A loaded room is still there, in the same epoch.
Kept(s) ==
    rooms[s].phase = "loaded" =>
        rooms'[s].phase = "loaded" /\ rooms'[s].epoch = rooms[s].epoch

SocketMove(c) ==
    /\ Kept(c.server)
    /\ c \in sockets \/ (rooms[c.server].phase = "loaded" /\ rooms[c.server].epoch = c.epoch)

WriteMove(next) ==
    \/ \E w \in writes :
          /\ next.server = w.server /\ next.epoch = w.epoch
          /\ next.room = w.room /\ next.update = w.update
          /\ next.live => w.live /\ Kept(w.server)
          /\ next.result = "accepted" =>
                \/ w.result = "accepted" /\ next.updateId = w.updateId
                \/ /\ Verdict(w) = "accepted" /\ InsertUpdate(w)
                   /\ next.updateId = lastInsertId + 1
    \/ \E c \in sockets :
          /\ next.server = c.server /\ next.epoch = c.epoch
          /\ next.room = rooms[c.server]
          /\ next.result = "none" /\ Kept(c.server)

ProcessMove ==
    /\ \A s \in Servers : RoomMove(s)
    /\ \A c \in sockets' : SocketMove(c)
    /\ \A next \in writes' : WriteMove(next)

\* Where rooms are the same documents and no socket or write is new, nothing
\* moves.
LEMMA QuietMove ==
  ASSUME TypeOK, \A s \in Servers : SameDocument(rooms[s], rooms'[s]),
         sockets' \subseteq sockets, writes' \subseteq writes
  PROVE  ProcessMove
<1>1. \A c \in sockets : c.server \in Servers
  BY DEF TypeOK, ProcessesTypeOK, Socket
<1>2. \A w \in writes : w.server \in Servers
  BY DEF TypeOK, ProcessesTypeOK, Write
<1>3. \A s \in Servers : Kept(s)
  BY DEF Kept, SameDocument
<1> QED
  BY <1>1, <1>2, <1>3 DEF ProcessMove, RoomMove, SocketMove, WriteMove

\* An invalidated room takes its sockets with it, and its writes are stale.
LEMMA InvalidateMove ==
  ASSUME TypeOK, NEW s \in Servers, NEW ws \in SUBSET Write, InvalidateRoom(s, ws),
         \A next \in ws : \/ next \in writes
                          \/ next.server = s /\ next.result # "accepted"
                             /\ \E w \in writes :
                                   /\ next.server = w.server /\ next.epoch = w.epoch
                                   /\ next.room = w.room /\ next.update = w.update
  PROVE  ProcessMove
<1>1. rooms'[s].phase = "none" /\ \A t \in Servers \ {s} : rooms'[t] = rooms[t]
  BY DEF InvalidateRoom, ClosedRoom, TypeOK, ProcessesTypeOK
<1>2. \A t \in Servers \ {s} : Kept(t)
  BY <1>1 DEF Kept
<1>3. \A t \in Servers : RoomMove(t)
  BY <1>1 DEF RoomMove, SameDocument
<1>4. \A c \in sockets' : SocketMove(c)
  BY <1>2 DEF InvalidateRoom, SocketMove, TypeOK, ProcessesTypeOK, Socket
<1>5. ASSUME NEW next \in writes'
      PROVE  WriteMove(next)
  <2>1. PICK w \in ws : next = IF w.server = s THEN [w EXCEPT !.live = FALSE] ELSE w
    BY DEF InvalidateRoom, Invalidated
  <2>2. w \in Write
    OBVIOUS
  <2>3. /\ next.server = w.server /\ next.epoch = w.epoch /\ next.room = w.room
        /\ next.update = w.update /\ next.result = w.result /\ next.updateId = w.updateId
        /\ next.live => w.server # s /\ w.live
    BY <2>1, <2>2 DEF Write
  <2>4. w.server \in Servers
    BY <2>2 DEF Write
  <2>5. CASE w \in writes
    BY <1>2, <2>3, <2>4, <2>5 DEF WriteMove
  <2>6. CASE w \notin writes
    <3>1. w.server = s /\ w.result # "accepted"
      BY <2>6
    <3>2. PICK v \in writes : /\ w.server = v.server /\ w.epoch = v.epoch
                              /\ w.room = v.room /\ w.update = v.update
      BY <2>6
    <3> QED
      BY <2>3, <3>1, <3>2 DEF WriteMove
  <2> QED
    BY <2>5, <2>6
<1> QED
  BY <1>3, <1>4, <1>5 DEF ProcessMove

\* Ending a write or closing sockets leaves every room the same document.
LEMMA EndWriteMove ==
  ASSUME TypeOK, NEW w \in writes, NEW closed, EndWrite(w, closed)
  PROVE  ProcessMove
<1>1. w.server \in Servers
  BY DEF TypeOK, ProcessesTypeOK, Write
<1>2. ASSUME NEW s \in Servers
      PROVE  SameDocument(rooms[s], rooms'[s])
  <2>1. \/ rooms'[s] = rooms[s]
        \/ rooms'[s] = Idled(rooms[s], s, sockets \ closed, writes \ {w})
    BY <1>1 DEF EndWrite, TypeOK, ProcessesTypeOK
  <2> QED
    BY <2>1, RoomTypes DEF SameDocument, TypeOK, ProcessesTypeOK
<1> QED
  BY <1>2, QuietMove DEF EndWrite

LEMMA CloseSocketsMove ==
  ASSUME TypeOK, NEW closed, CloseSockets(closed), UNCHANGED writes
  PROVE  ProcessMove
<1>1. ASSUME NEW s \in Servers
      PROVE  SameDocument(rooms[s], rooms'[s])
  <2>1. \/ rooms'[s] = rooms[s]
        \/ rooms'[s] = Idled(rooms[s], s, sockets \ closed, writes)
    BY DEF CloseSockets
  <2> QED
    BY <2>1, RoomTypes DEF SameDocument, TypeOK, ProcessesTypeOK
<1> QED
  BY <1>1, QuietMove DEF CloseSockets

\* Steps that only read the processes' state.
LEMMA UntouchedMove ==
  ASSUME TypeOK, UNCHANGED <<rooms, sockets, writes>>
  PROVE  ProcessMove
  BY QuietMove DEF SameDocument

\* What the steps of rooms do.
LEMMA RoomStepMove ==
  ASSUME TypeOK, SocketInv, RoomStep
  PROVE  ProcessMove
<1>1. ASSUME NEW s \in Servers, rooms[s].phase # "loaded",
             UNCHANGED <<sockets, writes>>, RoomMove(s),
             \A t \in Servers \ {s} : rooms'[t] = rooms[t]
      PROVE  ProcessMove
  <2>1. \A t \in Servers : Kept(t) /\ RoomMove(t)
    BY <1>1 DEF Kept, RoomMove, SameDocument
  <2>2. \A c \in sockets : c.server \in Servers
    BY DEF TypeOK, ProcessesTypeOK, Socket
  <2>3. \A w \in writes : w.server \in Servers
    BY DEF TypeOK, ProcessesTypeOK, Write
  <2> QED
    BY <1>1, <2>1, <2>2, <2>3 DEF ProcessMove, SocketMove, WriteMove
<1>2. ASSUME NEW s \in Servers, OpenRoom(s)
      PROVE  ProcessMove
  <2>1. /\ rooms[s].phase = "none" /\ UNCHANGED <<sockets, writes>>
        /\ rooms'[s].phase = "loading" /\ rooms'[s].epoch = documentEpoch
        /\ documentEpoch # 0 /\ \A t \in Servers \ {s} : rooms'[t] = rooms[t]
    BY <1>2 DEF OpenRoom, TypeOK, ProcessesTypeOK, Room
  <2> QED
    BY <1>1, <2>1 DEF RoomMove
<1>3. ASSUME NEW s \in Servers, FailLoad(s), UNCHANGED <<sockets, writes>>
      PROVE  ProcessMove
  <2>1. CASE rooms[s].phase = "loading"
    <3>1. rooms'[s].phase = "none" /\ \A t \in Servers \ {s} : rooms'[t] = rooms[t]
      BY <1>3, <2>1 DEF FailLoad, ClosedRoom, TypeOK, ProcessesTypeOK
    <3> QED
      BY <1>1, <1>3, <2>1, <3>1 DEF RoomMove
  <2>2. CASE rooms[s].phase # "loading"
    <3>1. \A t \in Servers : rooms'[t] = rooms[t]
      BY <1>3, <2>2 DEF FailLoad, TypeOK, ProcessesTypeOK
    <3> QED
      BY <1>3, <3>1, QuietMove DEF SameDocument
  <2> QED
    BY <2>1, <2>2
<1>4. ASSUME NEW s \in Servers, ReadHistory(s)
      PROVE  ProcessMove
  BY <1>3, <1>4, UntouchedMove DEF ReadHistory
<1>5. ASSUME NEW s \in Servers, FinishLoad(s)
      PROVE  ProcessMove
  <2>1. UNCHANGED <<sockets, writes>> /\ loads[s].phase = "replay"
    BY <1>5 DEF FinishLoad
  <2>2. CASE FailLoad(s) \/ UNCHANGED rooms
    BY <1>3, <2>1, <2>2, UntouchedMove
  <2>3. CASE rooms' = [rooms EXCEPT ![s] =
                          IF rooms[s].phase = "loading"
                          THEN LoadedRoom(loads[s].epoch, updates') ELSE rooms[s]]
    <3>1. CASE rooms[s].phase = "loading"
      <4>1. /\ rooms'[s] = LoadedRoom(loads[s].epoch, updates')
            /\ \A t \in Servers \ {s} : rooms'[t] = rooms[t]
        BY <2>3, <3>1 DEF TypeOK, ProcessesTypeOK
      <4>2. RoomMove(s)
        BY <2>1, <3>1, <4>1 DEF RoomMove, LoadedRoom
      <4> QED
        BY <1>1, <2>1, <3>1, <4>1, <4>2
    <3>2. CASE rooms[s].phase # "loading"
      <4>1. \A t \in Servers : rooms'[t] = rooms[t]
        BY <2>3, <3>2 DEF TypeOK, ProcessesTypeOK
      <4> QED
        BY <2>1, <4>1, QuietMove DEF SameDocument
    <3> QED
      BY <3>1, <3>2
  <2> QED
    BY <1>5, <2>2, <2>3 DEF FinishLoad
<1>6. writes \in SUBSET Write
  BY DEF TypeOK, ProcessesTypeOK
<1>7. ASSUME NEW s \in Servers, DropRoom(s)
      PROVE  ProcessMove
  BY <1>6, <1>7, InvalidateMove DEF DropRoom
<1>8. ASSUME NEW s \in Servers, Crash(s)
      PROVE  ProcessMove
  <2>1. rooms'[s].phase = "none" /\ \A t \in Servers \ {s} : rooms'[t] = rooms[t]
    BY <1>8 DEF Crash, ClosedRoom, TypeOK, ProcessesTypeOK
  <2>2. \A t \in Servers \ {s} : Kept(t)
    BY <2>1 DEF Kept
  <2>3. \A t \in Servers : RoomMove(t)
    BY <2>1 DEF RoomMove, SameDocument
  <2>4. \A c \in sockets' : SocketMove(c)
    BY <1>8, <2>2 DEF Crash, SocketMove, TypeOK, ProcessesTypeOK, Socket
  <2>5. \A next \in writes' : WriteMove(next)
    BY <1>8, <2>2 DEF Crash, WriteMove, TypeOK, ProcessesTypeOK, Write
  <2> QED
    BY <2>3, <2>4, <2>5 DEF ProcessMove
<1>9. ASSUME NEW s \in Servers, NEW a \in Clients, Connect(a, s)
      PROVE  ProcessMove
  <2>1. CASE rooms[s].idle /\ ~CursorMatches(s)
    BY <1>6, <1>9, <2>1, InvalidateMove DEF Connect
  <2>2. CASE ~(rooms[s].idle /\ ~CursorMatches(s))
    <3> DEFINE new == [account |-> a, server |-> s, epoch |-> documentEpoch,
                       generation |-> Generation(a)]
    <3>1. /\ rooms[s].phase = "loaded" /\ rooms[s].epoch = documentEpoch
          /\ sockets' = sockets \cup {new} /\ UNCHANGED writes
          /\ rooms' = [rooms EXCEPT ![s].idle = FALSE]
      BY <1>9, <2>2 DEF Connect
    <3>2. ASSUME NEW t \in Servers
          PROVE  SameDocument(rooms[t], rooms'[t])
      BY <3>1 DEF SameDocument, TypeOK, ProcessesTypeOK, Room
    <3>3. \A t \in Servers : Kept(t) /\ RoomMove(t)
      BY <3>2 DEF Kept, SameDocument, RoomMove
    <3>4. \A c \in sockets' : SocketMove(c)
      BY <3>1, <3>3 DEF SocketMove, TypeOK, ProcessesTypeOK, Socket
    <3>5. \A next \in writes' : WriteMove(next)
      BY <3>1, <3>3 DEF WriteMove, TypeOK, ProcessesTypeOK, Write
    <3> QED
      BY <3>3, <3>4, <3>5 DEF ProcessMove
  <2> QED
    BY <2>1, <2>2
<1>10. ASSUME NEW c \in sockets, Disconnect(c)
       PROVE  ProcessMove
  BY <1>10, CloseSocketsMove DEF Disconnect
<1> QED
  BY <1>2, <1>4, <1>5, <1>7, <1>8, <1>9, <1>10 DEF RoomStep

\* A write that goes on to its next phase.
LEMMA ProceedMove ==
  ASSUME TypeOK, NEW w \in writes, NEW next, writes' = Proceed(w, next),
         next.server = w.server, next.epoch = w.epoch, next.room = w.room,
         next.update = w.update, next.live => w.live,
         next.result = "accepted" =>
            \/ w.result = "accepted" /\ next.updateId = w.updateId
            \/ /\ Verdict(w) = "accepted" /\ InsertUpdate(w)
               /\ next.updateId = lastInsertId + 1,
         UNCHANGED rooms, sockets' \subseteq sockets
  PROVE  ProcessMove
<1>1. \A s \in Servers : RoomMove(s) /\ Kept(s)
  BY DEF RoomMove, Kept, SameDocument
<1>2. \A v \in writes : v.server \in Servers
  BY DEF TypeOK, ProcessesTypeOK, Write
<1>3. \A c \in sockets' : SocketMove(c)
  BY <1>1 DEF SocketMove, TypeOK, ProcessesTypeOK, Socket
<1>4. ASSUME NEW v \in writes'
      PROVE  WriteMove(v)
  <2>1. CASE v = next
    BY <1>1, <1>2, <2>1 DEF WriteMove
  <2>2. CASE v \in writes
    BY <1>1, <1>2, <2>2 DEF WriteMove
  <2> QED
    BY <2>1, <2>2 DEF Proceed
<1> QED
  BY <1>1, <1>3, <1>4 DEF ProcessMove

\* What the steps of the write pipeline do.
LEMMA WriteStepMove ==
  ASSUME TypeOK, WriteInv, WriteStep
  PROVE  ProcessMove
<1>1. \A w \in writes : w \in Write /\ w.server \in Servers
  BY DEF TypeOK, ProcessesTypeOK, Write
<1>2. ASSUME NEW w \in Write, NEW verdict, NEW id
      PROVE  LET next == Decided(w, verdict, id)
             IN  /\ next.server = w.server /\ next.epoch = w.epoch
                 /\ next.room = w.room /\ next.update = w.update
                 /\ next.live = w.live /\ next.result = verdict /\ next.updateId = id
  BY DEF Decided, Write
<1>3. ASSUME NEW w \in Write, NEW phase
      PROVE  LET next == [w EXCEPT !.phase = phase]
             IN  /\ next.server = w.server /\ next.epoch = w.epoch
                 /\ next.room = w.room /\ next.update = w.update
                 /\ next.live = w.live /\ next.result = w.result
                 /\ next.updateId = w.updateId
  BY DEF Write
<1>4. ASSUME NEW c \in sockets, NEW update \in Content, AckNoChange(c, update)
      PROVE  ProcessMove
  BY <1>4, UntouchedMove DEF AckNoChange, processes
<1>5. ASSUME NEW c \in sockets, NEW update \in Content, NEW id \in WriteIds,
             NEW snapshot, NEW base, ValidateUpdate(c, id, update, snapshot, base)
      PROVE  ProcessMove
  <2> DEFINE new == NewWrite(c, id, update, snapshot, base)
  <2>1. /\ UNCHANGED <<rooms, sockets>> /\ writes' = writes \cup {new}
    BY <1>5 DEF ValidateUpdate
  <2>2. \A s \in Servers : RoomMove(s) /\ Kept(s)
    BY <2>1 DEF RoomMove, Kept, SameDocument
  <2>3. c.server \in Servers /\ \A d \in sockets : d.server \in Servers
    BY DEF TypeOK, ProcessesTypeOK, Socket
  <2>4. /\ new.server = c.server /\ new.epoch = c.epoch
        /\ new.room = rooms[c.server] /\ new.result = "none"
    BY DEF NewWrite
  <2> HIDE DEF new
  <2>5. WriteMove(new)
    BY <2>2, <2>3, <2>4 DEF WriteMove
  <2>6. \A w \in writes : WriteMove(w)
    BY <1>1, <2>2 DEF WriteMove
  <2>7. \A d \in sockets' : SocketMove(d)
    BY <2>1, <2>2, <2>3 DEF SocketMove
  <2> QED
    BY <2>1, <2>2, <2>5, <2>6, <2>7 DEF ProcessMove
<1>6. ASSUME NEW w \in writes, ReserveLease(w)
      PROVE  ProcessMove
  <2>1. CASE /\ writes' = Proceed(w, [w EXCEPT !.phase = "leased"])
             /\ UNCHANGED <<rooms, sockets>>
    <3> DEFINE next == [w EXCEPT !.phase = "leased"]
    <3>1. /\ next.server = w.server /\ next.epoch = w.epoch
          /\ next.room = w.room /\ next.update = w.update
          /\ next.live = w.live /\ next.result = w.result /\ next.updateId = w.updateId
      BY <1>1, <1>3
    <3> HIDE DEF next
    <3> QED
      BY <2>1, <3>1, ProceedMove DEF next
  <2>2. CASE EndWrite(w, IF w.live THEN SocketsOf(w) ELSE {})
    <3>1. \E closed : EndWrite(w, closed)
      BY <2>2
    <3> QED
      BY <3>1, EndWriteMove
  <2> QED
    BY <1>6, <2>1, <2>2 DEF ReserveLease
<1>7. ASSUME NEW w \in writes, CommitWrite(w)
      PROVE  ProcessMove
  <2> DEFINE verdict == Verdict(w)
             id == IF verdict = "accepted" THEN lastInsertId + 1 ELSE 0
             next == Decided(w, verdict, id)
  <2>1. /\ next.server = w.server /\ next.epoch = w.epoch
        /\ next.room = w.room /\ next.update = w.update
        /\ next.live = w.live /\ next.result = verdict /\ next.updateId = id
    BY <1>1, <1>2
  <2>2. verdict = "accepted" => InsertUpdate(w)
    BY <1>7 DEF CommitWrite
  <2>3. CASE verdict = "lineage-changed"
    <3>1. InvalidateRoom(w.server, Proceed(w, next))
      BY <1>7, <2>3 DEF CommitWrite
    <3>2. next \in Write
      BY <1>1, <2>3 DEF Decided, Write, Results, Verdicts
    <3>3. Proceed(w, next) \in SUBSET Write
      BY <1>1, <3>2 DEF Proceed
    <3>4. \A v \in Proceed(w, next) : v \in writes \/ v = next
      BY DEF Proceed
    <3> HIDE DEF next
    <3> QED
      BY <1>1, <2>1, <2>3, <3>1, <3>3, <3>4, InvalidateMove
  <2>4. CASE verdict # "lineage-changed"
    <3>1. /\ writes' = Proceed(w, next) /\ sockets' \subseteq sockets
          /\ UNCHANGED rooms
      BY <1>7, <2>4 DEF CommitWrite
    <3> HIDE DEF next
    <3> QED
      BY <2>1, <2>2, <3>1, ProceedMove
  <2> QED
    BY <2>3, <2>4
<1>8. ASSUME NEW w \in writes, LoseCommitOutcome(w) \/ AbortWrite(w)
      PROVE  ProcessMove
  <2>1. PICK verdict \in {"commit-outcome-unknown", "failed"} :
           writes' = Proceed(w, Decided(w, verdict, 0)) /\ UNCHANGED <<rooms, sockets>>
    BY <1>8 DEF LoseCommitOutcome, AbortWrite
  <2> DEFINE next == Decided(w, verdict, 0)
  <2>2. /\ next.server = w.server /\ next.epoch = w.epoch
        /\ next.room = w.room /\ next.update = w.update
        /\ next.live = w.live /\ next.result # "accepted"
    BY <1>1, <1>2
  <2> HIDE DEF next
  <2> QED
    BY <2>1, <2>2, ProceedMove DEF next
<1>9. ASSUME NEW w \in writes, ReleaseLease(w)
      PROVE  ProcessMove
  <2> DEFINE next == [w EXCEPT !.phase = "released"]
  <2>1. /\ next.server = w.server /\ next.epoch = w.epoch
        /\ next.room = w.room /\ next.update = w.update
        /\ next.live = w.live /\ next.result = w.result /\ next.updateId = w.updateId
    BY <1>1, <1>3
  <2>2. writes' = Proceed(w, next) /\ UNCHANGED <<rooms, sockets>>
    BY <1>9 DEF ReleaseLease
  <2> HIDE DEF next
  <2> QED
    BY <2>1, <2>2, ProceedMove
<1>10. ASSUME NEW w \in writes, FinishWrite(w)
       PROVE  ProcessMove
  <2>1. CASE /\ w.live /\ Accepted(w) /\ writes' = writes \ {w} /\ UNCHANGED sockets
             /\ rooms' = [rooms EXCEPT ![w.server] =
                    Idled(PublishedRoom(w), w.server, sockets, writes \ {w})]
    <3>1. \A t \in Servers \ {w.server} : rooms'[t] = rooms[t]
      BY <2>1 DEF TypeOK, ProcessesTypeOK
    <3>2. /\ rooms'[w.server].phase = rooms[w.server].phase
          /\ rooms'[w.server].epoch = rooms[w.server].epoch
          /\ rooms'[w.server].state = NextState(w)
          /\ rooms'[w.server].maxUpdateId = w.updateId
      <4>1. rooms[w.server] \in Room
        BY <1>1 DEF TypeOK, ProcessesTypeOK
      <4>2. /\ PublishedRoom(w).phase = rooms[w.server].phase
            /\ PublishedRoom(w).epoch = rooms[w.server].epoch
            /\ PublishedRoom(w).state = NextState(w)
            /\ PublishedRoom(w).maxUpdateId = w.updateId
        BY <4>1 DEF PublishedRoom, Room
      <4>3. rooms'[w.server] = Idled(PublishedRoom(w), w.server, sockets, writes \ {w})
        BY <1>1, <2>1 DEF TypeOK, ProcessesTypeOK
      <4>4. PublishedRoom(w) \in Room
        BY PublishedRoomType DEF TypeOK
      <4> QED
        BY <4>2, <4>3, <4>4, RoomTypes
    <3>3. \A t \in Servers : Kept(t)
      BY <3>1, <3>2 DEF Kept
    <3>4. \A t \in Servers : RoomMove(t)
      BY <2>1, <3>1, <3>2 DEF RoomMove, SameDocument, Accepted
    <3>5. \A c \in sockets' : SocketMove(c)
      BY <2>1, <3>3 DEF SocketMove, TypeOK, ProcessesTypeOK, Socket
    <3>6. \A next \in writes' : WriteMove(next)
      BY <1>1, <2>1, <3>3 DEF WriteMove
    <3> QED
      BY <3>4, <3>5, <3>6 DEF ProcessMove
  <2>2. CASE InvalidateRoom(w.server, writes \ {w})
    BY <1>1, <2>2, InvalidateMove
  <2>3. CASE EndWrite(w, SocketsOf(w)) \/ EndWrite(w, {})
    BY <2>3, EndWriteMove
  <2> QED
    BY <1>10, <2>1, <2>2, <2>3 DEF FinishWrite
<1>11. ASSUME NEW l \in leases, ExpireLease(l)
       PROVE  ProcessMove
  BY <1>11, UntouchedMove DEF ExpireLease, processes
<1> QED
  BY <1>4, <1>5, <1>6, <1>7, <1>8, <1>9, <1>10, <1>11 DEF WriteStep

\* What any step does to rooms, sockets and writes.
LEMMA NextMove ==
  ASSUME TypeOK, SocketInv, WriteInv, [Next]_vars
  PROVE  ProcessMove
<1>1. CASE ShareStep
  <2>1. UNCHANGED processes
    BY <1>1 DEF ShareStep, AddPageShare, RemovePageShare, AddCollectionShare,
                BeginCollectionRemoval, RemoveCollectionShare,
               AbortCollectionRemoval, MovePage, ArchivePage, RestorePage, DirectEdit
  <2> QED
    BY <2>1, UntouchedMove DEF processes
<1>2. CASE RoomStep
  BY <1>2, RoomStepMove
<1>3. CASE WriteStep
  BY <1>3, WriteStepMove
<1>4. CASE MaterializationStep
  <2>1. UNCHANGED <<rooms, sockets, writes>>
    BY <1>4 DEF MaterializationStep, CopyHistory, Materialize, AbandonMaterialization
  <2> QED
    BY <2>1, UntouchedMove
<1>5. CASE UNCHANGED vars
  BY <1>5, UntouchedMove DEF vars
<1> QED
  BY <1>1, <1>2, <1>3, <1>4, <1>5 DEF Next

\* Epochs only grow.
LEMMA EpochsGrow ==
  ASSUME TypeOK, LogStep
  PROVE  lastEpoch \in Nat /\ lastEpoch' \in Nat /\ lastEpoch <= lastEpoch'
  BY DEF TypeOK, DatabaseTypeOK, LogStep, LogUntouched, LineageEnds, LineageStarts,
         LogExtended, LogCompacted

\* A load belongs to an epoch that was current when it started.
LEMMA LoadInvStep ==
  ASSUME TypeOK, LogInv, LoadInv, LogStep, [Next]_vars
  PROVE  LoadInv'
<1>1. ASSUME NEW s \in Servers
      PROVE  \/ loads'[s].phase = "none"
             \/ loads'[s].epoch = loads[s].epoch /\ loads[s].phase # "none"
             \/ loads'[s].epoch = documentEpoch /\ documentEpoch # 0
  <2>1. CASE UNCHANGED loads
    BY <2>1
  <2>2. ASSUME NEW t \in Servers, OpenRoom(t)
        PROVE  \/ loads'[s].epoch = loads[s].epoch /\ (loads[s].phase # "none"
                                                       \/ loads'[s].phase = "none")
               \/ loads'[s].epoch = documentEpoch /\ documentEpoch # 0
    BY <2>2 DEF OpenRoom, TypeOK, ProcessesTypeOK
  <2>3. ASSUME NEW t \in Servers, FailLoad(t) \/ Crash(t)
        PROVE  loads'[s].phase = "none" \/ loads'[s] = loads[s]
    BY <2>3 DEF FailLoad, Crash, NoLoad, TypeOK, ProcessesTypeOK
  <2>4. ASSUME NEW t \in Servers, ReadHistory(t)
        PROVE  \/ loads'[s].phase = "none" \/ loads'[s] = loads[s]
               \/ loads'[s].epoch = loads[s].epoch /\ loads[s].phase # "none"
    BY <2>3, <2>4 DEF ReadHistory, TypeOK, ProcessesTypeOK
  <2>5. ASSUME NEW t \in Servers, FinishLoad(t)
        PROVE  \/ loads'[s].phase = "none" \/ loads'[s] = loads[s]
               \/ loads'[s].epoch = loads[s].epoch /\ loads[s].phase # "none"
    <3>1. CASE FailLoad(t)
      BY <2>3, <3>1
    <3>2. CASE loads' = [loads EXCEPT ![t] = NoLoad]
      BY <3>2 DEF NoLoad, TypeOK, ProcessesTypeOK
    <3>3. CASE loads' = [loads EXCEPT ![t].phase = "read", ![t].copy = {}]
      BY <2>5, <3>3 DEF FinishLoad, TypeOK, ProcessesTypeOK
    <3> QED
      BY <2>5, <3>1, <3>2, <3>3 DEF FinishLoad
  <2>6. \/ UNCHANGED loads
        \/ \E t \in Servers : OpenRoom(t) \/ ReadHistory(t) \/ FinishLoad(t) \/ Crash(t)
    <3>1. CASE ShareStep
      BY <3>1 DEF ShareStep, AddPageShare, RemovePageShare, AddCollectionShare,
              BeginCollectionRemoval, RemoveCollectionShare,
               AbortCollectionRemoval, MovePage, ArchivePage, RestorePage, DirectEdit,
              processes
    <3>2. CASE RoomStep
      BY <3>2 DEF RoomStep, DropRoom, Connect, Disconnect
    <3>3. CASE WriteStep
      BY <3>3 DEF WriteStep, AckNoChange, ValidateUpdate, ReserveLease, CommitWrite,
              LoseCommitOutcome, AbortWrite, ReleaseLease, FinishWrite, ExpireLease,
              processes
    <3>4. CASE MaterializationStep
      BY <3>4 DEF MaterializationStep, CopyHistory, Materialize, AbandonMaterialization
    <3> QED
      BY <3>1, <3>2, <3>3, <3>4 DEF Next, vars
  <2> QED
    BY <2>1, <2>2, <2>3, <2>4, <2>5, <2>6
<1>2. documentEpoch \in Nat /\ documentEpoch <= lastEpoch
  BY DEF TypeOK, DatabaseTypeOK, LogInv
<1> QED
  BY <1>1, <1>2, EpochsGrow DEF LoadInv

\* A room copies the document of its epoch.
LEMMA RoomInvStep ==
  ASSUME TypeOK, TypeOK', LogInv, LogInv', LoadInv, RoomInv, WriteInv, LogStep,
         ProcessMove
  PROVE  RoomInv'
<1>1. /\ lastEpoch \in Nat /\ lastEpoch' \in Nat /\ lastEpoch <= lastEpoch'
      /\ documentEpoch \in Nat /\ documentEpoch <= lastEpoch
  BY EpochsGrow DEF TypeOK, DatabaseTypeOK, LogInv
<1>2. ASSUME NEW s \in Servers
      PROVE  /\ rooms'[s].phase # "none" => rooms'[s].epoch \in 1..lastEpoch'
             /\ rooms'[s].phase = "loaded" =>
                   Tracks(rooms'[s].epoch, rooms'[s].state, rooms'[s].maxUpdateId,
                          documentEpoch', updates', lastInsertId')
  <2>1. CASE rooms'[s].phase = "none"
    BY <2>1
  <2>2. CASE SameDocument(rooms[s], rooms'[s])
    BY <1>1, <2>2, TracksPreserved DEF SameDocument, RoomInv, RoomTracks
  <2>3. CASE /\ rooms'[s].phase = "loading"
             /\ documentEpoch # 0 /\ rooms'[s].epoch = documentEpoch
    BY <1>1, <2>3
  <2>4. CASE /\ loads[s].phase # "none"
             /\ rooms'[s].phase = "loaded" /\ rooms'[s].epoch = loads[s].epoch
             /\ rooms'[s].state = Replay(updates')
             /\ rooms'[s].maxUpdateId = LastId(updates')
    <3>1. loads[s].epoch \in 1..lastEpoch
      BY <2>4 DEF LoadInv
    <3>2. LastId(updates') \in Nat /\ LastId(updates') <= lastInsertId'
      <4>1. /\ updates' \in SUBSET Row /\ HasNewest(updates') /\ lastInsertId' \in Nat
            /\ \A r \in updates' : r.id <= lastInsertId'
        BY DEF TypeOK, DatabaseTypeOK, LogInv, HasNewest
      <4> QED
        BY <4>1, LastIdBounds
    <3> QED
      BY <1>1, <2>4, <3>1, <3>2 DEF Tracks
  <2>5. ASSUME NEW w \in writes, w.live, w.server = s, w.result = "accepted",
               rooms'[s].phase = rooms[s].phase, rooms'[s].epoch = rooms[s].epoch,
               rooms'[s].state = NextState(w), rooms'[s].maxUpdateId = w.updateId
        PROVE  /\ rooms'[s].epoch \in 1..lastEpoch'
               /\ Tracks(rooms'[s].epoch, rooms'[s].state, rooms'[s].maxUpdateId,
                         documentEpoch', updates', lastInsertId')
    <3>1. WriteTracks(w)
      BY DEF WriteInv
    <3> QED
      BY <1>1, <2>5, <3>1, TracksPreserved DEF WriteTracks
  <2> QED
    BY <2>1, <2>2, <2>3, <2>4, <2>5 DEF ProcessMove, RoomMove
<1> QED
  BY <1>2 DEF RoomInv, RoomTracks

\* A socket sits in a loaded room of its own epoch.
LEMMA SocketInvStep ==
  ASSUME SocketInv, ProcessMove
  PROVE  SocketInv'
  BY DEF SocketInv, ProcessMove, SocketMove, Kept

\* A write holds a copy of the document of its epoch.
LEMMA WriteInvStep ==
  ASSUME TypeOK, LogInv, RoomInv, SocketInv, WriteInv, LogStep, ProcessMove
  PROVE  WriteInv'
<1>1. lastEpoch \in Nat /\ lastEpoch' \in Nat /\ lastEpoch <= lastEpoch'
  BY EpochsGrow
<1>2. ASSUME NEW next \in writes'
      PROVE  WriteTracks(next)'
  <2>1. ASSUME NEW w \in writes,
               next.server = w.server, next.epoch = w.epoch,
               next.room = w.room, next.update = w.update,
               next.live => w.live /\ Kept(w.server),
               next.result = "accepted" =>
                  \/ w.result = "accepted" /\ next.updateId = w.updateId
                  \/ /\ Verdict(w) = "accepted" /\ InsertUpdate(w)
                     /\ next.updateId = lastInsertId + 1
        PROVE  WriteTracks(next)'
    <3>1. WriteTracks(w) /\ w \in Write
      BY DEF WriteInv, TypeOK, ProcessesTypeOK
    <3>2. /\ next.epoch \in 1..lastEpoch' /\ next.room.epoch = next.epoch
          /\ w.epoch \in 1..lastEpoch
      BY <1>1, <2>1, <3>1 DEF WriteTracks
    <3>3. RoomTracks(next.room)'
      BY <2>1, <3>1, <3>2, TracksPreserved DEF WriteTracks, RoomTracks
    <3>4. NextState(next) = NextState(w)
      BY <2>1 DEF NextState
    <3>5. ASSUME next.result = "accepted"
          PROVE  Tracks(next.epoch, NextState(next), next.updateId,
                        documentEpoch', updates', lastInsertId')
      <4>1. CASE w.result = "accepted" /\ next.updateId = w.updateId
        BY <2>1, <3>1, <3>2, <3>4, <4>1, TracksPreserved DEF WriteTracks
      <4>2. CASE /\ Verdict(w) = "accepted" /\ InsertUpdate(w)
                 /\ next.updateId = lastInsertId + 1
        <5>1. /\ Replay(updates') = NextState(w) /\ lastInsertId' = lastInsertId + 1
          BY <3>1, <4>2, AcceptedInsertion DEF WriteTracks, TypeOK, LogInv
        <5>2. lastInsertId \in Nat
          BY DEF TypeOK, DatabaseTypeOK
        <5> QED
          BY <1>1, <3>2, <3>4, <4>2, <5>1, <5>2 DEF Tracks
      <4> QED
        BY <2>1, <3>5, <4>1, <4>2
    <3>6. next.live => rooms'[next.server].phase = "loaded"
                       /\ rooms'[next.server].epoch = next.epoch
      BY <2>1, <3>1 DEF WriteTracks, Kept
    <3> QED
      BY <3>2, <3>3, <3>5, <3>6 DEF WriteTracks, NextState
  <2>2. ASSUME NEW c \in sockets,
               next.server = c.server, next.epoch = c.epoch,
               next.room = rooms[c.server],
               next.result = "none", Kept(c.server)
        PROVE  WriteTracks(next)'
    <3>1. /\ c.server \in Servers
          /\ rooms[c.server].phase = "loaded" /\ rooms[c.server].epoch = c.epoch
      BY DEF SocketInv, TypeOK, ProcessesTypeOK, Socket
    <3>2. RoomTracks(rooms[c.server]) /\ rooms[c.server].epoch \in 1..lastEpoch
      BY <3>1 DEF RoomInv
    <3>3. RoomTracks(next.room)'
      BY <2>2, <3>2, TracksPreserved DEF RoomTracks
    <3> QED
      BY <1>1, <2>2, <3>1, <3>2, <3>3 DEF WriteTracks, Kept
  <2> QED
    BY <2>1, <2>2 DEF ProcessMove, WriteMove
<1> QED
  BY <1>2 DEF WriteInv

\* What a client is told: changes that are in the document of their lineage,
\* if that lineage is still the current one.
AckStep ==
    \/ UNCHANGED acked
    \/ /\ LogUntouched
       /\ \E epoch \in 1..lastEpoch, changes \in SUBSET Edits :
             /\ epoch = documentEpoch => changes \subseteq Replay(updates)
             /\ acked' = acked \cup ({epoch} \X changes)

LEMMA NextAckStep ==
  ASSUME TypeOK, RoomInv, SocketInv, WriteInv, [Next]_vars
  PROVE  AckStep
<1>1. ASSUME NEW c \in sockets, NEW update \in Content, AckNoChange(c, update)
      PROVE  AckStep
  <2>1. c.server \in Servers /\ RoomTracks(rooms[c.server])
        /\ rooms[c.server].epoch = c.epoch /\ c.epoch \in 1..lastEpoch
    <3>1. c.server \in Servers
      BY DEF TypeOK, ProcessesTypeOK, Socket
    <3> QED
      BY <3>1 DEF SocketInv, RoomInv
  <2>2. LogUntouched
    BY <1>1, OtherLogSteps DEF AckNoChange
  <2>3. update \subseteq rooms[c.server].state /\ acked' = acked \cup ({c.epoch} \X update)
    BY <1>1 DEF AckNoChange
  <2> QED
    BY <2>1, <2>2, <2>3 DEF RoomTracks, Tracks, AckStep, Content
<1>2. ASSUME NEW w \in writes, FinishWrite(w)
      PROVE  AckStep
  <2>1. CASE w.result = "accepted" /\ acked' = acked \cup ({w.epoch} \X w.update)
    <3>1. /\ w.epoch \in 1..lastEpoch
          /\ Tracks(w.epoch, NextState(w), w.updateId, documentEpoch, updates, lastInsertId)
      BY <2>1 DEF WriteInv, WriteTracks
    <3>2. LogUntouched
      BY <1>2, OtherLogSteps DEF FinishWrite
    <3>3. w.update \subseteq NextState(w) /\ w.update \in SUBSET Edits
      BY DEF NextState, TypeOK, ProcessesTypeOK, Write, Content
    <3> QED
      BY <2>1, <3>1, <3>2, <3>3 DEF Tracks, AckStep
  <2> QED
    BY <1>2, <2>1 DEF FinishWrite, Accepted, AckStep
<1>3. \/ UNCHANGED acked
      \/ \E c \in sockets, update \in Content : AckNoChange(c, update)
      \/ \E w \in writes : FinishWrite(w)
  <2>1. CASE ShareStep
    BY <2>1 DEF ShareStep, AddPageShare, RemovePageShare, AddCollectionShare,
            BeginCollectionRemoval, RemoveCollectionShare,
               AbortCollectionRemoval, MovePage, ArchivePage, RestorePage, DirectEdit
  <2>2. CASE RoomStep
    BY <2>2 DEF RoomStep, OpenRoom, ReadHistory, FinishLoad, DropRoom, Crash, Connect,
            Disconnect
  <2>3. CASE WriteStep
    BY <2>3 DEF WriteStep, ValidateUpdate, ReserveLease, CommitWrite,
            LoseCommitOutcome, AbortWrite, ReleaseLease, ExpireLease
  <2>4. CASE MaterializationStep
    BY <2>4 DEF MaterializationStep, CopyHistory, Materialize, AbandonMaterialization
  <2> QED
    BY <2>1, <2>2, <2>3, <2>4 DEF Next, vars
<1> QED
  BY <1>1, <1>2, <1>3 DEF AckStep

\* An acknowledged change is in the document of its lineage.
LEMMA AckedInvStep ==
  ASSUME TypeOK, LogInv, AckedInv, LogStep, AckStep
  PROVE  AckedInv'
<1>1. /\ lastEpoch \in Nat /\ lastEpoch' \in Nat /\ lastEpoch <= lastEpoch'
      /\ documentEpoch \in Nat /\ documentEpoch <= lastEpoch
  BY EpochsGrow DEF TypeOK, DatabaseTypeOK, LogInv
<1>2. ASSUME NEW a \in acked
      PROVE  /\ a[1] \in 1..lastEpoch'
             /\ a[1] = documentEpoch' => a[2] \in Replay(updates')
  <2>1. a[1] \in 1..lastEpoch /\ (a[1] = documentEpoch => a[2] \in Replay(updates))
    BY DEF AckedInv
  <2>2. CASE LogUntouched
    BY <2>1, <2>2 DEF LogUntouched
  <2>3. CASE LineageEnds \/ LineageStarts
    BY <1>1, <2>1, <2>3 DEF LineageEnds, LineageStarts
  <2>4. CASE LogExtended \/ LogCompacted
    BY <2>1, <2>4 DEF LogExtended, LogCompacted
  <2> QED
    BY <2>2, <2>3, <2>4 DEF LogStep
<1>3. ASSUME NEW epoch \in 1..lastEpoch, NEW changes \in SUBSET Edits, LogUntouched,
             epoch = documentEpoch => changes \subseteq Replay(updates),
             acked' = acked \cup ({epoch} \X changes)
      PROVE  AckedInv'
  <2>1. \A a \in {epoch} \X changes :
           /\ a[1] \in 1..lastEpoch'
           /\ a[1] = documentEpoch' => a[2] \in Replay(updates')
    BY <1>3 DEF LogUntouched
  <2> QED
    BY <1>2, <1>3, <2>1 DEF AckedInv
<1>4. CASE UNCHANGED acked
  BY <1>2, <1>4 DEF AckedInv
<1> QED
  BY <1>3, <1>4 DEF AckStep
-----------------------------------------------------------------------------
(***************************************************************************)
(* Sharing, lineages and the checkpoint.                                   *)
(***************************************************************************)

\* A request that changes who shares the page either replaces its lineage, or
\* leaves it and shares the page no further than before.
ShareEffect ==
    /\ UNCHANGED <<lastInsertId, leases, blocks>>
    /\ isArchived' => isArchived \/ leases = {}
    /\ \/ /\ updates' = {} /\ materializedUpdateId' = 0 /\ leases = {}
          /\ documentEpoch' = IF Shared' THEN lastEpoch + 1 ELSE 0
       \/ /\ UNCHANGED <<updates, materializedUpdateId, documentEpoch>>
          /\ Shared' => Shared
          /\ Shared /\ ~Shared' => NeedsMaterialization /\ leases = {}

\* A materialized log is in the blocks table.
LEMMA MaterializedLog ==
  ASSUME TypeOK, LogInv, CheckpointInv, ~NeedsMaterialization
  PROVE  updates = {} \/ blocks = Replay(updates)
<1>1. (updates = {}) <=> (LastId(updates) = 0)
  BY LastIdBounds DEF TypeOK, DatabaseTypeOK, LogInv
<1> QED
  BY <1>1 DEF CheckpointInv, CheckpointHonest, NeedsMaterialization

\* A log counted under the page lock counts 0 only when it is empty.
LEMMA CountedNow ==
  ASSUME TypeOK
  PROVE  Cardinality(updates) # 0 \/ updates = {}
BY FS_EmptySet DEF TypeOK, DatabaseTypeOK

\* Starting or ending a lineage keeps what it removes, unless the log was
\* counted while it was still empty.
LEMMA LineageKeepsHistory ==
  ASSUME TypeOK, LogInv, CheckpointInv, LineageMatchesSharing, UNCHANGED blocks,
         NEW counted, counted # 0 \/ updates = {},
         KeepLineage \/ StartLineage \/ EndLineage(counted)
  PROVE  HistoryKept
<1>1. updates = {} => HistoryKept
  BY EmptyLog DEF HistoryKept
<1>2. ASSUME NEW n, n # 0 \/ updates = {}, Quarantine(n, TRUE)
      PROVE  HistoryKept
  BY <1>1, <1>2 DEF Quarantine, HistoryKept
<1>3. CASE UNCHANGED updates
  BY <1>3 DEF HistoryKept
<1>4. CASE StartLineage
  <2>1. CASE documentEpoch = 0
    BY <1>1, <2>1 DEF LineageMatchesSharing
  <2>2. CASE documentEpoch # 0
    BY <1>2, <1>4, <2>2, CountedNow DEF StartLineage
  <2> QED
    BY <2>1, <2>2
<1>5. CASE EndLineage(counted)
  <2>1. CASE ~NeedsMaterialization
    BY <1>1, <2>1, MaterializedLog DEF HistoryKept
  <2>2. CASE NeedsMaterialization
    BY <1>2, <1>3, <1>5, <2>2 DEF EndLineage
  <2> QED
    BY <2>1, <2>2
<1> QED
  BY <1>3, <1>4, <1>5 DEF KeepLineage

\* Every sharing request has that effect, and none loses history but the move
\* of an unshared page and the removal that counted the log too early.
LEMMA ShareRequests ==
  ASSUME TypeOK, LogInv, CheckpointInv, LineageMatchesSharing, LeaseProtectsLineage,
         ShareStep
  PROVE  \/ /\ ShareEffect
            /\ \/ HistoryKept \/ LogCountedEmpty
               \/ inCollection' # inCollection /\ ~Shared
         \/ \E e \in Edits : DirectEdit(e)
<1>1. ~Shared => leases = {}
  BY DEF LeaseProtectsLineage
<1>2. /\ StartLineage => /\ updates' = {} /\ materializedUpdateId' = 0 /\ leases = {}
                         /\ documentEpoch' = lastEpoch + 1
      /\ \A n : EndLineage(n) =>
                       \/ /\ updates' = {} /\ materializedUpdateId' = 0
                          /\ documentEpoch' = 0
                       \/ /\ NeedsMaterialization
                          /\ UNCHANGED <<updates, materializedUpdateId, documentEpoch>>
      /\ KeepLineage => UNCHANGED <<updates, materializedUpdateId, documentEpoch>>
  BY DEF StartLineage, EndLineage, KeepLineage, ReplaceLineage, NoActiveLeases
<1>3. ASSUME NEW u \in Users, AddPageShare(u)
      PROVE  ShareEffect /\ HistoryKept
  <2>1. Shared'
    <3>1. pageShares'[u] # 0
      BY <1>3 DEF AddPageShare, NewGeneration, TypeOK, GrantsTypeOK
    <3> QED
      BY <3>1 DEF Shared, SharedBy
  <2>2. HistoryKept
    BY <1>3, LineageKeepsHistory DEF AddPageShare
  <2>3. IF Shared THEN KeepLineage ELSE StartLineage
    BY <1>3 DEF AddPageShare
  <2>4. UNCHANGED <<lastInsertId, leases, blocks, isArchived>>
    BY <1>3 DEF AddPageShare
  <2> QED
    BY <1>2, <2>1, <2>2, <2>3, <2>4 DEF ShareEffect
<1>4. ASSUME NEW u \in Users, RemovePageShare(u)
      PROVE  ShareEffect /\ HistoryKept
  <2>1. IF Shared' THEN KeepLineage ELSE EndLineage(Cardinality(updates))
    BY <1>4 DEF RemovePageShare, Shared
  <2>2. Shared' => Shared
    BY <1>4 DEF RemovePageShare, Shared, SharedBy, TypeOK, GrantsTypeOK
  <2>3. HistoryKept
    BY <1>4, <2>1, CountedNow, LineageKeepsHistory DEF RemovePageShare
  <2>4. UNCHANGED <<lastInsertId, leases, blocks, isArchived>> /\ leases = {}
    BY <1>4 DEF RemovePageShare, NoActiveLeases
  <2> QED
    BY <1>2, <2>1, <2>2, <2>3, <2>4 DEF ShareEffect
<1>5. ASSUME NEW u \in Users, AddCollectionShare(u)
      PROVE  ShareEffect /\ HistoryKept
  <2>1. UNCHANGED <<lastInsertId, leases, blocks, isArchived, inCollection>>
    BY <1>5 DEF AddCollectionShare
  <2>2. HistoryKept
    BY <1>5, <2>1, LineageKeepsHistory DEF AddCollectionShare
  <2>3. CASE inCollection /\ ~Shared
    <3>1. collectionShares'[u] # 0
      BY <1>5 DEF AddCollectionShare, NewGeneration, TypeOK, GrantsTypeOK
    <3>2. Shared'
      BY <2>1, <2>3, <3>1 DEF Shared, SharedBy
    <3>3. StartLineage
      BY <1>5, <2>3 DEF AddCollectionShare
    <3> QED
      BY <1>2, <2>1, <2>2, <3>2, <3>3 DEF ShareEffect
  <2>4. CASE ~inCollection
    <3>1. Shared' = Shared
      BY <1>5, <2>4 DEF AddCollectionShare, Shared, SharedBy
    <3>2. KeepLineage
      BY <1>5, <2>4 DEF AddCollectionShare
    <3> QED
      BY <1>2, <2>1, <2>2, <3>1, <3>2 DEF ShareEffect
  <2>5. CASE inCollection /\ Shared
    <3>1. collectionShares'[u] # 0
      BY <1>5 DEF AddCollectionShare, NewGeneration, TypeOK, GrantsTypeOK
    <3>2. Shared'
      BY <2>1, <2>5, <3>1 DEF Shared, SharedBy
    <3>3. KeepLineage
      BY <1>5, <2>5 DEF AddCollectionShare
    <3> QED
      BY <1>2, <2>1, <2>2, <2>5, <3>2, <3>3 DEF ShareEffect
  <2> QED
    BY <2>3, <2>4, <2>5
<1>6. ASSUME NEW r \in removals, NEW delegates, NEW direct,
             RemoveCollectionShare(r, delegates, direct)
      PROVE  ShareEffect /\ (HistoryKept \/ LogCountedEmpty)
  <2>1. UNCHANGED <<lastInsertId, leases, blocks, isArchived, inCollection>>
        /\ (inCollection => leases = {}) /\ r \notin removals'
    BY <1>6 DEF RemoveCollectionShare, NoActiveLeases
  <2>2. ASSUME r.counted = 0 /\ updates # {}
        PROVE  LogCountedEmpty
    BY <2>1, <2>2 DEF LogCountedEmpty
  <2>3. ASSUME r.counted # 0 \/ updates = {}
        PROVE  HistoryKept
    <3>1. KeepLineage \/ EndLineage(r.counted)
      BY <1>6 DEF RemoveCollectionShare
    <3>2. UNCHANGED blocks
      BY <2>1
    <3> QED
      BY <2>3, <3>1, <3>2, LineageKeepsHistory
  <2>4. Shared' => Shared
    BY <1>6, <2>1 DEF RemoveCollectionShare, Shared, SharedBy, TypeOK, GrantsTypeOK
  <2>5. CASE inCollection
    <3>1. IF Shared' THEN KeepLineage ELSE EndLineage(r.counted)
      BY <1>6, <2>1, <2>5 DEF RemoveCollectionShare, Shared
    <3> QED
      BY <1>2, <2>1, <2>2, <2>3, <2>4, <2>5, <3>1 DEF ShareEffect
  <2>6. CASE ~inCollection
    <3>1. KeepLineage
      BY <1>6, <2>6 DEF RemoveCollectionShare
    <3>2. Shared' = Shared
      BY <1>6, <2>1, <2>6 DEF RemoveCollectionShare, Shared, SharedBy, TypeOK, GrantsTypeOK
    <3> QED
      BY <1>2, <2>1, <2>2, <2>3, <3>1, <3>2 DEF ShareEffect
  <2> QED
    BY <2>5, <2>6
<1>7. ASSUME MovePage
      PROVE  ShareEffect /\ (HistoryKept \/ (inCollection' # inCollection /\ ~Shared))
  <2>1. UNCHANGED <<lastInsertId, leases, blocks, isArchived>>
        /\ (Shared => ~NeedsMaterialization /\ leases = {})
    BY <1>7 DEF MovePage, NoActiveLeases
  <2>2. inCollection' # inCollection
    BY <1>7 DEF MovePage, TypeOK, GrantsTypeOK
  <2>3. IF Shared \/ Shared' THEN ReplaceLineage(Shared')
        ELSE UNCHANGED <<updates, materializedUpdateId, documentEpoch, lastEpoch>>
    BY <1>7 DEF MovePage, LineageReplaced, Shared
  <2>4. Shared => HistoryKept
    <3>1. Shared => updates = {} \/ blocks = Replay(updates)
      BY <2>1, MaterializedLog
    <3>2. updates = {} => HistoryKept
      BY EmptyLog DEF HistoryKept
    <3> QED
      BY <2>1, <3>1, <3>2 DEF HistoryKept
  <2>5. ShareEffect
    <3>1. CASE Shared \/ Shared'
      BY <1>1, <2>1, <2>3, <3>1 DEF ShareEffect, ReplaceLineage
    <3>2. CASE ~(Shared \/ Shared')
      BY <2>1, <2>3, <3>2 DEF ShareEffect
    <3> QED
      BY <3>1, <3>2
  <2> QED
    BY <2>2, <2>4, <2>5
<1>9. ASSUME \/ \E u \in Users : BeginCollectionRemoval(u)
             \/ \E r \in removals : AbortCollectionRemoval(r)
      PROVE  ShareEffect /\ HistoryKept
  <2>1. UNCHANGED database
        /\ UNCHANGED <<pageShares, collectionShares, inCollection, isArchived, leases>>
    BY <1>9 DEF BeginCollectionRemoval, AbortCollectionRemoval
  <2>2. Shared' = Shared
    BY <2>1 DEF Shared
  <2> QED
    BY <2>1, <2>2 DEF ShareEffect, HistoryKept, database
<1>8. ASSUME ArchivePage \/ RestorePage
      PROVE  ShareEffect /\ HistoryKept
  <2>1. UNCHANGED database /\ UNCHANGED <<pageShares, collectionShares, inCollection, leases>>
        /\ (isArchived' => leases = {})
    BY <1>8 DEF ArchivePage, RestorePage, NoActiveLeases
  <2>2. Shared' = Shared
    BY <2>1 DEF Shared
  <2> QED
    BY <2>1, <2>2 DEF ShareEffect, HistoryKept, database
<1> QED
  BY <1>3, <1>4, <1>5, <1>6, <1>7, <1>8, <1>9 DEF ShareStep

\* Every other step leaves sharing alone, and checkpoints the log, extends it
\* while the page is shared, or does not change what it says.
LogEffect ==
    \/ LogUntouched
    \/ LogCompacted
    \/ LogExtended /\ Shared /\ (updates = {} => Replay(updates') = blocks)

OtherEffect ==
    /\ UNCHANGED documentEpoch /\ UNCHANGED grants
    /\ \A l \in leases' : l \in leases \/ (l.epoch = documentEpoch /\ Shared /\ ~isArchived)
    /\ \/ /\ LogUntouched /\ Shared
          /\ materializedUpdateId' = LastId(updates) /\ blocks' = Replay(updates)
       \/ LogEffect /\ UNCHANGED <<materializedUpdateId, blocks>>

LEMMA OtherSteps ==
  ASSUME TypeOK, LogInv, WriteInv,
         RoomStep \/ WriteStep \/ MaterializationStep \/ UNCHANGED vars
  PROVE  OtherEffect
<1>1. \A w \in writes : w \in Write /\ RoomTracks(w.room) /\ w.room.epoch = w.epoch
                        /\ w.epoch # 0
  BY DEF TypeOK, ProcessesTypeOK, WriteInv, WriteTracks
<1>2. ASSUME UNCHANGED database, UNCHANGED grants, leases' \subseteq leases
      PROVE  OtherEffect
  BY <1>2, OtherLogSteps DEF OtherEffect, LogEffect, database
<1>3. ASSUME NEW w \in writes, Verdict(w) = "accepted", InsertUpdate(w),
             UNCHANGED <<documentEpoch, lastEpoch, materializedUpdateId, blocks>>,
             UNCHANGED <<leases>>, UNCHANGED grants
      PROVE  OtherEffect
  <2>1. documentEpoch # 0 /\ Shared
    BY <1>1, <1>3, VerdictFacts
  <2>2. /\ Replay(updates) \subseteq Replay(updates')
        /\ lastInsertId' = lastInsertId + 1 /\ LastId(updates') = lastInsertId'
        /\ updates = {} => Replay(updates') = blocks
    BY <1>1, <1>3, AcceptedInsertion DEF LogInv, TypeOK
  <2> QED
    BY <1>3, <2>1, <2>2 DEF OtherEffect, LogEffect, LogExtended
<1>4. CASE RoomStep
  <2>1. ASSUME NEW s \in Servers, FinishLoad(s)
        PROVE  OtherEffect
    <3>1. LogUntouched \/ LogCompacted
      <4>1. CASE UNCHANGED updates
        BY <2>1, <4>1 DEF FinishLoad, LogUntouched
      <4>2. CASE updates' = CompactedAtLoad(updates)
        BY <2>1, <4>2, CompactionAtLoad
        DEF FinishLoad, LogCompacted, LogInv, TypeOK, DatabaseTypeOK
      <4> QED
        BY <2>1, <4>1, <4>2 DEF FinishLoad
    <3> QED
      BY <2>1, <3>1 DEF FinishLoad, OtherEffect, LogEffect
  <2> QED
    BY <1>2, <1>4, <2>1
    DEF RoomStep, OpenRoom, ReadHistory, DropRoom, Crash, Connect, Disconnect
<1>5. CASE WriteStep
  <2>1. ASSUME NEW w \in writes, CommitWrite(w)
        PROVE  OtherEffect
    <3>1. /\ UNCHANGED <<documentEpoch, lastEpoch, materializedUpdateId, blocks>>
          /\ UNCHANGED <<leases>> /\ UNCHANGED grants
      BY <2>1 DEF CommitWrite
    <3>2. CASE Verdict(w) = "accepted"
      <4>1. InsertUpdate(w)
        BY <2>1, <3>2 DEF CommitWrite
      <4> QED
        BY <1>3, <3>1, <3>2, <4>1
    <3>3. CASE Verdict(w) # "accepted"
      <4>1. UNCHANGED <<updates, lastInsertId>>
        BY <2>1, <3>3 DEF CommitWrite
      <4> QED
        BY <3>1, <4>1 DEF OtherEffect, LogEffect, LogUntouched
    <3> QED
      BY <3>2, <3>3
  <2>2. ASSUME NEW w \in writes, LoseCommitOutcome(w)
        PROVE  OtherEffect
    <3>1. /\ UNCHANGED <<documentEpoch, lastEpoch, materializedUpdateId, blocks>>
          /\ UNCHANGED <<leases>> /\ UNCHANGED grants /\ Verdict(w) = "accepted"
      BY <2>2 DEF LoseCommitOutcome
    <3>2. CASE InsertUpdate(w)
      BY <1>3, <3>1, <3>2
    <3>3. CASE UNCHANGED <<updates, lastInsertId>>
      BY <3>1, <3>3 DEF OtherEffect, LogEffect, LogUntouched
    <3> QED
      BY <2>2, <3>2, <3>3 DEF LoseCommitOutcome
  <2>3. ASSUME NEW w \in writes, ReserveLease(w)
        PROVE  OtherEffect
    <3>1. UNCHANGED database /\ UNCHANGED grants
      BY <2>3 DEF ReserveLease
    <3>2. CASE LeaseGranted(w) /\ leases' = leases \cup {[id |-> w.id, epoch |-> w.epoch]}
      BY <3>1, <3>2, OtherLogSteps DEF LeaseGranted, OtherEffect, LogEffect, database
    <3>3. CASE UNCHANGED leases
      BY <1>2, <3>1, <3>3
    <3> QED
      BY <2>3, <3>2, <3>3 DEF ReserveLease
  <2>4. ASSUME NEW c \in sockets, NEW update \in Content, AckNoChange(c, update)
        PROVE  OtherEffect
    BY <1>2, <2>4 DEF AckNoChange
  <2>5. ASSUME NEW c \in sockets, NEW update, NEW id, NEW snapshot, NEW base,
               ValidateUpdate(c, id, update, snapshot, base)
        PROVE  OtherEffect
    BY <1>2, <2>5 DEF ValidateUpdate
  <2>6. ASSUME NEW w \in writes, AbortWrite(w) \/ ReleaseLease(w) \/ FinishWrite(w)
        PROVE  OtherEffect
    BY <1>2, <2>6 DEF AbortWrite, ReleaseLease, FinishWrite
  <2>7. ASSUME NEW l \in leases, ExpireLease(l)
        PROVE  OtherEffect
    BY <1>2, <2>7 DEF ExpireLease
  <2> QED
    BY <1>5, <2>1, <2>2, <2>3, <2>4, <2>5, <2>6, <2>7 DEF WriteStep
<1>6. CASE MaterializationStep
  <2>1. ASSUME NEW m \in materializations, Materialize(m)
        PROVE  OtherEffect
    BY <2>1 DEF Materialize, MaterializationAllowed, OtherEffect, LogUntouched
  <2>2. CASE UNCHANGED database /\ UNCHANGED grants /\ UNCHANGED leases
    BY <1>2, <2>2
  <2> QED
    BY <1>6, <2>1, <2>2 DEF MaterializationStep, CopyHistory, AbandonMaterialization
<1>7. CASE UNCHANGED vars
  BY <1>2, <1>7 DEF vars, database, grants
<1> QED
  BY <1>4, <1>5, <1>6, <1>7

\* The sharing state, the leases and the checkpoint stay consistent.
LEMMA SharingInvStep ==
  ASSUME IInv, [Next]_vars
  PROVE  LineageMatchesSharing' /\ LeaseProtectsLineage' /\ CheckpointInv'
<1> USE DEF IInv
<1>1. /\ lastInsertId \in Nat /\ documentEpoch \in Nat /\ lastEpoch \in Nat
      /\ materializedUpdateId \in Nat /\ LastId(updates) \in Nat
      /\ LastId(updates) <= lastInsertId
      /\ (updates = {}) <=> (LastId(updates) = 0)
  BY LastIdBounds DEF TypeOK, DatabaseTypeOK, LogInv, Row
<1>2. Replay({}) = {} /\ LastId({}) = 0
  BY EmptyLog
<1>3. CASE ShareEffect
  <2>1. CASE /\ updates' = {} /\ materializedUpdateId' = 0 /\ leases = {}
             /\ documentEpoch' = IF Shared' THEN lastEpoch + 1 ELSE 0
    BY <1>1, <1>2, <1>3, <2>1
    DEF ShareEffect, LineageMatchesSharing, LeaseProtectsLineage, CheckpointInv,
        CheckpointHonest
  <2>2. CASE /\ UNCHANGED <<updates, materializedUpdateId, documentEpoch>>
             /\ Shared' => Shared
             /\ Shared /\ ~Shared' => NeedsMaterialization /\ leases = {}
    <3>1. NeedsMaterialization' = NeedsMaterialization
      BY <2>2 DEF NeedsMaterialization
    <3>2. LineageMatchesSharing'
      BY <2>2, <3>1 DEF LineageMatchesSharing
    <3>3. LeaseProtectsLineage'
      BY <1>3, <2>2 DEF ShareEffect, LeaseProtectsLineage
    <3>4. CheckpointInv'
      BY <1>3, <2>2, <3>1 DEF ShareEffect, CheckpointInv, CheckpointHonest
    <3> QED
      BY <3>2, <3>3, <3>4
  <2> QED
    BY <1>3, <2>1, <2>2 DEF ShareEffect
<1>4. ASSUME NEW e \in Edits, DirectEdit(e)
      PROVE  LineageMatchesSharing' /\ LeaseProtectsLineage' /\ CheckpointInv'
  <2>1. /\ UNCHANGED <<updates, lastInsertId, documentEpoch, materializedUpdateId, leases>>
        /\ Shared' = Shared /\ isArchived' = isArchived
        /\ NeedsMaterialization' = NeedsMaterialization /\ ~Shared
    BY <1>4 DEF DirectEdit, DirectEditAllowed, grants, Shared, NeedsMaterialization
  <2>2. materializedUpdateId # 0 => NeedsMaterialization
    BY <1>1, <1>2, <2>1 DEF LineageMatchesSharing, NeedsMaterialization
  <2> QED
    BY <2>1, <2>2
    DEF LineageMatchesSharing, LeaseProtectsLineage, CheckpointInv, CheckpointHonest
<1>5. CASE OtherEffect
  <2>1. Shared' = Shared /\ isArchived' = isArchived /\ UNCHANGED documentEpoch
    BY <1>5 DEF OtherEffect, grants, Shared
  <2>2. LeaseProtectsLineage'
    BY <1>5, <2>1 DEF OtherEffect, LeaseProtectsLineage
  <2>3. CASE /\ LogUntouched /\ Shared
             /\ materializedUpdateId' = LastId(updates) /\ blocks' = Replay(updates)
    BY <1>1, <2>1, <2>2, <2>3
    DEF LogUntouched, LineageMatchesSharing, CheckpointInv, CheckpointHonest
  <2>4. CASE UNCHANGED <<materializedUpdateId, blocks>> /\ LogUntouched
    BY <2>1, <2>2, <2>4
    DEF LogUntouched, LineageMatchesSharing, CheckpointInv, CheckpointHonest,
        NeedsMaterialization
  <2>5. CASE UNCHANGED <<materializedUpdateId, blocks>> /\ LogCompacted
    BY <2>1, <2>2, <2>5
    DEF LogCompacted, LineageMatchesSharing, CheckpointInv, CheckpointHonest,
        NeedsMaterialization
  <2>6. CASE /\ UNCHANGED <<materializedUpdateId, blocks>> /\ LogExtended /\ Shared
             /\ updates = {} => Replay(updates') = blocks
    <3>1. updates' # {}
      BY <1>1, <1>2, <2>6 DEF LogExtended
    <3> QED
      BY <1>1, <2>1, <2>2, <2>6, <3>1
      DEF LogExtended, LineageMatchesSharing, CheckpointInv, CheckpointHonest,
          NeedsMaterialization
  <2> QED
    BY <1>5, <2>3, <2>4, <2>5, <2>6 DEF OtherEffect, LogEffect
<1> QED
  BY <1>3, <1>4, <1>5, ShareRequests, OtherSteps DEF Next
-----------------------------------------------------------------------------
(***************************************************************************)
(* The invariant is inductive.                                             *)
(***************************************************************************)

\* A private page, and a page an older build left shared, satisfy it.
LEMMA InitInv ==
  ASSUME Init
  PROVE  IInv
<1>1. /\ LegacyUpdates \in SUBSET Row /\ IsFiniteSet(LegacyUpdates)
      /\ HasNewest(LegacyUpdates)
  BY LegacyAssumption DEF HasNewest
<1>2. /\ LastId(LegacyUpdates) \in Nat
      /\ LegacyUpdates = {} <=> LastId(LegacyUpdates) = 0
      /\ \A r \in LegacyUpdates : r.id <= LastId(LegacyUpdates)
  BY <1>1, LastIdBounds
<1>3. Replay(LegacyUpdates) \in Content /\ Replay({}) = {} /\ {} \in Content
  BY <1>1, ReplayType, EmptyLog DEF Content
<1>4. TypeOK
  <2>1. DatabaseTypeOK
    BY <1>1, <1>2, <1>3 DEF Init, DatabaseTypeOK
  <2>2. GrantsTypeOK
    BY DEF Init, GrantsTypeOK
  <2>3. ProcessesTypeOK
    BY <1>3 DEF Init, ProcessesTypeOK, ClosedRoom, NoLoad, Room
  <2> QED
    BY <2>1, <2>2, <2>3 DEF Init, TypeOK
<1>5. LogInv
  BY <1>1 DEF Init, LogInv
<1>6. LoadInv /\ RoomInv /\ SocketInv /\ WriteInv /\ AckedInv /\ LeaseProtectsLineage
  BY DEF Init, LoadInv, RoomInv, SocketInv, WriteInv, AckedInv, LeaseProtectsLineage,
         NoLoad, ClosedRoom
<1>7. LineageMatchesSharing
  BY <1>2 DEF Init, LineageMatchesSharing, Shared, SharedBy, NeedsMaterialization
<1>8. CheckpointInv
  BY <1>2, <1>3 DEF Init, CheckpointInv, CheckpointHonest
<1> QED
  BY <1>4, <1>5, <1>6, <1>7, <1>8 DEF IInv

LEMMA IInvStep ==
  ASSUME IInv, [Next]_vars
  PROVE  IInv'
<1> USE DEF IInv
<1>1. TypeOK'
  BY StepTypes DEF LogInv
<1>2. LogStep /\ LogInv'
  BY NextLogStep
<1>3. ProcessMove
  BY NextMove
<1>4. LoadInv'
  BY <1>2, LoadInvStep
<1>5. RoomInv'
  BY <1>1, <1>2, <1>3, RoomInvStep
<1>6. SocketInv' /\ WriteInv'
  BY <1>2, <1>3, SocketInvStep, WriteInvStep
<1>7. AckedInv'
  BY <1>2, NextAckStep, AckedInvStep
<1>8. LineageMatchesSharing' /\ LeaseProtectsLineage' /\ CheckpointInv'
  BY SharingInvStep
<1> QED
  BY <1>1, <1>2, <1>4, <1>5, <1>6, <1>7, <1>8

\* The inductive invariant holds in every reachable state.
THEOREM Invariance == Spec => []IInv
BY InitInv, IInvStep, PTL DEF Spec
-----------------------------------------------------------------------------
(***************************************************************************)
(* The invariants.                                                         *)
(***************************************************************************)

\* Every variable keeps its type, whatever the accounts, processes and bounds.
THEOREM TypeCorrect == Spec => []TypeOK
<1>1. IInv => TypeOK
  BY DEF IInv
<1> QED
  BY <1>1, Invariance, PTL

\* A room of the current lineage shows nothing that is not durable, and with
\* the newest cursor it is the document: the reason why comparing a cursor
\* under the page lock is enough before a write commits.
THEOREM RoomsAreConsistent == Spec => []RoomsFollowLog
<1>1. IInv => RoomsFollowLog
  BY DEF IInv, RoomInv, RoomTracks, Tracks, RoomsFollowLog
<1> QED
  BY <1>1, Invariance, PTL

\* An acknowledged change is in the log as long as its lineage lives.
THEOREM AcknowledgementsHold == Spec => []AckedEditsDurable
<1>1. IInv => AckedEditsDurable
  BY DEF IInv, AckedInv, AckedEditsDurable
<1> QED
  BY <1>1, Invariance, PTL

\* A checkpoint that names the newest row is right: the blocks table is the
\* document, so teardown, archive and move may delete the log.
THEOREM CheckpointIsHonest == Spec => []CheckpointHonest
<1>1. IInv => CheckpointHonest
  BY DEF IInv, CheckpointInv
<1> QED
  BY <1>1, Invariance, PTL

\* A page has a lineage while it is shared, and afterwards only for history
\* that is still to be kept.
THEOREM SharingHasLineage == Spec => []LineageMatchesSharing
<1>1. IInv => LineageMatchesSharing
  BY DEF IInv
<1> QED
  BY <1>1, Invariance, PTL

\* No destructive request moves the page while an admitted write holds a lease.
THEOREM LeasesProtect == Spec => []LeaseProtectsLineage
<1>1. IInv => LeaseProtectsLineage
  BY DEF IInv
<1> QED
  BY <1>1, Invariance, PTL
-----------------------------------------------------------------------------
(***************************************************************************)
(* The action properties.                                                  *)
(***************************************************************************)

\* But for the move of an unshared page, and for the removal of a collection
\* grant that counted the log before its first row was committed, whatever a
\* step takes out of the log is in the blocks table or goes to the owner's
\* recovery vault.
THEOREM HistorySurvives == Spec => ShareChangesKeepHistory
<1>1. ASSUME IInv, [Next]_vars
      PROVE  \/ inCollection' # inCollection /\ ~Shared
             \/ LogCountedEmpty
             \/ HistoryKept
  <2>1. ASSUME NEW e \in Edits, DirectEdit(e)
        PROVE  HistoryKept
    BY <2>1 DEF DirectEdit, HistoryKept
  <2>2. CASE ShareStep
    BY <1>1, <2>1, <2>2, ShareRequests DEF IInv
  <2>3. CASE OtherEffect
    BY <2>3 DEF OtherEffect, LogEffect, LogUntouched, LogCompacted, LogExtended,
                HistoryKept
  <2> QED
    BY <1>1, <2>2, <2>3, OtherSteps DEF IInv, Next
<1> QED
  BY <1>1, Invariance, PTL DEF Spec, ShareChangesKeepHistory

\* A materialization never takes anything out of the blocks table.
THEOREM MaterializationIsSafe == Spec => MaterializationKeepsBlocks
<1>1. ASSUME IInv, [Next]_vars, materializedUpdateId' # materializedUpdateId
      PROVE  blocks \subseteq blocks'
  <2>1. CASE UNCHANGED blocks
    BY <2>1
  <2>2. CASE ShareStep
    BY <1>1, <2>1, <2>2, ShareRequests DEF IInv, ShareEffect, DirectEdit
  <2>3. CASE OtherEffect
    <3>1. LogUntouched /\ Shared /\ materializedUpdateId' = LastId(updates)
          /\ blocks' = Replay(updates)
      BY <1>1, <2>3 DEF OtherEffect
    <3>2. updates # {}
      BY <1>1, <3>1, EmptyLog DEF IInv, CheckpointInv
    <3> QED
      BY <1>1, <3>1, <3>2 DEF IInv, CheckpointInv
  <2> QED
    BY <1>1, <2>2, <2>3, OtherSteps DEF IInv, Next
<1> QED
  BY <1>1, Invariance, PTL DEF Spec, MaterializationKeepsBlocks
-----------------------------------------------------------------------------
(***************************************************************************)
(* Refinement.  A step that extends the log is an Extend, one that ends or *)
(* starts a lineage a Retire or a Renew, an acknowledgement a Promise, and *)
(* every other step, the compaction of a log included, a stutter.          *)
(***************************************************************************)
LEMMA RefinementInit ==
  ASSUME Init
  PROVE  Document!Init
<1>1. TypeOK
  BY InitInv DEF IInv
<1>2. documentEpoch \in {0, lastEpoch} /\ acked = {}
  BY DEF Init
<1>3. lastEpoch \in Nat /\ Replay(updates) \in SUBSET Edits
  BY <1>1, ReplayType DEF TypeOK, DatabaseTypeOK, Content
<1> QED
  BY <1>2, <1>3 DEF Document!Init

LEMMA RefinementStep ==
  ASSUME TypeOK', LogStep, AckStep, LogUntouched \/ UNCHANGED acked
  PROVE  [Document!Next]_(Document!vars)
<1>1. Replay(updates)' \in SUBSET Edits
  BY ReplayType DEF TypeOK, DatabaseTypeOK, Content
<1>2. CASE LogUntouched
  <2>1. CASE UNCHANGED acked
    BY <1>2, <2>1 DEF LogUntouched, Document!vars
  <2>2. CASE \E epoch \in 1..lastEpoch, changes \in SUBSET Edits :
                /\ epoch = documentEpoch => changes \subseteq Replay(updates)
                /\ acked' = acked \cup ({epoch} \X changes)
    BY <1>2, <2>2 DEF LogUntouched, Document!Next, Document!Promise
  <2> QED
    BY <2>1, <2>2 DEF AckStep
<1>3. CASE LineageEnds /\ UNCHANGED acked
  <2>1. Document!Retire
    BY <1>3, EmptyLog DEF LineageEnds, Document!Retire
  <2> QED
    BY <2>1 DEF Document!Next
<1>4. CASE LineageStarts /\ UNCHANGED acked
  <2>1. Document!Renew
    BY <1>4, EmptyLog DEF LineageStarts, Document!Renew
  <2> QED
    BY <2>1 DEF Document!Next
<1>5. CASE LogExtended /\ UNCHANGED acked
  <2>1. Document!Extend
    BY <1>1, <1>5 DEF LogExtended, Document!Extend
  <2> QED
    BY <2>1 DEF Document!Next
<1>6. CASE LogCompacted /\ UNCHANGED acked
  BY <1>6 DEF LogCompacted, Document!vars
<1> QED
  BY <1>2, <1>3, <1>4, <1>5, <1>6 DEF LogStep

\* The page, with its log, rooms, writes, leases, compactions, crashes and
\* lineages, implements the shared document that SharedDocument specifies.
THEOREM Refinement == Spec => ImplementsSharedDocument
<1>1. Init => Document!Init
  BY RefinementInit
<1>2. IInv /\ [Next]_vars => [Document!Next]_(Document!vars)
  <2> SUFFICES ASSUME IInv, [Next]_vars
               PROVE  [Document!Next]_(Document!vars)
    OBVIOUS
  <2>1. IInv'
    BY IInvStep
  <2>2. LogStep /\ AckStep
    BY NextLogStep, NextAckStep DEF IInv
  <2>3. LogUntouched \/ UNCHANGED acked
    BY <2>2 DEF AckStep
  <2> QED
    BY <2>1, <2>2, <2>3, RefinementStep DEF IInv
<1> QED
  BY <1>1, <1>2, Invariance, PTL DEF Spec, ImplementsSharedDocument, Document!Spec
=============================================================================
