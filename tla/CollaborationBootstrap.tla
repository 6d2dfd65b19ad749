------------------------ MODULE CollaborationBootstrap ------------------------
(***************************************************************************)
(* How the browsers that open a newly shared page agree on its first Yjs   *)
(* history.  The log of a lineage starts empty; one editor, the bootstrap  *)
(* leader, turns the saved page into a Yjs document and sends it, and the  *)
(* other editors wait for it.  Connections break, are noticed late by one  *)
(* side or the other, and are replaced while messages are in flight.       *)
(*                                                                         *)
(* Unlike in CollaborationDocument the identity of a Yjs history matters:  *)
(* two documents built from the same page have the same text and different *)
(* items, and merging them doubles the title and lets one copy of every    *)
(* block hide the other.  A document is therefore a set of items, and the  *)
(* conversion of a page yields an item of its own for every Yjs document   *)
(* it is done in.                                                          *)
(*                                                                         *)
(* Definitions whose comment says "Fault" are not part of the model: each  *)
(* is a mistake this code could contain, kept next to the definition it    *)
(* would replace, to show that a property would notice it.                 *)
(***************************************************************************)
EXTENDS Integers, Sequences, SequencesExt

CONSTANTS
    Clients,                \* browser sessions
    Editorships,            \* which of them may edit: the sets to begin with
    Typists,                \* the editors that type something; a bound
    Conns,                  \* connections, used again after both sides closed
    NoConn,
    MaxFailures,            \* bound: lost connections and failed writes
    MaxTimeouts             \* bound: leaders that were too slow

\* What a document consists of: the copy of the page made in the n-th Yjs
\* document of a client, and what a client has typed (document 0).
Item    == [by : Clients, document : Nat]
Content == SUBSET Item
Copy(c, n) == [by |-> c, document |-> n]
Typed(c)   == [by |-> c, document |-> 0]

\* The initial histories in a document.
Histories(content) == {i \in content : i.document # 0}

ASSUME SessionAssumption ==
    /\ \A E \in Editorships : Typists \subseteq E /\ E \subseteq Clients
    /\ NoConn \notin Conns \cup Clients
    /\ MaxFailures \in Nat /\ MaxTimeouts \in Nat

VARIABLES
    log,                    \* the durable log, which is the state of the room
    room,                   \* bootstrap state of the room
    queue,                  \* room.writeQueue: writes accepted from sockets
    clients,                \* CollaborationSession of each browser
    conns,                  \* both ends of each connection, and what is in flight
    failures, timeouts,     \* how often things went wrong
    rejected                \* history: the page differed from a first document

mishaps == <<failures, timeouts, rejected>>
vars == <<log, room, queue, clients, conns, mishaps>>

EmptyRoom ==
    [leader |-> NoConn, timer |-> FALSE, writePending |-> FALSE,
     waiting |-> <<>>, synced |-> {}]

NewClient(editor) ==
    [editor |-> editor, doc |-> {}, document |-> 1, synced |-> FALSE, ready |-> FALSE,
     needsRecovery |-> FALSE, pending |-> 0, startup |-> FALSE]

\* `open' is the browser's end; `server' is the server's: "new" until the
\* client is admitted, "closing" after a close frame, which the server sends
\* and after which it neither reads nor writes.
NoConnection ==
    [client |-> NoConn, open |-> FALSE, server |-> "none", up |-> <<>>, down |-> <<>>]

Editors == {c \in Clients : clients[c].editor}

Init ==
    /\ log = {}
    /\ room = EmptyRoom
    /\ queue = <<>>
    /\ \E E \in Editorships : clients = [c \in Clients |-> NewClient(c \in E)]
    /\ conns = [k \in Conns |-> NoConnection]
    /\ failures = 0 /\ timeouts = 0 /\ rejected = FALSE
-----------------------------------------------------------------------------
(***************************************************************************)
(* Messages of the server.                                                 *)
(***************************************************************************)
Update(content) == [type |-> "update", content |-> content]
Sync(bootstrap) == [type |-> "sync-complete", bootstrap |-> bootstrap]
Wait            == [type |-> "bootstrap-wait"]
Ack             == [type |-> "update-ack"]
Close(code)     == [type |-> "close", code |-> code]

Mismatch == 4012            \* the first history did not match the saved page
Abnormal == 1011            \* any other reason to reconnect

\* The connections after the server wrote out[k] to each socket k, and closed
\* the sockets of `closed' with a code.
Sent(cs, out, closed, code) ==
    [k \in Conns |->
        IF cs[k].server # "open" THEN cs[k]
        ELSE IF k \in closed
             THEN [cs[k] EXCEPT !.server = "closing", !.up = <<>>,
                                !.down = @ \o out[k] \o <<Close(code)>>]
             ELSE [cs[k] EXCEPT !.down = @ \o out[k]]]

Nothing == [k \in Conns |-> <<>>]

\* A leader that a step made is told to bootstrap.
ToLeader(before, after) ==
    [k \in Conns |-> IF after.leader = k /\ before.leader # k
                     THEN <<Sync(TRUE)>> ELSE <<>>]

(***************************************************************************)
(* The bootstrap state of a room.                                          *)
(***************************************************************************)

\* Fault: a leader whose timer has run out does not count.
NoActiveLeader(r) == r.leader = NoConn \/ ~r.timer

\* A newly admitted editor becomes the leader if there is none.
NoLeader(r) == r.leader = NoConn

\* ensureBootstrapLeaderTimeout
EnsureTimer(r) ==
    IF log = {} /\ r.leader # NoConn /\ ~r.writePending
    THEN [r EXCEPT !.timer = TRUE] ELSE r

\* promoteBootstrapLeader: clients whose socket is closed already lose their
\* place in the line.
Promoted(r) ==
    LET open == {i \in DOMAIN r.waiting : conns[r.waiting[i]].server = "open"}
        next == CHOOSE i \in open : \A j \in open : i <= j
    IN  IF log # {} \/ r.leader # NoConn \/ r.writePending THEN r
        ELSE IF open = {} THEN [r EXCEPT !.waiting = <<>>]
        ELSE EnsureTimer([r EXCEPT !.leader = r.waiting[next],
                                   !.waiting = SubSeq(@, next + 1, Len(@)),
                                   !.synced = @ \cup {r.waiting[next]}])

\* The leader is given up, and the next in line takes over.
Succeeded(r) == Promoted([r EXCEPT !.leader = NoConn, !.timer = FALSE])

\* Fault: a client that leaves keeps its place in the line.
LeftInLine(r, k) ==
    IF r.leader = k /\ log = {} /\ ~r.writePending
    THEN Succeeded([r EXCEPT !.synced = @ \ {k}])
    ELSE [r EXCEPT !.synced = @ \ {k}]

\* waitingForBootstrap.delete
Without(line, k) ==
    IF k \in Range(line)
    THEN RemoveAt(line, CHOOSE i \in DOMAIN line : line[i] = k) ELSE line

\* handleClientClose: a leader whose write is queued keeps its place until
\* the outcome is known.
Left(r, k) ==
    LET rest == [r EXCEPT !.waiting = Without(@, k), !.synced = @ \ {k}]
    IN  IF r.leader = k /\ log = {} /\ ~r.writePending
        THEN Succeeded(rest) ELSE rest

\* Fault: nobody looks after the leader of a failed write.
AfterFailedWrite(r, k, rest) == r

\* The end of a queued write in enqueueRoomWrite: a leader that did not get
\* the first history into the log is replaced.
AfterWrite(r, k, rest) ==
    IF r.writePending /\ r.leader = k /\ log = {} /\ rest = <<>>
    THEN Succeeded([r EXCEPT !.writePending = FALSE])
    ELSE r

\* The timer of ensureBootstrapLeaderTimeout fires while others wait.
Demoted(r) ==
    Succeeded(IF conns[r.leader].server = "open"
              THEN [r EXCEPT !.waiting = Append(@, r.leader), !.synced = @ \ {r.leader}]
              ELSE r)

\* An accepted first history ends the bootstrap: everyone who waits is synced.
Released(r, k) ==
    IF r.leader = k
    THEN [r EXCEPT !.leader = NoConn, !.timer = FALSE, !.writePending = FALSE,
                   !.waiting = <<>>,
                   !.synced = @ \cup {x \in Range(r.waiting) : conns[x].server = "open"}]
    ELSE r
-----------------------------------------------------------------------------
(***************************************************************************)
(* The browser (CollaborationSession).                                     *)
(***************************************************************************)
SocketOf(c) == {k \in Conns : conns[k].client = c /\ conns[k].open}

\* A message is taken from the connection, and `sent' is written to it.
Received(k, sent) ==
    [conns EXCEPT ![k].down = Tail(@), ![k].up = @ \o sent]

\* Every connection of the code is new.  One that nothing refers to any more
\* stands for it, and as they are alike it does not matter which.
Unused ==
    {k \in Conns : /\ ~conns[k].open /\ conns[k].server = "none"
                   /\ room.leader # k
                   /\ \A i \in DOMAIN queue : queue[i].conn # k}

\* connect
Connect(c) ==
    /\ SocketOf(c) = {}
    /\ Unused # {}
    /\ conns' = [conns EXCEPT ![CHOOSE k \in Unused : TRUE] =
          [NoConnection EXCEPT !.client = c, !.open = TRUE, !.server = "new"]]
    /\ UNCHANGED <<log, room, queue, clients, mishaps>>

\* initializeFromPage: a document that is not empty is left as it is.
Initialized(s, c) ==
    IF s.doc = {} THEN {Copy(c, s.document)} ELSE s.doc

\* A sync-complete message.  The leader, and a client that cannot know what
\* the server has of its document, send all of it and are ready when it is
\* acknowledged.
ReceiveSync(c, k, bootstrap) ==
    LET s    == clients[c]
        doc  == IF bootstrap THEN Initialized(s, c) ELSE s.doc
        full == s.editor /\ (bootstrap \/ s.needsRecovery)
    IN  /\ clients' = [clients EXCEPT ![c] =
              IF full
              THEN [s EXCEPT !.doc = doc, !.synced = TRUE, !.startup = TRUE,
                             !.pending = @ + 1, !.needsRecovery = FALSE]
              ELSE [s EXCEPT !.doc = doc, !.synced = TRUE,
                             !.startup = @ \/ s.pending > 0,
                             !.ready = @ \/ s.pending = 0]]
        /\ conns' = Received(k, IF full THEN <<doc>> ELSE <<>>)

\* An update-ack message.
Acknowledged(s) ==
    LET pending == IF s.pending > 0 THEN s.pending - 1 ELSE 0
        started == pending = 0 /\ s.startup /\ ~s.needsRecovery
    IN  [s EXCEPT !.pending = pending, !.startup = @ /\ ~started,
                  !.ready = @ \/ (started /\ s.synced)]

\* Fault: what was sent is taken for saved.
ClosedAsSaved(s, code) ==
    [s EXCEPT !.synced = FALSE, !.ready = FALSE, !.pending = 0, !.startup = FALSE]

\* Fault: what the lost connection owed is still waited for.
ClosedAsPending(s, code) ==
    [s EXCEPT !.synced = FALSE, !.ready = FALSE,
              !.needsRecovery = @ \/ s.pending > 0 \/ s.startup]

\* handleSocketClose: a rejected first history is thrown away and built again
\* in a fresh Yjs document; any other unacknowledged state will be resent.
Closed(s, code) ==
    LET gone == [s EXCEPT !.synced = FALSE, !.ready = FALSE,
                          !.pending = 0, !.startup = FALSE]
    IN  IF code = Mismatch /\ s.startup /\ ~s.needsRecovery
        THEN [gone EXCEPT !.doc = {}, !.document = @ + 1]
        ELSE [gone EXCEPT !.needsRecovery = @ \/ s.pending > 0 \/ s.startup]

CloseSocket(c, k, code) ==
    /\ clients' = [clients EXCEPT ![c] = Closed(clients[c], code)]
    /\ conns' = [conns EXCEPT ![k].open = FALSE, ![k].down = <<>>,
                              ![k].client = IF conns[k].server = "none" THEN NoConn ELSE @]

\* handleSocketMessage and handleControlMessage
ClientReceive(k) ==
    /\ conns[k].open /\ conns[k].down # <<>>
    /\ LET c == conns[k].client
           m == Head(conns[k].down)
       IN  \/ /\ m.type = "sync-complete"
              /\ ReceiveSync(c, k, m.bootstrap)
           \/ /\ m.type = "update"
              /\ clients' = [clients EXCEPT ![c].doc = @ \cup m.content]
              /\ conns' = Received(k, <<>>)
           \/ /\ m.type = "update-ack"
              /\ clients' = [clients EXCEPT ![c] = Acknowledged(@)]
              /\ conns' = Received(k, <<>>)
           \/ /\ m.type = "bootstrap-wait"
              /\ conns' = Received(k, <<>>)
              /\ UNCHANGED clients
           \/ /\ m.type = "close"
              /\ CloseSocket(c, k, m.code)
    /\ UNCHANGED <<log, room, queue, mishaps>>

Fail == failures < MaxFailures /\ failures' = failures + 1

\* The connection breaks.  The browser notices; the server may still read what
\* was sent, and notices later.
LoseConnection(k) ==
    /\ conns[k].open
    /\ Fail
    /\ CloseSocket(conns[k].client, k, Abnormal)
    /\ UNCHANGED <<log, room, queue, timeouts, rejected>>

\* The browser notices that the server's end is gone.
NoticeServerGone(k) ==
    /\ conns[k].open /\ conns[k].server = "none"
    /\ CloseSocket(conns[k].client, k, Abnormal)
    /\ UNCHANGED <<log, room, queue, mishaps>>

\* An editor types.
Edit(c) ==
    /\ clients[c].ready
    /\ Typed(c) \notin clients[c].doc
    /\ clients' = [clients EXCEPT ![c].doc = @ \cup {Typed(c)}, ![c].pending = @ + 1]
    /\ \E k \in SocketOf(c) :
          conns' = [conns EXCEPT ![k].up = Append(@, {Typed(c)})]
    /\ UNCHANGED <<log, room, queue, mishaps>>
-----------------------------------------------------------------------------
(***************************************************************************)
(* The server (PageCollaborationHub).                                      *)
(***************************************************************************)

\* The end of an upgrade.
Admit(k) ==
    /\ conns[k].server = "new"
    /\ LET cs == [conns EXCEPT ![k].server = "open"]
           To(messages) == Sent(cs, [Nothing EXCEPT ![k] = messages], {}, 0)
       IN  \/ /\ log # {}
              /\ room' = [room EXCEPT !.synced = @ \cup {k}]
              /\ conns' = To(<<Update(log), Sync(FALSE)>>)
           \/ /\ log = {} /\ conns[k].client \notin Editors
              /\ room' = [room EXCEPT !.synced = @ \cup {k}]
              /\ conns' = To(<<Sync(TRUE)>>)
           \/ /\ log = {} /\ conns[k].client \in Editors /\ NoLeader(room)
              /\ room' = EnsureTimer([room EXCEPT !.leader = k,
                                                  !.synced = @ \cup {k}])
              /\ conns' = To(<<Sync(TRUE)>>)
           \/ /\ log = {} /\ conns[k].client \in Editors /\ ~NoLeader(room)
              /\ room' = EnsureTimer([room EXCEPT !.waiting = Append(@, k)])
              /\ conns' = To(<<Wait>>)
    /\ UNCHANGED <<log, queue, clients, mishaps>>

\* handleMessage: a message of a client that is not synced is answered with
\* an error the browser only shows, and dropped.
ServerReceive(k) ==
    /\ conns[k].server = "open" /\ conns[k].up # <<>>
    /\ conns' = [conns EXCEPT ![k].up = Tail(@)]
    /\ IF k \in room.synced
       THEN /\ queue' = Append(queue, [conn |-> k, content |-> Head(conns[k].up),
                                       started |-> FALSE])
            /\ room' = [room EXCEPT !.writePending =
                                       @ \/ (room.leader = k /\ log = {})]
       ELSE UNCHANGED <<queue, room>>
    /\ UNCHANGED <<log, clients, mishaps>>

\* persistUpdate begins, unless its client has left.
StartWrite ==
    /\ queue # <<>> /\ ~Head(queue).started
    /\ LET k == Head(queue).conn
       IN  IF conns[k].server # "none"
           THEN /\ queue' = [queue EXCEPT ![1].started = TRUE]
                /\ UNCHANGED <<room, conns>>
           ELSE /\ queue' = Tail(queue)
                /\ room' = AfterWrite(room, k, Tail(queue))
                /\ conns' = Sent(conns, ToLeader(room, room'), {}, 0)
    /\ UNCHANGED <<log, clients, mishaps>>

\* Fault: recipients are chosen as writers are, by the permission to edit.
UpdateForEditors(x, content) ==
    IF content \subseteq log \/ conns[x].client \notin Editors
    THEN <<>> ELSE <<Update(content \ log)>>

\* What the log did not have goes to every client, synced or not.
UpdateFor(x, content) ==
    IF content \subseteq log THEN <<>> ELSE <<Update(content \ log)>>

\* The transaction commits: the update is published, the writer gets its
\* acknowledgement, and waiting clients are synced.
AcceptWrite(k, content) ==
    /\ log' = log \cup content
    /\ room' = Released(room, k)
    /\ conns' = Sent(conns,
          [x \in Conns |->
               UpdateFor(x, content)
               \o (IF x = k THEN <<Ack>> ELSE <<>>)
               \o (IF x \in room'.synced \ room.synced THEN <<Sync(FALSE)>> ELSE <<>>)],
          {}, 0)
    /\ UNCHANGED <<failures, rejected>>

\* The worker or the transaction fails: the writer's socket is closed.
FailWrite(k) ==
    /\ Fail
    /\ room' = AfterWrite(room, k, Tail(queue))
    /\ conns' = Sent(conns, ToLeader(room, room'), {k}, Abnormal)
    /\ UNCHANGED <<log, rejected>>

\* The saved page changed after the leader's session fetched it.
RejectBootstrap(k) ==
    /\ log = {}
    /\ Fail
    /\ LET r == [room EXCEPT !.writePending = FALSE, !.synced = @ \ {k}]
       IN  room' = IF r.leader = k THEN Succeeded(r) ELSE r
    /\ conns' = Sent(conns, ToLeader(room, room'), {k}, Mismatch)
    /\ rejected' = TRUE
    /\ UNCHANGED log

\* The answer to COMMIT is lost: the room is dropped, and with it its queued
\* writes and its sockets, those of unfinished upgrades that joined it as well.
LoseCommitOutcome(content) ==
    /\ Fail
    /\ log' \in {log, log \cup content}
    /\ room' = EmptyRoom
    /\ \E joined \in SUBSET {k \in Conns : conns[k].server = "new"} :
          conns' = Sent([k \in Conns |->
                            IF k \in joined THEN [conns[k] EXCEPT !.server = "open"]
                                            ELSE conns[k]],
                        Nothing, Conns, Abnormal)
    /\ UNCHANGED rejected

FinishWrite ==
    /\ queue # <<>> /\ Head(queue).started
    /\ LET w == Head(queue)
       IN  \/ /\ AcceptWrite(w.conn, w.content) \/ FailWrite(w.conn)
                                                \/ RejectBootstrap(w.conn)
              /\ queue' = Tail(queue)
           \/ /\ LoseCommitOutcome(w.content)
              /\ queue' = <<>>
    /\ UNCHANGED <<clients, timeouts>>

\* The leader has had its fifteen seconds.
LeaderTimeout ==
    /\ room.timer
    /\ IF log = {} /\ ~room.writePending /\ room.waiting # <<>>
       THEN /\ timeouts < MaxTimeouts
            /\ timeouts' = timeouts + 1
            /\ room' = Demoted(room)
            /\ conns' = Sent(conns,
                  [ToLeader([room EXCEPT !.leader = NoConn], room') EXCEPT
                      ![room.leader] = <<Wait>> \o @], {}, 0)
       ELSE /\ room' = [room EXCEPT !.timer = FALSE]
            /\ UNCHANGED <<conns, timeouts>>
    /\ UNCHANGED <<log, queue, clients, failures, rejected>>

\* handleClientClose: the server's end of a connection is gone, because the
\* browser closed its end or the server gave up on it.
ServerClose(k) ==
    /\ room' = Left(room, k)
    /\ conns' = [Sent(conns, ToLeader(room, room'), {}, 0) EXCEPT
                    ![k].server = "none", ![k].up = <<>>,
                    ![k].client = IF conns[k].open THEN @ ELSE NoConn]
    /\ UNCHANGED <<log, queue, clients, timeouts, rejected>>

NoticeClientGone(k) ==
    /\ conns[k].server # "none"
    /\ ~conns[k].open \/ conns[k].server = "closing"
    /\ UNCHANGED failures
    /\ ServerClose(k)

\* The heartbeat of a client that is still there does not arrive.
HeartbeatTimeout(k) ==
    /\ conns[k].server = "open" /\ conns[k].open
    /\ Fail
    /\ ServerClose(k)
-----------------------------------------------------------------------------
ClientStep ==
    \/ \E c \in Clients : Connect(c)
    \/ \E c \in Typists : Edit(c)
    \/ \E k \in Conns : ClientReceive(k) \/ LoseConnection(k) \/ NoticeServerGone(k)

ServerStep ==
    \/ \E k \in Conns : \/ Admit(k) \/ ServerReceive(k)
                        \/ NoticeClientGone(k) \/ HeartbeatTimeout(k)
    \/ StartWrite \/ FinishWrite \/ LeaderTimeout

Next == ClientStep \/ ServerStep

\* Browsers reconnect, each end of a connection reads what arrives and notices
\* that the other is gone, and the write queue of the room advances.  Nothing
\* is assumed of timers, typing or failures.
Fairness ==
    /\ \A c \in Clients : WF_vars(Connect(c))
    /\ \A k \in Conns :
          /\ WF_vars(ClientReceive(k) \/ NoticeServerGone(k))
          /\ WF_vars(Admit(k) \/ ServerReceive(k) \/ NoticeClientGone(k))
    /\ WF_vars(StartWrite \/ FinishWrite)

Spec == Init /\ [][Next]_vars /\ Fairness
-----------------------------------------------------------------------------
(***************************************************************************)
(* Correctness.                                                            *)
(***************************************************************************)

Messages ==
    [type : {"update"}, content : Content] \cup [type : {"sync-complete"}, bootstrap : BOOLEAN]
    \cup [type : {"bootstrap-wait", "update-ack"}]
    \cup [type : {"close"}, code : {Mismatch, Abnormal}]
Sessions ==
    [editor : BOOLEAN, doc : Content, document : Nat \ {0}, synced : BOOLEAN,
     ready : BOOLEAN, needsRecovery : BOOLEAN, pending : Nat, startup : BOOLEAN]
Connections ==
    [client : Clients \cup {NoConn}, open : BOOLEAN,
     server : {"none", "new", "open", "closing"}, up : Seq(Content), down : Seq(Messages)]
Rooms ==
    [leader : Conns \cup {NoConn}, timer : BOOLEAN, writePending : BOOLEAN,
     waiting : Seq(Conns), synced : SUBSET Conns]
Writes == [conn : Conns, content : Content, started : BOOLEAN]

\* Types.  waitingForBootstrap is a set that keeps the order of insertion: a
\* sequence without repetition, of clients the server still has.
TypeOK ==
    /\ log \in Content
    /\ room \in Rooms /\ queue \in Seq(Writes)
    /\ IsInjective(room.waiting)
    /\ \A k \in Range(room.waiting) \cup room.synced : conns[k].server # "none"
    /\ clients \in [Clients -> Sessions] /\ Editors \in Editorships
    /\ conns \in [Conns -> Connections]
    /\ failures \in 0 .. MaxFailures /\ timeouts \in 0 .. MaxTimeouts /\ rejected \in BOOLEAN

\* No editor waits in vain: while editors wait for a first history there is a
\* leader, whose time is running or whose write is in the queue, whichever
\* way leaders came and went; afterwards nobody waits.  This needs that no
\* first document was rejected, or that no leader was too slow: one that led
\* twice may have two first documents on the way.
WaitersAreServed ==
    ~rejected \/ timeouts = 0 =>
    IF log = {}
    THEN /\ room.waiting # <<>> =>
              room.leader # NoConn /\ (room.timer \/ room.writePending)
         /\ room.writePending =>
              \E i \in DOMAIN queue : queue[i].conn = room.leader
    ELSE room.waiting = <<>> /\ room.leader = NoConn

OneHistory(content) == \A i, j \in Histories(content) : i = j

\* As long as connections, writes and leaders do not fail, a page has at most
\* one initial history, in whichever order editors arrive and messages travel.
OneHistoryUndisturbed == failures = 0 /\ timeouts = 0 => OneHistory(log)

\* docs/collaboration/2026-07-29/collaboration.md:37: waiting prevents
\* separate initial histories.
OneInitialHistory == OneHistory(log)

\* The read-only bootstrap of the upgrade handler: a reader's document is
\* built from the saved page and then follows the server's updates.
ReadersKeepOneHistory ==
    \A c \in Clients \ Editors : OneHistory(clients[c].doc)

\* A newly shared page that editors have open gets its first history.
DocumentInitialized == <>(log # {})

\* What an editor typed reaches the log, although the connection it was sent
\* on may be lost with it.
EditsReachLog ==
    \A c \in Typists : (Typed(c) \in clients[c].doc) ~> (Typed(c) \in log)

\* Every session that is open has what is in the log in the end, however it
\* was told: by the state at admission, by updates, or while it waited.
SessionsConverge == <>[](\A c \in Clients : log \subseteq clients[c].doc)

\* Unless a leader was too slow, every editor may type in the end.
EditorsBecomeReady ==
    [](timeouts = 0) => \A c \in Clients : <>[](c \in Editors => clients[c].ready)
=============================================================================
