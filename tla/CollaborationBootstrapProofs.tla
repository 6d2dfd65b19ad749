---------------------- MODULE CollaborationBootstrapProofs ----------------------
(***************************************************************************)
(* Proofs about CollaborationBootstrap, for any browsers, connections and  *)
(* bounds on what goes wrong.                                              *)
(***************************************************************************)
EXTENDS CollaborationBootstrap, SequenceFacts

(***************************************************************************)
(* The inductive invariant.                                                *)
(***************************************************************************)
WellTyped ==
    /\ log \in Content
    /\ room \in Rooms /\ queue \in Seq(Writes)
    /\ clients \in [Clients -> Sessions] /\ Editors \in Editorships
    /\ conns \in [Conns -> Connections]
    /\ failures \in 0 .. MaxFailures /\ timeouts \in 0 .. MaxTimeouts /\ rejected \in BOOLEAN

Told(k) == Sync(TRUE) \in Range(conns[k].down)
Queued(k) == \E w \in Range(queue) : w.conn = k
OfEditor(k) == conns[k].client \in Editors

\* The waiting line and the synced clients: who is where, and only once.
RoomFits ==
    /\ IsInjective(room.waiting)
    /\ \A k \in Range(room.waiting) \cup room.synced : conns[k].server # "none"
    /\ room.leader \notin Range(room.waiting) /\ (room.timer => room.leader # NoConn)
    /\ Range(room.waiting) \cap room.synced = {}

\* A connection has a client until both sides closed it; a new one is known
\* to nobody; readers write nothing, do not lead and do not wait.
ConnFits(k) ==
    /\ conns[k].client = NoConn <=> ~conns[k].open /\ conns[k].server = "none"
    /\ conns[k].server = "new" =>
          /\ conns[k].down = <<>> /\ (log = {} => conns[k].up = <<>>)
          /\ k # room.leader /\ k \notin Range(room.waiting) \cup room.synced /\ ~Queued(k)
    /\ conns[k].client \in Clients \ Editors =>
          conns[k].up = <<>> /\ k # room.leader /\ k \notin Range(room.waiting)

\* While the log is empty nothing but the bootstrap is going on: no editor may
\* type, and the leader is the only editor whose writes are accepted.
Opening(m) == m = Sync(TRUE) \/ m.type \in {"bootstrap-wait", "close"}

EarlyConn(k) ==
    /\ \A m \in Range(conns[k].down) : Opening(m)
    /\ {} \notin Range(conns[k].up)
    /\ k \in room.synced /\ conns[k].server = "open" /\ OfEditor(k) => k = room.leader

Early == log = {} =>
    /\ \A k \in Conns : EarlyConn(k)
    /\ \A w \in Range(queue) : w.content # {}
    /\ \A c \in Editors : ~clients[c].ready

\* WaitersAreServed, and whose the writes in the queue are.
Served == ~rejected \/ timeouts = 0 =>
    /\ log = {} =>
          /\ room.waiting # <<>> => room.leader # NoConn /\ (room.timer \/ room.writePending)
          /\ room.writePending => queue # <<>>
          /\ \A w \in Range(queue) : w.conn = room.leader /\ room.writePending
    /\ log # {} => room.waiting = <<>> /\ room.leader = NoConn

\* Unless a leader was too slow, a leader is told once and writes once.
OnceConn(k) ==
    conns[k].server = "open" /\ OfEditor(k) =>
          /\ k \notin room.synced => ~Told(k) /\ conns[k].up = <<>>
          /\ OnceIn(Sync(TRUE), conns[k].down)
          /\ Told(k) => conns[k].up = <<>> /\ ~Queued(k)
          /\ conns[k].up # <<>> => Len(conns[k].up) = 1 /\ ~Queued(k)

Once == timeouts = 0 /\ log = {} => Len(queue) <= 1 /\ \A k \in Conns : OnceConn(k)

\* While nothing goes wrong: connections stay, and there is one document.
First(content) ==
    room.leader # NoConn /\ content = {Copy(conns[room.leader].client, 1)}

Steady(k) ==
    /\ conns[k].server # "closing" /\ (conns[k].open <=> conns[k].server # "none")
    /\ \A m \in Range(conns[k].down) : m.type # "close"
    /\ Queued(k) => conns[k].server # "none"

\* Before the first history is in the log, only the leader's session has it.
BeforeConn(k) == OfEditor(k) =>
    /\ Told(k) => k = room.leader
    /\ conns[k].up # <<>> => k = room.leader /\ clients[conns[k].client].doc # {}
    /\ \A content \in Range(conns[k].up) : First(content)

Before ==
    /\ \A c \in Editors : clients[c].doc # {} =>
          First(clients[c].doc) /\ conns[room.leader].client = c
    /\ \A k \in Conns : BeforeConn(k)
    /\ \A w \in Range(queue) :
          First(w.content) /\ clients[conns[room.leader].client].doc # {}

\* Afterwards it is the only one anywhere.
AfterConn(k) == OfEditor(k) =>
    /\ Told(k) => clients[conns[k].client].doc # {}
    /\ \A content \in Range(conns[k].up) : Histories(content) \subseteq log
    /\ \A m \in Range(conns[k].down) : m.type = "update" => Histories(m.content) \subseteq log

After ==
    /\ OneHistory(log)
    /\ \A c \in Editors : Histories(clients[c].doc) \subseteq log
    /\ \A w \in Range(queue) : Histories(w.content) \subseteq log
    /\ \A k \in Conns : AfterConn(k)

Calm ==
    /\ ~rejected /\ \A k \in Conns : Steady(k)
    /\ \A c \in Clients : clients[c].document = 1 /\ ~clients[c].needsRecovery
    /\ log = {} => Before
    /\ log # {} => After

Undisturbed == failures = 0 /\ timeouts = 0 => Calm

Fits == \A k \in Conns : ConnFits(k)

Base == WellTyped /\ RoomFits /\ Fits /\ Early /\ Served /\ Once
IInv == Base /\ Undisturbed

-----------------------------------------------------------------------------
(***************************************************************************)
(* Messages, and what the server writes.                                   *)
(***************************************************************************)
LEMMA MessagesAre ==
    /\ \A content \in Content : Update(content) \in Messages /\ ~Opening(Update(content))
                                /\ Update(content).type = "update" /\ Update(content).content = content
    /\ \A b \in BOOLEAN : Sync(b) \in Messages /\ Sync(b).type = "sync-complete" /\ Sync(b).bootstrap = b
    /\ \A code \in {Mismatch, Abnormal} : Close(code) \in Messages /\ Opening(Close(code))
                                          /\ Close(code).type = "close" /\ Close(code) # Sync(TRUE)
    /\ Wait \in Messages /\ Opening(Wait) /\ Wait.type = "bootstrap-wait" /\ Wait # Sync(TRUE)
    /\ Ack \in Messages /\ Ack.type = "update-ack" /\ ~Opening(Ack) /\ Ack # Sync(TRUE)
    /\ Opening(Sync(TRUE)) /\ ~Opening(Sync(FALSE)) /\ Sync(FALSE) # Sync(TRUE)
    /\ \A content : Update(content) # Sync(TRUE)
BY DEF Update, Sync, Close, Wait, Ack, Messages, Opening, Mismatch, Abnormal

\* Nothing is left out of the kinds of messages a browser can be sent.
LEMMA MessageKinds ==
    ASSUME NEW m \in Messages
    PROVE  \/ m.type = "update" /\ m.content \in Content
           \/ m.type = "sync-complete" /\ m.bootstrap \in BOOLEAN /\ m = Sync(m.bootstrap)
           \/ m.type = "bootstrap-wait"
           \/ m.type = "update-ack"
           \/ m.type = "close" /\ m.code \in {Mismatch, Abnormal}
BY DEF Messages, Sync

\* What the server's writing made of a connection.
Written(now, was, out, closes, code) ==
    /\ now \in Connections /\ now.client = was.client /\ now.open = was.open
    /\ was.server # "open" => now = was
    /\ was.server = "open" /\ ~closes =>
          now.server = "open" /\ now.up = was.up /\ now.down = was.down \o out
    /\ was.server = "open" /\ closes =>
          /\ now.server = "closing" /\ now.up = <<>>
          /\ Range(now.down) = Range(was.down) \cup Range(out) \cup {Close(code)}

\* What the server writes to each socket is well formed.
LEMMA SentIs ==
    ASSUME NEW cs \in [Conns -> Connections], NEW out, NEW closed, NEW code \in {Mismatch, Abnormal, 0},
           closed # {} => code # 0, NEW k \in Conns, out[k] \in Seq(Messages)
    PROVE  Written(Sent(cs, out, closed, code)[k], cs[k], out[k], k \in closed, code)
<1> DEFINE now == Sent(cs, out, closed, code)[k]
<1>1. /\ cs[k] \in Connections /\ cs[k].down \in Seq(Messages) /\ cs[k].up \in Seq(Content)
  BY DEF Connections
<1>2. now = IF cs[k].server # "open" THEN cs[k]
            ELSE IF k \in closed
                 THEN [cs[k] EXCEPT !.server = "closing", !.up = <<>>,
                                    !.down = @ \o out[k] \o <<Close(code)>>]
                 ELSE [cs[k] EXCEPT !.down = @ \o out[k]]
  BY DEF Sent
<1> HIDE DEF now
<1> DEFINE one == cs[k].down \o out[k]
<1>3. one \in Seq(Messages) /\ Range(one) = Range(cs[k].down) \cup Range(out[k])
  BY <1>1, ConcatRange
<1> HIDE DEF one
<1>4. CASE cs[k].server # "open"
  BY <1>1, <1>2, <1>4 DEF now, Written
<1>5. CASE cs[k].server = "open" /\ k \notin closed
  <2>1. now = [cs[k] EXCEPT !.down = one]
    BY <1>2, <1>5 DEF one
  <2>2. now \in Connections /\ now.client = cs[k].client /\ now.open = cs[k].open
        /\ now.server = "open" /\ now.up = cs[k].up /\ now.down = one
    BY <1>1, <1>3, <1>5, <2>1 DEF Connections
  <2> QED
    BY <1>5, <2>2 DEF now, one, Written
<1>6. CASE cs[k].server = "open" /\ k \in closed
  <2> DEFINE last == <<Close(code)>>
             all == one \o last
  <2>1. code \in {Mismatch, Abnormal}
    BY <1>6
  <2>2. Close(code) \in Messages
    BY <2>1, MessagesAre
  <2>3. last \in Seq(Messages) /\ Range(last) = {Close(code)}
    BY <2>2, OneIs
  <2> HIDE DEF last
  <2>4. all \in Seq(Messages) /\ Range(all) = Range(one) \cup {Close(code)}
    BY <1>3, <2>3, ConcatRange
  <2>5. now = [cs[k] EXCEPT !.server = "closing", !.up = <<>>, !.down = all]
    BY <1>2, <1>6 DEF one, last
  <2> HIDE DEF all
  <2>6. <<>> \in Seq(Content)
    OBVIOUS
  <2>7. now \in Connections /\ now.client = cs[k].client /\ now.open = cs[k].open
        /\ now.server = "closing" /\ now.up = <<>> /\ now.down = all
    BY <1>1, <2>4, <2>5, <2>6 DEF Connections
  <2> QED
    BY <1>3, <1>6, <2>4, <2>7 DEF now, Written
<1> QED
  BY <1>4, <1>5, <1>6

\* A leader that a step made is told so, and nobody else.
LEMMA ToLeaderIs ==
    ASSUME NEW before, NEW after, NEW k \in Conns
    PROVE  /\ after.leader = k /\ before.leader # k => ToLeader(before, after)[k] = <<Sync(TRUE)>>
           /\ ~(after.leader = k /\ before.leader # k) => ToLeader(before, after)[k] = <<>>
           /\ ToLeader(before, after)[k] \in Seq(Messages)
           /\ Range(<<Sync(TRUE)>>) = {Sync(TRUE)} /\ <<Sync(TRUE)>> \in Seq(Messages)
<1> DEFINE told == <<Sync(TRUE)>>
<1>1. Sync(TRUE) \in Messages
  BY MessagesAre
<1>2. told \in Seq(Messages) /\ Range(told) = {Sync(TRUE)}
  BY <1>1, OneIs
<1>3. <<>> \in Seq(Messages)
  OBVIOUS
<1>4. ToLeader(before, after)[k] = IF after.leader = k /\ before.leader # k THEN told ELSE <<>>
  BY DEF ToLeader
<1> HIDE DEF told
<1>5. ToLeader(before, after)[k] \in Seq(Messages)
  BY <1>2, <1>3, <1>4
<1> QED
  BY <1>2, <1>4, <1>5 DEF told

-----------------------------------------------------------------------------
(***************************************************************************)
(* The bootstrap state of a room.                                          *)
(***************************************************************************)
\* What s, the room after a succession, has of r.
Succession(r, s) ==
    /\ s \in Rooms /\ IsInjective(s.waiting) /\ ~s.writePending
    /\ Range(s.waiting) \subseteq Range(r.waiting)
    /\ \/ s.leader = NoConn /\ ~s.timer /\ s.waiting = <<>> /\ s.synced = r.synced
       \/ /\ s.leader \in Range(r.waiting) /\ conns[s.leader].server = "open" /\ s.timer
          /\ s.leader \notin Range(s.waiting) /\ s.synced = r.synced \cup {s.leader}

\* Without a leader, the first in line whose socket is open takes over.
LEMMA PromotedIs ==
    ASSUME NEW r \in Rooms, IsInjective(r.waiting), conns \in [Conns -> Connections],
           log = {}, ~r.writePending, r.leader = NoConn, ~r.timer
    PROVE  Succession(r, Promoted(r))
<1> DEFINE s == Promoted(r)
           open == {i \in DOMAIN r.waiting : conns[r.waiting[i]].server = "open"}
           next == CHOOSE i \in open : \A j \in open : i <= j
           leader == r.waiting[next]
           rest == SubSeq(r.waiting, next + 1, Len(r.waiting))
<1>1. /\ r.waiting \in Seq(Conns) /\ DOMAIN r.waiting = 1 .. Len(r.waiting) /\ Len(r.waiting) \in Nat
      /\ r.synced \subseteq Conns /\ r.leader \in Conns \cup {NoConn} /\ r.timer = FALSE
      /\ r.writePending = FALSE
  BY LenProperties DEF Rooms
<1>2. CASE open = {}
  <2>1. s = [r EXCEPT !.waiting = <<>>]
    BY <1>2 DEF Promoted
  <2>2. <<>> \in Seq(Conns) /\ IsInjective(<<>>) /\ Range(<<>>) = {}
    BY DEF IsInjective, Range
  <2>3. s \in Rooms /\ s.waiting = <<>> /\ s.leader = NoConn /\ s.timer = FALSE /\ s.synced = r.synced
        /\ s.writePending = FALSE
    BY <1>1, <2>1, <2>2 DEF Rooms
  <2> HIDE DEF s
  <2> QED
    BY <2>2, <2>3 DEF s, Succession
<1>3. CASE open # {}
  <2>1. next \in open /\ next \in 1 .. Len(r.waiting)
    <3>1. open \in SUBSET Nat
      BY <1>1
    <3>2. \E i \in open : \A j \in open : i <= j
      BY <1>3, <3>1, FirstIs
    <3> QED
      BY <1>1, <3>2
  <2>2. s = EnsureTimer([r EXCEPT !.leader = leader, !.waiting = rest,
                                  !.synced = r.synced \cup {leader}])
    BY <1>1, <1>3 DEF Promoted
  <2> HIDE DEF open, next, s
  <2>3. leader \in Conns /\ leader \in Range(r.waiting) /\ conns[leader].server = "open"
    BY <1>1, <2>1, ElementOfSeq DEF Range, open
  <2>4. rest \in Seq(Conns) /\ IsInjective(rest) /\ Range(rest) \subseteq Range(r.waiting) \ {leader}
    BY <1>1, <2>1, SuffixOnce
  <2> HIDE DEF rest, leader
  <2>5. leader # NoConn
    BY <2>3, SessionAssumption
  <2>6. /\ s \in Rooms /\ s.waiting = rest /\ s.leader = leader /\ s.timer = TRUE
        /\ s.synced = r.synced \cup {leader} /\ s.writePending = FALSE
    BY <1>1, <2>2, <2>3, <2>4, <2>5 DEF Rooms, EnsureTimer
  <2> QED
    BY <2>3, <2>4, <2>6 DEF s, Succession
<1> QED
  BY <1>2, <1>3

\* The leader is given up.
LEMMA SucceededIs ==
    ASSUME NEW r \in Rooms, IsInjective(r.waiting), conns \in [Conns -> Connections],
           log = {}, ~r.writePending
    PROVE  Succession(r, Succeeded(r))
<1> DEFINE p == [r EXCEPT !.leader = NoConn, !.timer = FALSE]
<1>1. /\ p \in Rooms /\ p.leader = NoConn /\ ~p.timer /\ ~p.writePending
      /\ p.waiting = r.waiting /\ p.synced = r.synced
  BY DEF Rooms
<1>2. Succeeded(r) = Promoted(p)
  BY DEF Succeeded
<1> HIDE DEF p
<1>3. Succession(p, Promoted(p))
  BY <1>1, PromotedIs
<1> QED
  BY <1>1, <1>2, <1>3 DEF Succession

\* A client that leaves the line leaves the others in their order.
LEMMA WithoutIs ==
    ASSUME NEW line \in Seq(Conns), IsInjective(line), NEW k \in Conns
    PROVE  /\ Without(line, k) \in Seq(Conns) /\ IsInjective(Without(line, k))
           /\ Range(Without(line, k)) = Range(line) \ {k}
<1>1. CASE k \notin Range(line)
  BY <1>1 DEF Without
<1>2. CASE k \in Range(line)
  <2> DEFINE i == CHOOSE i \in DOMAIN line : line[i] = k
  <2>1. i \in 1 .. Len(line) /\ line[i] = k
    BY <1>2, LenProperties DEF Range
  <2>2. Without(line, k) = RemoveAt(line, i)
    BY <1>2 DEF Without
  <2> HIDE DEF i
  <2> QED
    BY <2>1, <2>2, LeavesOnce
<1> QED
  BY <1>1, <1>2

-----------------------------------------------------------------------------
(***************************************************************************)
(* Steps of the server that give up connections and let others lead.       *)
(***************************************************************************)
\* What becomes of one connection.
GoesOn(now, was) ==
    /\ now.open = was.open
    /\ now.client = IF was.open \/ now.server # "none" THEN was.client ELSE NoConn
    /\ now.up \in {was.up, <<>>}
    /\ now.server = was.server \/ now.server = "none"
       \/ (now.server = "closing" /\ was.server = "open")
    /\ now.server = "new" => now = was
    /\ \A m \in Range(now.down) : m \in Range(was.down) \/ Opening(m)

\* What becomes of the room, its queue and its connections.
Handover ==
    /\ log' = log /\ clients' = clients
    /\ queue' \in Seq(Writes) /\ Range(queue') \subseteq Range(queue)
    /\ conns' \in [Conns -> Connections] /\ \A k \in Conns : GoesOn(conns'[k], conns[k])
    /\ room' \in Rooms /\ RoomFits'
    /\ Range(room'.waiting) \subseteq Range(room.waiting) \cup {room.leader}
    /\ room'.synced \subseteq room.synced \cup {room'.leader}
    /\ room'.leader \in {room.leader, NoConn} \cup Range(room.waiting)
    /\ \A k \in room'.synced : k = room.leader /\ k # room'.leader => conns'[k].server # "open"

\* Such a step keeps the room and its connections in order.
LEMMA HandoverKeeps ==
    ASSUME Base, Handover,
           failures' \in 0 .. MaxFailures, timeouts' \in 0 .. MaxTimeouts, rejected' \in BOOLEAN
    PROVE  WellTyped' /\ RoomFits' /\ Fits' /\ Early'
<1>1. /\ Editors' = Editors
      /\ \A k \in Conns : conns[k] \in Connections /\ conns'[k] \in Connections
      /\ Editors \subseteq Clients /\ NoConn \notin Conns /\ NoConn \notin Clients
  BY SessionAssumption DEF Base, WellTyped, Handover, Editors
<1>2. WellTyped' /\ RoomFits'
  BY <1>1 DEF Base, WellTyped, Handover
<1>3. \A k \in Conns : Queued(k)' => Queued(k)
  BY DEF Handover, Queued
<1>4. ASSUME NEW k \in Conns
      PROVE  ConnFits(k)'
  <2>1. ConnFits(k) /\ GoesOn(conns'[k], conns[k])
    BY DEF Base, Fits, Handover
  <2>2. (conns[k].client = NoConn <=> ~conns[k].open /\ conns[k].server = "none")'
    BY <2>1, <1>1 DEF ConnFits, GoesOn, Connections
  <2>3. ASSUME conns'[k].server = "new"
        PROVE  /\ conns'[k].down = <<>> /\ (log' = {} => conns'[k].up = <<>>)
               /\ k # room'.leader /\ k \notin Range(room'.waiting) \cup room'.synced /\ ~Queued(k)'
    <3>1. conns'[k] = conns[k] /\ conns[k].server = "new"
      BY <2>1, <2>3 DEF GoesOn
    <3>2. k # room'.leader
      BY <1>1, <2>1, <3>1 DEF ConnFits, Handover
    <3> QED
      BY <1>3, <2>1, <3>1, <3>2 DEF ConnFits, Handover
  <2>4. ASSUME conns'[k].client \in Clients \ Editors
        PROVE  conns'[k].up = <<>> /\ k # room'.leader /\ k \notin Range(room'.waiting)
    <3>1. conns[k].client \in Clients \ Editors
      BY <1>1, <2>1, <2>4 DEF GoesOn
    <3> QED
      BY <1>1, <2>1, <3>1 DEF ConnFits, GoesOn, Handover
  <2> QED
    BY <1>1, <2>2, <2>3, <2>4 DEF ConnFits
<1>5. ASSUME log' = {}
      PROVE  /\ \A k \in Conns : EarlyConn(k)'
             /\ \A w \in Range(queue') : w.content # {}
             /\ \A c \in Editors' : ~clients'[c].ready
  <2>1. /\ \A k \in Conns : EarlyConn(k)
        /\ \A w \in Range(queue) : w.content # {}
        /\ \A c \in Editors : ~clients[c].ready
    BY <1>5 DEF Base, Early, Handover
  <2>2. ASSUME NEW k \in Conns
        PROVE  EarlyConn(k)'
    <3>1. EarlyConn(k) /\ GoesOn(conns'[k], conns[k])
      BY <2>1 DEF Handover
    <3>2. \A m \in Range(conns'[k].down) : Opening(m)
      BY <3>1 DEF EarlyConn, GoesOn
    <3>3. {} \notin Range(conns'[k].up)
      BY <3>1, NoneIs DEF EarlyConn, GoesOn
    <3>4. ASSUME k \in room'.synced, conns'[k].server = "open", conns'[k].client \in Editors
          PROVE  k = room'.leader
      <4>1. conns[k].server = "open" /\ conns[k].client \in Editors
        BY <1>1, <3>1, <3>4 DEF GoesOn
      <4> QED
        BY <3>1, <3>4, <4>1 DEF EarlyConn, Handover, OfEditor
    <3> QED
      BY <1>1, <3>2, <3>3, <3>4 DEF EarlyConn, OfEditor
  <2> QED
    BY <1>1, <2>1, <2>2 DEF Handover
<1> QED
  BY <1>2, <1>4, <1>5 DEF Fits, Early

\* Writing to the new leader and closing some sockets is such a step.
Tells(cs, closed) ==
    /\ cs \in [Conns -> Connections]
    /\ \A k \in Conns :
         /\ GoesOn(cs[k], conns[k])
         /\ cs[k].server = "none" <=> conns[k].server = "none"
         /\ cs[k].server = "open" =>
               /\ k \notin closed /\ conns[k].server = "open"
               /\ cs[k].up = conns[k].up /\ cs[k].client = conns[k].client
               /\ IF k = room'.leader /\ k # room.leader
                  THEN cs[k].down = conns[k].down \o <<Sync(TRUE)>>
                  ELSE cs[k].down = conns[k].down

\* Telling the new leader is such a writing.
LEMMA TellsLeader ==
    ASSUME Base, NEW closed \in SUBSET Conns, NEW code \in {Mismatch, Abnormal, 0},
           closed # {} => code # 0
    PROVE  Tells(Sent(conns, ToLeader(room, room'), closed, code), closed)
<1> DEFINE out == ToLeader(room, room')
           cs == Sent(conns, out, closed, code)
<1>1. /\ conns \in [Conns -> Connections]
      /\ \A k \in Conns : conns[k] \in Connections /\ conns[k].down \in Seq(Messages)
  BY DEF Base, WellTyped, Connections
<1> HIDE DEF cs, out
<1>2. ASSUME NEW k \in Conns
      PROVE  /\ cs[k] \in Connections /\ GoesOn(cs[k], conns[k])
             /\ cs[k].server = "none" <=> conns[k].server = "none"
             /\ cs[k].server = "open" =>
                   /\ k \notin closed /\ conns[k].server = "open"
                   /\ cs[k].up = conns[k].up /\ cs[k].client = conns[k].client
                   /\ IF k = room'.leader /\ k # room.leader
                      THEN cs[k].down = conns[k].down \o <<Sync(TRUE)>>
                      ELSE cs[k].down = conns[k].down
  <2>1. /\ room'.leader = k /\ room.leader # k => out[k] = <<Sync(TRUE)>>
        /\ ~(room'.leader = k /\ room.leader # k) => out[k] = <<>>
        /\ out[k] \in Seq(Messages) /\ Range(<<Sync(TRUE)>>) = {Sync(TRUE)}
        /\ <<Sync(TRUE)>> \in Seq(Messages)
    BY ToLeaderIs DEF out
  <2>2. \A m \in Range(out[k]) : Opening(m)
    BY <2>1, MessagesAre, NoneIs
  <2>3. Written(cs[k], conns[k], out[k], k \in closed, code)
    BY <1>1, <2>1, SentIs DEF cs
  <2>4. ConnFits(k)
    BY DEF Base, Fits
  <2>5. /\ conns[k].down \o out[k] \in Seq(Messages)
        /\ Range(conns[k].down \o out[k]) = Range(conns[k].down) \cup Range(out[k])
        /\ conns[k].down \o <<>> = conns[k].down
    BY <1>1, <2>1, ConcatRange, ConcatEmptySeq
  <2>6. closed # {} => Opening(Close(code))
    BY MessagesAre
  <2>7. CASE conns[k].server # "open"
    BY <2>3, <2>4, <2>7 DEF GoesOn, ConnFits, Written
  <2>8. CASE conns[k].server = "open" /\ k \notin closed
    <3>1. GoesOn(cs[k], conns[k])
      BY <2>2, <2>3, <2>5, <2>8 DEF GoesOn, Written
    <3> QED
      BY <2>1, <2>3, <2>5, <2>8, <3>1 DEF Written
  <2>9. CASE conns[k].server = "open" /\ k \in closed
    <3>1. GoesOn(cs[k], conns[k])
      BY <2>2, <2>3, <2>6, <2>9 DEF GoesOn, Written
    <3> QED
      BY <2>3, <2>9, <3>1 DEF Written
  <2> QED
    BY <2>7, <2>8, <2>9
<1>3. cs \in [Conns -> Connections]
  <2>1. cs = [k \in Conns |-> cs[k]]
    BY DEF Sent, cs
  <2> QED
    BY <1>2, <2>1
<1> QED
  BY <1>2, <1>3 DEF Tells, cs, out

\* A succession keeps the room in order.
LEMMA SuccessionFits ==
    ASSUME Base, NEW r \in Rooms, Succession(r, room'),
           Range(r.waiting) \cap r.synced = {},
           \A k \in Range(r.waiting) \cup r.synced : conns'[k].server # "none"
    PROVE  /\ room' \in Rooms /\ RoomFits'
           /\ Range(room'.waiting) \subseteq Range(r.waiting)
           /\ r.synced \subseteq room'.synced /\ room'.synced \subseteq r.synced \cup {room'.leader}
           /\ room'.leader \in {NoConn} \cup Range(r.waiting)
<1>1. NoConn \notin Conns /\ room'.waiting \in Seq(Conns) /\ r.waiting \in Seq(Conns)
  BY SessionAssumption DEF Succession, Rooms
<1>2. Range(room'.waiting) \subseteq Conns /\ Range(r.waiting) \subseteq Conns
  BY <1>1, RangeInside
<1> QED
  BY <1>1, <1>2, NoneIs DEF Succession, RoomFits

\* While the log is empty and no leader was too slow, such a step leaves at
\* most one write of the new leader to come.
LEMMA HandoverOnce ==
    ASSUME Base, Handover, timeouts' = 0 => timeouts = 0, Len(queue') <= Len(queue),
           \A k \in Conns : conns'[k].server = "open" =>
              /\ conns'[k].up = conns[k].up /\ (k \in room.synced => k \in room'.synced)
              /\ \/ conns'[k].down = conns[k].down
                 \/ /\ k = room'.leader /\ k \in Range(room.waiting) /\ k \in room'.synced
                    /\ conns'[k].down = conns[k].down \o <<Sync(TRUE)>>
    PROVE  Once'
<1> SUFFICES ASSUME timeouts' = 0, log' = {}
             PROVE  Len(queue') <= 1 /\ \A k \in Conns : OnceConn(k)'
  BY DEF Once
<1>1. timeouts = 0 /\ log = {}
  BY DEF Handover
<1>2. /\ Len(queue) <= 1 /\ \A k \in Conns : OnceConn(k)
      /\ \A w \in Range(queue) : w.conn = room.leader
  BY <1>1 DEF Base, Once, Served
<1>3. queue \in Seq(Writes) /\ queue' \in Seq(Writes) /\ Len(queue) \in Nat /\ Len(queue') \in Nat
  BY LenProperties DEF Base, WellTyped, Handover
<1>4. Editors' = Editors /\ Editors \subseteq Clients /\ NoConn \notin Clients
  BY SessionAssumption DEF Base, WellTyped, Handover, Editors
<1>5. \A k \in Conns : Queued(k)' => Queued(k)
  BY DEF Handover, Queued
<1>6. ASSUME NEW k \in Conns, conns'[k].server = "open", OfEditor(k)'
      PROVE  /\ k \notin room'.synced => ~Told(k)' /\ conns'[k].up = <<>>
             /\ OnceIn(Sync(TRUE), conns'[k].down)
             /\ Told(k)' => conns'[k].up = <<>> /\ ~Queued(k)'
             /\ conns'[k].up # <<>> => Len(conns'[k].up) = 1 /\ ~Queued(k)'
  <2>1. conns[k].server = "open" /\ OfEditor(k) /\ conns'[k].up = conns[k].up
    BY <1>4, <1>6 DEF Handover, GoesOn, OfEditor
  <2>2. /\ k \notin room.synced => ~Told(k) /\ conns[k].up = <<>>
        /\ OnceIn(Sync(TRUE), conns[k].down)
        /\ Told(k) => conns[k].up = <<>> /\ ~Queued(k)
        /\ conns[k].up # <<>> => Len(conns[k].up) = 1 /\ ~Queued(k)
    BY <1>2, <2>1 DEF OnceConn
  <2>3. k \in room.synced => k \in room'.synced
    BY <1>6
  <2>4. CASE conns'[k].down = conns[k].down
    BY <1>5, <2>1, <2>2, <2>3, <2>4 DEF Told
  <2>5. CASE /\ k = room'.leader /\ k \in Range(room.waiting) /\ k \in room'.synced
             /\ conns'[k].down = conns[k].down \o <<Sync(TRUE)>>
    <3>1. k \notin room.synced /\ k # room.leader
      BY <2>5 DEF Base, RoomFits
    <3>2. ~Told(k) /\ conns[k].up = <<>> /\ ~Queued(k)
      BY <1>2, <2>2, <3>1 DEF Queued
    <3>4. OnceIn(Sync(TRUE), conns'[k].down)
      <4>1. Sync(TRUE) \in Messages /\ conns[k].down \in Seq(Messages)
        BY MessagesAre DEF Base, WellTyped, Connections
      <4> DEFINE told == <<Sync(TRUE)>>
      <4>2. told \in Seq(Messages) /\ OnceIn(Sync(TRUE), told)
        BY <4>1, OneIs
      <4> HIDE DEF told
      <4>3. OnceIn(Sync(TRUE), conns[k].down \o told)
        BY <2>2, <3>2, <4>1, <4>2, OnceConcat DEF Told
      <4> QED
        BY <2>5, <4>3 DEF told
    <3> QED
      BY <1>5, <2>1, <2>5, <3>2, <3>4
  <2> QED
    BY <1>6, <2>4, <2>5
<1>7. \A k \in Conns : OnceConn(k)'
  BY <1>6 DEF OnceConn
<1>8. Len(queue') <= 1
  BY <1>2, <1>3
<1> QED
  BY <1>7, <1>8

-----------------------------------------------------------------------------
(***************************************************************************)
(* The end of a write that did not get into the log.                       *)
(***************************************************************************)
LEMMA QueueHead ==
    ASSUME WellTyped, queue # <<>>
    PROVE  /\ Head(queue) \in Writes /\ Head(queue).conn \in Conns /\ Head(queue) \in Range(queue)
           /\ Tail(queue) \in Seq(Writes) /\ Range(Tail(queue)) \subseteq Range(queue)
           /\ Len(Tail(queue)) = Len(queue) - 1 /\ Len(queue) \in Nat
           /\ (Len(queue) <= 1 => Tail(queue) = <<>>)
<1>1. queue \in Seq(Writes)
  BY DEF WellTyped
<1>2. /\ Head(queue) \in Writes /\ Tail(queue) \in Seq(Writes) /\ Len(Tail(queue)) = Len(queue) - 1
      /\ Range(queue) = {Head(queue)} \cup Range(Tail(queue))
  BY <1>1, TailRange
<1>3. Len(queue) \in Nat /\ Len(Tail(queue)) \in Nat /\ (Tail(queue) = <<>> <=> Len(Tail(queue)) = 0)
  BY <1>1, <1>2, LenProperties, EmptySeq
<1>4. Len(queue) <= 1 => Len(Tail(queue)) = 0
  BY <1>2, <1>3
<1> QED
  BY <1>2, <1>3, <1>4 DEF Writes

\* The writer is replaced if it is the leader, and nothing else of it is left.
Rejected(k) ==
    LET r == [room EXCEPT !.writePending = FALSE, !.synced = @ \ {k}]
    IN  room' = IF r.leader = k THEN Succeeded(r) ELSE r

\* A write failed, or was rejected, or its client had left.
LEMMA WriterLeaves ==
    ASSUME Base, queue # <<>>, NEW k, k = Head(queue).conn,
           NEW closed \in SUBSET Conns, NEW code \in {Mismatch, Abnormal, 0}, closed # {} => code # 0,
           k \in closed \/ conns[k].server = "none", closed \subseteq {k},
           \/ room' = AfterWrite(room, k, Tail(queue))
           \/ log = {} /\ rejected' = TRUE /\ Rejected(k),
           conns' = Sent(conns, ToLeader(room, room'), closed, code),
           queue' = Tail(queue), log' = log, clients' = clients,
           failures' \in 0 .. MaxFailures, timeouts' = timeouts, rejected' \in {rejected, TRUE}
    PROVE  Base'
<1>1. /\ k \in Conns /\ Head(queue) \in Range(queue)
      /\ queue' \in Seq(Writes) /\ Range(queue') \subseteq Range(queue) /\ Len(queue') <= Len(queue)
      /\ Len(queue) <= 1 => Tail(queue) = <<>>
  BY QueueHead DEF Base
<1>2. /\ conns' \in [Conns -> Connections]
      /\ \A x \in Conns :
           /\ GoesOn(conns'[x], conns[x])
           /\ conns'[x].server = "none" <=> conns[x].server = "none"
           /\ conns'[x].server = "open" =>
                 /\ x \notin closed /\ conns[x].server = "open"
                 /\ conns'[x].up = conns[x].up /\ conns'[x].client = conns[x].client
                 /\ IF x = room'.leader /\ x # room.leader
                    THEN conns'[x].down = conns[x].down \o <<Sync(TRUE)>>
                    ELSE conns'[x].down = conns[x].down
  <2>1. Tells(conns', closed)
    BY TellsLeader
  <2> QED
    BY <2>1 DEF Tells
<1>3. /\ room \in Rooms /\ room.waiting \in Seq(Conns) /\ room.synced \subseteq Conns
      /\ Range(room.waiting) \subseteq Conns /\ NoConn \notin Conns /\ conns \in [Conns -> Connections]
      /\ IsInjective(room.waiting)
  BY RangeInside, SessionAssumption DEF Base, WellTyped, Rooms, RoomFits
<1>4. conns'[k].server # "open"
  BY <1>1, <1>2
<1> DEFINE r == [room EXCEPT !.writePending = FALSE, !.synced = @ \ {k}]
           q == [room EXCEPT !.writePending = FALSE]
<1>5. \A x \in {r, q} : /\ x \in Rooms /\ x.waiting = room.waiting /\ x.leader = room.leader
                        /\ x.timer = room.timer /\ ~x.writePending
                        /\ x.synced \subseteq room.synced /\ room.synced \ {k} \subseteq x.synced
  <2>1. /\ r \in Rooms /\ r.waiting = room.waiting /\ r.leader = room.leader /\ r.timer = room.timer
        /\ ~r.writePending /\ r.synced = room.synced \ {k}
    BY <1>3 DEF Rooms
  <2>2. /\ q \in Rooms /\ q.waiting = room.waiting /\ q.leader = room.leader /\ q.timer = room.timer
        /\ ~q.writePending /\ q.synced = room.synced
    BY <1>3 DEF Rooms
  <2> HIDE DEF r, q
  <2> QED
    BY <2>1, <2>2
<1>6. \/ room' = room /\ room' = AfterWrite(room, k, Tail(queue))
      \/ room' = r /\ room.leader # k /\ rejected' = TRUE /\ log = {}
      \/ /\ log = {} /\ room.leader = k /\ \E x \in {r, q} : room' = Succeeded(x)
         /\ Tail(queue) = <<>> \/ rejected' = TRUE
  BY <1>5 DEF AfterWrite, Rejected
<1> HIDE DEF r, q
<1>7. CASE room' = room /\ room' = AfterWrite(room, k, Tail(queue))
  <2>1. RoomFits'
    BY <1>1, <1>2, <1>3, <1>7 DEF Base, RoomFits
  <2>2. Handover
    BY <1>1, <1>2, <1>3, <1>7, <2>1 DEF Handover
  <2>3. Once'
    BY <1>1, <1>2, <1>7, <2>2, HandoverOnce
  <2>4. Served'
    <3>1. ASSUME log = {}, ~rejected \/ timeouts = 0
          PROVE  Tail(queue) # <<>> /\ room.writePending
      <4>1. Head(queue).conn = room.leader /\ room.writePending
        BY <1>1, <3>1 DEF Base, Served
      <4>2. Tail(queue) # <<>>
        <5> SUFFICES ASSUME Tail(queue) = <<>>
                     PROVE  FALSE
          OBVIOUS
        <5>1. room = Succeeded(q)
          BY <1>7, <3>1, <4>1 DEF AfterWrite, q
        <5>2. Succession(q, Succeeded(q))
          BY <1>3, <1>5, <3>1, SucceededIs
        <5> QED
          BY <4>1, <5>1, <5>2 DEF Succession
      <4> QED
        BY <4>1, <4>2
    <3> QED
      BY <1>1, <1>7, <3>1 DEF Base, Served
  <2> QED
    BY <2>2, <2>3, <2>4, HandoverKeeps DEF Base, WellTyped
<1>8. CASE room' = r /\ room.leader # k /\ rejected' = TRUE /\ log = {}
  <2>1. RoomFits'
    BY <1>1, <1>2, <1>3, <1>5, <1>8 DEF Base, RoomFits
  <2>2. Handover
    BY <1>1, <1>2, <1>3, <1>5, <1>8, <2>1 DEF Handover
  <2>3. Once'
    <3>1. \A x \in Conns : conns'[x].server = "open" => (x \in room.synced => x \in room'.synced)
      BY <1>4, <1>5, <1>8
    <3> QED
      BY <1>1, <1>2, <1>5, <1>8, <2>2, <3>1, HandoverOnce
  <2>4. Served'
    BY <1>1, <1>8 DEF Base, Served
  <2> QED
    BY <2>2, <2>3, <2>4, HandoverKeeps DEF Base, WellTyped
<1>9. CASE /\ log = {} /\ room.leader = k /\ \E x \in {r, q} : room' = Succeeded(x)
           /\ Tail(queue) = <<>> \/ rejected' = TRUE
  <2>1. PICK x \in {r, q} : room' = Succeeded(x)
    BY <1>9
  <2>2. Succession(x, room')
    BY <1>3, <1>5, <1>9, <2>1, SucceededIs
  <2>3. /\ room' \in Rooms /\ RoomFits'
        /\ Range(room'.waiting) \subseteq Range(room.waiting)
        /\ x.synced \subseteq room'.synced /\ room'.synced \subseteq x.synced \cup {room'.leader}
        /\ room'.leader \in {NoConn} \cup Range(room.waiting)
    <3>1. \A y \in Range(x.waiting) \cup x.synced : y \in Conns /\ conns[y].server # "none"
      BY <1>3, <1>5 DEF Base, RoomFits
    <3>2. Range(x.waiting) \cap x.synced = {}
      BY <1>5 DEF Base, RoomFits
    <3>3. \A y \in Range(x.waiting) \cup x.synced : conns'[y].server # "none"
      BY <1>2, <3>1
    <3>4. x \in Rooms /\ x.waiting = room.waiting
      BY <1>5
    <3> QED
      BY <2>2, <3>2, <3>3, <3>4, SuccessionFits
  <2>4. Handover
    BY <1>1, <1>2, <1>4, <1>5, <1>9, <2>3 DEF Handover
  <2>5. Once'
    <3>1. ASSUME NEW y \in Conns, conns'[y].server = "open"
          PROVE  /\ conns'[y].up = conns[y].up /\ (y \in room.synced => y \in room'.synced)
                 /\ \/ conns'[y].down = conns[y].down
                    \/ /\ y = room'.leader /\ y \in Range(room.waiting) /\ y \in room'.synced
                       /\ conns'[y].down = conns[y].down \o <<Sync(TRUE)>>
      <4>1. y \in room.synced => y \in room'.synced
        BY <1>4, <1>5, <2>3, <3>1
      <4>2. y = room'.leader => y \in Range(room.waiting) /\ y \in room'.synced
        BY <1>3, <2>2, <2>3 DEF Succession
      <4> QED
        BY <1>2, <3>1, <4>1, <4>2
    <3> QED
      BY <1>1, <2>4, <3>1, HandoverOnce
  <2>6. Served'
    <3>1. ~room'.writePending /\ (room'.waiting # <<>> => room'.leader # NoConn /\ room'.timer)
      <4>1. x.waiting = room.waiting
        BY <1>5
      <4> QED
        BY <1>3, <2>2, <4>1 DEF Succession
    <3>2. ASSUME ~rejected' \/ timeouts' = 0
          PROVE  queue' = <<>>
      BY <1>1, <1>9, <3>2 DEF Base, Once
    <3> QED
      BY <1>9, <3>1, <3>2, NoneIs DEF Served
  <2> QED
    BY <2>4, <2>5, <2>6, HandoverKeeps DEF Base, WellTyped
<1> QED
  BY <1>6, <1>7, <1>8, <1>9

-----------------------------------------------------------------------------
(***************************************************************************)
(* Leaders that are too slow, and connections the server is done with.     *)
(***************************************************************************)
LEMMA LeaderTimeoutKeeps ==
    ASSUME Base, LeaderTimeout
    PROVE  Base'
<1>1. /\ room \in Rooms /\ room.waiting \in Seq(Conns) /\ room.synced \subseteq Conns
      /\ Range(room.waiting) \subseteq Conns /\ NoConn \notin Conns /\ conns \in [Conns -> Connections]
      /\ IsInjective(room.waiting) /\ room.leader \in Conns
      /\ timeouts \in 0 .. MaxTimeouts /\ MaxTimeouts \in Nat
      /\ \A k \in Conns : conns[k] \in Connections
  BY RangeInside, SessionAssumption DEF Base, WellTyped, Rooms, RoomFits, LeaderTimeout
<1>2. CASE ~(log = {} /\ ~room.writePending /\ room.waiting # <<>>)
  <2>1. /\ room' = [room EXCEPT !.timer = FALSE]
        /\ log' = log /\ queue' = queue /\ clients' = clients /\ conns' = conns
        /\ failures' = failures /\ timeouts' = timeouts /\ rejected' = rejected
    BY <1>2 DEF LeaderTimeout
  <2>2. /\ room' \in Rooms /\ room'.waiting = room.waiting /\ room'.leader = room.leader
        /\ room'.timer = FALSE /\ room'.synced = room.synced /\ room'.writePending = room.writePending
    BY <1>1, <2>1 DEF Rooms
  <2>3. RoomFits'
    BY <2>1, <2>2 DEF Base, RoomFits
  <2>4. \A k \in Conns : GoesOn(conns'[k], conns[k])
    BY <1>1, <2>1 DEF GoesOn, Base, Fits, ConnFits
  <2>5. Handover
    BY <2>1, <2>2, <2>3, <2>4 DEF Handover, Base, WellTyped
  <2>6. Once'
    <3>1. Len(queue) \in Nat
      BY LenProperties DEF Base, WellTyped
    <3> QED
      BY <2>1, <2>2, <2>5, <3>1, HandoverOnce
  <2>7. Served'
    BY <1>2, <2>1, <2>2 DEF Base, Served
  <2> QED
    BY <2>1, <2>5, <2>6, <2>7, HandoverKeeps DEF Base, WellTyped
<1>3. CASE log = {} /\ ~room.writePending /\ room.waiting # <<>>
  <2> DEFINE out == [ToLeader([room EXCEPT !.leader = NoConn], room') EXCEPT ![room.leader] = <<Wait>> \o @]
             r == IF conns[room.leader].server = "open"
                  THEN [room EXCEPT !.waiting = Append(@, room.leader), !.synced = @ \ {room.leader}]
                  ELSE room
  <2>1. /\ room' = Succeeded(r) /\ conns' = Sent(conns, out, {}, 0)
        /\ log' = log /\ queue' = queue /\ clients' = clients
        /\ failures' = failures /\ timeouts' = timeouts + 1 /\ rejected' = rejected
        /\ timeouts' \in 0 .. MaxTimeouts
    BY <1>1, <1>3 DEF LeaderTimeout, Demoted
  <2>2. /\ r \in Rooms /\ IsInjective(r.waiting) /\ ~r.writePending
        /\ Range(r.waiting) \subseteq Range(room.waiting) \cup {room.leader}
        /\ r.synced \subseteq room.synced /\ Range(r.waiting) \cap r.synced = {}
        /\ \A k \in Range(r.waiting) \cup r.synced : conns[k].server # "none"
        /\ room.leader \in r.synced => conns[room.leader].server # "open"
    <3>1. CASE conns[room.leader].server = "open"
      <4> DEFINE line == Append(room.waiting, room.leader)
      <4>1. room.leader \notin Range(room.waiting)
        BY DEF Base, RoomFits
      <4>2. line \in Seq(Conns) /\ IsInjective(line) /\ Range(line) = Range(room.waiting) \cup {room.leader}
        BY <1>1, <4>1, JoinsOnce, AppendRange
      <4>3. r = [room EXCEPT !.waiting = line, !.synced = @ \ {room.leader}]
        BY <3>1
      <4> HIDE DEF r, line
      <4>4. r \in Rooms /\ r.waiting = line /\ r.synced = room.synced \ {room.leader}
            /\ r.writePending = room.writePending
        BY <1>1, <4>2, <4>3 DEF Rooms
      <4> QED
        BY <1>3, <3>1, <4>2, <4>4 DEF Base, RoomFits
    <3>2. CASE conns[room.leader].server # "open"
      BY <1>1, <1>3, <3>2 DEF Base, RoomFits
    <3> QED
      BY <3>1, <3>2
  <2> HIDE DEF r, out
  <2>3. Succession(r, room')
    BY <1>1, <1>3, <2>1, <2>2, SucceededIs
  <2>4. ASSUME NEW k \in Conns
        PROVE  out[k] \in Seq(Messages) /\ \A m \in Range(out[k]) : Opening(m)
    <3> DEFINE b == [room EXCEPT !.leader = NoConn]
               to == ToLeader(b, room')
               wait == <<Wait>>
    <3>1. /\ to[k] \in Seq(Messages)
          /\ to[k] = <<Sync(TRUE)>> \/ to[k] = <<>>
          /\ Range(<<Sync(TRUE)>>) = {Sync(TRUE)}
      BY ToLeaderIs
    <3>2. \A m \in Range(to[k]) : Opening(m)
      BY <3>1, NoneIs, MessagesAre
    <3>3. wait \in Seq(Messages) /\ Range(wait) = {Wait}
      BY OneIs, MessagesAre
    <3> HIDE DEF wait
    <3>4. wait \o to[k] \in Seq(Messages) /\ Range(wait \o to[k]) = {Wait} \cup Range(to[k])
      BY <3>1, <3>3, ConcatRange
    <3>5. out[k] = to[k] \/ out[k] = wait \o to[k]
      BY DEF out, wait, ToLeader
    <3> HIDE DEF to
    <3> QED
      BY <3>2, <3>1, <3>4, <3>5, MessagesAre
  <2>5. ASSUME NEW k \in Conns
        PROVE  Written(conns'[k], conns[k], out[k], k \in {}, 0)
    <3>1. Written(Sent(conns, out, {}, 0)[k], conns[k], out[k], k \in {}, 0)
      BY <1>1, <2>4, SentIs
    <3> QED
      BY <2>1, <3>1
  <2>6. ASSUME NEW k \in Conns
        PROVE  GoesOn(conns'[k], conns[k]) /\ conns'[k] \in Connections /\ (conns'[k].server = "none" <=> conns[k].server = "none")
               /\ conns'[k].server = conns[k].server
    <3>1. conns[k].down \in Seq(Messages) /\ ConnFits(k)
      BY <1>1 DEF Connections, Base, Fits
    <3>2. Range(conns[k].down \o out[k]) = Range(conns[k].down) \cup Range(out[k])
      BY <2>4, <3>1, ConcatRange
    <3> QED
      BY <2>4, <2>5, <3>1, <3>2 DEF Written, GoesOn, ConnFits
  <2>7. conns' \in [Conns -> Connections]
    <3>1. conns' = [k \in Conns |-> conns'[k]]
      BY <2>1 DEF Sent
    <3> QED
      BY <2>6, <3>1
  <2>8. /\ room' \in Rooms /\ RoomFits'
        /\ Range(room'.waiting) \subseteq Range(r.waiting)
        /\ r.synced \subseteq room'.synced /\ room'.synced \subseteq r.synced \cup {room'.leader}
        /\ room'.leader \in {NoConn} \cup Range(r.waiting)
    <3>1. \A k \in Range(r.waiting) \cup r.synced : conns'[k].server # "none"
      BY <1>1, <2>2, <2>6
    <3> QED
      BY <2>2, <2>3, <3>1, SuccessionFits
  <2>9. Handover
    <3>1. \A k \in room'.synced : k = room.leader /\ k # room'.leader => conns'[k].server # "open"
      BY <1>1, <2>2, <2>6, <2>8
    <3> QED
      BY <2>1, <2>2, <2>6, <2>7, <2>8, <3>1 DEF Handover, Base, WellTyped
  <2>10. Once'
    BY <1>1, <2>1 DEF Once
  <2>11. Served'
    <3>1. ~room'.writePending /\ (room'.waiting # <<>> => room'.leader # NoConn /\ room'.timer)
      BY <1>1, <2>2, <2>3 DEF Succession
    <3>2. timeouts' # 0
      BY <1>1, <2>1
    <3>3. ASSUME ~rejected
          PROVE  queue = <<>>
      <4>1. Range(queue) = {}
        BY <1>3, <3>3 DEF Base, Served
      <4> QED
        BY <4>1, RangeInside DEF Base, WellTyped
    <3> QED
      BY <1>3, <2>1, <3>1, <3>2, <3>3, NoneIs DEF Served
  <2> QED
    BY <2>1, <2>9, <2>10, <2>11, HandoverKeeps DEF Base, WellTyped
<1> QED
  BY <1>2, <1>3

\* The server's end of a connection is gone.
LEMMA ServerCloseKeeps ==
    ASSUME Base, NEW k \in Conns, conns[k].server # "none", ServerClose(k),
           failures' \in 0 .. MaxFailures
    PROVE  Base'
<1>1. /\ room \in Rooms /\ room.waiting \in Seq(Conns) /\ room.synced \subseteq Conns
      /\ Range(room.waiting) \subseteq Conns /\ NoConn \notin Conns /\ conns \in [Conns -> Connections]
      /\ IsInjective(room.waiting) /\ queue \in Seq(Writes)
      /\ log' = log /\ queue' = queue /\ clients' = clients /\ timeouts' = timeouts /\ rejected' = rejected
  BY RangeInside, SessionAssumption DEF Base, WellTyped, Rooms, RoomFits, ServerClose
<1> DEFINE cs == Sent(conns, ToLeader(room, room'), {}, 0)
           rest == [room EXCEPT !.waiting = Without(@, k), !.synced = @ \ {k}]
<1>2. Tells(cs, {})
  BY TellsLeader
<1>3. conns' = [cs EXCEPT ![k].server = "none", ![k].up = <<>>,
                          ![k].client = IF conns[k].open THEN @ ELSE NoConn]
  BY DEF ServerClose
<1> HIDE DEF cs
<1>4. \A x \in Conns \ {k} : conns'[x] = cs[x]
  BY <1>2, <1>3 DEF Tells
<1>5. /\ conns'[k] \in Connections /\ conns'[k].server = "none" /\ conns'[k].up = <<>>
      /\ conns'[k].client = (IF conns[k].open THEN cs[k].client ELSE NoConn)
      /\ conns'[k].open = cs[k].open /\ conns'[k].down = cs[k].down
  <2>1. cs[k] \in Connections
    BY <1>2 DEF Tells
  <2>2. conns'[k] = [cs[k] EXCEPT !.server = "none", !.up = <<>>,
                                  !.client = IF conns[k].open THEN @ ELSE NoConn]
    BY <1>2, <1>3 DEF Tells
  <2>3. <<>> \in Seq(Content)
    OBVIOUS
  <2> QED
    BY <2>1, <2>2, <2>3 DEF Connections
<1>6. conns' \in [Conns -> Connections]
  <2>1. \A x \in Conns : conns'[x] \in Connections
    BY <1>2, <1>4, <1>5 DEF Tells
  <2>2. conns' = [x \in Conns |-> conns'[x]]
    BY <1>2, <1>3 DEF Tells
  <2> QED
    BY <2>1, <2>2
<1>7. ASSUME NEW x \in Conns
      PROVE  GoesOn(conns'[x], conns[x])
  <2>1. GoesOn(cs[x], conns[x]) /\ (cs[x].server = "none" <=> conns[x].server = "none")
    BY <1>2 DEF Tells
  <2>2. CASE x # k
    BY <1>4, <2>1, <2>2
  <2>3. CASE x = k
    BY <1>5, <2>1, <2>3 DEF GoesOn
  <2> QED
    BY <2>2, <2>3
<1>8. /\ rest \in Rooms /\ IsInjective(rest.waiting) /\ Range(rest.waiting) = Range(room.waiting) \ {k}
      /\ rest.synced = room.synced \ {k} /\ rest.leader = room.leader /\ rest.timer = room.timer
      /\ rest.writePending = room.writePending
  <2> DEFINE line == Without(room.waiting, k)
  <2>1. line \in Seq(Conns) /\ IsInjective(line) /\ Range(line) = Range(room.waiting) \ {k}
    BY <1>1, WithoutIs
  <2> HIDE DEF line
  <2>2. rest = [room EXCEPT !.waiting = line, !.synced = @ \ {k}]
    BY DEF line
  <2> HIDE DEF rest
  <2> QED
    BY <1>1, <2>1, <2>2 DEF Rooms
<1>9. \A x \in Range(rest.waiting) \cup rest.synced : conns'[x].server # "none"
  <2>1. ASSUME NEW x \in Range(rest.waiting) \cup rest.synced
        PROVE  conns'[x].server # "none"
    <3>1. x \in Conns /\ x # k /\ conns[x].server # "none"
      BY <1>1, <1>8 DEF Base, RoomFits
    <3> QED
      BY <1>2, <1>4, <3>1 DEF Tells
  <2> QED
    BY <2>1
<1>10. \/ room' = rest /\ ~(room.leader = k /\ log = {} /\ ~room.writePending)
       \/ room' = Succeeded(rest) /\ room.leader = k /\ log = {} /\ ~room.writePending
  BY DEF ServerClose, Left
<1> HIDE DEF rest
<1>11. CASE room' = rest /\ ~(room.leader = k /\ log = {} /\ ~room.writePending)
  <2>1. RoomFits'
    BY <1>8, <1>9, <1>11 DEF Base, RoomFits
  <2>2. Handover
    BY <1>1, <1>6, <1>7, <1>8, <1>11, <2>1 DEF Handover
  <2>3. Once'
    <3>1. ASSUME NEW x \in Conns, conns'[x].server = "open"
          PROVE  /\ conns'[x].up = conns[x].up /\ (x \in room.synced => x \in room'.synced)
                 /\ conns'[x].down = conns[x].down
      <4>1. x # k /\ conns'[x] = cs[x]
        BY <1>4, <1>5, <3>1
      <4> QED
        BY <1>2, <1>8, <1>11, <3>1, <4>1 DEF Tells
    <3>2. Len(queue) \in Nat
      BY <1>1, LenProperties
    <3> QED
      BY <1>1, <2>2, <3>1, <3>2, HandoverOnce
  <2>4. Served'
    <3>1. room'.waiting # <<>> => room.waiting # <<>>
      BY <1>1, <1>8, <1>11, NoneIs, RangeInside DEF Rooms
    <3> QED
      BY <1>1, <1>8, <1>11, <3>1 DEF Base, Served
  <2> QED
    BY <1>1, <2>2, <2>3, <2>4, HandoverKeeps DEF Base, WellTyped
<1>12. CASE room' = Succeeded(rest) /\ room.leader = k /\ log = {} /\ ~room.writePending
  <2>1. Succession(rest, room')
    BY <1>1, <1>8, <1>12, SucceededIs
  <2>2. /\ room' \in Rooms /\ RoomFits'
        /\ Range(room'.waiting) \subseteq Range(rest.waiting)
        /\ rest.synced \subseteq room'.synced /\ room'.synced \subseteq rest.synced \cup {room'.leader}
        /\ room'.leader \in {NoConn} \cup Range(rest.waiting)
    <3>1. Range(rest.waiting) \cap rest.synced = {}
      BY <1>8 DEF Base, RoomFits
    <3> QED
      BY <1>8, <1>9, <2>1, <3>1, SuccessionFits
  <2>3. Handover
    BY <1>1, <1>5, <1>6, <1>7, <1>8, <1>12, <2>2 DEF Handover
  <2>4. Once'
    <3>1. ASSUME NEW x \in Conns, conns'[x].server = "open"
          PROVE  /\ conns'[x].up = conns[x].up /\ (x \in room.synced => x \in room'.synced)
                 /\ \/ conns'[x].down = conns[x].down
                    \/ /\ x = room'.leader /\ x \in Range(room.waiting) /\ x \in room'.synced
                       /\ conns'[x].down = conns[x].down \o <<Sync(TRUE)>>
      <4>1. x # k /\ conns'[x] = cs[x]
        BY <1>4, <1>5, <3>1
      <4>2. x = room'.leader => x \in Range(room.waiting) /\ x \in room'.synced
        BY <1>1, <1>8, <2>1, <2>2 DEF Succession
      <4> QED
        BY <1>2, <1>8, <2>2, <3>1, <4>1, <4>2 DEF Tells
    <3>2. Len(queue) \in Nat
      BY <1>1, LenProperties
    <3>3. Len(queue') <= Len(queue) /\ (timeouts' = 0 => timeouts = 0)
      BY <1>1, <3>2
    <3> QED
      BY <2>3, <3>1, <3>3, HandoverOnce
  <2>5. Served'
    <3>1. ~room'.writePending /\ (room'.waiting # <<>> => room'.leader # NoConn /\ room'.timer)
      BY <1>1, <1>8, <2>1 DEF Succession
    <3>2. ASSUME ~rejected \/ timeouts = 0
          PROVE  queue = <<>>
      <4>1. Range(queue) = {}
        BY <1>12, <3>2 DEF Base, Served
      <4> QED
        BY <1>1, <4>1, RangeInside
    <3> QED
      BY <1>1, <1>12, <3>1, <3>2, NoneIs DEF Served
  <2> QED
    BY <1>1, <2>3, <2>4, <2>5, HandoverKeeps DEF Base, WellTyped
<1> QED
  BY <1>10, <1>11, <1>12

-----------------------------------------------------------------------------
(***************************************************************************)
(* Steps of the browser.                                                   *)
(***************************************************************************)
\* The browser closes its end.
LEMMA CloseSocketKeeps ==
    ASSUME Base, NEW k \in Conns, NEW code, conns[k].open, CloseSocket(conns[k].client, k, code),
           log' = log, room' = room, queue' = queue, timeouts' = timeouts, rejected' = rejected,
           failures' \in 0 .. MaxFailures
    PROVE  Base'
<1> DEFINE c == conns[k].client
<1>1. /\ conns \in [Conns -> Connections] /\ conns[k] \in Connections /\ c \in Clients
      /\ clients \in [Clients -> Sessions] /\ clients[c] \in Sessions /\ NoConn \notin Clients
      /\ Editors \subseteq Clients /\ ConnFits(k)
  BY SessionAssumption DEF Base, WellTyped, Connections, Fits, ConnFits, Editors
<1>2. /\ Closed(clients[c], code) \in Sessions
      /\ Closed(clients[c], code).editor = clients[c].editor /\ ~Closed(clients[c], code).ready
  <2> DEFINE s == clients[c]
             gone == [s EXCEPT !.synced = FALSE, !.ready = FALSE, !.pending = 0, !.startup = FALSE]
  <2>1. s \in Sessions /\ {} \in Content
    BY <1>1 DEF Content
  <2> HIDE DEF s
  <2>2. gone \in Sessions /\ gone.editor = s.editor /\ gone.ready = FALSE
        /\ gone.document \in Nat \ {0} /\ gone.needsRecovery \in BOOLEAN
    BY <2>1 DEF Sessions
  <2> DEFINE again == [gone EXCEPT !.doc = {}, !.document = @ + 1]
             later == [gone EXCEPT !.needsRecovery = @ \/ s.pending > 0 \/ s.startup]
  <2>3. Closed(s, code) = again \/ Closed(s, code) = later
    BY DEF Closed
  <2> HIDE DEF gone
  <2>4. again \in Sessions /\ again.editor = s.editor /\ again.ready = FALSE
    <3> DEFINE next == gone.document + 1
    <3>1. next \in Nat \ {0}
      BY <2>2
    <3>2. again = [gone EXCEPT !.doc = {}, !.document = next]
      BY <2>2 DEF Sessions
    <3> HIDE DEF next, again
    <3> QED
      BY <2>1, <2>2, <3>1, <3>2 DEF Sessions
  <2>5. later \in Sessions /\ later.editor = s.editor /\ later.ready = FALSE
    BY <2>1, <2>2 DEF Sessions
  <2> HIDE DEF again, later
  <2>6. /\ Closed(s, code) \in Sessions
        /\ Closed(s, code).editor = s.editor /\ ~Closed(s, code).ready
    BY <2>3, <2>4, <2>5
  <2> QED
    BY <2>6 DEF s
<1>3. clients' = [clients EXCEPT ![c] = Closed(clients[c], code)]
  BY DEF CloseSocket
<1>4. /\ clients' \in [Clients -> Sessions] /\ Editors' = Editors
      /\ \A d \in Clients : clients'[d].ready => clients[d].ready
  BY <1>1, <1>2, <1>3 DEF Editors
<1>5. /\ conns' \in [Conns -> Connections] /\ \A x \in Conns \ {k} : conns'[x] = conns[x]
      /\ conns'[k].open = FALSE /\ conns'[k].down = <<>> /\ conns'[k].up = conns[k].up
      /\ conns'[k].server = conns[k].server
      /\ conns'[k].client = IF conns[k].server = "none" THEN NoConn ELSE c
  <2> DEFINE now == [conns[k] EXCEPT !.open = FALSE, !.down = <<>>,
                                     !.client = IF conns[k].server = "none" THEN NoConn ELSE c]
  <2>1. <<>> \in Seq(Messages)
    OBVIOUS
  <2>2. /\ now \in Connections /\ now.open = FALSE /\ now.down = <<>> /\ now.up = conns[k].up
        /\ now.server = conns[k].server
        /\ now.client = IF conns[k].server = "none" THEN NoConn ELSE c
    BY <1>1, <2>1 DEF Connections
  <2>3. conns' = [conns EXCEPT ![k] = now]
    BY <1>1 DEF CloseSocket, Connections
  <2> HIDE DEF now
  <2> QED
    BY <1>1, <2>2, <2>3
<1>6. \A x \in Conns : Queued(x)' = Queued(x)
  BY DEF Queued
<1>7. ASSUME NEW x \in Conns
      PROVE  ConnFits(x)'
  <2>1. ConnFits(x)
    BY DEF Base, Fits
  <2>2. CASE x # k
    BY <1>4, <1>5, <1>6, <2>1, <2>2 DEF ConnFits
  <2>3. CASE x = k
    BY <1>1, <1>4, <1>5, <1>6, <2>3 DEF ConnFits
  <2> QED
    BY <2>2, <2>3
<1>8. RoomFits'
  <2>1. \A x \in Range(room.waiting) \cup room.synced : x \in Conns
    BY RangeInside DEF Base, WellTyped, Rooms
  <2>2. \A x \in Conns : conns'[x].server = conns[x].server
    BY <1>5
  <2> QED
    BY <2>1, <2>2 DEF Base, RoomFits
<1>9. Early'
  <2> SUFFICES ASSUME log = {}
               PROVE  /\ \A x \in Conns : EarlyConn(x)'
                      /\ \A w \in Range(queue) : w.content # {}
                      /\ \A d \in Editors : ~clients'[d].ready
    BY <1>4 DEF Early
  <2>1. ASSUME NEW x \in Conns
        PROVE  EarlyConn(x)'
    <3>1. EarlyConn(x)
      BY DEF Base, Early
    <3>2. CASE x # k
      BY <1>4, <1>5, <3>1, <3>2 DEF EarlyConn, OfEditor
    <3>3. CASE x = k
      BY <1>1, <1>4, <1>5, <3>1, <3>3, NoneIs DEF EarlyConn, OfEditor
    <3> QED
      BY <3>2, <3>3
  <2> QED
    BY <1>1, <1>4, <2>1 DEF Base, Early
<1>10. Once'
  <2> SUFFICES ASSUME timeouts = 0, log = {}
               PROVE  Len(queue) <= 1 /\ \A x \in Conns : OnceConn(x)'
    BY DEF Once
  <2>1. ASSUME NEW x \in Conns
        PROVE  OnceConn(x)'
    <3>1. OnceConn(x)
      BY DEF Base, Once
    <3>2. CASE x # k
      BY <1>4, <1>5, <1>6, <3>1, <3>2 DEF OnceConn, OfEditor, Told
    <3>3. CASE x = k
      BY <1>1, <1>4, <1>5, <1>6, <3>1, <3>3, NoneIs DEF OnceConn, OfEditor, Told
    <3> QED
      BY <3>2, <3>3
  <2> QED
    BY <2>1 DEF Base, Once
<1>11. Served'
  BY DEF Base, Served
<1>12. WellTyped'
  BY <1>4, <1>5 DEF Base, WellTyped
<1> QED
  BY <1>7, <1>8, <1>9, <1>10, <1>11, <1>12 DEF Base, Fits

\* The browser reads a message and sends something.
LEMMA ReceivesKeeps ==
    ASSUME Base, NEW k \in Conns, conns[k].open, conns[k].down # <<>>,
           NEW sent \in Seq(Content), conns' = Received(k, sent),
           clients' \in [Clients -> Sessions], Editors' = Editors,
           log = {} => \A c \in Editors : ~clients'[c].ready,
           \/ sent = <<>>
           \/ /\ conns[k].client \in Editors /\ Len(sent) = 1
              /\ log = {} => Head(conns[k].down) = Sync(TRUE) /\ {} \notin Range(sent),
           UNCHANGED <<log, room, queue, mishaps>>
    PROVE  Base'
<1>1. /\ conns \in [Conns -> Connections] /\ conns[k] \in Connections
      /\ conns[k].down \in Seq(Messages) /\ conns[k].up \in Seq(Content)
      /\ Editors \subseteq Clients /\ ConnFits(k)
      /\ log' = log /\ room' = room /\ queue' = queue
      /\ failures' = failures /\ timeouts' = timeouts /\ rejected' = rejected
  BY DEF Base, WellTyped, Connections, Fits, Editors, mishaps
<1> DEFINE rest == Tail(conns[k].down)
           all == conns[k].up \o sent
<1>2. /\ rest \in Seq(Messages) /\ Range(conns[k].down) = {Head(conns[k].down)} \cup Range(rest)
      /\ all \in Seq(Content) /\ Range(all) = Range(conns[k].up) \cup Range(sent)
      /\ (sent = <<>> => all = conns[k].up) /\ (conns[k].up = <<>> => all = sent)
      /\ \A m : OnceIn(m, conns[k].down) => OnceIn(m, rest) /\ (Head(conns[k].down) = m => m \notin Range(rest))
  BY <1>1, TailRange, ConcatRange, ConcatEmptySeq, OnceTail
<1>3. /\ conns' \in [Conns -> Connections] /\ \A x \in Conns \ {k} : conns'[x] = conns[x]
      /\ conns'[k].open = conns[k].open /\ conns'[k].server = conns[k].server
      /\ conns'[k].client = conns[k].client /\ conns'[k].down = rest /\ conns'[k].up = all
  BY <1>1, <1>2 DEF Received, Connections
<1> HIDE DEF rest, all
<1>4. \A x \in Conns : Queued(x)' = Queued(x)
  BY <1>1 DEF Queued
<1>5. ASSUME NEW x \in Conns
      PROVE  ConnFits(x)'
  <2>1. ConnFits(x)
    BY DEF Base, Fits
  <2>2. CASE x # k
    BY <1>1, <1>3, <1>4, <2>1, <2>2 DEF ConnFits
  <2>3. CASE x = k
    BY <1>1, <1>2, <1>3, <1>4, <2>3 DEF ConnFits
  <2> QED
    BY <2>2, <2>3
<1>6. RoomFits'
  <2>1. \A x \in Range(room.waiting) \cup room.synced : x \in Conns
    BY RangeInside DEF Base, WellTyped, Rooms
  <2>2. \A x \in Conns : conns'[x].server = conns[x].server
    BY <1>3
  <2> QED
    BY <1>1, <2>1, <2>2 DEF Base, RoomFits
<1>7. Early'
  <2> SUFFICES ASSUME log = {}
               PROVE  /\ \A x \in Conns : EarlyConn(x)'
                      /\ \A w \in Range(queue) : w.content # {}
                      /\ \A d \in Editors : ~clients'[d].ready
    BY <1>1 DEF Early
  <2>1. ASSUME NEW x \in Conns
        PROVE  EarlyConn(x)'
    <3>1. EarlyConn(x)
      BY DEF Base, Early
    <3>2. CASE x # k
      BY <1>1, <1>3, <3>1, <3>2 DEF EarlyConn, OfEditor
    <3>3. CASE x = k
      <4>1. {} \notin Range(sent)
        BY NoneIs
      <4> QED
        BY <1>1, <1>2, <1>3, <3>1, <3>3, <4>1 DEF EarlyConn, OfEditor
    <3> QED
      BY <3>2, <3>3
  <2> QED
    BY <1>1, <2>1 DEF Base, Early
<1>8. Once'
  <2> SUFFICES ASSUME timeouts = 0, log = {}
               PROVE  Len(queue) <= 1 /\ \A x \in Conns : OnceConn(x)'
    BY <1>1 DEF Once
  <2>1. ASSUME NEW x \in Conns
        PROVE  OnceConn(x)'
    <3>1. OnceConn(x)
      BY DEF Base, Once
    <3>2. CASE x # k
      BY <1>1, <1>3, <1>4, <3>1, <3>2 DEF OnceConn, OfEditor, Told
    <3>3. CASE x = k /\ sent = <<>>
      BY <1>1, <1>2, <1>3, <1>4, <3>1, <3>3 DEF OnceConn, OfEditor, Told
    <3>4. CASE x = k /\ sent # <<>>
      <4>1. Head(conns[k].down) = Sync(TRUE) /\ Len(sent) = 1
        BY <3>4
      <4>2. Told(k)
        BY <1>2, <4>1 DEF Told
      <4> QED
        BY <1>1, <1>2, <1>3, <1>4, <3>1, <3>4, <4>1, <4>2 DEF OnceConn, OfEditor, Told
    <3> QED
      BY <3>2, <3>3, <3>4
  <2> QED
    BY <2>1 DEF Base, Once
<1>9. Served'
  BY <1>1 DEF Base, Served
<1>10. WellTyped'
  BY <1>1, <1>3 DEF Base, WellTyped
<1> QED
  BY <1>5, <1>6, <1>7, <1>8, <1>9, <1>10 DEF Base, Fits

\* The browser reads a message.
LEMMA ClientReceiveKeeps ==
    ASSUME Base, NEW k \in Conns, ClientReceive(k)
    PROVE  Base'
<1> DEFINE c == conns[k].client
           m == Head(conns[k].down)
           s == clients[c]
<1>1. /\ conns[k].open /\ conns[k].down # <<>> /\ conns[k].down \in Seq(Messages)
      /\ c \in Clients /\ clients \in [Clients -> Sessions] /\ s \in Sessions
      /\ s.doc \in Content /\ s.document \in Nat \ {0} /\ s.pending \in Nat
      /\ Editors \subseteq Clients /\ ConnFits(k) /\ conns[k].client \in Clients
      /\ (c \in Editors <=> s.editor)
      /\ UNCHANGED <<log, room, queue, mishaps>>
  BY SessionAssumption DEF Base, WellTyped, Connections, Sessions, Fits, ConnFits, Editors, ClientReceive
<1>2. m \in Messages /\ m \in Range(conns[k].down)
  BY <1>1, TailRange
<1>3. log = {} => Opening(m) /\ \A d \in Editors : ~clients[d].ready
  BY <1>2 DEF Base, Early, EarlyConn
<1>4. \A x \in Sessions : x.editor = s.editor /\ clients' = [clients EXCEPT ![c] = x]
        => clients' \in [Clients -> Sessions] /\ Editors' = Editors
           /\ (~x.ready => \A d \in Clients : clients'[d].ready => clients[d].ready)
  BY <1>1 DEF Editors
<1>5. <<>> \in Seq(Content)
  OBVIOUS
<1>6. \/ m.type = "sync-complete" /\ m.bootstrap \in BOOLEAN /\ ReceiveSync(c, k, m.bootstrap)
      \/ /\ m.type = "update" /\ m.content \in Content
         /\ clients' = [clients EXCEPT ![c].doc = @ \cup m.content] /\ conns' = Received(k, <<>>)
      \/ /\ m.type = "update-ack"
         /\ clients' = [clients EXCEPT ![c] = Acknowledged(@)] /\ conns' = Received(k, <<>>)
      \/ m.type = "bootstrap-wait" /\ conns' = Received(k, <<>>) /\ UNCHANGED clients
      \/ m.type = "close" /\ CloseSocket(c, k, m.code)
  BY <1>2, MessageKinds DEF ClientReceive
<1>7. CASE m.type = "sync-complete" /\ m.bootstrap \in BOOLEAN /\ ReceiveSync(c, k, m.bootstrap)
  <2> DEFINE doc  == IF m.bootstrap THEN Initialized(s, c) ELSE s.doc
             full == s.editor /\ (m.bootstrap \/ s.needsRecovery)
             sending == [s EXCEPT !.doc = doc, !.synced = TRUE, !.startup = TRUE,
                                  !.pending = @ + 1, !.needsRecovery = FALSE]
             synced == [s EXCEPT !.doc = doc, !.synced = TRUE,
                                 !.startup = @ \/ s.pending > 0,
                                 !.ready = @ \/ s.pending = 0]
  <2>1. doc \in Content /\ (m.bootstrap => doc # {})
    <3>1. Copy(c, s.document) \in Item
      BY <1>1 DEF Item, Copy
    <3>2. {Copy(c, s.document)} \in Content
      BY <3>1 DEF Content
    <3>3. Initialized(s, c) \in Content /\ Initialized(s, c) # {}
      BY <1>1, <3>2 DEF Initialized
    <3> QED
      BY <1>1, <3>3
  <2>2. log = {} => m = Sync(TRUE) /\ m.bootstrap
    BY <1>3, <1>7, MessagesAre DEF Opening
  <2>3. /\ clients' = [clients EXCEPT ![c] = IF full THEN sending ELSE synced]
        /\ conns' = Received(k, IF full THEN <<doc>> ELSE <<>>)
    BY <1>7 DEF ReceiveSync
  <2> HIDE DEF doc
  <2>4. sending \in Sessions /\ sending.editor = s.editor /\ sending.ready = s.ready
    <3> DEFINE more == s.pending + 1
    <3>1. more \in Nat
      BY <1>1
    <3>2. sending = [s EXCEPT !.doc = doc, !.synced = TRUE, !.startup = TRUE,
                              !.pending = more, !.needsRecovery = FALSE]
      BY <1>1 DEF Sessions
    <3> HIDE DEF s, more, sending
    <3> QED
      BY <1>1, <2>1, <3>1, <3>2 DEF Sessions
  <2>5. synced \in Sessions /\ synced.editor = s.editor
    <3> DEFINE startup == s.startup \/ s.pending > 0
               ready == s.ready \/ s.pending = 0
    <3>1. startup \in BOOLEAN /\ ready \in BOOLEAN
      BY <1>1 DEF Sessions
    <3>2. synced = [s EXCEPT !.doc = doc, !.synced = TRUE, !.startup = startup, !.ready = ready]
      BY <1>1 DEF Sessions
    <3> HIDE DEF s, startup, ready, synced
    <3> QED
      BY <1>1, <2>1, <3>1, <3>2 DEF Sessions
  <2> HIDE DEF sending, synced
  <2>6. CASE full
    <3> DEFINE sent == <<doc>>
    <3>1. sent \in Seq(Content) /\ Len(sent) = 1 /\ Range(sent) = {doc}
      BY <2>1, OneIs
    <3>2. clients' = [clients EXCEPT ![c] = sending] /\ conns' = Received(k, sent)
      BY <2>3, <2>6
    <3> HIDE DEF sent
    <3>3. /\ clients' \in [Clients -> Sessions] /\ Editors' = Editors
          /\ log = {} => \A d \in Editors : ~clients'[d].ready
      BY <1>1, <1>3, <1>4, <2>4, <3>2
    <3>4. conns[k].client \in Editors
      BY <1>1, <2>6
    <3> QED
      BY <1>1, <2>1, <2>2, <3>1, <3>2, <3>3, <3>4, ReceivesKeeps
  <2>7. CASE ~full
    <3>1. clients' = [clients EXCEPT ![c] = synced] /\ conns' = Received(k, <<>>)
      BY <2>3, <2>7
    <3>2. clients' \in [Clients -> Sessions] /\ Editors' = Editors
      BY <1>4, <2>5, <3>1
    <3>3. log = {} => \A d \in Editors : ~clients'[d].ready
      BY <1>1, <1>3, <2>2, <2>7, <3>1
    <3> QED
      BY <1>1, <1>5, <3>1, <3>2, <3>3, ReceivesKeeps
  <2> QED
    BY <2>6, <2>7
<1>8. CASE /\ m.type = "update" /\ m.content \in Content
           /\ clients' = [clients EXCEPT ![c].doc = @ \cup m.content] /\ conns' = Received(k, <<>>)
  <2> DEFINE x == [s EXCEPT !.doc = @ \cup m.content]
  <2>1. s.doc \cup m.content \in Content
    BY <1>1, <1>8 DEF Content
  <2>2. x \in Sessions /\ x.editor = s.editor
    BY <1>1, <2>1 DEF Sessions
  <2>3. clients' = [clients EXCEPT ![c] = x]
    BY <1>1, <1>8 DEF Sessions
  <2> HIDE DEF x
  <2>4. clients' \in [Clients -> Sessions] /\ Editors' = Editors
    BY <1>4, <2>2, <2>3
  <2>5. log # {}
    BY <1>3, <1>8 DEF Opening, Sync
  <2> QED
    BY <1>1, <1>5, <1>8, <2>4, <2>5, ReceivesKeeps
<1>9. CASE /\ m.type = "update-ack"
           /\ clients' = [clients EXCEPT ![c] = Acknowledged(@)] /\ conns' = Received(k, <<>>)
  <2>1. Acknowledged(s) \in Sessions /\ Acknowledged(s).editor = s.editor
    <3> DEFINE pending == IF s.pending > 0 THEN s.pending - 1 ELSE 0
               started == pending = 0 /\ s.startup /\ ~s.needsRecovery
               startup == s.startup /\ ~started
               ready == s.ready \/ (started /\ s.synced)
    <3>1. pending \in Nat
      BY <1>1
    <3>2. startup \in BOOLEAN /\ ready \in BOOLEAN
      BY <1>1 DEF Sessions
    <3>3. Acknowledged(s) = [s EXCEPT !.pending = pending, !.startup = startup, !.ready = ready]
      BY <1>1 DEF Acknowledged, Sessions
    <3> HIDE DEF s, pending, startup, ready
    <3> QED
      BY <1>1, <3>1, <3>2, <3>3 DEF Sessions
  <2>2. clients' \in [Clients -> Sessions] /\ Editors' = Editors
    BY <1>4, <1>9, <2>1
  <2>3. log # {}
    BY <1>3, <1>9 DEF Opening, Sync
  <2> QED
    BY <1>1, <1>5, <1>9, <2>2, <2>3, ReceivesKeeps
<1>10. CASE m.type = "bootstrap-wait" /\ conns' = Received(k, <<>>) /\ UNCHANGED clients
  <2>1. clients' \in [Clients -> Sessions] /\ Editors' = Editors
    BY <1>1, <1>10 DEF Editors
  <2> QED
    BY <1>1, <1>3, <1>5, <1>10, <2>1, ReceivesKeeps
<1>11. CASE m.type = "close" /\ CloseSocket(c, k, m.code)
  BY <1>1, <1>11, CloseSocketKeeps DEF Base, WellTyped, mishaps
<1> QED
  BY <1>6, <1>7, <1>8, <1>9, <1>10, <1>11

\* A browser connects.
LEMMA ConnectKeeps ==
    ASSUME Base, NEW c \in Clients, Connect(c)
    PROVE  Base'
<1> DEFINE k == CHOOSE k \in Unused : TRUE
           fresh == [NoConnection EXCEPT !.client = c, !.open = TRUE, !.server = "new"]
<1>1. /\ conns \in [Conns -> Connections] /\ c # NoConn /\ Range(room.waiting) \subseteq Conns
      /\ room.synced \subseteq Conns /\ log' = log /\ room' = room /\ queue' = queue /\ clients' = clients
      /\ failures' = failures /\ timeouts' = timeouts /\ rejected' = rejected /\ Editors' = Editors
      /\ queue \in Seq(Writes)
  BY SessionAssumption, RangeInside DEF Base, WellTyped, Rooms, Connect, mishaps, Editors
<1>2. k \in Unused
  BY DEF Connect
<1>3. conns' = [conns EXCEPT ![k] = fresh]
  BY DEF Connect
<1>4. /\ fresh \in Connections /\ fresh.client = c /\ fresh.open = TRUE /\ fresh.server = "new"
      /\ fresh.up = <<>> /\ fresh.down = <<>>
  <2>1. <<>> \in Seq(Content) /\ <<>> \in Seq(Messages)
    OBVIOUS
  <2> QED
    BY <2>1 DEF NoConnection, Connections
<1> HIDE DEF k, fresh
<1>5. /\ k \in Conns /\ conns[k].server = "none" /\ k # room.leader /\ ~Queued(k)
      /\ k \notin Range(room.waiting) \cup room.synced
  <2>1. k \in Conns /\ conns[k].server = "none" /\ k # room.leader
    BY <1>2 DEF Unused
  <2>2. ~Queued(k)
    BY <1>2 DEF Unused, Queued, Range
  <2>3. k \notin Range(room.waiting) \cup room.synced
    BY <2>1 DEF Base, RoomFits
  <2> QED
    BY <2>1, <2>2, <2>3
<1>6. conns' \in [Conns -> Connections] /\ conns'[k] = fresh /\ \A x \in Conns \ {k} : conns'[x] = conns[x]
  BY <1>1, <1>3, <1>4, <1>5
<1>7. \A x \in Conns : Queued(x)' = Queued(x)
  BY <1>1 DEF Queued
<1>8. ASSUME NEW x \in Conns
      PROVE  ConnFits(x)'
  <2>1. CASE x # k
    BY <1>1, <1>6, <1>7, <2>1 DEF ConnFits, Base, Fits
  <2>2. CASE x = k
    BY <1>1, <1>4, <1>5, <1>6, <1>7, <2>2 DEF ConnFits
  <2> QED
    BY <2>1, <2>2
<1>9. RoomFits'
  <2>1. \A x \in Range(room.waiting) \cup room.synced : x \in Conns \ {k}
    BY <1>1, <1>5
  <2> QED
    BY <1>1, <1>6, <2>1 DEF Base, RoomFits
<1>10. Early'
  <2>1. ASSUME NEW x \in Conns, log = {}
        PROVE  EarlyConn(x)'
    <3>1. CASE x # k
      BY <1>1, <1>6, <2>1, <3>1 DEF EarlyConn, Base, Early, OfEditor
    <3>2. CASE x = k
      BY <1>1, <1>4, <1>5, <1>6, <3>2, NoneIs DEF EarlyConn
    <3> QED
      BY <3>1, <3>2
  <2> QED
    BY <1>1, <2>1 DEF Base, Early
<1>11. Once'
  <2>1. ASSUME NEW x \in Conns, log = {}, timeouts = 0
        PROVE  OnceConn(x)'
    <3>1. CASE x # k
      BY <1>1, <1>6, <1>7, <2>1, <3>1 DEF OnceConn, Base, Once, OfEditor, Told
    <3>2. CASE x = k
      BY <1>4, <1>6, <3>2 DEF OnceConn
    <3> QED
      BY <3>1, <3>2
  <2> QED
    BY <1>1, <2>1 DEF Base, Once
<1>12. WellTyped' /\ Served'
  BY <1>1, <1>6 DEF Base, WellTyped, Served
<1> QED
  BY <1>8, <1>9, <1>10, <1>11, <1>12 DEF Base, Fits

\* An editor types, which the log must have been begun for.
LEMMA EditKeeps ==
    ASSUME Base, NEW c \in Typists, Edit(c)
    PROVE  Base'
<1>1. /\ conns \in [Conns -> Connections] /\ clients \in [Clients -> Sessions] /\ Editors \in Editorships
      /\ Range(room.waiting) \subseteq Conns /\ room.synced \subseteq Conns
      /\ log' = log /\ room' = room /\ queue' = queue
      /\ failures' = failures /\ timeouts' = timeouts /\ rejected' = rejected
  BY RangeInside DEF Base, WellTyped, Rooms, Edit, mishaps
<1>2. c \in Editors /\ c \in Clients /\ log # {}
  BY <1>1, SessionAssumption DEF Base, Early, Edit
<1>3. /\ clients' \in [Clients -> Sessions] /\ Editors' = Editors
  <2> DEFINE s == clients[c]
             doc == s.doc \cup {[by |-> c, document |-> 0]}
             more == s.pending + 1
             x == [s EXCEPT !.doc = doc, !.pending = more]
  <2>1. s \in Sessions /\ s.doc \in Content /\ s.pending \in Nat
    BY <1>1, <1>2 DEF Sessions
  <2>2. doc \in Content /\ more \in Nat
    <3>1. [by |-> c, document |-> 0] \in Item
      BY <1>2 DEF Item
    <3> QED
      BY <2>1, <3>1 DEF Content
  <2>3. clients' = [clients EXCEPT ![c] = x]
    BY <1>1, <1>2 DEF Edit, Typed, Sessions
  <2> HIDE DEF s, doc, more
  <2>4. x \in Sessions /\ x.editor = s.editor
    BY <2>1, <2>2 DEF Sessions
  <2> HIDE DEF x
  <2> QED
    BY <1>1, <1>2, <2>3, <2>4 DEF Editors, s
<1>4. PICK k \in SocketOf(c) : conns' = [conns EXCEPT ![k].up = Append(@, {Typed(c)})]
  BY DEF Edit
<1>5. k \in Conns /\ conns[k].client = c /\ conns[k].open /\ conns[k] \in Connections /\ ConnFits(k)
  BY <1>1, <1>4 DEF SocketOf, Base, Fits
<1>6. /\ conns' \in [Conns -> Connections] /\ \A x \in Conns \ {k} : conns'[x] = conns[x]
      /\ conns'[k].open = conns[k].open /\ conns'[k].server = conns[k].server
      /\ conns'[k].client = conns[k].client /\ conns'[k].down = conns[k].down
  <2> DEFINE now == [conns[k] EXCEPT !.up = Append(@, {Typed(c)})]
  <2>1. {Typed(c)} \in Content
    BY <1>2 DEF Content, Item, Typed
  <2>2. Append(conns[k].up, {Typed(c)}) \in Seq(Content)
    BY <1>5, <2>1, AppendProperties DEF Connections
  <2>3. /\ now \in Connections /\ now.open = conns[k].open /\ now.server = conns[k].server
        /\ now.client = conns[k].client /\ now.down = conns[k].down
    BY <1>5, <2>2 DEF Connections
  <2>4. conns' = [conns EXCEPT ![k] = now]
    BY <1>4, <1>5
  <2> HIDE DEF now
  <2> QED
    BY <1>1, <1>5, <2>3, <2>4
<1>7. \A x \in Conns : Queued(x)' = Queued(x)
  BY <1>1 DEF Queued
<1>8. ASSUME NEW x \in Conns
      PROVE  ConnFits(x)'
  <2>1. CASE x # k
    BY <1>1, <1>3, <1>6, <1>7, <2>1 DEF ConnFits, Base, Fits
  <2>2. CASE x = k
    BY <1>1, <1>2, <1>3, <1>5, <1>6, <1>7, <2>2 DEF ConnFits
  <2> QED
    BY <2>1, <2>2
<1>9. RoomFits'
  <2>1. \A x \in Conns : conns'[x].server = conns[x].server
    BY <1>6
  <2> QED
    BY <1>1, <2>1 DEF Base, RoomFits
<1>10. Early' /\ Once'
  BY <1>1, <1>2 DEF Early, Once
<1>11. WellTyped' /\ Served'
  BY <1>1, <1>3, <1>6 DEF Base, WellTyped, Served
<1> QED
  BY <1>8, <1>9, <1>10, <1>11 DEF Base, Fits

-----------------------------------------------------------------------------
(***************************************************************************)
(* Steps of the server that go on with the bootstrap.                      *)
(***************************************************************************)
\* The server reads a message; while the log is empty it is the leader's.
LEMMA ServerReceiveKeeps ==
    ASSUME Base, NEW k \in Conns, ServerReceive(k)
    PROVE  Base'
<1> DEFINE m == Head(conns[k].up)
           rest == Tail(conns[k].up)
           w == [conn |-> k, content |-> m, started |-> FALSE]
<1>1. /\ conns \in [Conns -> Connections] /\ conns[k] \in Connections /\ clients \in [Clients -> Sessions]
      /\ Range(room.waiting) \subseteq Conns /\ room.synced \subseteq Conns /\ room \in Rooms
      /\ queue \in Seq(Writes) /\ Len(queue) \in Nat
      /\ conns[k].up \in Seq(Content) /\ conns[k].up # <<>> /\ conns[k].server = "open"
      /\ log' = log /\ clients' = clients /\ Editors' = Editors /\ Editors \subseteq Clients
      /\ failures' = failures /\ timeouts' = timeouts /\ rejected' = rejected /\ ConnFits(k)
      /\ conns[k].client \in Clients /\ NoConn \notin Conns
  BY SessionAssumption, RangeInside, LenProperties
     DEF Base, WellTyped, Rooms, ServerReceive, mishaps, Editors, Connections, Fits, ConnFits
<1>2. OfEditor(k)
  BY <1>1 DEF ConnFits, OfEditor
<1>3. /\ m \in Content /\ rest \in Seq(Content) /\ Len(rest) = Len(conns[k].up) - 1
      /\ Range(conns[k].up) = {m} \cup Range(rest)
  BY <1>1, TailRange
<1>4. /\ conns' \in [Conns -> Connections] /\ \A x \in Conns \ {k} : conns'[x] = conns[x]
      /\ conns'[k].open = conns[k].open /\ conns'[k].server = conns[k].server
      /\ conns'[k].client = conns[k].client /\ conns'[k].down = conns[k].down
      /\ conns'[k].up = rest
  BY <1>1, <1>3 DEF ServerReceive, Connections
<1>5. w \in Writes /\ w.conn = k /\ w.content = m
  BY <1>3 DEF Writes
<1>6. /\ room'.leader = room.leader /\ room'.timer = room.timer /\ room'.waiting = room.waiting
      /\ room'.synced = room.synced /\ room' \in Rooms
      /\ IF k \in room.synced
         THEN /\ queue' = Append(queue, w)
              /\ room'.writePending = (room.writePending \/ (room.leader = k /\ log = {}))
         ELSE queue' = queue /\ room'.writePending = room.writePending
  BY <1>1 DEF ServerReceive, Rooms
<1> HIDE DEF m, rest, w
<1>7. /\ queue' \in Seq(Writes) /\ Range(queue) \subseteq Range(queue')
      /\ Range(queue') \subseteq Range(queue) \cup {w}
      /\ k \in room.synced => w \in Range(queue') /\ Len(queue') = Len(queue) + 1
  <2> DEFINE more == Append(queue, w)
  <2>1. /\ more \in Seq(Writes) /\ Range(more) = Range(queue) \cup {w}
        /\ Len(more) = Len(queue) + 1
    BY <1>1, <1>5, AppendRange, AppendProperties
  <2> HIDE DEF more
  <2>2. queue' = IF k \in room.synced THEN more ELSE queue
    BY <1>6 DEF more
  <2> QED
    BY <1>1, <2>1, <2>2
<1>8. \A x \in Conns \ {k} : Queued(x)' = Queued(x)
  BY <1>5, <1>7 DEF Queued
<1>9. ASSUME NEW x \in Conns
      PROVE  ConnFits(x)'
  <2>1. CASE x # k
    BY <1>1, <1>4, <1>6, <1>8, <2>1 DEF ConnFits, Base, Fits
  <2>2. CASE x = k
    BY <1>1, <1>2, <1>4, <1>6, <2>2 DEF ConnFits, OfEditor
  <2> QED
    BY <2>1, <2>2
<1>10. RoomFits'
  <2>1. \A x \in Conns : conns'[x].server = conns[x].server
    BY <1>4
  <2> QED
    BY <1>1, <1>6, <2>1 DEF Base, RoomFits
<1>11. Early'
  <2> SUFFICES ASSUME log = {}
               PROVE  /\ \A x \in Conns : EarlyConn(x)'
                      /\ \A v \in Range(queue') : v.content # {}
                      /\ \A d \in Editors : ~clients'[d].ready
    BY <1>1 DEF Early
  <2>1. \A x \in Conns : EarlyConn(x)
    BY DEF Base, Early
  <2>2. ASSUME NEW x \in Conns
        PROVE  EarlyConn(x)'
    BY <1>1, <1>3, <1>4, <1>6, <2>1 DEF EarlyConn, OfEditor
  <2>3. m # {}
    BY <1>3, <2>1 DEF EarlyConn
  <2> QED
    BY <1>1, <1>5, <1>7, <2>2, <2>3 DEF Base, Early
<1>12. log = {} /\ k \in room.synced => k = room.leader
  BY <1>1, <1>2 DEF Base, Early, EarlyConn
<1>13. Once'
  <2> SUFFICES ASSUME timeouts = 0, log = {}
               PROVE  Len(queue') <= 1 /\ \A x \in Conns : OnceConn(x)'
    BY <1>1 DEF Once
  <2>1. OnceConn(k)
    BY DEF Base, Once
  <2>2. /\ k \in room.synced /\ ~Told(k) /\ ~Queued(k) /\ Len(conns[k].up) = 1
    BY <1>1, <1>2, <2>1 DEF OnceConn
  <2>3. queue = <<>>
    <3>1. \A v \in Range(queue) : v.conn = room.leader
      BY DEF Base, Served
    <3>2. Range(queue) = {}
      BY <1>12, <2>2, <3>1 DEF Queued
    <3> QED
      BY <1>1, <3>2, RangeInside
  <2>4. Len(queue') = 1
    BY <1>7, <2>2, <2>3
  <2>5. rest = <<>>
    BY <1>1, <1>3, <2>2, EmptySeq
  <2>6. ASSUME NEW x \in Conns
        PROVE  OnceConn(x)'
    <3>1. CASE x # k
      BY <1>1, <1>4, <1>6, <1>8, <3>1 DEF OnceConn, Base, Once, OfEditor, Told
    <3>2. CASE x = k
      BY <1>1, <1>4, <1>6, <2>1, <2>2, <2>5, <3>2 DEF OnceConn, OfEditor, Told
    <3> QED
      BY <3>1, <3>2
  <2> QED
    BY <2>4, <2>6
<1>14. Served'
  <2>1. ASSUME log = {}, k \in room.synced
        PROVE  room'.writePending /\ w.conn = room'.leader /\ queue' # <<>>
    <3>1. Range(queue') # {}
      BY <1>7, <2>1
    <3> QED
      BY <1>5, <1>6, <1>12, <2>1, <3>1, NoneIs
  <2> QED
    BY <1>1, <1>6, <1>7, <2>1 DEF Base, Served
<1>15. WellTyped'
  BY <1>1, <1>4, <1>6, <1>7 DEF Base, WellTyped
<1> QED
  BY <1>9, <1>10, <1>11, <1>13, <1>14, <1>15 DEF Base, Fits

\* A new connection is admitted, and is written to.
LEMMA AdmitSends ==
    ASSUME Base, NEW k \in Conns, conns[k].server = "new", NEW messages \in Seq(Messages),
           conns' = Sent([conns EXCEPT ![k].server = "open"], [Nothing EXCEPT ![k] = messages], {}, 0)
    PROVE  /\ conns' \in [Conns -> Connections] /\ \A x \in Conns \ {k} : conns'[x] = conns[x]
           /\ conns'[k].server = "open" /\ conns'[k].open = conns[k].open
           /\ conns'[k].client = conns[k].client /\ conns'[k].up = conns[k].up
           /\ conns'[k].down = messages
<1> DEFINE cs == [conns EXCEPT ![k].server = "open"]
           out == [Nothing EXCEPT ![k] = messages]
<1>1. conns \in [Conns -> Connections] /\ ConnFits(k)
  BY DEF Base, WellTyped, Fits
<1>2. /\ cs \in [Conns -> Connections] /\ \A x \in Conns \ {k} : cs[x] = conns[x]
      /\ cs[k].server = "open" /\ cs[k].open = conns[k].open
      /\ cs[k].client = conns[k].client /\ cs[k].up = conns[k].up /\ cs[k].down = <<>>
  BY <1>1 DEF Connections, ConnFits
<1>3. \A x \in Conns : out[x] \in Seq(Messages) /\ out[x] = IF x = k THEN messages ELSE <<>>
  <2>1. <<>> \in Seq(Messages)
    OBVIOUS
  <2>2. \A x \in Conns : out[x] = IF x = k THEN messages ELSE <<>>
    BY DEF Nothing
  <2> HIDE DEF out
  <2> QED
    BY <2>1, <2>2
<1>4. conns' = Sent(cs, out, {}, 0)
  OBVIOUS
<1> HIDE DEF cs, out
<1>5. ASSUME NEW x \in Conns
      PROVE  Written(conns'[x], cs[x], out[x], x \in {}, 0)
  BY <1>2, <1>3, <1>4, SentIs
<1>6. conns' \in [Conns -> Connections]
  <2>1. conns' = [x \in Conns |-> conns'[x]]
    BY <1>4 DEF Sent
  <2> QED
    BY <1>5, <2>1 DEF Written
<1>7. ASSUME NEW x \in Conns, x # k
      PROVE  conns'[x] = conns[x]
  <2> DEFINE now == conns'[x]
             was == conns[x]
  <2>1. was \in Connections /\ cs[x] = was /\ out[x] = <<>>
    BY <1>1, <1>2, <1>3, <1>7
  <2>2. was.down \o <<>> = was.down
    BY <2>1, ConcatEmptySeq DEF Connections
  <2>3. Written(now, was, <<>>, x \in {}, 0)
    BY <1>5, <2>1
  <2> HIDE DEF now, was
  <2>4. /\ now \in Connections /\ now.client = was.client /\ now.open = was.open
        /\ now.server = was.server /\ now.up = was.up /\ now.down = was.down
    BY <2>2, <2>3 DEF Written
  <2>5. now = was
    BY <2>1, <2>4 DEF Connections
  <2> QED
    BY <2>5 DEF now, was
<1>8. <<>> \o messages = messages
  BY ConcatEmptySeq
<1> QED
  BY <1>2, <1>3, <1>5, <1>6, <1>7, <1>8 DEF Written

\* What the server tells it: the state, the page to start from, or to wait.
LEMMA AdmitIs ==
    ASSUME Base, NEW k \in Conns, Admit(k)
    PROVE  \E messages \in Seq(Messages) :
              /\ conns' = Sent([conns EXCEPT ![k].server = "open"], [Nothing EXCEPT ![k] = messages], {}, 0)
              /\ \/ /\ log # {} /\ Range(messages) = {Update(log), Sync(FALSE)}
                    /\ room' = [room EXCEPT !.synced = @ \cup {k}]
                 \/ /\ log = {} /\ conns[k].client \notin Editors
                    /\ room' = [room EXCEPT !.synced = @ \cup {k}]
                    /\ Range(messages) = {Sync(TRUE)} /\ OnceIn(Sync(TRUE), messages)
                 \/ /\ log = {} /\ conns[k].client \in Editors /\ room.leader = NoConn
                    /\ room' = EnsureTimer([room EXCEPT !.leader = k, !.synced = @ \cup {k}])
                    /\ Range(messages) = {Sync(TRUE)} /\ OnceIn(Sync(TRUE), messages)
                 \/ /\ log = {} /\ conns[k].client \in Editors /\ room.leader # NoConn
                    /\ room' = EnsureTimer([room EXCEPT !.waiting = Append(@, k)])
                    /\ Range(messages) = {Wait} /\ OnceIn(Sync(TRUE), messages)
<1> DEFINE two == <<Update(log), Sync(FALSE)>>
           told == <<Sync(TRUE)>>
           wait == <<Wait>>
<1>1. Update(log) \in Messages /\ Sync(FALSE) \in Messages /\ Sync(TRUE) \in Messages /\ Wait \in Messages
  BY MessagesAre DEF Base, WellTyped
<1>2. two \in Seq(Messages) /\ Range(two) = {Update(log), Sync(FALSE)}
  BY <1>1, TwoAre
<1>3. told \in Seq(Messages) /\ Range(told) = {Sync(TRUE)} /\ OnceIn(Sync(TRUE), told)
  BY <1>1, OneIs
<1>4. wait \in Seq(Messages) /\ Range(wait) = {Wait} /\ OnceIn(Sync(TRUE), wait)
  BY <1>1, OneIs
<1> DEFINE To(messages) ==
      conns' = Sent([conns EXCEPT ![k].server = "open"], [Nothing EXCEPT ![k] = messages], {}, 0)
<1>5. \/ log # {} /\ room' = [room EXCEPT !.synced = @ \cup {k}] /\ To(two)
      \/ /\ log = {} /\ conns[k].client \notin Editors
         /\ room' = [room EXCEPT !.synced = @ \cup {k}] /\ To(told)
      \/ /\ log = {} /\ conns[k].client \in Editors /\ room.leader = NoConn
         /\ room' = EnsureTimer([room EXCEPT !.leader = k, !.synced = @ \cup {k}]) /\ To(told)
      \/ /\ log = {} /\ conns[k].client \in Editors /\ room.leader # NoConn
         /\ room' = EnsureTimer([room EXCEPT !.waiting = Append(@, k)]) /\ To(wait)
  BY DEF Admit, NoLeader
<1> HIDE DEF two, told, wait
<1> QED
  BY <1>2, <1>3, <1>4, <1>5

\* A new connection is admitted.
LEMMA AdmitKeeps ==
    ASSUME Base, NEW k \in Conns, Admit(k)
    PROVE  Base'
<1>1. /\ conns \in [Conns -> Connections] /\ conns[k] \in Connections /\ clients \in [Clients -> Sessions]
      /\ room \in Rooms /\ room.waiting \in Seq(Conns) /\ IsInjective(room.waiting)
      /\ Range(room.waiting) \subseteq Conns /\ room.synced \subseteq Conns
      /\ queue \in Seq(Writes) /\ conns[k].server = "new" /\ ConnFits(k)
      /\ log' = log /\ clients' = clients /\ Editors' = Editors /\ Editors \subseteq Clients
      /\ failures' = failures /\ timeouts' = timeouts /\ rejected' = rejected /\ queue' = queue
      /\ conns[k].client \in Clients /\ NoConn \notin Conns /\ log \in Content
  BY SessionAssumption, RangeInside
     DEF Base, WellTyped, Rooms, Admit, mishaps, Editors, Connections, Fits, ConnFits, RoomFits
<1>2. /\ k # room.leader /\ k \notin Range(room.waiting) \cup room.synced /\ ~Queued(k)
      /\ log = {} => conns[k].up = <<>>
  BY <1>1 DEF ConnFits
<1>3. PICK messages \in Seq(Messages) :
         /\ conns' = Sent([conns EXCEPT ![k].server = "open"], [Nothing EXCEPT ![k] = messages], {}, 0)
         /\ \/ /\ log # {} /\ Range(messages) = {Update(log), Sync(FALSE)}
               /\ room' = [room EXCEPT !.synced = @ \cup {k}]
            \/ /\ log = {} /\ conns[k].client \notin Editors
               /\ room' = [room EXCEPT !.synced = @ \cup {k}]
               /\ Range(messages) = {Sync(TRUE)} /\ OnceIn(Sync(TRUE), messages)
            \/ /\ log = {} /\ conns[k].client \in Editors /\ room.leader = NoConn
               /\ room' = EnsureTimer([room EXCEPT !.leader = k, !.synced = @ \cup {k}])
               /\ Range(messages) = {Sync(TRUE)} /\ OnceIn(Sync(TRUE), messages)
            \/ /\ log = {} /\ conns[k].client \in Editors /\ room.leader # NoConn
               /\ room' = EnsureTimer([room EXCEPT !.waiting = Append(@, k)])
               /\ Range(messages) = {Wait} /\ OnceIn(Sync(TRUE), messages)
  BY AdmitIs
<1>4. /\ OnceIn(Sync(TRUE), messages) \/ log # {}
      /\ \A m \in Range(messages) : Opening(m) \/ log # {}
      /\ \/ /\ log # {} \/ conns[k].client \notin Editors
            /\ room' = [room EXCEPT !.synced = @ \cup {k}]
         \/ /\ log = {} /\ conns[k].client \in Editors /\ room.leader = NoConn
            /\ room' = EnsureTimer([room EXCEPT !.leader = k, !.synced = @ \cup {k}])
         \/ /\ log = {} /\ conns[k].client \in Editors /\ room.leader # NoConn
            /\ room' = EnsureTimer([room EXCEPT !.waiting = Append(@, k)])
            /\ Sync(TRUE) \notin Range(messages)
  BY <1>3, MessagesAre
<1>5. /\ conns' \in [Conns -> Connections] /\ \A x \in Conns \ {k} : conns'[x] = conns[x]
      /\ conns'[k].server = "open" /\ conns'[k].open = conns[k].open
      /\ conns'[k].client = conns[k].client /\ conns'[k].up = conns[k].up
      /\ conns'[k].down = messages
  BY <1>1, <1>3, AdmitSends
<1>6. /\ room' \in Rooms /\ IsInjective(room'.waiting) /\ room'.writePending = room.writePending
      /\ Range(room'.waiting) \subseteq Range(room.waiting) \cup {k}
      /\ room.synced \subseteq room'.synced /\ room'.synced \subseteq room.synced \cup {k}
      /\ Range(room'.waiting) \cap room'.synced = {} /\ room'.leader \notin Range(room'.waiting)
      /\ room'.timer => room'.leader # NoConn
      /\ room'.leader = room.leader \/ (room'.leader = k /\ room.leader = NoConn /\ log = {})
      /\ conns[k].client \notin Editors \/ log # {} => room'.leader # k /\ room'.waiting = room.waiting
      /\ log = {} /\ OfEditor(k) /\ k \in room'.synced => room'.leader = k
      /\ k \notin room'.synced => Sync(TRUE) \notin Range(messages)
      /\ room'.waiting # room.waiting => room'.leader # NoConn /\ (room'.timer \/ room'.writePending)
      /\ room.timer => room'.timer
  <2>1. CASE room' = [room EXCEPT !.synced = @ \cup {k}] /\ (log # {} \/ conns[k].client \notin Editors)
    <3>1. /\ room' \in Rooms /\ room'.waiting = room.waiting /\ room'.leader = room.leader
          /\ room'.timer = room.timer /\ room'.writePending = room.writePending
          /\ room'.synced = room.synced \cup {k}
      BY <1>1, <2>1 DEF Rooms
    <3> QED
      BY <1>1, <1>2, <2>1, <3>1 DEF Base, RoomFits, OfEditor
  <2>2. CASE /\ log = {} /\ conns[k].client \in Editors /\ room.leader = NoConn
             /\ room' = EnsureTimer([room EXCEPT !.leader = k, !.synced = @ \cup {k}])
    <3>1. /\ room' \in Rooms /\ room'.waiting = room.waiting /\ room'.leader = k
          /\ room'.writePending = room.writePending /\ room'.synced = room.synced \cup {k}
          /\ room.timer => room'.timer
      BY <1>1, <2>2 DEF Rooms, EnsureTimer
    <3> QED
      BY <1>1, <1>2, <2>2, <3>1 DEF Base, RoomFits, OfEditor
  <2>3. CASE /\ log = {} /\ conns[k].client \in Editors /\ room.leader # NoConn
             /\ room' = EnsureTimer([room EXCEPT !.waiting = Append(@, k)])
             /\ Sync(TRUE) \notin Range(messages)
    <3> DEFINE line == Append(room.waiting, k)
    <3>1. line \in Seq(Conns) /\ IsInjective(line) /\ Range(line) = Range(room.waiting) \cup {k}
      BY <1>1, <1>2, JoinsOnce, AppendRange
    <3>2. room' = EnsureTimer([room EXCEPT !.waiting = line])
      BY <2>3
    <3> HIDE DEF line
    <3>3. /\ room' \in Rooms /\ room'.waiting = line /\ room'.leader = room.leader
          /\ room'.writePending = room.writePending /\ room'.synced = room.synced
          /\ room'.timer \/ room'.writePending
          /\ room.timer => room'.timer
      BY <1>1, <2>3, <3>1, <3>2 DEF Rooms, EnsureTimer
    <3> QED
      BY <1>1, <1>2, <2>3, <3>1, <3>3 DEF Base, RoomFits, OfEditor
  <2> QED
    BY <1>4, <2>1, <2>2, <2>3
<1>7. \A x \in Conns : Queued(x)' = Queued(x)
  BY <1>1 DEF Queued
<1>8. ASSUME NEW x \in Conns
      PROVE  ConnFits(x)'
  <2>1. CASE x # k
    BY <1>1, <1>5, <1>6, <1>7, <2>1 DEF ConnFits, Base, Fits
  <2>2. CASE x = k
    BY <1>1, <1>5, <1>6, <1>7, <2>2 DEF ConnFits
  <2> QED
    BY <2>1, <2>2
<1>9. RoomFits'
  <2>1. \A x \in Conns : conns[x].server # "none" => conns'[x].server # "none"
    BY <1>5
  <2>2. \A x \in Range(room'.waiting) \cup room'.synced :
           x \in Conns /\ conns'[x].server # "none"
    BY <1>1, <1>5, <1>6, <2>1 DEF Base, RoomFits
  <2> QED
    BY <1>6, <2>2 DEF RoomFits
<1>10. Early'
  <2> SUFFICES ASSUME log = {}
               PROVE  \A x \in Conns : EarlyConn(x)'
    BY <1>1 DEF Base, Early
  <2>1. ASSUME NEW x \in Conns
        PROVE  EarlyConn(x)'
    <3>1. EarlyConn(x)
      BY DEF Base, Early
    <3>2. CASE x # k
      BY <1>1, <1>5, <1>6, <3>1, <3>2 DEF EarlyConn, OfEditor
    <3>3. CASE x = k
      BY <1>1, <1>2, <1>4, <1>5, <1>6, <3>1, <3>3 DEF EarlyConn, OfEditor
    <3> QED
      BY <3>2, <3>3
  <2> QED
    BY <2>1
<1>11. Once'
  <2> SUFFICES ASSUME timeouts = 0, log = {}
               PROVE  Len(queue) <= 1 /\ \A x \in Conns : OnceConn(x)'
    BY <1>1 DEF Once
  <2>1. ASSUME NEW x \in Conns
        PROVE  OnceConn(x)'
    <3>1. CASE x # k
      BY <1>1, <1>5, <1>6, <1>7, <3>1 DEF OnceConn, Base, Once, OfEditor, Told
    <3>2. CASE x = k
      BY <1>1, <1>2, <1>4, <1>5, <1>6, <1>7, <3>2 DEF OnceConn, OfEditor, Told
    <3> QED
      BY <3>1, <3>2
  <2> QED
    BY <2>1 DEF Base, Once
<1>12. Served'
  <2>1. ASSUME ~rejected \/ timeouts = 0, log = {}, room'.leader # room.leader
        PROVE  Range(queue) = {}
    <3>1. \A v \in Range(queue) : v.conn = NoConn /\ v \in Writes
      BY <1>1, <1>6, <2>1, RangeInside DEF Base, Served
    <3> QED
      BY <1>1, <3>1 DEF Writes
  <2> QED
    BY <1>1, <1>6, <2>1 DEF Base, Served
<1>13. WellTyped'
  BY <1>1, <1>5, <1>6 DEF Base, WellTyped
<1> QED
  BY <1>8, <1>9, <1>10, <1>11, <1>12, <1>13 DEF Base, Fits

\* The server writes to its sockets and closes none.
LEMMA SendsOnly ==
    ASSUME WellTyped, NEW out, \A k \in Conns : out[k] \in Seq(Messages),
           conns' = Sent(conns, out, {}, 0)
    PROVE  /\ conns' \in [Conns -> Connections]
           /\ \A k \in Conns :
                /\ conns'[k].client = conns[k].client /\ conns'[k].open = conns[k].open
                /\ conns'[k].server = conns[k].server /\ conns'[k].up = conns[k].up
                /\ IF conns[k].server = "open" THEN conns'[k].down = conns[k].down \o out[k]
                                               ELSE conns'[k] = conns[k]
<1>1. ASSUME NEW k \in Conns
      PROVE  Written(conns'[k], conns[k], out[k], k \in {}, 0)
  BY SentIs DEF WellTyped
<1>2. conns' = [k \in Conns |-> conns'[k]]
  BY DEF Sent
<1> QED
  BY <1>1, <1>2 DEF Written

\* What an accepted write makes it write.
Answers(k, content) ==
    [x \in Conns |->
        UpdateFor(x, content)
        \o (IF x = k THEN <<Ack>> ELSE <<>>)
        \o (IF x \in room'.synced \ room.synced THEN <<Sync(FALSE)>> ELSE <<>>)]

\* An update, an acknowledgement, and the news that the document is there.
LEMMA AnswersAre ==
    ASSUME NEW k, NEW content \in Content, NEW x \in Conns
    PROVE  /\ Answers(k, content)[x] \in Seq(Messages)
           /\ Range(Answers(k, content)[x]) \subseteq {Update(content \ log), Ack, Sync(FALSE)}
<1> DEFINE update == <<Update(content \ log)>>
           ack == <<Ack>>
           sync == <<Sync(FALSE)>>
           one == UpdateFor(x, content)
           two == IF x = k THEN ack ELSE <<>>
           three == IF x \in room'.synced \ room.synced THEN sync ELSE <<>>
<1>1. Update(content \ log) \in Messages /\ Ack \in Messages /\ Sync(FALSE) \in Messages
  BY MessagesAre DEF Content
<1>2. /\ update \in Seq(Messages) /\ Range(update) = {Update(content \ log)}
      /\ ack \in Seq(Messages) /\ Range(ack) = {Ack}
      /\ sync \in Seq(Messages) /\ Range(sync) = {Sync(FALSE)}
  BY <1>1, OneIs
<1>3. <<>> \in Seq(Messages) /\ Range(<<>>) = {}
  BY NoneIs
<1>4. one = IF content \subseteq log THEN <<>> ELSE update
  BY DEF UpdateFor
<1>5. Answers(k, content)[x] = one \o two \o three
  BY DEF Answers
<1> HIDE DEF update, ack, sync, one
<1>6. /\ one \in Seq(Messages) /\ Range(one) \subseteq {Update(content \ log)}
      /\ two \in Seq(Messages) /\ Range(two) \subseteq {Ack}
      /\ three \in Seq(Messages) /\ Range(three) \subseteq {Sync(FALSE)}
  BY <1>2, <1>3, <1>4
<1> HIDE DEF two, three
<1> DEFINE both == one \o two
<1>7. both \in Seq(Messages) /\ Range(both) = Range(one) \cup Range(two)
  BY <1>6, ConcatRange
<1>8. Answers(k, content)[x] = both \o three
  BY <1>5
<1> HIDE DEF both
<1>9. both \o three \in Seq(Messages) /\ Range(both \o three) = Range(both) \cup Range(three)
  BY <1>6, <1>7, ConcatRange
<1> QED
  BY <1>6, <1>7, <1>8, <1>9

\* A write is accepted, and ends the bootstrap.
LEMMA AcceptWriteKeeps ==
    ASSUME Base, queue # <<>>, AcceptWrite(Head(queue).conn, Head(queue).content),
           queue' = Tail(queue), UNCHANGED <<clients, timeouts>>
    PROVE  Base'
<1> DEFINE k == Head(queue).conn
           content == Head(queue).content
           out == Answers(k, content)
<1>1. /\ conns \in [Conns -> Connections] /\ room \in Rooms
      /\ Range(room.waiting) \subseteq Conns /\ room.synced \subseteq Conns
      /\ log' = log \cup content /\ clients' = clients /\ Editors' = Editors
      /\ failures' = failures /\ timeouts' = timeouts /\ rejected' = rejected
      /\ NoConn \notin Conns /\ log \in Content
  BY SessionAssumption, RangeInside
     DEF Base, WellTyped, Rooms, AcceptWrite, Editors
<1>2. /\ Head(queue) \in Writes /\ k \in Conns /\ Head(queue) \in Range(queue) /\ content \in Content
      /\ queue' \in Seq(Writes) /\ Range(queue') \subseteq Range(queue)
  BY QueueHead DEF Base, Writes
<1>3. log' \in Content /\ log' # {}
  <2>1. log = {} => content # {}
    BY <1>2 DEF Base, Early
  <2> QED
    BY <1>1, <1>2, <2>1 DEF Content
<1>4. /\ room' = Released(room, k) /\ conns' = Sent(conns, out, {}, 0)
  BY DEF AcceptWrite, Answers
<1>5. /\ room' \in Rooms /\ IsInjective(room'.waiting) /\ room'.waiting \in {room.waiting, <<>>}
      /\ room'.leader \in {room.leader, NoConn} /\ (room'.timer => room.timer /\ room'.leader = room.leader)
      /\ room.synced \subseteq room'.synced
      /\ room' = room \/ (room'.waiting = <<>> /\ room'.leader = NoConn)
      /\ room.leader = k => room'.waiting = <<>> /\ room'.leader = NoConn
      /\ \A x \in room'.synced \ room.synced : x \in Range(room.waiting) /\ conns[x].server = "open"
  <2>1. CASE room.leader # k
    BY <1>1, <1>4, <2>1 DEF Released, Base, RoomFits
  <2>2. CASE room.leader = k
    <3> DEFINE more == {x \in Range(room.waiting) : conns[x].server = "open"}
    <3>1. more \subseteq Conns /\ <<>> \in Seq(Conns) /\ IsInjective(<<>>)
      BY <1>1 DEF IsInjective
    <3>2. room' = [room EXCEPT !.leader = NoConn, !.timer = FALSE, !.writePending = FALSE,
                               !.waiting = <<>>, !.synced = @ \cup more]
      BY <1>4, <2>2 DEF Released
    <3> HIDE DEF more
    <3>3. /\ room' \in Rooms /\ room'.leader = NoConn /\ room'.timer = FALSE
          /\ room'.waiting = <<>> /\ room'.synced = room.synced \cup more
      BY <1>1, <3>1, <3>2 DEF Rooms
    <3> QED
      BY <1>2, <3>1, <3>3 DEF more
  <2> QED
    BY <2>1, <2>2
<1> HIDE DEF k, content
<1>6. \A x \in Conns : out[x] \in Seq(Messages)
  BY <1>2, AnswersAre
<1> HIDE DEF out
<1>7. /\ conns' \in [Conns -> Connections]
      /\ \A x \in Conns :
           /\ conns'[x].client = conns[x].client /\ conns'[x].open = conns[x].open
           /\ conns'[x].server = conns[x].server /\ conns'[x].up = conns[x].up
           /\ conns[x].server # "open" => conns'[x] = conns[x]
  BY <1>4, <1>6, SendsOnly DEF Base
<1>8. \A x \in Conns : Queued(x)' => Queued(x)
  BY <1>2 DEF Queued
<1>9. ASSUME NEW x \in Conns
      PROVE  ConnFits(x)'
  <2>1. ConnFits(x) /\ x # NoConn
    BY <1>1 DEF Base, Fits
  <2>2. x # room.leader => x # room'.leader
    BY <1>5, <2>1
  <2>3. x \notin Range(room.waiting) => x \notin Range(room'.waiting)
    BY <1>5, NoneIs
  <2>4. conns[x].server = "new" /\ x \notin room.synced => x \notin room'.synced
    BY <1>5
  <2> QED
    BY <1>1, <1>3, <1>7, <1>8, <2>1, <2>2, <2>3, <2>4 DEF ConnFits
<1>10. RoomFits'
  <2>1. \A x \in Range(room'.waiting) : x \in Range(room.waiting)
    BY <1>5, NoneIs
  <2>2. \A x \in Range(room'.waiting) \cup room'.synced : x \in Conns /\ conns'[x].server # "none"
    BY <1>1, <1>5, <1>7, <2>1 DEF Base, RoomFits
  <2>3. Range(room'.waiting) \cap room'.synced = {} /\ room'.leader \notin Range(room'.waiting)
    BY <1>5, NoneIs DEF Base, RoomFits
  <2> QED
    BY <1>5, <2>2, <2>3 DEF Base, RoomFits
<1>11. Early' /\ Once'
  BY <1>3 DEF Early, Once
<1>12. Served'
  <2>1. ASSUME ~rejected \/ timeouts = 0
        PROVE  room'.waiting = <<>> /\ room'.leader = NoConn
    <3>1. CASE log = {}
      BY <1>2, <1>5, <2>1, <3>1 DEF Base, Served, k
    <3>2. CASE log # {}
      BY <1>5, <2>1, <3>2 DEF Base, Served
    <3> QED
      BY <3>1, <3>2
  <2> QED
    BY <1>1, <1>3, <2>1 DEF Served
<1>13. WellTyped'
  BY <1>1, <1>2, <1>3, <1>5, <1>7 DEF Base, WellTyped
<1> QED
  BY <1>9, <1>10, <1>11, <1>12, <1>13 DEF Base, Fits

\* The room is dropped.
LEMMA LoseCommitOutcomeKeeps ==
    ASSUME Base, queue # <<>>, LoseCommitOutcome(Head(queue).content),
           queue' = <<>>, UNCHANGED <<clients, timeouts>>
    PROVE  Base'
<1> DEFINE content == Head(queue).content
<1>1. /\ conns \in [Conns -> Connections] /\ room' = EmptyRoom
      /\ log' \in {log, log \cup content} /\ clients' = clients /\ Editors' = Editors
      /\ timeouts' = timeouts /\ rejected' = rejected /\ failures' \in 0 .. MaxFailures
      /\ NoConn \notin Conns /\ log \in Content /\ content \in Content
  BY SessionAssumption, QueueHead
     DEF Base, WellTyped, LoseCommitOutcome, Editors, Fail, Writes
<1>2. log' \in Content /\ (log' = {} => log = {})
  BY <1>1 DEF Content
<1>3. PICK joined \in SUBSET {k \in Conns : conns[k].server = "new"} :
          conns' = Sent([k \in Conns |-> IF k \in joined THEN [conns[k] EXCEPT !.server = "open"]
                                                         ELSE conns[k]],
                        Nothing, Conns, Abnormal)
  BY DEF LoseCommitOutcome
<1> DEFINE cs == [k \in Conns |-> IF k \in joined THEN [conns[k] EXCEPT !.server = "open"]
                                                  ELSE conns[k]]
<1>4. /\ cs \in [Conns -> Connections]
      /\ \A k \in Conns : /\ cs[k].client = conns[k].client /\ cs[k].open = conns[k].open
                          /\ cs[k].up = conns[k].up /\ cs[k].down = conns[k].down
                          /\ cs[k].server = "new" => cs[k] = conns[k]
                          /\ cs[k].server = conns[k].server \/ (conns[k].server = "new" /\ cs[k].server = "open")
  BY <1>1 DEF Connections
<1>5. conns' = Sent(cs, Nothing, Conns, Abnormal)
  BY <1>3
<1> HIDE DEF cs
<1>6. ASSUME NEW k \in Conns
      PROVE  Written(conns'[k], cs[k], <<>>, k \in Conns, Abnormal)
  <2>1. Nothing[k] = <<>> /\ <<>> \in Seq(Messages)
    BY DEF Nothing
  <2>2. Abnormal # 0
    BY DEF Abnormal
  <2>3. Written(conns'[k], cs[k], Nothing[k], k \in Conns, Abnormal)
    BY <1>4, <1>5, <2>1, <2>2, SentIs
  <2> QED
    BY <2>1, <2>3
<1>7. /\ conns' \in [Conns -> Connections]
      /\ \A k \in Conns :
           /\ conns'[k].client = conns[k].client /\ conns'[k].open = conns[k].open
           /\ conns'[k].server = "none" <=> conns[k].server = "none"
           /\ conns'[k].server # "open" /\ conns'[k].up \in {conns[k].up, <<>>}
           /\ conns'[k].server = "new" => conns'[k] = conns[k]
           /\ \A m \in Range(conns'[k].down) : m \in Range(conns[k].down) \/ Opening(m)
  <2>1. conns' = [k \in Conns |-> conns'[k]]
    BY <1>5 DEF Sent
  <2>2. Opening(Close(Abnormal))
    BY MessagesAre
  <2>3. ASSUME NEW k \in Conns
        PROVE  /\ conns'[k] \in Connections
               /\ conns'[k].client = conns[k].client /\ conns'[k].open = conns[k].open
               /\ conns'[k].server = "none" <=> conns[k].server = "none"
               /\ conns'[k].server # "open" /\ conns'[k].up \in {conns[k].up, <<>>}
               /\ conns'[k].server = "new" => conns'[k] = conns[k]
               /\ \A m \in Range(conns'[k].down) : m \in Range(conns[k].down) \/ Opening(m)
    <3>1. CASE cs[k].server = "open"
      BY <1>4, <1>6, <2>2, <3>1, NoneIs DEF Written
    <3>2. CASE cs[k].server # "open"
      BY <1>4, <1>6, <3>2 DEF Written
    <3> QED
      BY <3>1, <3>2
  <2> QED
    BY <2>1, <2>3
<1>8. /\ room'.leader = NoConn /\ room'.timer = FALSE /\ room'.writePending = FALSE
      /\ room'.waiting = <<>> /\ room'.synced = {} /\ room' \in Rooms /\ IsInjective(room'.waiting)
  BY <1>1 DEF EmptyRoom, Rooms, IsInjective
<1>9. queue' \in Seq(Writes) /\ Range(queue') = {} /\ Len(queue') = 0 /\ \A k \in Conns : ~Queued(k)'
  BY NoneIs DEF Queued
<1>10. ASSUME NEW k \in Conns
       PROVE  ConnFits(k)'
  <2>1. ConnFits(k) /\ k # NoConn
    BY <1>1 DEF Base, Fits
  <2> QED
    BY <1>1, <1>2, <1>7, <1>8, <1>9, <2>1, NoneIs DEF ConnFits
<1>11. RoomFits'
  BY <1>8, NoneIs DEF RoomFits
<1>12. Early'
  <2> SUFFICES ASSUME log = {}
               PROVE  /\ \A k \in Conns : EarlyConn(k)'
                      /\ \A d \in Editors : ~clients[d].ready
    BY <1>1, <1>2, <1>9 DEF Early
  <2>1. ASSUME NEW k \in Conns
        PROVE  EarlyConn(k)'
    <3>1. EarlyConn(k)
      BY DEF Base, Early
    <3> QED
      BY <1>7, <1>8, <3>1, NoneIs DEF EarlyConn
  <2> QED
    BY <2>1 DEF Base, Early
<1>13. Once'
  <2>1. \A k \in Conns : OnceConn(k)'
    BY <1>7 DEF OnceConn
  <2>2. Len(queue') <= 1
    BY <1>9
  <2> QED
    BY <2>1, <2>2 DEF Once
<1>14. Served'
  BY <1>8, <1>9 DEF Served
<1>15. WellTyped'
  BY <1>1, <1>2, <1>7, <1>8, <1>9 DEF Base, WellTyped
<1> QED
  BY <1>10, <1>11, <1>12, <1>13, <1>14, <1>15 DEF Base, Fits

\* A write begins, or is dropped.
LEMMA StartWriteKeeps ==
    ASSUME Base, StartWrite
    PROVE  Base'
<1> DEFINE k == Head(queue).conn
<1>1. /\ queue # <<>> /\ log' = log /\ clients' = clients /\ failures' = failures
      /\ timeouts' = timeouts /\ rejected' = rejected /\ Editors' = Editors
      /\ failures \in 0 .. MaxFailures
  BY DEF StartWrite, mishaps, Editors, Base, WellTyped
<1>2. CASE conns[k].server # "none"
  <2>1. queue' = [queue EXCEPT ![1].started = TRUE] /\ room' = room /\ conns' = conns
    BY <1>2 DEF StartWrite
  <2>2. queue \in Seq(Writes) /\ Len(queue) \in Nat /\ Len(queue) > 0 /\ DOMAIN queue = 1 .. Len(queue)
    BY <1>1, LenProperties, EmptySeq DEF Base, WellTyped
  <2>3. \A i \in 1 .. Len(queue) : queue[i] \in Writes
    BY <2>2, ElementOfSeq
  <2>4. /\ queue' \in Seq(Writes) /\ Len(queue') = Len(queue) /\ DOMAIN queue' = 1 .. Len(queue)
        /\ \A i \in 1 .. Len(queue) : queue'[i].conn = queue[i].conn /\ queue'[i].content = queue[i].content
    <3>1. [queue[1] EXCEPT !.started = TRUE] \in Writes
      <4>1. 1 \in 1 .. Len(queue)
        BY <2>2
      <4>2. queue[1] \in Writes
        BY <2>3, <4>1
      <4> DEFINE w == queue[1]
      <4>3. w \in Writes
        BY <4>2
      <4> HIDE DEF w
      <4>4. [w EXCEPT !.started = TRUE] \in Writes
        BY <4>3 DEF Writes
      <4> QED
        BY <4>4 DEF w
    <3>2. queue' = [queue EXCEPT ![1] = [queue[1] EXCEPT !.started = TRUE]]
      BY <2>1, <2>2
    <3>3. queue' \in Seq(Writes) /\ Len(queue') = Len(queue)
      BY <2>2, <3>1, <3>2, ExceptSeq
    <3>4. \A i \in 1 .. Len(queue) : queue'[i].conn = queue[i].conn /\ queue'[i].content = queue[i].content
      BY <2>2, <2>3, <3>2 DEF Writes
    <3> QED
      BY <2>2, <3>2, <3>3, <3>4
  <2>5. /\ \A w \in Range(queue') : \E v \in Range(queue) : w.conn = v.conn /\ w.content = v.content
        /\ queue' # <<>>
    BY <2>2, <2>4, EmptySeq DEF Range
  <2>6. \A x \in Conns : Queued(x)' => Queued(x)
    BY <2>5 DEF Queued
  <2>7. \A x \in Conns : ConnFits(x)'
    BY <1>1, <2>1, <2>6 DEF ConnFits, Base, Fits
  <2>8. Early'
    BY <1>1, <2>1, <2>5 DEF Base, Early, EarlyConn, OfEditor
  <2>9. Once'
    BY <1>1, <2>1, <2>4, <2>6 DEF Base, Once, OnceConn, OfEditor, Told
  <2>10. Served'
    <3>1. ASSUME ~rejected \/ timeouts = 0
          PROVE  /\ log = {} =>
                       /\ room.waiting # <<>> => room.leader # NoConn /\ (room.timer \/ room.writePending)
                       /\ \A w \in Range(queue) : w.conn = room.leader /\ room.writePending
                 /\ log # {} => room.waiting = <<>> /\ room.leader = NoConn
      BY <3>1 DEF Base, Served
    <3>2. ASSUME ~rejected \/ timeouts = 0, log = {}, NEW w \in Range(queue')
          PROVE  w.conn = room.leader /\ room.writePending
      <4>1. PICK v \in Range(queue) : w.conn = v.conn
        BY <2>5, <3>2
      <4> QED
        BY <3>1, <3>2, <4>1
    <3> QED
      BY <1>1, <2>1, <2>5, <3>1, <3>2 DEF Served
  <2>11. WellTyped' /\ RoomFits'
    BY <1>1, <2>1, <2>4 DEF Base, WellTyped, RoomFits
  <2> QED
    BY <2>7, <2>8, <2>9, <2>10, <2>11 DEF Base, Fits
<1>3. CASE conns[k].server = "none"
  <2>1. /\ queue' = Tail(queue) /\ room' = AfterWrite(room, k, Tail(queue))
        /\ conns' = Sent(conns, ToLeader(room, room'), {}, 0)
    BY <1>3 DEF StartWrite
  <2>2. /\ {} \in SUBSET Conns /\ 0 \in {Mismatch, Abnormal, 0}
        /\ failures' \in 0 .. MaxFailures /\ timeouts' = timeouts /\ rejected' \in {rejected, TRUE}
    BY <1>1
  <2>3. k = Head(queue).conn /\ (k \in {} \/ conns[k].server = "none") /\ {} \subseteq {k}
    BY <1>3
  <2> HIDE DEF k
  <2> QED
    BY <1>1, <2>1, <2>2, <2>3, WriterLeaves
<1> QED
  BY <1>2, <1>3

\* A write ends, one way or the other.
LEMMA FinishWriteKeeps ==
    ASSUME Base, FinishWrite
    PROVE  Base'
<1> DEFINE k == Head(queue).conn
<1>1. /\ queue # <<>> /\ UNCHANGED <<clients, timeouts>> /\ k \in Conns
      /\ \/ /\ AcceptWrite(k, Head(queue).content) \/ FailWrite(k) \/ RejectBootstrap(k)
            /\ queue' = Tail(queue)
         \/ LoseCommitOutcome(Head(queue).content) /\ queue' = <<>>
  BY QueueHead DEF FinishWrite, Base
<1>2. CASE AcceptWrite(k, Head(queue).content) /\ queue' = Tail(queue)
  BY <1>1, <1>2, AcceptWriteKeeps
<1>3. CASE FailWrite(k) /\ queue' = Tail(queue)
  <2>1. failures' \in 0 .. MaxFailures /\ Abnormal # 0
    BY <1>3, SessionAssumption DEF FailWrite, Fail, Base, WellTyped, Abnormal
  <2>2. /\ room' = AfterWrite(room, k, Tail(queue)) /\ log' = log /\ rejected' = rejected
        /\ conns' = Sent(conns, ToLeader(room, room'), {k}, Abnormal)
    BY <1>3 DEF FailWrite
  <2> QED
    BY <1>1, <1>3, <2>1, <2>2, WriterLeaves
<1>4. CASE RejectBootstrap(k) /\ queue' = Tail(queue)
  <2>1. failures' \in 0 .. MaxFailures /\ Mismatch # 0
    BY <1>4, SessionAssumption DEF RejectBootstrap, Fail, Base, WellTyped, Mismatch
  <2>2. /\ Rejected(k) /\ log = {} /\ log' = log /\ rejected' = TRUE
        /\ conns' = Sent(conns, ToLeader(room, room'), {k}, Mismatch)
    BY <1>4 DEF RejectBootstrap, Rejected
  <2> QED
    BY <1>1, <1>4, <2>1, <2>2, WriterLeaves
<1>5. CASE LoseCommitOutcome(Head(queue).content) /\ queue' = <<>>
  BY <1>1, <1>5, LoseCommitOutcomeKeeps
<1> QED
  BY <1>1, <1>2, <1>3, <1>4, <1>5

-----------------------------------------------------------------------------
(***************************************************************************)
(* The first part of the invariant.                                        *)
(***************************************************************************)
\* It holds at first ...
LEMMA BaseInit == Init => Base
<1> SUFFICES ASSUME Init
             PROVE  Base
  OBVIOUS
<1>1. PICK E \in Editorships : clients = [c \in Clients |-> NewClient(c \in E)]
  BY DEF Init
<1>2. E \subseteq Clients
  BY SessionAssumption
<1>3. /\ clients \in [Clients -> Sessions] /\ Editors = E
      /\ \A c \in Clients : ~clients[c].ready
  <2>1. \A b \in BOOLEAN : NewClient(b) \in Sessions /\ NewClient(b).editor = b /\ ~NewClient(b).ready
    <3>1. {} \in Content /\ 1 \in Nat \ {0} /\ 0 \in Nat
      BY DEF Content
    <3> QED
      BY <3>1 DEF NewClient, Sessions
  <2>2. ASSUME NEW c \in Clients
        PROVE  clients[c] \in Sessions /\ clients[c].editor = (c \in E) /\ ~clients[c].ready
    <3> DEFINE b == c \in E
    <3>1. b \in BOOLEAN /\ clients[c] = NewClient(b)
      BY <1>1
    <3> HIDE DEF b
    <3>2. clients[c] \in Sessions /\ clients[c].editor = b /\ ~clients[c].ready
      BY <2>1, <3>1
    <3> QED
      BY <3>2 DEF b
  <2>3. clients = [c \in Clients |-> clients[c]]
    BY <1>1
  <2>4. clients \in [Clients -> Sessions]
    BY <2>2, <2>3
  <2>5. Editors = E
    BY <1>2, <2>2 DEF Editors
  <2> QED
    BY <2>2, <2>4, <2>5
<1>4. /\ room \in Rooms /\ room.leader = NoConn /\ room.timer = FALSE /\ room.writePending = FALSE
      /\ room.waiting = <<>> /\ room.synced = {} /\ IsInjective(room.waiting)
  BY DEF Init, EmptyRoom, Rooms, IsInjective
<1>5. queue \in Seq(Writes) /\ Range(queue) = {} /\ Len(queue) = 0 /\ queue = <<>>
  BY NoneIs DEF Init
<1>6. conns \in [Conns -> Connections] /\ \A k \in Conns : conns[k] = NoConnection
  BY DEF Init, NoConnection, Connections
<1>7. /\ log \in Content /\ failures \in 0 .. MaxFailures /\ timeouts \in 0 .. MaxTimeouts
      /\ rejected \in BOOLEAN
  <2>1. \A n \in Nat : 0 \in 0 .. n
    OBVIOUS
  <2>2. {} \in Content
    BY DEF Content
  <2> QED
    BY <2>1, <2>2, SessionAssumption DEF Init
<1>8. WellTyped
  BY <1>3, <1>4, <1>5, <1>6, <1>7 DEF WellTyped
<1>9. RoomFits
  BY <1>4, NoneIs DEF RoomFits
<1>10. Fits
  BY <1>6, SessionAssumption DEF Fits, ConnFits, NoConnection
<1>11. Early
  BY <1>2, <1>3, <1>5, <1>6, <1>4, NoneIs DEF Early, EarlyConn, NoConnection
<1>12. Served /\ Once
  <2>1. \A k \in Conns : OnceConn(k)
    BY <1>6 DEF OnceConn, NoConnection
  <2>2. Len(queue) <= 1
    BY <1>5
  <2>3. Once
    BY <2>1, <2>2 DEF Once
  <2>4. Served
    BY <1>4, <1>5 DEF Init, Served
  <2> QED
    BY <2>3, <2>4
<1> QED
  BY <1>8, <1>9, <1>10, <1>11, <1>12 DEF Base

\* ... and every step keeps it.
LEMMA BaseNext == Base /\ [Next]_vars => Base'
<1> SUFFICES ASSUME Base, [Next]_vars
             PROVE  Base'
  OBVIOUS
<1>1. ASSUME NEW c \in Clients, Connect(c)
      PROVE  Base'
  BY <1>1, ConnectKeeps
<1>2. ASSUME NEW c \in Typists, Edit(c)
      PROVE  Base'
  BY <1>2, EditKeeps
<1>3. ASSUME NEW k \in Conns, ClientReceive(k)
      PROVE  Base'
  BY <1>3, ClientReceiveKeeps
<1>4. ASSUME NEW k \in Conns, LoseConnection(k)
      PROVE  Base'
  <2>1. failures' \in 0 .. MaxFailures
    BY <1>4, SessionAssumption DEF LoseConnection, Fail, Base, WellTyped
  <2> QED
    BY <1>4, <2>1, CloseSocketKeeps DEF LoseConnection
<1>5. ASSUME NEW k \in Conns, NoticeServerGone(k)
      PROVE  Base'
  BY <1>5, CloseSocketKeeps DEF NoticeServerGone, mishaps, Base, WellTyped
<1>6. ASSUME NEW k \in Conns, Admit(k)
      PROVE  Base'
  BY <1>6, AdmitKeeps
<1>7. ASSUME NEW k \in Conns, ServerReceive(k)
      PROVE  Base'
  BY <1>7, ServerReceiveKeeps
<1>8. ASSUME NEW k \in Conns, NoticeClientGone(k)
      PROVE  Base'
  BY <1>8, ServerCloseKeeps DEF NoticeClientGone, Base, WellTyped
<1>9. ASSUME NEW k \in Conns, HeartbeatTimeout(k)
      PROVE  Base'
  <2>1. failures' \in 0 .. MaxFailures
    BY <1>9, SessionAssumption DEF HeartbeatTimeout, Fail, Base, WellTyped
  <2> QED
    BY <1>9, <2>1, ServerCloseKeeps DEF HeartbeatTimeout
<1>10. CASE StartWrite
  BY <1>10, StartWriteKeeps
<1>11. CASE FinishWrite
  BY <1>11, FinishWriteKeeps
<1>12. CASE LeaderTimeout
  BY <1>12, LeaderTimeoutKeeps
<1>13. CASE UNCHANGED vars
  BY <1>13 DEF vars, mishaps, Base, WellTyped, RoomFits, Fits, ConnFits, Early, EarlyConn, Served,
               Once, OnceConn, Told, Queued, OfEditor, Editors
<1> QED
  BY <1>1, <1>2, <1>3, <1>4, <1>5, <1>6, <1>7, <1>8, <1>9, <1>10, <1>11, <1>12, <1>13
     DEF Next, ClientStep, ServerStep

-----------------------------------------------------------------------------
(***************************************************************************)
(* The second part: while nothing goes wrong.                              *)
(***************************************************************************)
\* No session has a document yet.
LEMMA CalmInit == Init => Calm
<1> SUFFICES ASSUME Init
             PROVE  Calm
  OBVIOUS
<1>1. /\ log = {} /\ ~rejected /\ queue = <<>> /\ Range(queue) = {} /\ Editors \subseteq Clients
      /\ \A k \in Conns : conns[k] = NoConnection
  BY NoneIs DEF Init, Editors
<1>2. \A c \in Clients : clients[c].document = 1 /\ ~clients[c].needsRecovery /\ clients[c].doc = {}
  BY DEF Init, NewClient
<1>3. ASSUME NEW k \in Conns
      PROVE  Steady(k) /\ BeforeConn(k)
  <2>1. conns[k].up = <<>> /\ conns[k].down = <<>> /\ conns[k].open = FALSE /\ conns[k].server = "none"
    BY <1>1 DEF NoConnection
  <2>2. Range(conns[k].up) = {} /\ Range(conns[k].down) = {}
    BY <2>1, NoneIs
  <2>3. ~Queued(k) /\ ~Told(k)
    BY <1>1, <2>2 DEF Queued, Told
  <2> QED
    BY <2>1, <2>2, <2>3 DEF Steady, BeforeConn
<1> QED
  BY <1>1, <1>2, <1>3 DEF Calm, Before

\* A write that is queued for an empty log is the leader's, who is there.
LEMMA LeaderThere ==
    ASSUME Base, Calm, timeouts = 0, log = {}, queue # <<>> 
    PROVE  room.leader \in Conns /\ conns[room.leader].client \in Editors
<1>1. Head(queue) \in Range(queue) /\ Head(queue).conn \in Conns
  BY QueueHead DEF Base
<1>2. Head(queue).conn = room.leader
  BY <1>1 DEF Base, Served
<1>3. Queued(room.leader) /\ Steady(room.leader) /\ ConnFits(room.leader)
  BY <1>1, <1>2 DEF Queued, Calm, Base, Fits
<1> QED
  BY <1>1, <1>2, <1>3 DEF Steady, ConnFits, Base, WellTyped, Connections

\* A connection of its own does not change who leads.
LEMMA ConnectCalm ==
    ASSUME Base, Calm, NEW c \in Clients, Connect(c)
    PROVE  Calm'
<1> DEFINE k == CHOOSE k \in Unused : TRUE
           fresh == [NoConnection EXCEPT !.client = c, !.open = TRUE, !.server = "new"]
<1>1. /\ conns \in [Conns -> Connections] /\ log' = log /\ room' = room /\ queue' = queue
      /\ clients' = clients /\ rejected' = rejected /\ Editors' = Editors
  BY DEF Base, WellTyped, Connect, mishaps, Editors
<1>2. k \in Unused
  BY DEF Connect
<1>3. conns' = [conns EXCEPT ![k] = fresh]
  BY DEF Connect
<1>4. /\ fresh.client = c /\ fresh.open = TRUE /\ fresh.server = "new"
      /\ fresh.up = <<>> /\ fresh.down = <<>>
  BY DEF NoConnection
<1> HIDE DEF k, fresh
<1>5. k \in Conns /\ k # room.leader /\ ~Queued(k)
  BY <1>2 DEF Unused, Queued, Range
<1>6. conns'[k] = fresh /\ \A x \in Conns \ {k} : conns'[x] = conns[x]
  BY <1>1, <1>3, <1>5
<1>7. \A x \in Conns : Queued(x)' = Queued(x)
  BY <1>1 DEF Queued
<1>8. \A content : First(content)' = First(content) \/ room.leader \notin Conns
  BY <1>1, <1>5, <1>6 DEF First
<1>9. room.leader # NoConn => room.leader \in Conns /\ conns'[room.leader] = conns[room.leader]
  BY <1>5, <1>6 DEF Base, WellTyped, Rooms
<1>10. ASSUME NEW x \in Conns
       PROVE  Steady(x)'
  <2>1. CASE x # k
    BY <1>6, <1>7, <2>1 DEF Calm, Steady
  <2>2. CASE x = k
    BY <1>4, <1>5, <1>6, <1>7, <2>2, NoneIs DEF Steady
  <2> QED
    BY <2>1, <2>2
<1>11. ASSUME log = {}
       PROVE  Before'
  <2>1. ASSUME NEW x \in Conns
        PROVE  BeforeConn(x)'
    <3>1. CASE x # k
      BY <1>1, <1>6, <1>9, <1>11, <3>1 DEF Calm, Before, BeforeConn, First, OfEditor, Told
    <3>2. CASE x = k
      BY <1>4, <1>6, <3>2, NoneIs DEF BeforeConn, Told
    <3> QED
      BY <3>1, <3>2
  <2> QED
    BY <1>1, <1>9, <1>11, <2>1 DEF Calm, Before, First
<1>12. ASSUME log # {}
       PROVE  After'
  <2>1. ASSUME NEW x \in Conns
        PROVE  AfterConn(x)'
    <3>1. CASE x # k
      BY <1>1, <1>6, <1>12, <3>1 DEF Calm, After, AfterConn, OfEditor, Told
    <3>2. CASE x = k
      BY <1>4, <1>6, <3>2, NoneIs DEF AfterConn, Told
    <3> QED
      BY <3>1, <3>2
  <2> QED
    BY <1>1, <1>12, <2>1 DEF Calm, After
<1> QED
  BY <1>1, <1>10, <1>11, <1>12 DEF Calm

\* What is typed is not an initial history.
LEMMA EditCalm ==
    ASSUME Base, Calm, NEW c \in Typists, Edit(c)
    PROVE  Calm'
<1>1. /\ conns \in [Conns -> Connections] /\ clients \in [Clients -> Sessions] /\ Editors \in Editorships
      /\ log' = log /\ queue' = queue /\ rejected' = rejected
  BY DEF Base, WellTyped, Edit, mishaps
<1>2. c \in Editors /\ c \in Clients /\ log # {} /\ Editors \subseteq Clients
  BY <1>1, SessionAssumption DEF Base, Early, Edit
<1>3. /\ Editors' = Editors /\ \A d \in Clients \ {c} : clients'[d] = clients[d]
      /\ clients'[c].doc = clients[c].doc \cup {Typed(c)} /\ clients'[c].document = clients[c].document
      /\ clients'[c].needsRecovery = clients[c].needsRecovery
  <2> DEFINE s == clients[c]
             doc == s.doc \cup {Typed(c)}
             more == s.pending + 1
             x == [s EXCEPT !.doc = doc, !.pending = more]
  <2>1. s \in Sessions
    BY <1>1, <1>2
  <2>2. clients' = [clients EXCEPT ![c] = x]
    BY <1>1, <1>2 DEF Edit, Sessions
  <2> HIDE DEF s, doc, more
  <2>3. /\ x.editor = s.editor /\ x.doc = doc /\ x.document = s.document
        /\ x.needsRecovery = s.needsRecovery
    BY <2>1 DEF Sessions
  <2> HIDE DEF x
  <2>4. /\ clients'[c] = x /\ \A d \in Clients \ {c} : clients'[d] = clients[d]
    BY <1>1, <1>2, <2>2
  <2> QED
    BY <1>2, <2>3, <2>4 DEF Editors, s, doc
<1>4. PICK k \in SocketOf(c) : conns' = [conns EXCEPT ![k].up = Append(@, {Typed(c)})]
  BY DEF Edit
<1>5. k \in Conns /\ conns[k] \in Connections
  BY <1>1, <1>4 DEF SocketOf
<1>6. /\ \A x \in Conns \ {k} : conns'[x] = conns[x]
      /\ conns'[k].open = conns[k].open /\ conns'[k].server = conns[k].server
      /\ conns'[k].client = conns[k].client /\ conns'[k].down = conns[k].down
      /\ Range(conns'[k].up) = Range(conns[k].up) \cup {{Typed(c)}}
  <2> DEFINE typed == {Typed(c)}
             up == Append(conns[k].up, typed)
  <2>1. typed \in Content /\ conns[k].up \in Seq(Content)
    BY <1>2, <1>5 DEF Content, Item, Typed, Connections
  <2> HIDE DEF typed
  <2>2. Range(up) = Range(conns[k].up) \cup {typed}
    BY <2>1, AppendRange
  <2> USE DEF typed
  <2>3. conns' = [conns EXCEPT ![k].up = up]
    BY <1>1, <1>4, <1>5
  <2> HIDE DEF up
  <2> QED
    BY <1>1, <1>5, <2>2, <2>3 DEF Connections
<1>7. \A x \in Conns : Queued(x)' = Queued(x)
  BY <1>1 DEF Queued
<1>8. Histories({Typed(c)}) = {} /\ Histories(clients'[c].doc) = Histories(clients[c].doc)
  BY <1>3 DEF Histories, Typed
<1>9. \A x \in Conns : Steady(x)'
  BY <1>6, <1>7 DEF Calm, Steady
<1>10. ASSUME NEW x \in Conns
       PROVE  AfterConn(x)'
  <2>1. AfterConn(x)
    BY <1>2 DEF Calm, After
  <2>2. clients'[conns[x].client].doc # {} \/ clients[conns[x].client].doc = {} \/ ~OfEditor(x)
    BY <1>2, <1>3 DEF OfEditor
  <2>3. CASE x # k
    BY <1>1, <1>3, <1>6, <2>1, <2>2, <2>3 DEF AfterConn, OfEditor, Told
  <2>4. CASE x = k
    BY <1>1, <1>3, <1>6, <1>8, <2>1, <2>2, <2>4 DEF AfterConn, OfEditor, Told
  <2> QED
    BY <2>3, <2>4
<1>11. After'
  BY <1>1, <1>2, <1>3, <1>8, <1>10 DEF Calm, After
<1> QED
  BY <1>1, <1>2, <1>3, <1>9, <1>11 DEF Calm

\* The browser reads a message and sends something.
LEMMA ReceivesCalm ==
    ASSUME Base, Calm, timeouts = 0, NEW k \in Conns, conns[k].open, conns[k].down # <<>>,
           NEW sent \in Seq(Content), conns' = Received(k, sent),
           NEW c, c = conns[k].client, c \in Clients, Editors' = Editors,
           \A d \in Clients \ {c} : clients'[d] = clients[d],
           clients'[c].document = 1 /\ ~clients'[c].needsRecovery,
           clients[c].doc \subseteq clients'[c].doc,
           c \notin Editors => sent = <<>>,
           c \in Editors /\ log = {} =>
              \/ clients'[c].doc = clients[c].doc /\ sent = <<>>
              \/ room.leader = k /\ First(clients'[c].doc) /\ Range(sent) = {clients'[c].doc},
           c \in Editors /\ log # {} =>
              /\ Histories(clients'[c].doc) \subseteq log
              /\ \A content \in Range(sent) : Histories(content) \subseteq log,
           UNCHANGED <<log, room, queue, mishaps>>
    PROVE  Calm'
<1>1. /\ conns \in [Conns -> Connections] /\ conns[k] \in Connections
      /\ conns[k].down \in Seq(Messages) /\ conns[k].up \in Seq(Content)
      /\ Editors \subseteq Clients /\ log' = log /\ room' = room /\ queue' = queue
      /\ rejected' = rejected
  BY DEF Base, WellTyped, Connections, Editors, mishaps
<1> DEFINE rest == Tail(conns[k].down)
           all == conns[k].up \o sent
<1>2. /\ Range(rest) \subseteq Range(conns[k].down)
      /\ Range(all) = Range(conns[k].up) \cup Range(sent)
      /\ (sent = <<>> => all = conns[k].up)
  BY <1>1, TailRange, ConcatRange, ConcatEmptySeq
<1>3. /\ \A x \in Conns \ {k} : conns'[x] = conns[x]
      /\ conns'[k].open = conns[k].open /\ conns'[k].server = conns[k].server
      /\ conns'[k].client = conns[k].client /\ conns'[k].down = rest /\ conns'[k].up = all
  BY <1>1 DEF Received, Connections
<1> HIDE DEF rest, all
<1>4. /\ \A x \in Conns : Queued(x)' = Queued(x)
      /\ \A x \in Conns : Told(x)' => Told(x)
      /\ \A x \in Conns : conns'[x].client = conns[x].client /\ OfEditor(x)' = OfEditor(x)
  BY <1>1, <1>2, <1>3 DEF Queued, Told, OfEditor
<1>5. room.leader # NoConn => conns'[room.leader].client = conns[room.leader].client
  BY <1>4 DEF Base, WellTyped, Rooms
<1>6. \A d \in Clients : clients[d].doc \subseteq clients'[d].doc
  OBVIOUS
<1>7. ASSUME NEW x \in Conns
      PROVE  Steady(x)'
  <2>1. CASE x # k
    BY <1>3, <1>4, <2>1 DEF Calm, Steady
  <2>2. CASE x = k
    BY <1>2, <1>3, <1>4, <2>2 DEF Calm, Steady
  <2> QED
    BY <2>1, <2>2
<1>8. ASSUME log = {}
      PROVE  Before'
  <2>1. ASSUME NEW x \in Conns
        PROVE  BeforeConn(x)'
    <3>1. BeforeConn(x)
      BY <1>8 DEF Calm, Before
    <3>2. CASE x # k
      <4> SUFFICES ASSUME OfEditor(x)
                   PROVE  BeforeConn(x)'
        BY <1>4 DEF BeforeConn
      <4>1. conns[x].client \in Clients /\ conns'[x] = conns[x]
        BY <1>1, <1>3, <3>2 DEF OfEditor
      <4>2. \A content : First(content) => room'.leader # NoConn /\ content = {Copy(conns'[room'.leader].client, 1)}
        BY <1>1, <1>5 DEF First
      <4>3. clients[conns[x].client].doc # {} => clients'[conns'[x].client].doc # {}
        BY <1>6, <4>1
      <4> QED
        BY <1>1, <1>4, <3>1, <4>1, <4>2, <4>3 DEF BeforeConn, First
    <3>3. CASE x = k /\ sent = <<>>
      BY <1>1, <1>2, <1>3, <1>4, <1>5, <1>6, <3>1, <3>3 DEF BeforeConn, OfEditor, First
    <3>4. CASE x = k /\ sent # <<>>
      <4>1. room.leader = k /\ First(clients'[c].doc) /\ Range(sent) = {clients'[c].doc}
        BY <1>8, <3>4
      <4>2. \A content \in Range(conns'[k].up) : First(content)'
        BY <1>2, <1>3, <1>4, <1>5, <3>1, <3>4, <4>1 DEF BeforeConn, OfEditor, First
      <4> QED
        BY <1>1, <1>3, <1>4, <3>1, <3>4, <4>1, <4>2 DEF BeforeConn, First
    <3> QED
      BY <3>2, <3>3, <3>4
  <2>2. ASSUME NEW d \in Editors, clients'[d].doc # {}
        PROVE  /\ room'.leader # NoConn /\ clients'[d].doc = {Copy(conns'[room'.leader].client, 1)}
               /\ conns'[room'.leader].client = d
    <3>1. CASE clients'[d].doc = clients[d].doc
      <4>1. First(clients[d].doc) /\ conns[room.leader].client = d
        BY <1>8, <2>2, <3>1 DEF Calm, Before
      <4> QED
        BY <1>1, <1>4, <1>5, <3>1, <4>1 DEF First, Base, WellTyped, Rooms
    <3>2. CASE clients'[d].doc # clients[d].doc
      <4>1. d = c /\ room.leader = k /\ First(clients'[c].doc)
        BY <1>1, <1>8, <2>2, <3>2
      <4> QED
        BY <1>1, <1>3, <1>5, <4>1 DEF First
    <3> QED
      BY <3>1, <3>2
  <2>3. ASSUME NEW w \in Range(queue)
        PROVE  /\ room'.leader # NoConn /\ w.content = {Copy(conns'[room'.leader].client, 1)}
               /\ clients'[conns'[room'.leader].client].doc # {}
    <3>1. First(w.content) /\ clients[conns[room.leader].client].doc # {}
      BY <1>8 DEF Calm, Before
    <3>2. queue # <<>>
      BY NoneIs
    <3>3. room.leader \in Conns /\ conns[room.leader].client \in Editors
      BY <1>8, <3>2, LeaderThere
    <3> QED
      BY <1>1, <1>4, <1>5, <1>6, <3>1, <3>3 DEF First
  <2> QED
    BY <1>1, <2>1, <2>2, <2>3 DEF Before, First
<1>9. ASSUME log # {}
      PROVE  After'
  <2>1. ASSUME NEW x \in Conns
        PROVE  AfterConn(x)'
    <3>1. AfterConn(x)
      BY <1>9 DEF Calm, After
    <3>2. OfEditor(x) => conns[x].client \in Clients
      BY <1>1 DEF OfEditor
    <3>3. CASE x # k
      BY <1>1, <1>3, <1>4, <1>6, <3>1, <3>2, <3>3 DEF AfterConn
    <3>4. CASE x = k
      BY <1>1, <1>2, <1>3, <1>4, <1>6, <1>9, <3>1, <3>2, <3>4 DEF AfterConn, OfEditor
    <3> QED
      BY <3>3, <3>4
  <2>2. \A d \in Editors : Histories(clients'[d].doc) \subseteq log
    BY <1>1, <1>9 DEF Calm, After
  <2> QED
    BY <1>1, <1>9, <2>1, <2>2 DEF Calm, After
<1>10. \A d \in Clients : clients'[d].document = 1 /\ ~clients'[d].needsRecovery
  BY DEF Calm
<1> QED
  BY <1>1, <1>7, <1>8, <1>9, <1>10 DEF Calm

\* Only the leader's session builds a document, and only once.
LEMMA ClientReceiveCalm ==
    ASSUME Base, Calm, timeouts = 0, NEW k \in Conns, ClientReceive(k)
    PROVE  Calm'
<1> DEFINE c == conns[k].client
           m == Head(conns[k].down)
           s == clients[c]
<1>1. /\ conns[k].open /\ conns[k].down # <<>> /\ conns[k].down \in Seq(Messages)
      /\ c \in Clients /\ clients \in [Clients -> Sessions] /\ s \in Sessions
      /\ s.doc \in Content /\ Editors \subseteq Clients /\ (c \in Editors <=> s.editor)
      /\ s.document = 1 /\ ~s.needsRecovery /\ UNCHANGED <<log, room, queue, mishaps>>
  BY SessionAssumption
     DEF Base, WellTyped, Connections, Sessions, Fits, ConnFits, Editors, ClientReceive, Calm
<1>2. m \in Messages /\ m \in Range(conns[k].down)
  BY <1>1, TailRange
<1>3. log = {} => Opening(m)
  BY <1>2 DEF Base, Early, EarlyConn
<1>4. <<>> \in Seq(Content) /\ Range(<<>>) = {}
  BY NoneIs
<1>5. c \in Editors /\ log # {} => Histories(s.doc) \subseteq log
  BY DEF Calm, After
<1>6. \A x \in Sessions : x.editor = s.editor /\ clients' = [clients EXCEPT ![c] = x]
        => Editors' = Editors /\ clients'[c] = x /\ \A d \in Clients \ {c} : clients'[d] = clients[d]
  BY <1>1 DEF Editors
<1>7. \/ m.type = "sync-complete" /\ m.bootstrap \in BOOLEAN /\ ReceiveSync(c, k, m.bootstrap)
         /\ m = Sync(m.bootstrap)
      \/ /\ m.type = "update" /\ m.content \in Content
         /\ clients' = [clients EXCEPT ![c].doc = @ \cup m.content] /\ conns' = Received(k, <<>>)
      \/ /\ m.type = "update-ack"
         /\ clients' = [clients EXCEPT ![c] = Acknowledged(@)] /\ conns' = Received(k, <<>>)
      \/ m.type = "bootstrap-wait" /\ conns' = Received(k, <<>>) /\ UNCHANGED clients
  <2>1. m.type # "close"
    BY <1>2 DEF Calm, Steady
  <2> QED
    BY <1>2, <2>1, MessageKinds DEF ClientReceive
<1>8. CASE m.type = "sync-complete" /\ m.bootstrap \in BOOLEAN /\ ReceiveSync(c, k, m.bootstrap)
           /\ m = Sync(m.bootstrap)
  <2> DEFINE doc  == IF m.bootstrap THEN Initialized(s, c) ELSE s.doc
             full == s.editor /\ (m.bootstrap \/ s.needsRecovery)
             sending == [s EXCEPT !.doc = doc, !.synced = TRUE, !.startup = TRUE,
                                  !.pending = @ + 1, !.needsRecovery = FALSE]
             synced == [s EXCEPT !.doc = doc, !.synced = TRUE,
                                 !.startup = @ \/ s.pending > 0,
                                 !.ready = @ \/ s.pending = 0]
  <2>1. doc \in Content /\ s.doc \subseteq doc
    <3>1. Copy(c, s.document) \in Item
      BY <1>1 DEF Item, Copy
    <3>2. {Copy(c, s.document)} \in Content
      BY <3>1 DEF Content
    <3> QED
      BY <1>1, <3>2 DEF Initialized
  <2>2. ASSUME c \in Editors, log = {}
        PROVE  m.bootstrap /\ room.leader = k /\ First(doc)
    <3>1. m = Sync(TRUE) /\ m.bootstrap
      BY <1>3, <1>8, <2>2, MessagesAre DEF Opening
    <3>2. room.leader = k
      BY <1>2, <2>2, <3>1 DEF Calm, Before, BeforeConn, Told, OfEditor
    <3>3. s.doc # {} => s.doc = {Copy(c, 1)}
      BY <2>2, <3>2 DEF Calm, Before, First
    <3> QED
      BY <1>1, <3>1, <3>2, <3>3, SessionAssumption DEF Initialized, First
  <2>3. ASSUME c \in Editors, log # {}
        PROVE  doc = s.doc
    <3>1. CASE m.bootstrap
      <4>1. Told(k)
        BY <1>2, <1>8, <3>1 DEF Told
      <4>2. s.doc # {}
        BY <2>3, <4>1 DEF Calm, After, AfterConn, OfEditor
      <4> QED
        BY <4>2 DEF Initialized
    <3> QED
      BY <3>1
  <2>4. /\ clients' = [clients EXCEPT ![c] = IF full THEN sending ELSE synced]
        /\ conns' = Received(k, IF full THEN <<doc>> ELSE <<>>)
    BY <1>8 DEF ReceiveSync
  <2> HIDE DEF doc
  <2>5. /\ sending.editor = s.editor /\ sending.doc = doc /\ sending.document = s.document
        /\ ~sending.needsRecovery /\ sending \in Sessions
    <3> DEFINE more == s.pending + 1
    <3>1. more \in Nat
      BY <1>1 DEF Sessions
    <3>2. sending = [s EXCEPT !.doc = doc, !.synced = TRUE, !.startup = TRUE,
                              !.pending = more, !.needsRecovery = FALSE]
      BY <1>1 DEF Sessions
    <3> HIDE DEF s, more, sending
    <3> QED
      BY <1>1, <2>1, <3>1, <3>2 DEF Sessions
  <2>6. /\ synced.editor = s.editor /\ synced.doc = doc /\ synced.document = s.document
        /\ synced.needsRecovery = s.needsRecovery /\ synced \in Sessions
    <3> DEFINE startup == s.startup \/ s.pending > 0
               ready == s.ready \/ s.pending = 0
    <3>1. startup \in BOOLEAN /\ ready \in BOOLEAN
      BY <1>1 DEF Sessions
    <3>2. synced = [s EXCEPT !.doc = doc, !.synced = TRUE, !.startup = startup, !.ready = ready]
      BY <1>1 DEF Sessions
    <3> HIDE DEF s, startup, ready, synced
    <3> QED
      BY <1>1, <2>1, <3>1, <3>2 DEF Sessions
  <2> HIDE DEF sending, synced
  <2>7. CASE full
    <3> DEFINE sent == <<doc>>
    <3>1. sent \in Seq(Content) /\ Range(sent) = {doc}
      BY <2>1, OneIs
    <3>2. clients' = [clients EXCEPT ![c] = sending] /\ conns' = Received(k, sent)
      BY <2>4, <2>7
    <3> HIDE DEF sent
    <3>3. /\ Editors' = Editors /\ clients'[c] = sending
          /\ \A d \in Clients \ {c} : clients'[d] = clients[d]
      BY <1>6, <2>5, <3>2
    <3>4. c \in Editors /\ clients'[c].doc = doc
      BY <1>1, <2>5, <2>7, <3>3
    <3>5. /\ log = {} => room.leader = k /\ First(clients'[c].doc) /\ Range(sent) = {clients'[c].doc}
          /\ log # {} => /\ Histories(clients'[c].doc) \subseteq log
                         /\ \A content \in Range(sent) : Histories(content) \subseteq log
      BY <1>5, <2>2, <2>3, <3>1, <3>4 DEF First
    <3> HIDE DEF c
    <3> QED
      BY <1>1, <2>1, <2>5, <3>1, <3>2, <3>3, <3>4, <3>5, ReceivesCalm DEF c
  <2>8. CASE ~full
    <3>1. clients' = [clients EXCEPT ![c] = synced] /\ conns' = Received(k, <<>>)
      BY <2>4, <2>8
    <3>2. /\ Editors' = Editors /\ clients'[c] = synced
          /\ \A d \in Clients \ {c} : clients'[d] = clients[d]
      BY <1>6, <2>6, <3>1
    <3>3. c \in Editors => log # {} /\ clients'[c].doc = s.doc
      BY <1>1, <2>2, <2>3, <2>6, <2>8, <3>2
    <3> QED
      BY <1>1, <1>4, <1>5, <2>1, <2>6, <3>1, <3>2, <3>3, ReceivesCalm
  <2> QED
    BY <2>7, <2>8
<1>9. CASE /\ m.type = "update" /\ m.content \in Content
           /\ clients' = [clients EXCEPT ![c].doc = @ \cup m.content] /\ conns' = Received(k, <<>>)
  <2> DEFINE doc == s.doc \cup m.content
             x == [s EXCEPT !.doc = doc]
  <2>1. doc \in Content /\ s.doc \subseteq doc
    BY <1>1, <1>9 DEF Content
  <2>2. clients' = [clients EXCEPT ![c] = x]
    BY <1>1, <1>9
  <2>3. c \in Editors => log # {} /\ Histories(doc) \subseteq log
    <3>1. log # {}
      BY <1>3, <1>9 DEF Opening, Sync
    <3>2. c \in Editors => Histories(m.content) \subseteq log
      BY <1>2, <1>9, <3>1 DEF Calm, After, AfterConn, OfEditor
    <3> QED
      BY <1>5, <3>1, <3>2 DEF Histories
  <2> HIDE DEF doc
  <2>4. /\ x \in Sessions /\ x.editor = s.editor /\ x.doc = doc /\ x.document = s.document
        /\ x.needsRecovery = s.needsRecovery
    BY <1>1, <2>1 DEF Sessions
  <2> HIDE DEF x
  <2>5. /\ Editors' = Editors /\ clients'[c] = x
        /\ \A d \in Clients \ {c} : clients'[d] = clients[d]
    BY <1>6, <2>2, <2>4
  <2> QED
    BY <1>1, <1>4, <1>9, <2>1, <2>3, <2>4, <2>5, ReceivesCalm
<1>10. CASE /\ m.type = "update-ack"
            /\ clients' = [clients EXCEPT ![c] = Acknowledged(@)] /\ conns' = Received(k, <<>>)
  <2> DEFINE x == Acknowledged(s)
  <2>1. /\ x \in Sessions /\ x.editor = s.editor /\ x.doc = s.doc /\ x.document = s.document
        /\ x.needsRecovery = s.needsRecovery
    <3> DEFINE pending == IF s.pending > 0 THEN s.pending - 1 ELSE 0
               started == pending = 0 /\ s.startup /\ ~s.needsRecovery
               startup == s.startup /\ ~started
               ready == s.ready \/ (started /\ s.synced)
    <3>1. pending \in Nat /\ startup \in BOOLEAN /\ ready \in BOOLEAN
      BY <1>1 DEF Sessions
    <3>2. x = [s EXCEPT !.pending = pending, !.startup = startup, !.ready = ready]
      BY <1>1 DEF Acknowledged, Sessions
    <3> HIDE DEF s, pending, startup, ready, x
    <3> QED
      BY <1>1, <3>1, <3>2 DEF Sessions
  <2>2. clients' = [clients EXCEPT ![c] = x]
    BY <1>1, <1>10
  <2> HIDE DEF x
  <2>3. /\ Editors' = Editors /\ clients'[c] = x
        /\ \A d \in Clients \ {c} : clients'[d] = clients[d]
    BY <1>6, <2>1, <2>2
  <2>4. /\ clients'[c].doc = clients[c].doc /\ clients'[c].document = 1 /\ ~clients'[c].needsRecovery
        /\ c \in Editors /\ log # {} => Histories(clients'[c].doc) \subseteq log
    BY <1>1, <1>5, <2>1, <2>3
  <2> HIDE DEF s
  <2> QED
    BY <1>1, <1>4, <1>10, <2>3, <2>4, ReceivesCalm
<1>11. CASE m.type = "bootstrap-wait" /\ conns' = Received(k, <<>>) /\ UNCHANGED clients
  <2>1. Editors' = Editors /\ \A d \in Clients : clients'[d] = clients[d]
    BY <1>11 DEF Editors
  <2>2. clients'[c] = s /\ \A d \in Clients \ {c} : clients'[d] = clients[d]
    BY <1>1, <2>1
  <2> HIDE DEF s
  <2>3. clients[c].doc = s.doc
    BY DEF s
  <2> QED
    BY <1>1, <1>4, <1>5, <1>11, <2>1, <2>2, <2>3, ReceivesCalm
<1> QED
  BY <1>7, <1>8, <1>9, <1>10, <1>11

\* A new leader is made only before any editor has a document.
LEMMA AdmitCalm ==
    ASSUME Base, Calm, timeouts = 0, NEW k \in Conns, Admit(k)
    PROVE  Calm'
<1>1. /\ conns \in [Conns -> Connections] /\ conns[k] \in Connections
      /\ room \in Rooms /\ conns[k].server = "new" /\ ConnFits(k) /\ queue' = queue
      /\ log' = log /\ clients' = clients /\ Editors' = Editors /\ Editors \subseteq Clients
      /\ rejected' = rejected /\ conns[k].client \in Clients /\ NoConn \notin Conns /\ log \in Content
      /\ conns[k].client # NoConn /\ conns[k].open
  BY SessionAssumption
     DEF Base, WellTyped, Admit, mishaps, Editors, Connections, Fits, ConnFits, Calm, Steady
<1>2. k # room.leader /\ (log = {} => conns[k].up = <<>>)
  BY <1>1 DEF ConnFits
<1>3. PICK messages \in Seq(Messages) :
         /\ conns' = Sent([conns EXCEPT ![k].server = "open"], [Nothing EXCEPT ![k] = messages], {}, 0)
         /\ \/ /\ log # {} /\ Range(messages) = {Update(log), Sync(FALSE)}
               /\ room' = [room EXCEPT !.synced = @ \cup {k}]
            \/ /\ log = {} /\ conns[k].client \notin Editors
               /\ room' = [room EXCEPT !.synced = @ \cup {k}]
               /\ Range(messages) = {Sync(TRUE)} /\ OnceIn(Sync(TRUE), messages)
            \/ /\ log = {} /\ conns[k].client \in Editors /\ room.leader = NoConn
               /\ room' = EnsureTimer([room EXCEPT !.leader = k, !.synced = @ \cup {k}])
               /\ Range(messages) = {Sync(TRUE)} /\ OnceIn(Sync(TRUE), messages)
            \/ /\ log = {} /\ conns[k].client \in Editors /\ room.leader # NoConn
               /\ room' = EnsureTimer([room EXCEPT !.waiting = Append(@, k)])
               /\ Range(messages) = {Wait} /\ OnceIn(Sync(TRUE), messages)
  BY AdmitIs
<1>4. /\ \A m \in Range(messages) :
            /\ m.type # "close"
            /\ m.type = "update" => log # {} /\ m.content = log
            /\ m = Sync(TRUE) => log = {} /\ (conns[k].client \in Editors => room.leader = NoConn)
      /\ \/ room'.leader = room.leader /\ (OfEditor(k) => Sync(TRUE) \notin Range(messages))
         \/ room'.leader = k /\ room.leader = NoConn /\ log = {}
  <2>1. /\ Update(log).type = "update" /\ Update(log).content = log /\ Update(log) # Sync(TRUE)
        /\ \A b \in BOOLEAN : Sync(b).type = "sync-complete"
        /\ Wait.type = "bootstrap-wait" /\ Wait # Sync(TRUE) /\ Sync(FALSE) # Sync(TRUE)
    BY <1>1, MessagesAre
  <2>2. \/ /\ log # {} /\ Range(messages) = {Update(log), Sync(FALSE)} /\ room'.leader = room.leader
        \/ /\ log = {} /\ conns[k].client \notin Editors /\ room'.leader = room.leader
           /\ Range(messages) = {Sync(TRUE)}
        \/ /\ log = {} /\ conns[k].client \in Editors /\ room.leader = NoConn /\ room'.leader = k
           /\ Range(messages) = {Sync(TRUE)}
        \/ /\ log = {} /\ conns[k].client \in Editors /\ room.leader # NoConn
           /\ Range(messages) = {Wait} /\ room'.leader = room.leader
    BY <1>1, <1>3 DEF EnsureTimer, Rooms
  <2> QED
    BY <2>1, <2>2 DEF OfEditor
<1>5. /\ \A x \in Conns \ {k} : conns'[x] = conns[x]
      /\ conns'[k].server = "open" /\ conns'[k].open = conns[k].open
      /\ conns'[k].client = conns[k].client /\ conns'[k].up = conns[k].up
      /\ conns'[k].down = messages
  BY <1>1, <1>3, AdmitSends
<1>6. /\ \A x \in Conns : Queued(x)' = Queued(x) /\ conns'[x].client = conns[x].client
      /\ \A x \in Conns : OfEditor(x)' = OfEditor(x)
  BY <1>1, <1>5 DEF Queued, OfEditor
<1>7. ASSUME NEW x \in Conns
      PROVE  Steady(x)'
  <2>1. CASE x # k
    BY <1>5, <1>6, <2>1 DEF Calm, Steady
  <2>2. CASE x = k
    BY <1>1, <1>4, <1>5, <1>6, <2>2 DEF Calm, Steady
  <2> QED
    BY <2>1, <2>2
<1>8. CASE log # {}
  <2>1. ASSUME NEW x \in Conns
        PROVE  AfterConn(x)'
    <3>1. AfterConn(x)
      BY <1>8 DEF Calm, After
    <3>2. CASE x # k
      BY <1>1, <1>5, <1>6, <3>1, <3>2 DEF AfterConn, Told
    <3>3. CASE x = k
      <4>1. ~Told(k)' /\ \A m \in Range(messages) : m.type = "update" => Histories(m.content) \subseteq log
        BY <1>4, <1>5, <1>8 DEF Told, Histories
      <4> QED
        BY <1>1, <1>5, <1>6, <3>1, <3>3, <4>1 DEF AfterConn
    <3> QED
      BY <3>2, <3>3
  <2>2. After'
    BY <1>1, <1>8, <2>1 DEF Calm, After
  <2> QED
    BY <1>1, <1>7, <1>8, <2>2 DEF Calm
<1>9. CASE log = {} /\ room'.leader = room.leader /\ (OfEditor(k) => Sync(TRUE) \notin Range(messages))
  <2>1. \A content : First(content) => room'.leader # NoConn /\ content = {Copy(conns'[room'.leader].client, 1)}
    BY <1>1, <1>6, <1>9 DEF First, Rooms
  <2>2. room.leader # NoConn => conns'[room'.leader].client = conns[room.leader].client
    BY <1>1, <1>6, <1>9 DEF Rooms
  <2>3. ASSUME NEW x \in Conns
        PROVE  BeforeConn(x)'
    <3>1. BeforeConn(x)
      BY <1>9 DEF Calm, Before
    <3>2. CASE x # k
      BY <1>1, <1>5, <1>6, <1>9, <2>1, <3>1, <3>2 DEF BeforeConn, Told, First
    <3>3. CASE x = k
      BY <1>1, <1>2, <1>5, <1>6, <1>9, <3>3, NoneIs DEF BeforeConn, Told
    <3> QED
      BY <3>2, <3>3
  <2>4. Before'
    BY <1>1, <1>9, <2>1, <2>2, <2>3 DEF Calm, Before, First
  <2> QED
    BY <1>1, <1>7, <1>9, <2>4 DEF Calm
<1>10. CASE room'.leader = k /\ room.leader = NoConn /\ log = {}
  <2>1. queue = <<>> /\ Range(queue) = {}
    BY <1>1, <1>10, LeaderThere, NoneIs
  <2>2. \A c \in Editors : clients[c].doc = {}
    BY <1>10 DEF Calm, Before, First
  <2>3. ASSUME NEW x \in Conns
        PROVE  BeforeConn(x)'
    <3>1. BeforeConn(x)
      BY <1>10 DEF Calm, Before
    <3>2. CASE x # k
      BY <1>1, <1>5, <1>6, <1>10, <3>1, <3>2, NoneIs DEF BeforeConn, Told
    <3>3. CASE x = k
      BY <1>1, <1>2, <1>5, <1>10, <3>3, NoneIs DEF BeforeConn, Told
    <3> QED
      BY <3>2, <3>3
  <2>4. Before'
    BY <1>1, <2>1, <2>2, <2>3 DEF Before
  <2> QED
    BY <1>1, <1>7, <1>10, <2>4 DEF Calm
<1> QED
  BY <1>4, <1>8, <1>9, <1>10

\* The first write is the leader's document.
LEMMA ServerReceiveCalm ==
    ASSUME Base, Calm, NEW k \in Conns, ServerReceive(k)
    PROVE  Calm'
<1> DEFINE m == Head(conns[k].up)
           rest == Tail(conns[k].up)
           w == [conn |-> k, content |-> m, started |-> FALSE]
<1>1. /\ conns \in [Conns -> Connections] /\ conns[k] \in Connections
      /\ room \in Rooms /\ queue \in Seq(Writes) /\ conns[k].up \in Seq(Content)
      /\ conns[k].up # <<>> /\ conns[k].server = "open"
      /\ log' = log /\ clients' = clients /\ Editors' = Editors /\ Editors \subseteq Clients
      /\ rejected' = rejected /\ ConnFits(k) /\ conns[k].client \in Clients
  BY SessionAssumption
     DEF Base, WellTyped, ServerReceive, mishaps, Editors, Connections, Fits, ConnFits
<1>2. OfEditor(k)
  BY <1>1 DEF ConnFits, OfEditor
<1>3. /\ m \in Content /\ m \in Range(conns[k].up) /\ rest \in Seq(Content)
      /\ Range(rest) \subseteq Range(conns[k].up)
  BY <1>1, TailRange
<1>4. /\ \A x \in Conns \ {k} : conns'[x] = conns[x]
      /\ conns'[k].open = conns[k].open /\ conns'[k].server = conns[k].server
      /\ conns'[k].client = conns[k].client /\ conns'[k].down = conns[k].down
      /\ conns'[k].up = rest
  BY <1>1, <1>3 DEF ServerReceive, Connections
<1>5. w \in Writes /\ w.conn = k /\ w.content = m
  BY <1>3 DEF Writes
<1>6. queue' = Append(queue, w) \/ queue' = queue
  BY DEF ServerReceive
<1>7. room'.leader = room.leader
  BY <1>1 DEF ServerReceive, Rooms
<1> HIDE DEF m, rest, w
<1>8. Range(queue') \subseteq Range(queue) \cup {w}
  <2>1. Range(Append(queue, w)) = Range(queue) \cup {w}
    BY <1>1, <1>5, AppendRange
  <2> QED
    BY <1>6, <2>1
<1>9. /\ \A x \in Conns : Told(x)' = Told(x) /\ conns'[x].client = conns[x].client /\ OfEditor(x)' = OfEditor(x)
      /\ \A x \in Conns \ {k} : Queued(x)' => Queued(x)
  BY <1>1, <1>4, <1>5, <1>8 DEF Told, OfEditor, Queued
<1>10. /\ \A content : First(content) => room'.leader # NoConn /\ content = {Copy(conns'[room'.leader].client, 1)}
       /\ room.leader # NoConn => conns'[room'.leader].client = conns[room.leader].client
  BY <1>1, <1>7, <1>9 DEF First, Rooms
<1>11. ASSUME NEW x \in Conns
       PROVE  Steady(x)'
  <2>1. CASE x # k
    BY <1>4, <1>9, <2>1 DEF Calm, Steady
  <2>2. CASE x = k
    BY <1>1, <1>4, <2>2 DEF Calm, Steady
  <2> QED
    BY <2>1, <2>2
<1>12. ASSUME log = {}
       PROVE  Before'
  <2>1. First(m) /\ k = room.leader /\ clients[conns[k].client].doc # {}
    BY <1>1, <1>2, <1>3, <1>12 DEF Calm, Before, BeforeConn
  <2>2. ASSUME NEW x \in Conns
        PROVE  BeforeConn(x)'
    <3>1. BeforeConn(x)
      BY <1>12 DEF Calm, Before
    <3>2. CASE x # k
      BY <1>1, <1>4, <1>7, <1>9, <1>10, <3>1, <3>2 DEF BeforeConn, First
    <3>3. CASE x = k
      BY <1>1, <1>3, <1>4, <1>7, <1>9, <1>10, <2>1, <3>1, <3>3 DEF BeforeConn, First
    <3> QED
      BY <3>2, <3>3
  <2>3. ASSUME NEW v \in Range(queue')
        PROVE  /\ room'.leader # NoConn /\ v.content = {Copy(conns'[room'.leader].client, 1)}
               /\ clients'[conns'[room'.leader].client].doc # {}
    <3>1. First(v.content) /\ clients[conns[room.leader].client].doc # {}
      BY <1>5, <1>8, <1>12, <2>1 DEF Calm, Before
    <3> QED
      BY <1>1, <1>10, <3>1 DEF First
  <2>4. ASSUME NEW c \in Editors, clients[c].doc # {}
        PROVE  /\ room'.leader # NoConn /\ clients[c].doc = {Copy(conns'[room'.leader].client, 1)}
               /\ conns'[room'.leader].client = c
    <3>1. First(clients[c].doc) /\ conns[room.leader].client = c
      BY <1>12, <2>4 DEF Calm, Before
    <3> QED
      BY <1>10, <3>1 DEF First
  <2> QED
    BY <1>1, <2>2, <2>3, <2>4 DEF Before, First
<1>13. ASSUME log # {}
       PROVE  After'
  <2>1. ASSUME NEW x \in Conns
        PROVE  AfterConn(x)'
    <3>1. AfterConn(x)
      BY <1>13 DEF Calm, After
    <3>2. CASE x # k
      BY <1>1, <1>4, <1>9, <3>1, <3>2 DEF AfterConn
    <3>3. CASE x = k
      BY <1>1, <1>3, <1>4, <1>9, <3>1, <3>3 DEF AfterConn
    <3> QED
      BY <3>2, <3>3
  <2>2. Histories(m) \subseteq log
    BY <1>2, <1>3, <1>13 DEF Calm, After, AfterConn
  <2> QED
    BY <1>1, <1>5, <1>8, <1>13, <2>1, <2>2 DEF Calm, After
<1> QED
  BY <1>1, <1>11, <1>12, <1>13 DEF Calm

\* Nothing but the queue, and timers, change.
LEMMA QueueCalm ==
    ASSUME Base, Calm,
           log' = log, clients' = clients, conns' = conns, rejected' = rejected,
           room'.leader = room.leader,
           \A w \in Range(queue') : \E v \in Range(queue) : w.conn = v.conn /\ w.content = v.content
    PROVE  Calm'
<1>1. Editors' = Editors
  BY DEF Editors
<1>2. \A x \in Conns : Queued(x)' => Queued(x)
  BY DEF Queued
<1>3. \A x \in Conns : Steady(x)'
  BY <1>2 DEF Calm, Steady
<1>4. ASSUME log = {}
      PROVE  Before'
  <2>1. ASSUME NEW w \in Range(queue')
        PROVE  /\ room'.leader # NoConn /\ w.content = {Copy(conns'[room'.leader].client, 1)}
               /\ clients'[conns'[room'.leader].client].doc # {}
    <3>1. PICK v \in Range(queue) : w.content = v.content
      OBVIOUS
    <3> QED
      BY <1>4, <3>1 DEF Calm, Before, First
  <2>2. \A x \in Conns : BeforeConn(x)'
    BY <1>1, <1>4 DEF Calm, Before, BeforeConn, OfEditor, Told, First
  <2> QED
    BY <1>1, <1>4, <2>1, <2>2 DEF Calm, Before, First
<1>5. ASSUME log # {}
      PROVE  After'
  <2>1. ASSUME NEW w \in Range(queue')
        PROVE  Histories(w.content) \subseteq log
    <3>1. PICK v \in Range(queue) : w.content = v.content
      OBVIOUS
    <3> QED
      BY <1>5, <3>1 DEF Calm, After
  <2>2. \A x \in Conns : AfterConn(x)'
    BY <1>1, <1>5 DEF Calm, After, AfterConn, OfEditor, Told
  <2> QED
    BY <1>1, <1>5, <2>1, <2>2 DEF Calm, After
<1> QED
  BY <1>3, <1>4, <1>5 DEF Calm

\* No client has left, so the write begins.
LEMMA StartWriteCalm ==
    ASSUME Base, Calm, StartWrite
    PROVE  Calm'
<1>1. queue # <<>> /\ queue \in Seq(Writes) /\ log' = log /\ clients' = clients /\ rejected' = rejected
  BY DEF StartWrite, mishaps, Base, WellTyped
<1>2. Queued(Head(queue).conn) /\ Head(queue).conn \in Conns
  BY <1>1, QueueHead DEF Queued, Base
<1>3. conns[Head(queue).conn].server # "none"
  BY <1>2 DEF Calm, Steady
<1>4. queue' = [queue EXCEPT ![1].started = TRUE] /\ room' = room /\ conns' = conns
  BY <1>3 DEF StartWrite
<1>5. \A w \in Range(queue') : \E v \in Range(queue) : w.conn = v.conn /\ w.content = v.content
  <2>1. /\ DOMAIN queue = 1 .. Len(queue) /\ \A i \in 1 .. Len(queue) : queue[i] \in Writes
        /\ DOMAIN queue' = DOMAIN queue
    BY <1>1, <1>4, LenProperties, ElementOfSeq
  <2>2. \A i \in DOMAIN queue : queue'[i].conn = queue[i].conn /\ queue'[i].content = queue[i].content
    BY <1>4, <2>1 DEF Writes
  <2> QED
    BY <2>1, <2>2 DEF Range
<1> QED
  BY <1>1, <1>4, <1>5, QueueCalm

\* The first history gets into the log, and later writes add none.
LEMMA AcceptWriteCalm ==
    ASSUME Base, Calm, timeouts = 0, queue # <<>>,
           AcceptWrite(Head(queue).conn, Head(queue).content),
           queue' = Tail(queue), UNCHANGED <<clients, timeouts>>
    PROVE  Calm'
<1> DEFINE k == Head(queue).conn
           content == Head(queue).content
           out == Answers(k, content)
           L == conns[room.leader].client
<1>1. /\ log' = log \cup content /\ clients' = clients /\ Editors' = Editors
      /\ rejected' = rejected /\ conns \in [Conns -> Connections]
      /\ conns' = Sent(conns, out, {}, 0)
  BY DEF Base, WellTyped, AcceptWrite, Editors, Answers
<1>2. /\ k \in Conns /\ Head(queue) \in Range(queue) /\ content \in Content
      /\ Range(queue') \subseteq Range(queue)
  BY QueueHead DEF Base, Writes
<1>3. log' # {}
  BY <1>1, <1>2 DEF Base, Early
<1> HIDE DEF k
<1>4. \A x \in Conns : out[x] \in Seq(Messages) /\ Range(out[x]) \subseteq {Update(content \ log), Ack, Sync(FALSE)}
  BY <1>2, AnswersAre
<1> HIDE DEF out
<1>5. ASSUME NEW x \in Conns
      PROVE  /\ conns'[x].client = conns[x].client /\ conns'[x].open = conns[x].open
             /\ conns'[x].server = conns[x].server /\ conns'[x].up = conns[x].up
             /\ Range(conns'[x].down) \subseteq
                   Range(conns[x].down) \cup {Update(content \ log), Ack, Sync(FALSE)}
  <2>1. /\ conns'[x].client = conns[x].client /\ conns'[x].open = conns[x].open
        /\ conns'[x].server = conns[x].server /\ conns'[x].up = conns[x].up
        /\ IF conns[x].server = "open" THEN conns'[x].down = conns[x].down \o out[x]
                                       ELSE conns'[x] = conns[x]
    BY <1>1, <1>4, SendsOnly DEF Base
  <2>2. Range(conns[x].down \o out[x]) = Range(conns[x].down) \cup Range(out[x])
    <3>1. conns[x].down \in Seq(Messages) /\ out[x] \in Seq(Messages)
      BY <1>1, <1>4 DEF Connections
    <3> QED
      BY <3>1, ConcatRange
  <2> QED
    BY <1>4, <2>1, <2>2
<1>6. /\ Update(content \ log).type = "update" /\ Update(content \ log).content = content \ log
      /\ Update(content \ log) # Sync(TRUE) /\ Ack.type = "update-ack" /\ Ack # Sync(TRUE)
      /\ Sync(FALSE).type = "sync-complete" /\ Sync(FALSE) # Sync(TRUE)
  BY <1>2, MessagesAre DEF Content
<1>7. /\ \A x \in Conns : Told(x)' => Told(x)
      /\ \A x \in Conns : OfEditor(x)' = OfEditor(x)
      /\ \A x \in Conns : Queued(x)' => Queued(x)
  BY <1>1, <1>2, <1>5, <1>6 DEF Told, OfEditor, Queued
<1>8. ASSUME NEW x \in Conns
      PROVE  Steady(x)'
  BY <1>5, <1>6, <1>7 DEF Calm, Steady
<1>9. /\ OneHistory(log') /\ Histories(content \ log) \subseteq log'
      /\ \A c \in Editors : Histories(clients[c].doc) \subseteq log'
      /\ \A w \in Range(queue) : Histories(w.content) \subseteq log'
      /\ \A x \in Conns : OfEditor(x) =>
            /\ Told(x) => clients[conns[x].client].doc # {}
            /\ \A d \in Range(conns[x].up) : Histories(d) \subseteq log'
            /\ \A m \in Range(conns[x].down) : m.type = "update" => Histories(m.content) \subseteq log'
  <2>1. CASE log = {}
    <3>1. content = {Copy(L, 1)} /\ log' = content /\ clients[L].doc # {}
      BY <1>1, <1>2, <2>1 DEF Calm, Before, First
    <3>2. OneHistory(log') /\ \A d : First(d) => Histories(d) \subseteq log'
      BY <3>1 DEF OneHistory, Histories, First
    <3>3. \A c \in Editors : Histories(clients[c].doc) \subseteq log'
      <4>1. Histories({}) = {}
        BY DEF Histories
      <4> QED
        BY <2>1, <3>2, <4>1 DEF Calm, Before
    <3>4. ASSUME NEW x \in Conns, OfEditor(x)
          PROVE  /\ Told(x) => clients[conns[x].client].doc # {}
                 /\ \A d \in Range(conns[x].up) : Histories(d) \subseteq log'
                 /\ \A m \in Range(conns[x].down) : m.type # "update"
      <4>1. BeforeConn(x) /\ EarlyConn(x)
        BY <2>1 DEF Calm, Before, Base, Early
      <4>2. \A m \in Range(conns[x].down) : m.type # "update"
        BY <4>1 DEF EarlyConn, Opening, Sync
      <4> QED
        BY <3>1, <3>2, <3>4, <4>1, <4>2 DEF BeforeConn
    <3>5. \A w \in Range(queue) : Histories(w.content) \subseteq log'
      BY <2>1, <3>2 DEF Calm, Before
    <3>6. Histories(content \ log) \subseteq log'
      BY <3>1 DEF Histories
    <3> QED
      BY <3>2, <3>3, <3>4, <3>5, <3>6
  <2>2. CASE log # {}
    <3>1. After /\ Histories(content) \subseteq log
      BY <1>2, <2>2 DEF Calm, After
    <3>2. Histories(log') = Histories(log) /\ Histories(content \ log) \subseteq log'
      BY <1>1, <3>1 DEF Histories
    <3>3. OneHistory(log')
      BY <3>1, <3>2 DEF After, OneHistory
    <3> QED
      BY <1>1, <3>1, <3>2, <3>3 DEF After, AfterConn
  <2> QED
    BY <2>1, <2>2
<1>10. ASSUME NEW x \in Conns
       PROVE  AfterConn(x)'
  BY <1>1, <1>5, <1>6, <1>7, <1>9 DEF AfterConn
<1>11. After'
  BY <1>1, <1>2, <1>9, <1>10 DEF After
<1> QED
  BY <1>1, <1>3, <1>8, <1>11 DEF Calm

\* Every step that does not go wrong.
LEMMA CalmNext ==
    ASSUME Base, Calm, failures = 0, timeouts = 0, failures' = 0, timeouts' = 0, [Next]_vars
    PROVE  Calm'
<1>1. ASSUME NEW c \in Clients, Connect(c)
      PROVE  Calm'
  BY <1>1, ConnectCalm
<1>2. ASSUME NEW c \in Typists, Edit(c)
      PROVE  Calm'
  BY <1>2, EditCalm
<1>3. ASSUME NEW k \in Conns, ClientReceive(k)
      PROVE  Calm'
  BY <1>3, ClientReceiveCalm
<1>4. ASSUME Fail
      PROVE  FALSE
  BY <1>4 DEF Fail
<1>5. ASSUME NEW k \in Conns
      PROVE  /\ ~LoseConnection(k) /\ ~HeartbeatTimeout(k)
             /\ ~NoticeServerGone(k) /\ ~NoticeClientGone(k)
  <2>1. Steady(k)
    BY DEF Calm
  <2> QED
    BY <1>4, <2>1 DEF Steady, LoseConnection, HeartbeatTimeout, NoticeServerGone, NoticeClientGone
<1>6. ASSUME NEW k \in Conns, Admit(k)
      PROVE  Calm'
  BY <1>6, AdmitCalm
<1>7. ASSUME NEW k \in Conns, ServerReceive(k)
      PROVE  Calm'
  BY <1>7, ServerReceiveCalm
<1>8. CASE StartWrite
  BY <1>8, StartWriteCalm
<1>9. CASE FinishWrite
  <2>1. /\ queue # <<>> /\ AcceptWrite(Head(queue).conn, Head(queue).content)
        /\ queue' = Tail(queue) /\ UNCHANGED <<clients, timeouts>>
    BY <1>4, <1>9 DEF FinishWrite, FailWrite, RejectBootstrap, LoseCommitOutcome
  <2> QED
    BY <2>1, AcceptWriteCalm
<1>10. CASE LeaderTimeout
  <2>1. /\ room' = [room EXCEPT !.timer = FALSE] /\ conns' = conns
        /\ log' = log /\ queue' = queue /\ clients' = clients /\ rejected' = rejected
    BY <1>10 DEF LeaderTimeout
  <2>2. room'.leader = room.leader
    BY <2>1 DEF Base, WellTyped, Rooms
  <2> QED
    BY <2>1, <2>2, QueueCalm
<1>11. CASE UNCHANGED vars
  <2>1. /\ room' = room /\ conns' = conns
        /\ log' = log /\ queue' = queue /\ clients' = clients /\ rejected' = rejected
    BY <1>11 DEF vars, mishaps
  <2> QED
    BY <2>1, QueueCalm
<1> QED
  BY <1>1, <1>2, <1>3, <1>5, <1>6, <1>7, <1>8, <1>9, <1>10, <1>11 DEF Next, ClientStep, ServerStep

\* The whole invariant.
LEMMA Invariance == Spec => []IInv
<1>1. Init => IInv
  BY BaseInit, CalmInit DEF IInv, Undisturbed
<1>2. IInv /\ [Next]_vars => IInv'
  <2> SUFFICES ASSUME IInv, [Next]_vars
               PROVE  IInv'
    OBVIOUS
  <2>1. Base'
    BY BaseNext DEF IInv
  <2>2. failures \in Nat /\ timeouts \in Nat
    BY SessionAssumption DEF IInv, Base, WellTyped
  <2>3. ASSUME failures' = 0, timeouts' = 0
        PROVE  failures = 0 /\ timeouts = 0
    <3>1. failures' \in {failures, failures + 1} /\ timeouts' \in {timeouts, timeouts + 1}
      BY DEF Next, ClientStep, ServerStep, vars, mishaps, Connect, Edit, ClientReceive, LoseConnection,
             NoticeServerGone, Admit, ServerReceive, NoticeClientGone, HeartbeatTimeout, ServerClose,
             StartWrite, FinishWrite, AcceptWrite, FailWrite, RejectBootstrap, LoseCommitOutcome,
             LeaderTimeout, Fail
    <3> QED
      BY <2>2, <2>3, <3>1
  <2>4. Undisturbed'
    BY <2>3, CalmNext DEF IInv, Undisturbed
  <2> QED
    BY <2>1, <2>4 DEF IInv
<1> QED
  BY <1>1, <1>2, PTL DEF Spec

-----------------------------------------------------------------------------
(***************************************************************************)
(* What follows.                                                           *)
(***************************************************************************)
\* Who waits, who is synced and what is in flight has its type.
THEOREM SessionsTyped == Spec => []TypeOK
<1>1. IInv => TypeOK
  BY DEF IInv, Base, WellTyped, RoomFits, TypeOK
<1> QED
  BY <1>1, Invariance, PTL

\* However leaders come and go, nobody waits in vain.
THEOREM NobodyWaitsInVain == Spec => []WaitersAreServed
<1>1. IInv => WaitersAreServed
  <2> SUFFICES ASSUME Base, ~rejected \/ timeouts = 0
               PROVE  IF log = {}
                      THEN /\ room.waiting # <<>> =>
                                room.leader # NoConn /\ (room.timer \/ room.writePending)
                           /\ room.writePending =>
                                \E i \in DOMAIN queue : queue[i].conn = room.leader
                      ELSE room.waiting = <<>> /\ room.leader = NoConn
    BY DEF IInv, WaitersAreServed
  <2>1. ASSUME log = {}, room.writePending
        PROVE  \E i \in DOMAIN queue : queue[i].conn = room.leader
    <3>1. queue # <<>> /\ \A w \in Range(queue) : w.conn = room.leader
      BY <2>1 DEF Base, Served
    <3>2. 1 \in DOMAIN queue
      BY <3>1, LenProperties, EmptySeq DEF Base, WellTyped
    <3> QED
      BY <3>1, <3>2 DEF Range
  <2> QED
    BY <2>1 DEF Base, Served
<1> QED
  BY <1>1, Invariance, PTL

\* As long as nothing goes wrong, the page has at most one initial history.
THEOREM OneHistoryWhileCalm == Spec => []OneHistoryUndisturbed
<1>1. IInv => OneHistoryUndisturbed
  <2>1. Calm => OneHistory(log)
    BY DEF Calm, After, OneHistory, Histories
  <2> QED
    BY <2>1 DEF IInv, Undisturbed, OneHistoryUndisturbed
<1> QED
  BY <1>1, Invariance, PTL

==============================================================================
