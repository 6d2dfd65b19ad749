------------------------- MODULE PageTransitionProofs -------------------------
(***************************************************************************)
(* Proofs about PageTransition, for any tabs, pages and workspaces.        *)
(***************************************************************************)
EXTENDS PageTransition, SequenceFacts

Requests == [tab : Tabs, mode : {"shared", "exclusive"}]

\* A queue that holds every request at most once.
Queue(q) == q \in Seq(Requests) /\ IsInjective(q)

\* What became of the queue does not touch request r.
Undisturbed(r, q, now) ==
    /\ r \in Range(q) <=> r \in Range(now)
    /\ Grants(q, r) => Grants(now, r)

-----------------------------------------------------------------------------
(***************************************************************************)
(* Queues                                                                  *)
(***************************************************************************)
\* A request joins a queue: the others keep their places.
LEMMA Joining ==
    ASSUME NEW q, Queue(q), NEW r \in Requests, r \notin Range(q)
    PROVE  /\ Queue(Append(q, r)) /\ r \in Range(Append(q, r))
           /\ \A x \in Requests \ {r} : Undisturbed(x, q, Append(q, r))
<1> DEFINE n == Len(q) + 1
           now == Append(q, r)
<1>1. /\ q \in Seq(Requests) /\ Len(q) \in Nat /\ DOMAIN q = 1 .. Len(q)
      /\ \A i, j \in 1 .. Len(q) : q[i] = q[j] => i = j
  BY LenProperties DEF Queue, IsInjective
<1>2. /\ now \in Seq(Requests) /\ DOMAIN now = 1 .. n /\ now[n] = r
      /\ \A i \in 1 .. Len(q) : now[i] = q[i]
  BY <1>1
<1>3. \A i \in 1 .. Len(q) : q[i] # r
  BY <1>1 DEF Range
<1> HIDE DEF now
<1>4. Queue(now) /\ r \in Range(now)
  BY <1>1, <1>2, <1>3 DEF Queue, IsInjective, Range
<1>5. ASSUME NEW x \in Requests, x # r
      PROVE  Undisturbed(x, q, now)
  <2>1. x \in Range(q) <=> x \in Range(now)
    BY <1>1, <1>2, <1>5 DEF Range
  <2>2. ASSUME Grants(q, x)
        PROVE  Grants(now, x)
    <3>1. PICK i \in 1 .. Len(q) : /\ q[i] = x
                                   /\ \A j \in 1 .. i - 1 : x.mode = "shared" /\ q[j].mode = "shared"
      BY <1>1, <2>2 DEF Grants
    <3> QED
      BY <1>1, <1>2, <3>1 DEF Grants
  <2> QED
    BY <2>1, <2>2 DEF Undisturbed
<1> QED
  BY <1>4, <1>5 DEF now

\* A request leaves a queue: those behind it move up.
LEMMA Leaving ==
    ASSUME NEW q, Queue(q), NEW r \in Requests
    PROVE  /\ Queue(Without(q, r)) /\ r \notin Range(Without(q, r))
           /\ \A x \in Requests \ {r} : Undisturbed(x, q, Without(q, r))
<1>1. /\ q \in Seq(Requests) /\ Len(q) \in Nat /\ DOMAIN q = 1 .. Len(q)
      /\ \A i, j \in 1 .. Len(q) : q[i] = q[j] => i = j
  BY LenProperties DEF Queue, IsInjective
<1>2. CASE r \notin Range(q)
  BY <1>2 DEF Without, Undisturbed
<1>3. CASE r \in Range(q)
  <2> DEFINE k == CHOOSE i \in DOMAIN q : q[i] = r
             now == RemoveAt(q, k)
  <2>1. k \in 1 .. Len(q) /\ q[k] = r
    BY <1>1, <1>3 DEF Range
  <2> HIDE DEF k
  <2>2. /\ now \in Seq(Requests) /\ Len(now) = Len(q) - 1
        /\ \A i \in 1 .. Len(q) - 1 : now[i] = IF i < k THEN q[i] ELSE q[i + 1]
    BY <1>1, <2>1, RemoveAtIs
  <2>3. now = Without(q, r)
    BY <1>3 DEF Without, k
  <2> HIDE DEF now
  <2>4. DOMAIN now = 1 .. Len(q) - 1
    BY <2>2, LenProperties
  <2>5. \A i \in 1 .. Len(q) - 1 : now[i] # r
    BY <1>1, <2>1, <2>2
  <2>6. r \notin Range(now)
    BY <2>4, <2>5 DEF Range
  <2>7. Queue(now)
    <3>1. ASSUME NEW i \in 1 .. Len(q) - 1, NEW j \in 1 .. Len(q) - 1, now[i] = now[j]
          PROVE  i = j
      BY <1>1, <2>1, <2>2, <3>1
    <3> QED
      BY <2>2, <2>4, <3>1 DEF Queue, IsInjective
  <2>8. ASSUME NEW x \in Requests, x # r
        PROVE  Undisturbed(x, q, now)
    <3>1. ASSUME NEW i \in 1 .. Len(q), q[i] = x
          PROVE  \E m \in 1 .. Len(q) - 1 : now[m] = x /\ m <= i
      <4>1. CASE i < k
        BY <1>1, <2>1, <2>2, <3>1, <4>1
      <4>2. CASE i > k
        <5>1. i - 1 \in 1 .. Len(q) - 1 /\ now[i - 1] = q[i]
          BY <1>1, <2>1, <2>2, <4>2
        <5> QED
          BY <3>1, <5>1
      <4> QED
        BY <1>1, <2>1, <2>8, <3>1, <4>1, <4>2
    <3>2. x \in Range(now) => x \in Range(q)
      BY <1>1, <2>1, <2>2, <2>4 DEF Range
    <3>3. x \in Range(q) => x \in Range(now)
      BY <1>1, <2>4, <3>1 DEF Range
    <3>4. ASSUME Grants(q, x)
          PROVE  Grants(now, x)
      <4>1. PICK i \in 1 .. Len(q) :
                /\ q[i] = x
                /\ \A j \in 1 .. i - 1 : x.mode = "shared" /\ q[j].mode = "shared"
        BY <1>1, <3>4 DEF Grants
      <4>2. CASE i < k
        BY <1>1, <2>1, <2>2, <2>4, <4>1, <4>2 DEF Grants
      <4>3. CASE i > k
        <5>1. i - 1 \in 1 .. Len(q) - 1 /\ now[i - 1] = x
          BY <1>1, <2>1, <2>2, <4>1, <4>3
        <5>2. \A j \in 1 .. i - 2 : x.mode = "shared" /\ now[j].mode = "shared"
          BY <1>1, <2>1, <2>2, <4>1, <4>3
        <5> QED
          BY <2>4, <5>1, <5>2 DEF Grants
      <4> QED
        BY <1>1, <2>1, <2>8, <4>1, <4>2, <4>3
    <3> QED
      BY <3>2, <3>3, <3>4 DEF Undisturbed
  <2> QED
    BY <2>3, <2>6, <2>7, <2>8
<1> QED
  BY <1>2, <1>3

\* Nobody shares a lock that is held exclusively.
LEMMA HeldAlone ==
    ASSUME NEW q, Queue(q), NEW t \in Tabs, NEW u \in Tabs,
           Grants(q, Request(t, "exclusive")), Grants(q, Request(u, "shared"))
    PROVE  FALSE
<1>1. Len(q) \in Nat /\ DOMAIN q = 1 .. Len(q)
  BY LenProperties DEF Queue
<1>2. 1 \in DOMAIN q /\ q[1].mode = "exclusive"
  BY <1>1 DEF Grants, Request
<1>3. q[1].mode = "shared"
  BY <1>1 DEF Grants, Request
<1> QED
  BY <1>2, <1>3
-----------------------------------------------------------------------------
(***************************************************************************)
(* The inductive invariant                                                 *)
(***************************************************************************)
TabRecords == [page : Pages \cup {None}, session : Sessions \cup {None},
               transition : Transitions \cup {None},
               unsaved : {"none", "typed", "recovered"}]

\* The locks that a session has asked for, and those it has.
Asked(session) ==
    IF session = None \/ session.spent THEN {}
    ELSE {WriterLockIds(session.page)[i] : i \in 1 .. session.asked}

Got(session) ==
    IF session = None \/ session.spent THEN {}
    ELSE IF session.acquired THEN ScopesOf(session.page)
    ELSE {WriterLockIds(session.page)[i] : i \in 1 .. session.asked - 1}

\* What tab t has in the queues is what its session asked for ...
SessionFits(t, session, ws) ==
    /\ \A s \in Scopes : Request(t, "shared") \in Range(ws[s]) <=> s \in Asked(session)
    /\ \A s \in Got(session) : Grants(ws[s], Request(t, "shared"))
    /\ session # None /\ session.acquired => session.asked = 2 /\ ~session.spent

\* ... and what its transition did.
TransitionFits(t, transition, ws) ==
    /\ \A s \in Scopes : Request(t, "exclusive") \in Range(ws[s])
            <=> transition # None /\ transition.scope = s /\ transition.phase # "draining"
    /\ transition # None /\ transition.phase = "acting"
            => Grants(ws[transition.scope], Request(t, "exclusive"))

\* What was typed is in the session that had all its locks, and has not let go.
UnsavedFits(tab) ==
    /\ tab.unsaved # "none" => tab.page \in Pages
    /\ tab.unsaved = "typed" =>
        /\ tab.session # None /\ tab.session.page = tab.page
        /\ tab.session.acquired /\ tab.session.stop # "release"

TabFits(t, tab, ws) ==
    /\ tab \in TabRecords /\ UnsavedFits(tab)
    /\ SessionFits(t, tab.session, ws) /\ TransitionFits(t, tab.transition, ws)

Queues(ws) == ws \in [Scopes -> Seq(Requests)] /\ \A s \in Scopes : Queue(ws[s])

TabsFit(ts, ws) == ts \in [Tabs -> TabRecords] /\ \A t \in Tabs : TabFits(t, ts[t], ws)

\* Transitions of two tabs have no scope in common.
Apart(ts) ==
    \A t, u \in Tabs : t # u /\ ts[t].transition # None /\ ts[u].transition # None
        => ScopesOf(ts[t].transition.scope) \cap ScopesOf(ts[u].transition.scope) = {}

\* A lease names the workspace it locks.
LeasesFit(ls) ==
    /\ ls \in [Scopes -> Leases \cup {None}]
    /\ \A s \in Scopes : ls[s] # None => ls[s].exclusive = Lease(ls[s].tab, s).exclusive

Stands(ts, ls) ==
    \A t \in Tabs : ts[t].transition # None /\ ts[t].transition.leased
        => ls[ts[t].transition.scope] # None /\ ls[ts[t].transition.scope].tab = t

Bounded == told \subseteq Tabs /\ drafts \subseteq Pages /\ losses \in 0 .. MaxLosses

Inv ==
    /\ Queues(writers) /\ TabsFit(tabs, writers)
    /\ LeasesFit(leases) /\ Apart(tabs) /\ Stands(tabs, leases) /\ Bounded

-----------------------------------------------------------------------------
(***************************************************************************)
(* Scopes and sessions                                                     *)
(***************************************************************************)
LEMMA Locks ==
    ASSUME NEW p \in Pages
    PROVE  /\ WriterLockIds(p)[1] \in Scopes /\ WriterLockIds(p)[2] \in Scopes
           /\ WriterLockIds(p)[1] # WriterLockIds(p)[2] /\ Len(WriterLockIds(p)) = 2
           /\ ScopesOf(p) = {WriterLockIds(p)[1], WriterLockIds(p)[2]}
<1>1. Workspace[p] \in Workspaces /\ Workspace[p] # p
  BY TransitionAssumption
<1>2. WriterLockIds(p) = <<p, Workspace[p]>> \/ WriterLockIds(p) = <<Workspace[p], p>>
  BY DEF WriterLockIds
<1> QED
  BY <1>1, <1>2 DEF ScopesOf, Scopes

LEMMA ScopesInside ==
    ASSUME NEW s \in Scopes \cup {None}
    PROVE  ScopesOf(s) \subseteq Scopes /\ (s # None => s \in ScopesOf(s))
BY TransitionAssumption DEF ScopesOf, Scopes

LEMMA NoPage == ScopesOf(None) = {}
BY TransitionAssumption DEF ScopesOf

LEMMA AsksAre ==
    ASSUME NEW session \in Sessions, ~session.spent
    PROVE  /\ session.asked = 1 => Asked(session) = {WriterLockIds(session.page)[1]}
           /\ session.asked = 2 => Asked(session) = ScopesOf(session.page)
           /\ Asked(session) \subseteq Scopes
           /\ session.acquired => Got(session) = ScopesOf(session.page)
           /\ ~session.acquired /\ session.asked = 1 => Got(session) = {}
           /\ ~session.acquired /\ session.asked = 2 => Got(session) = {WriterLockIds(session.page)[1]}
<1>1. session.page \in Pages /\ session # None /\ session.asked \in {1, 2}
  BY NoneAssumption DEF Sessions
<1>2. {WriterLockIds(session.page)[i] : i \in 1 .. 1} = {WriterLockIds(session.page)[1]}
  OBVIOUS
<1>3. {WriterLockIds(session.page)[i] : i \in 1 .. 2} = ScopesOf(session.page)
  BY <1>1, Locks
<1>4. {WriterLockIds(session.page)[i] : i \in 1 .. 0} = {}
  OBVIOUS
<1>5. session.asked = 1 => session.asked - 1 = 0
  OBVIOUS
<1>6. session.asked = 2 => session.asked - 1 = 1
  OBVIOUS
<1>7. ScopesOf(session.page) \subseteq Scopes
  BY <1>1, ScopesInside DEF Scopes
<1> QED
  BY <1>1, <1>2, <1>3, <1>4, <1>5, <1>6, <1>7, Locks DEF Asked, Got

\* The queues changed, but not for tab t.
Unmoved(t, ws, now) ==
    \A s \in Scopes : \A mode \in {"shared", "exclusive"} :
        Undisturbed(Request(t, mode), ws[s], now[s])

LEMMA GotInside ==
    ASSUME NEW session \in Sessions \cup {None}
    PROVE  Got(session) \subseteq Scopes
<1>1. CASE session = None \/ session.spent
  BY <1>1 DEF Got
<1>2. CASE session # None /\ ~session.spent
  <2>1. session.asked \in {1, 2} /\ session.acquired \in BOOLEAN /\ session.page \in Pages
    BY <1>2 DEF Sessions
  <2>2. ScopesOf(session.page) \subseteq Scopes /\ WriterLockIds(session.page)[1] \in Scopes
    BY <2>1, ScopesInside, Locks DEF Scopes
  <2> QED
    BY <1>2, <2>1, <2>2, AsksAre
<1> QED
  BY <1>1, <1>2

LEMMA SessionStays ==
    ASSUME NEW t \in Tabs, NEW session \in Sessions \cup {None}, NEW ws, NEW now,
           SessionFits(t, session, ws),
           \A s \in Scopes : Undisturbed(Request(t, "shared"), ws[s], now[s])
    PROVE  SessionFits(t, session, now)
BY GotInside DEF SessionFits, Undisturbed

LEMMA TransitionStays ==
    ASSUME NEW t \in Tabs, NEW transition \in Transitions \cup {None}, NEW ws, NEW now,
           TransitionFits(t, transition, ws),
           \A s \in Scopes : Undisturbed(Request(t, "exclusive"), ws[s], now[s])
    PROVE  TransitionFits(t, transition, now)
<1>1. transition # None => transition.scope \in Scopes
  BY DEF Transitions
<1> QED
  BY <1>1 DEF TransitionFits, Undisturbed

LEMMA TabStays ==
    ASSUME NEW t \in Tabs, NEW tab, NEW ws, NEW now, TabFits(t, tab, ws), Unmoved(t, ws, now)
    PROVE  TabFits(t, tab, now)
<1>1. tab.session \in Sessions \cup {None} /\ tab.transition \in Transitions \cup {None}
  BY DEF TabFits, TabRecords
<1> QED
  BY <1>1, SessionStays, TransitionStays DEF TabFits, Unmoved

\* Requests of tabs and modes that differ are different.
LEMMA RequestsDiffer ==
    ASSUME NEW t \in Tabs, NEW u \in Tabs,
           NEW m \in {"shared", "exclusive"}, NEW n \in {"shared", "exclusive"}
    PROVE  /\ Request(t, m) \in Requests
           /\ Request(t, m) = Request(u, n) => t = u /\ m = n
BY DEF Request, Requests

\* A request joins one queue, or leaves some.
Joined(ws, x, r) == [ws EXCEPT ![x] = Append(@, r)]

Left(ws, X, r) == [s \in Scopes |-> IF s \in X THEN Without(ws[s], r) ELSE ws[s]]

LEMMA QueueJoined ==
    ASSUME NEW ws, Queues(ws), NEW t \in Tabs, NEW m \in {"shared", "exclusive"},
           NEW x \in Scopes, Request(t, m) \notin Range(ws[x]),
           NEW now, now = Joined(ws, x, Request(t, m))
    PROVE  /\ Queues(now) /\ Request(t, m) \in Range(now[x])
           /\ \A s \in Scopes \ {x} : now[s] = ws[s]
           /\ \A u \in Tabs, n \in {"shared", "exclusive"} : u # t \/ n # m
                => \A s \in Scopes : Undisturbed(Request(u, n), ws[s], now[s])
<1>1. Queue(ws[x]) /\ Request(t, m) \in Requests
  BY RequestsDiffer DEF Queues
<1>2. /\ Queue(Append(ws[x], Request(t, m)))
      /\ Request(t, m) \in Range(Append(ws[x], Request(t, m)))
      /\ \A r \in Requests \ {Request(t, m)} : Undisturbed(r, ws[x], Append(ws[x], Request(t, m)))
  BY <1>1, Joining
<1>3. now \in [Scopes -> Seq(Requests)] /\ now[x] = Append(ws[x], Request(t, m))
      /\ \A s \in Scopes \ {x} : now[s] = ws[s]
  BY <1>2 DEF Queues, Queue, Joined
<1>4. \A r, q : Undisturbed(r, q, q)
  BY DEF Undisturbed
<1>5. ASSUME NEW u \in Tabs, NEW n \in {"shared", "exclusive"}, u # t \/ n # m, NEW s \in Scopes
      PROVE  Undisturbed(Request(u, n), ws[s], now[s])
  <2>1. Request(u, n) \in Requests \ {Request(t, m)}
    BY <1>5, RequestsDiffer
  <2> QED
    BY <1>2, <1>3, <1>4, <2>1
<1> QED
  BY <1>2, <1>3, <1>5 DEF Queues

LEMMA QueuesLeft ==
    ASSUME NEW ws, Queues(ws), NEW t \in Tabs, NEW m \in {"shared", "exclusive"},
           NEW X \in SUBSET Scopes,
           NEW now, now = Left(ws, X, Request(t, m))
    PROVE  /\ Queues(now) /\ \A s \in X : Request(t, m) \notin Range(now[s])
           /\ \A s \in Scopes \ X : now[s] = ws[s]
           /\ \A u \in Tabs, n \in {"shared", "exclusive"} : u # t \/ n # m
                => \A s \in Scopes : Undisturbed(Request(u, n), ws[s], now[s])
<1>1. Request(t, m) \in Requests /\ \A s \in Scopes : Queue(ws[s])
  BY RequestsDiffer DEF Queues
<1>2. ASSUME NEW s \in Scopes
      PROVE  /\ Queue(Without(ws[s], Request(t, m)))
             /\ Request(t, m) \notin Range(Without(ws[s], Request(t, m)))
             /\ \A r \in Requests \ {Request(t, m)} :
                    Undisturbed(r, ws[s], Without(ws[s], Request(t, m)))
  BY <1>1, Leaving
<1>3. /\ \A s \in X : now[s] = Without(ws[s], Request(t, m))
      /\ \A s \in Scopes \ X : now[s] = ws[s]
  BY DEF Left
<1>4. \A r, q : Undisturbed(r, q, q)
  BY DEF Undisturbed
<1>5. ASSUME NEW u \in Tabs, NEW n \in {"shared", "exclusive"}, u # t \/ n # m, NEW s \in Scopes
      PROVE  Undisturbed(Request(u, n), ws[s], now[s])
  <2>1. Request(u, n) \in Requests \ {Request(t, m)}
    BY <1>5, RequestsDiffer
  <2> QED
    BY <1>2, <1>3, <1>4, <2>1
<1>6. \A s \in Scopes : Queue(now[s])
  BY <1>1, <1>2, <1>3
<1>7. now \in [Scopes -> Seq(Requests)]
  BY <1>6 DEF Queue, Left
<1> QED
  BY <1>2, <1>3, <1>5, <1>6, <1>7 DEF Queues
-----------------------------------------------------------------------------
(***************************************************************************)
(* The last step of everything a tab does                                  *)
(***************************************************************************)
\* now is tab after its session was started, or told to stop.
Follows(tab, now) ==
    /\ now \in TabRecords /\ UnsavedFits(now) /\ now.transition = tab.transition
    /\ \/ tab.session = None /\ now.session = None
       \/ /\ tab.session = None /\ now.page \in Pages
          /\ \E how \in {"no", "flush", "release"} :
                now.session = [Session(now.page) EXCEPT !.stop = how]
       \/ /\ tab.session # None
          /\ \E how \in {"no", "flush", "release"} : now.session = [tab.session EXCEPT !.stop = how]

LEMMA SessionTypes ==
    /\ \A p \in Pages : Session(p) \in Sessions
    /\ \A session \in Sessions : \A how \in {"no", "flush", "release"} :
        /\ [session EXCEPT !.stop = how] \in Sessions
        /\ [session EXCEPT !.stop = session.stop] = session
    /\ \A session \in Sessions : session # None
BY NoneAssumption DEF Session, Sessions

\* How a session stops makes no difference to its locks.
LEMMA StopsAlike ==
    ASSUME NEW session \in Sessions, NEW how \in {"no", "flush", "release"},
           NEW stopped, stopped = [session EXCEPT !.stop = how]
    PROVE  /\ stopped \in Sessions /\ stopped.page = session.page /\ stopped.asked = session.asked
           /\ stopped.acquired = session.acquired /\ stopped.spent = session.spent
           /\ stopped.stop = how
           /\ Asked(stopped) = Asked(session) /\ Got(stopped) = Got(session)
           /\ \A t, ws : SessionFits(t, session, ws) => SessionFits(t, stopped, ws)
<1>1. /\ stopped \in Sessions /\ stopped.page = session.page /\ stopped.asked = session.asked
      /\ stopped.acquired = session.acquired /\ stopped.spent = session.spent
      /\ stopped.stop = how
  BY DEF Sessions
<1>2. stopped # None /\ session # None
  BY <1>1, SessionTypes
<1>3. Asked(stopped) = Asked(session) /\ Got(stopped) = Got(session)
  BY <1>1, <1>2 DEF Asked, Got
<1>4. \A t, ws : SessionFits(t, session, ws) => SessionFits(t, stopped, ws)
  BY <1>1, <1>2, <1>3 DEF SessionFits
<1> QED
  BY <1>1, <1>3, <1>4

\* Fields of a tab.
LEMMA TabParts ==
    ASSUME NEW tab \in TabRecords
    PROVE  /\ tab.page \in Pages \cup {None} /\ tab.session \in Sessions \cup {None}
           /\ tab.transition \in Transitions \cup {None}
           /\ tab.unsaved \in {"none", "typed", "recovered"}
BY DEF TabRecords

\* A tab with another session, transition or edit.
LEMMA SessionPut ==
    ASSUME NEW tab \in TabRecords, NEW x \in Sessions \cup {None},
           NEW now, now = [tab EXCEPT !.session = x]
    PROVE  /\ now \in TabRecords /\ now.session = x /\ now.page = tab.page
           /\ now.transition = tab.transition /\ now.unsaved = tab.unsaved
BY DEF TabRecords

LEMMA TransitionPut ==
    ASSUME NEW tab \in TabRecords, NEW x \in Transitions \cup {None},
           NEW now, now = [tab EXCEPT !.transition = x]
    PROVE  /\ now \in TabRecords /\ now.transition = x /\ now.page = tab.page
           /\ now.session = tab.session /\ now.unsaved = tab.unsaved
BY DEF TabRecords

LEMMA UnsavedPut ==
    ASSUME NEW tab \in TabRecords, NEW x \in {"none", "typed", "recovered"},
           NEW now, now = [tab EXCEPT !.unsaved = x]
    PROVE  /\ now \in TabRecords /\ now.unsaved = x /\ now.page = tab.page
           /\ now.session = tab.session /\ now.transition = tab.transition
BY DEF TabRecords

LEMMA StoppingIs ==
    ASSUME NEW session \in Sessions, NEW how \in {"flush", "release"}
    PROVE  \E now \in {"no", "flush", "release"} :
             /\ Stopping(session, how) = [session EXCEPT !.stop = now]
             /\ now \in {session.stop, how}
<1>1. session # None /\ session.stop \in {"no", "flush", "release"}
      /\ [session EXCEPT !.stop = session.stop] = session
  BY SessionTypes DEF Sessions
<1> QED
  BY <1>1 DEF Stopping

\* syncPageModeUi starts a session, or has it stop.
LEMMA SyncFollows ==
    ASSUME NEW tab \in TabRecords, UnsavedFits(tab), NEW ls
    PROVE  Follows(tab, Synced(tab, ls))
<1> DEFINE session == SessionSynced(tab, ls)
           now == Synced(tab, ls)
<1>1. now = [tab EXCEPT !.session = session]
  BY DEF Synced
<1>2. tab.page \in Pages \cup {None} /\ tab.session \in Sessions \cup {None}
  BY TabParts
<1>3. CASE tab.session = None
  <2>1. session = None \/ (tab.page \in Pages /\ session = Session(tab.page))
    BY <1>2, <1>3 DEF SessionSynced
  <2>2. session \in Sessions \cup {None}
    BY <2>1, SessionTypes
  <2> HIDE DEF session, now
  <2>3. /\ now \in TabRecords /\ now.session = session /\ now.page = tab.page
        /\ now.transition = tab.transition /\ now.unsaved = tab.unsaved
    BY <1>1, <2>2, SessionPut
  <2>4. UnsavedFits(now)
    BY <1>3, <2>3 DEF UnsavedFits
  <2>5. \A p \in Pages : Session(p) = [Session(p) EXCEPT !.stop = "no"]
    <3>1. \A p \in Pages : Session(p).stop = "no"
      BY DEF Session
    <3> QED
      BY <3>1, SessionTypes
  <2> QED
    BY <1>3, <2>1, <2>3, <2>4, <2>5 DEF Follows, now
<1>4. CASE tab.session # None /\ tab.session.page = tab.page
  <2>1. session = tab.session
    BY <1>4 DEF SessionSynced
  <2>2. session = [tab.session EXCEPT !.stop = tab.session.stop]
        /\ tab.session.stop \in {"no", "flush", "release"}
    BY <1>2, <1>4, <2>1, SessionTypes DEF Sessions
  <2> HIDE DEF session, now
  <2>3. now = tab
    BY <1>1, <2>1 DEF TabRecords
  <2> QED
    BY <1>4, <2>1, <2>2, <2>3 DEF Follows, now
<1>5. CASE tab.session # None /\ tab.session.page # tab.page
  <2>1. session = Stopping(tab.session, "release")
    BY <1>5 DEF SessionSynced
  <2>2. PICK how \in {"no", "flush", "release"} : session = [tab.session EXCEPT !.stop = how]
    BY <1>2, <1>5, <2>1, StoppingIs
  <2>3. session \in Sessions
    BY <1>2, <1>5, <2>2, StopsAlike
  <2> HIDE DEF session, now
  <2>4. /\ now \in TabRecords /\ now.session = session /\ now.page = tab.page
        /\ now.transition = tab.transition /\ now.unsaved = tab.unsaved
    BY <1>1, <2>3, SessionPut
  <2>5. UnsavedFits(now)
    BY <1>5, <2>4 DEF UnsavedFits
  <2> QED
    BY <1>5, <2>2, <2>4, <2>5 DEF Follows, now
<1> QED
  BY <1>3, <1>4, <1>5

\* stopPageWriterSession after it.
LEMMA StopFollows ==
    ASSUME NEW tab \in TabRecords, NEW now, Follows(tab, now)
    PROVE  Follows(tab, Stopped(now))
<1> DEFINE stopped == Stopped(now)
<1>1. stopped = [now EXCEPT !.session = Stopping(now.session, "flush")]
  BY DEF Stopped
<1>2. now \in TabRecords /\ now.session \in Sessions \cup {None}
  BY TabParts DEF Follows
<1>3. CASE now.session = None
  <2>1. stopped = now
    BY <1>1, <1>2, <1>3 DEF Stopping, TabRecords
  <2> QED
    BY <2>1
<1>4. CASE now.session # None
  <2>1. PICK how \in {"no", "flush", "release"} :
          /\ Stopping(now.session, "flush") = [now.session EXCEPT !.stop = how]
          /\ how \in {now.session.stop, "flush"}
    BY <1>2, <1>4, StoppingIs
  <2> DEFINE session == [now.session EXCEPT !.stop = how]
  <2>2. /\ session \in Sessions /\ session # None /\ session.page = now.session.page
        /\ session.acquired = now.session.acquired /\ session.stop = how
    BY <1>2, <1>4, StopsAlike, SessionTypes
  <2>x. stopped = [now EXCEPT !.session = session]
    BY <1>1, <2>1
  <2> HIDE DEF session, stopped
  <2>3. /\ stopped \in TabRecords /\ stopped.session = session /\ stopped.page = now.page
        /\ stopped.transition = now.transition /\ stopped.unsaved = now.unsaved
    BY <1>2, <2>2, <2>x, SessionPut
  <2>4. UnsavedFits(stopped)
    BY <1>4, <2>1, <2>2, <2>3 DEF UnsavedFits, Follows
  <2>5. \A x \in Sessions, a, b \in {"no", "flush", "release"} :
            [[x EXCEPT !.stop = a] EXCEPT !.stop = b] = [x EXCEPT !.stop = b]
    BY DEF Sessions
  <2>6. CASE tab.session = None
    <3>1. now.page \in Pages /\ \E was \in {"no", "flush", "release"} :
              now.session = [Session(now.page) EXCEPT !.stop = was]
      BY <1>4, <2>6 DEF Follows
    <3>2. session = [Session(now.page) EXCEPT !.stop = how]
      BY <2>5, <3>1, SessionTypes DEF session
    <3> QED
      BY <2>3, <2>4, <2>6, <3>1, <3>2 DEF Follows, stopped
  <2>7. CASE tab.session # None
    <3>1. \E was \in {"no", "flush", "release"} : now.session = [tab.session EXCEPT !.stop = was]
      BY <2>7 DEF Follows
    <3>2. tab.session \in Sessions
      BY <2>7, TabParts
    <3>3. session = [tab.session EXCEPT !.stop = how]
      BY <2>5, <3>1, <3>2 DEF session
    <3> QED
      BY <2>3, <2>4, <2>7, <3>3 DEF Follows, stopped
  <2> QED
    BY <2>6, <2>7
<1> QED
  BY <1>3, <1>4

\* Turns: the queues and the tabs fit again.
LEMMA Turned ==
    ASSUME Queues(writers), TabsFit(tabs, writers), NEW t \in Tabs,
           NEW tab \in TabRecords, NEW now, NEW ws, Queues(ws),
           \A u \in Tabs \ {t} : TabFits(u, tabs[u], ws),
           SessionFits(t, tab.session, ws), TransitionFits(t, tab.transition, ws),
           Follows(tab, now), Turns(t, tab, now, ws)
    PROVE  /\ Queues(writers') /\ TabsFit(tabs', writers')
           /\ tabs' = [tabs EXCEPT ![t] = now] /\ now.transition = tab.transition
<1>1. /\ now \in TabRecords /\ UnsavedFits(now) /\ now.transition = tab.transition
      /\ tabs' = [tabs EXCEPT ![t] = now]
  BY DEF Follows, Turns
<1>2. /\ tab.session \in Sessions \cup {None} /\ tab.transition \in Transitions \cup {None}
      /\ now.session \in Sessions \cup {None}
  BY <1>1, TabParts
<1>3. SUFFICES /\ Queues(writers') /\ SessionFits(t, now.session, writers')
               /\ TransitionFits(t, tab.transition, writers')
               /\ \A u \in Tabs \ {t} : TabFits(u, tabs[u], writers')
  <2>1. tabs' \in [Tabs -> TabRecords] /\ tabs'[t] = now /\ \A u \in Tabs \ {t} : tabs'[u] = tabs[u]
    BY <1>1 DEF TabsFit
  <2> QED
    BY <1>1, <2>1, <1>3 DEF TabsFit, TabFits
<1>4. CASE tab.session = None /\ now.session # None
  <2> DEFINE x == WriterLockIds(now.page)[1]
  <2>1. PICK how \in {"no", "flush", "release"} : now.page \in Pages
            /\ now.session = [Session(now.page) EXCEPT !.stop = how]
    BY <1>4 DEF Follows
  <2>2. writers' = Joined(ws, x, Request(t, "shared"))
    BY <1>4 DEF Turns, Joined
  <2>3. x \in Scopes
    BY <2>1, Locks
  <2> HIDE DEF x
  <2>4. \A s \in Scopes : Request(t, "shared") \notin Range(ws[s])
    BY <1>4 DEF SessionFits, Asked
  <2>5. /\ Queues(writers') /\ Request(t, "shared") \in Range(writers'[x])
        /\ \A s \in Scopes \ {x} : writers'[s] = ws[s]
        /\ \A u \in Tabs, n \in {"shared", "exclusive"} : u # t \/ n # "shared"
             => \A s \in Scopes : Undisturbed(Request(u, n), ws[s], writers'[s])
    <3>1. Request(t, "shared") \notin Range(ws[x]) /\ "shared" \in {"shared", "exclusive"}
      BY <2>3, <2>4
    <3> QED
      BY <2>2, <2>3, <3>1, QueueJoined
  <2>6. \A u \in Tabs \ {t} : TabFits(u, tabs[u], writers')
    BY <2>5, TabStays DEF Unmoved
  <2>7. TransitionFits(t, tab.transition, writers')
    BY <1>2, <2>5, TransitionStays
  <2>8. SessionFits(t, now.session, writers')
    <3> DEFINE session == Session(now.page)
    <3>1. /\ session \in Sessions /\ session.page = now.page /\ session.asked = 1
          /\ session.acquired = FALSE /\ session.spent = FALSE
      BY <2>1, SessionTypes DEF Session
    <3> HIDE DEF session
    <3>2. Asked(session) = {x} /\ Got(session) = {}
      BY <3>1, AsksAre DEF x
    <3>3. SessionFits(t, session, writers')
      BY <2>4, <2>5, <3>1, <3>2 DEF SessionFits
    <3> QED
      <4>1. now.session = [session EXCEPT !.stop = how]
        BY <2>1 DEF session
      <4> QED
        BY <3>1, <3>3, <4>1, StopsAlike
  <2> QED
    BY <2>5, <2>6, <2>7, <2>8
<1>5. CASE ~(tab.session = None /\ now.session # None)
  <2>1. writers' = ws
    BY <1>5 DEF Turns
  <2>2. SessionFits(t, now.session, ws)
    <3>1. CASE tab.session = None
      BY <1>5, <3>1
    <3>2. CASE tab.session # None
      <4>1. tab.session \in Sessions
        BY <1>2, <3>2
      <4>2. PICK how \in {"no", "flush", "release"} : now.session = [tab.session EXCEPT !.stop = how]
        BY <3>2 DEF Follows
      <4> QED
        BY <4>1, <4>2, StopsAlike
    <3> QED
      BY <3>1, <3>2
  <2> QED
    BY <2>1, <2>2
<1> QED
  BY <1>4, <1>5
LEMMA Becoming ==
    ASSUME Queues(writers), TabsFit(tabs, writers), NEW t \in Tabs,
           NEW tab, NEW ls, NEW ws, Queues(ws),
           \A u \in Tabs \ {t} : TabFits(u, tabs[u], ws),
           TabFits(t, tab, ws), Becomes(t, tab, ls, ws)
    PROVE  /\ Queues(writers') /\ TabsFit(tabs', writers')
           /\ tabs'[t].transition = tab.transition
           /\ \A u \in Tabs \ {t} : tabs'[u] = tabs[u]
<1>1. tab \in TabRecords /\ UnsavedFits(tab) /\ SessionFits(t, tab.session, ws)
      /\ TransitionFits(t, tab.transition, ws)
  BY DEF TabFits
<1>2. Follows(tab, Synced(tab, ls))
  BY <1>1, SyncFollows
<1>3. Turns(t, tab, Synced(tab, ls), ws)
  BY DEF Becomes
<1>4. /\ Queues(writers') /\ TabsFit(tabs', writers')
      /\ tabs' = [tabs EXCEPT ![t] = Synced(tab, ls)]
      /\ Synced(tab, ls).transition = tab.transition
  BY <1>1, <1>2, <1>3, Turned
<1> QED
  BY <1>4 DEF TabsFit

LEMMA TabIn ==
    ASSUME TabsFit(tabs, writers), NEW t \in Tabs
    PROVE  /\ TabFits(t, tabs[t], writers) /\ tabs[t] \in TabRecords /\ UnsavedFits(tabs[t])
           /\ SessionFits(t, tabs[t].session, writers)
           /\ TransitionFits(t, tabs[t].transition, writers)
           /\ tabs[t].page \in Pages \cup {None} /\ tabs[t].session \in Sessions \cup {None}
           /\ tabs[t].transition \in Transitions \cup {None}
           /\ tabs[t].unsaved \in {"none", "typed", "recovered"}
BY TabParts DEF TabsFit, TabFits

\* The transitions are those there were, or fewer.
Goes(ts, now) ==
    \A u \in Tabs : now[u].transition # None =>
        /\ ts[u].transition # None /\ now[u].transition.scope = ts[u].transition.scope
        /\ now[u].transition.leased => ts[u].transition.leased

LEMMA ApartStays ==
    ASSUME NEW ts, NEW now, Apart(ts), Goes(ts, now)
    PROVE  Apart(now)
BY DEF Apart, Goes

\* Leases of these transitions are still there, in the name of the same tab.
Remain(now, ls, nls) ==
    \A u \in Tabs : now[u].transition # None /\ now[u].transition.leased =>
        LET s == now[u].transition.scope IN
        ls[s] # None /\ ls[s].tab = u => nls[s] # None /\ nls[s].tab = u

LEMMA StandsStays ==
    ASSUME NEW ts, NEW now, NEW ls, NEW nls, Stands(ts, ls), Goes(ts, now), Remain(now, ls, nls)
    PROVE  Stands(now, nls)
BY DEF Stands, Goes, Remain

LEMMA SameLeases ==
    ASSUME NEW ts, NEW now, NEW ls, Apart(ts), Stands(ts, ls), Goes(ts, now)
    PROVE  Apart(now) /\ Stands(now, ls)
BY ApartStays, StandsStays DEF Remain

\* A lease is removed, or gets another time to live.
LEMMA LeasePut ==
    ASSUME NEW ls, LeasesFit(ls), NEW s \in Scopes
    PROVE  /\ LeasesFit([ls EXCEPT ![s] = None])
           /\ ls[s] # None => \A expired \in BOOLEAN : LeasesFit([ls EXCEPT ![s].expired = expired])
<1>1. ls[s] # None => ls[s] \in Leases
  BY DEF LeasesFit
<1>2. \A lease \in Leases, expired \in BOOLEAN :
        /\ [lease EXCEPT !.expired = expired] \in Leases
        /\ [lease EXCEPT !.expired = expired].tab = lease.tab
        /\ [lease EXCEPT !.expired = expired].exclusive = lease.exclusive
  BY DEF Leases
<1>3. LeasesFit([ls EXCEPT ![s] = None])
  BY DEF LeasesFit
<1>4. ASSUME ls[s] # None, NEW expired \in BOOLEAN
      PROVE  LeasesFit([ls EXCEPT ![s].expired = expired])
  <2> DEFINE lease == [ls[s] EXCEPT !.expired = expired]
  <2>1. lease \in Leases /\ lease.tab = ls[s].tab /\ lease.exclusive = ls[s].exclusive
    BY <1>1, <1>2, <1>4
  <2> HIDE DEF lease
  <2>2. LeasesFit([ls EXCEPT ![s] = lease])
    BY <1>4, <2>1 DEF LeasesFit
  <2> QED
    BY <2>2 DEF lease
<1> QED
  BY <1>3, <1>4

\* Publish: the leases are what they were given to be.
LEMMA Published ==
    ASSUME told \subseteq Tabs, NEW t \in Tabs, NEW ls, Publish(t, ls)
    PROVE  leases' = ls /\ told' \subseteq Tabs
BY DEF Publish

-----------------------------------------------------------------------------
(***************************************************************************)
(* One lemma for each action                                               *)
(***************************************************************************)
LEMMA EditKeeps ==
    ASSUME Inv, NEW t \in Tabs, Edit(t)
    PROVE  Inv'
<1> DEFINE now == [tabs[t] EXCEPT !.unsaved = "typed"]
<1>1. TabsFit(tabs, writers) /\ tabs' = [tabs EXCEPT ![t] = now] /\ UNCHANGED <<writers, leases, told, drafts, losses>>
  BY DEF Inv, Edit
<1>2. tabs[t] \in TabRecords /\ TabFits(t, tabs[t], writers) /\ tabs[t].session \in Sessions \cup {None}
  BY <1>1, TabIn
<1>3. /\ now \in TabRecords /\ now.unsaved = "typed" /\ now.page = tabs[t].page
      /\ now.session = tabs[t].session /\ now.transition = tabs[t].transition
  BY <1>2, UnsavedPut
<1> HIDE DEF now
<1>4. tabs[t].session # None /\ tabs[t].session.page = tabs[t].page /\ tabs[t].session.acquired
      /\ tabs[t].session.stop = "no" /\ tabs[t].page \in Pages
  BY <1>2 DEF Edit, CanEdit, Sessions
<1>5. UnsavedFits(now)
  BY <1>3, <1>4 DEF UnsavedFits
<1>6. TabFits(t, now, writers)
  BY <1>2, <1>3, <1>5 DEF TabFits
<1>7. /\ TabsFit(tabs', writers) /\ tabs'[t] = now /\ \A u \in Tabs \ {t} : tabs'[u] = tabs[u]
  BY <1>1, <1>2, <1>6 DEF TabsFit, TabFits
<1>8. Goes(tabs, tabs')
  BY <1>3, <1>7 DEF Goes
<1> QED
  BY <1>1, <1>7, <1>8, SameLeases DEF Inv, Bounded

LEMMA SaveKeeps ==
    ASSUME Inv, NEW t \in Tabs, Save(t)
    PROVE  Inv'
<1> DEFINE now == [tabs[t] EXCEPT !.unsaved = "none"]
<1>1. TabsFit(tabs, writers) /\ tabs' = [tabs EXCEPT ![t] = now] /\ UNCHANGED <<writers, leases, told, losses>>
      /\ drafts' \subseteq drafts
  BY DEF Inv, Save
<1>2. tabs[t] \in TabRecords /\ TabFits(t, tabs[t], writers)
  BY <1>1, TabIn
<1>3. /\ now \in TabRecords /\ now.unsaved = "none" /\ now.page = tabs[t].page
      /\ now.session = tabs[t].session /\ now.transition = tabs[t].transition
  BY <1>2, UnsavedPut
<1> HIDE DEF now
<1>4. TabFits(t, now, writers)
  BY <1>2, <1>3 DEF TabFits, UnsavedFits
<1>5. /\ TabsFit(tabs', writers) /\ tabs'[t] = now /\ \A u \in Tabs \ {t} : tabs'[u] = tabs[u]
  BY <1>1, <1>2, <1>4 DEF TabsFit, TabFits
<1>6. Goes(tabs, tabs')
  BY <1>3, <1>5 DEF Goes
<1> QED
  BY <1>1, <1>5, <1>6, SameLeases DEF Inv, Bounded

LEMMA OpenKeeps ==
    ASSUME Inv, NEW t \in Tabs, NEW p \in Pages \cup {None}, Open(t, p)
    PROVE  Inv'
<1> DEFINE left == drafts \ (IF tabs[t].unsaved = "none" THEN {} ELSE {tabs[t].page})
           unsaved == IF p \in left THEN "recovered" ELSE "none"
           tab == [tabs[t] EXCEPT !.unsaved = unsaved, !.page = p]
<1>1. /\ Queues(writers) /\ TabsFit(tabs, writers) /\ drafts \subseteq Pages /\ drafts' = left
      /\ UNCHANGED <<leases, told, losses>> /\ Becomes(t, tab, leases, writers)
  BY DEF Inv, Bounded, Open
<1>2. tabs[t] \in TabRecords /\ TabFits(t, tabs[t], writers)
  BY <1>1, TabIn
<1>3. left \subseteq Pages
  BY <1>1
<1>4. unsaved = "none" \/ (unsaved = "recovered" /\ p \in Pages)
  BY <1>3
<1> HIDE DEF left, unsaved
<1>5. /\ tab \in TabRecords /\ tab.unsaved = unsaved /\ tab.page = p
      /\ tab.session = tabs[t].session /\ tab.transition = tabs[t].transition
  BY <1>2, <1>4 DEF TabRecords
<1> HIDE DEF tab
<1>6. TabFits(t, tab, writers)
  BY <1>2, <1>4, <1>5 DEF TabFits, UnsavedFits
<1>7. /\ Queues(writers') /\ TabsFit(tabs', writers') /\ tabs'[t].transition = tab.transition
      /\ \A u \in Tabs \ {t} : tabs'[u] = tabs[u]
  BY <1>1, <1>6, Becoming DEF TabsFit
<1>8. Goes(tabs, tabs')
  BY <1>5, <1>7 DEF Goes
<1> QED
  BY <1>1, <1>3, <1>7, <1>8, SameLeases DEF Inv, Bounded

\* The locks of tab t are given back.
LEMMA Released ==
    ASSUME Queues(writers), TabsFit(tabs, writers), NEW t \in Tabs
    PROVE  LET ws == ReleasedWriter(t) IN
           /\ Queues(ws) /\ \A s \in Scopes : Request(t, "shared") \notin Range(ws[s])
           /\ \A u \in Tabs \ {t} : TabFits(u, tabs[u], ws)
           /\ TransitionFits(t, tabs[t].transition, ws)
<1> DEFINE ws == ReleasedWriter(t)
<1>1. ws = Left(writers, Scopes, Request(t, "shared"))
  BY DEF ReleasedWriter, Left
<1> HIDE DEF ws
<1>2. /\ Queues(ws) /\ \A s \in Scopes : Request(t, "shared") \notin Range(ws[s])
      /\ \A u \in Tabs, n \in {"shared", "exclusive"} : u # t \/ n # "shared"
           => \A s \in Scopes : Undisturbed(Request(u, n), writers[s], ws[s])
  <2>1. "shared" \in {"shared", "exclusive"} /\ Scopes \in SUBSET Scopes
    OBVIOUS
  <2> QED
    BY <1>1, <2>1, QueuesLeft
<1>3. \A u \in Tabs \ {t} : TabFits(u, tabs[u], ws)
  BY <1>2, TabStays DEF TabsFit, Unmoved
<1>4. TransitionFits(t, tabs[t].transition, ws)
  BY <1>2, TabIn, TransitionStays
<1> QED
  BY <1>2, <1>3, <1>4 DEF ws

LEMMA ReleaseSessionKeeps ==
    ASSUME Inv, NEW t \in Tabs, ReleaseSession(t)
    PROVE  Inv'
<1> DEFINE tab == [tabs[t] EXCEPT !.session = None]
           ws == ReleasedWriter(t)
<1>1. /\ Queues(writers) /\ TabsFit(tabs, writers)
      /\ UNCHANGED <<leases, told, drafts, losses>> /\ Becomes(t, tab, leases, ws)
  BY DEF Inv, ReleaseSession
<1>2. tabs[t] \in TabRecords /\ UnsavedFits(tabs[t])
  BY <1>1, TabIn
<1>3. /\ tab \in TabRecords /\ tab.session = None /\ tab.page = tabs[t].page
      /\ tab.transition = tabs[t].transition /\ tab.unsaved = tabs[t].unsaved
  BY <1>2, SessionPut
<1> HIDE DEF tab, ws
<1>4. /\ Queues(ws) /\ \A s \in Scopes : Request(t, "shared") \notin Range(ws[s])
      /\ \A u \in Tabs \ {t} : TabFits(u, tabs[u], ws)
      /\ TransitionFits(t, tabs[t].transition, ws)
  BY <1>1, Released DEF ws
<1>5. SessionFits(t, None, ws)
  BY <1>4 DEF SessionFits, Asked, Got
<1>6. UnsavedFits(tab)
  BY <1>2, <1>3 DEF ReleaseSession, UnsavedFits
<1>7. TabFits(t, tab, ws)
  BY <1>3, <1>4, <1>5, <1>6 DEF TabFits
<1>8. /\ Queues(writers') /\ TabsFit(tabs', writers') /\ tabs'[t].transition = tab.transition
      /\ \A u \in Tabs \ {t} : tabs'[u] = tabs[u]
  BY <1>1, <1>4, <1>7, Becoming
<1>9. Goes(tabs, tabs')
  BY <1>3, <1>8 DEF Goes
<1> QED
  BY <1>1, <1>8, <1>9, SameLeases DEF Inv, Bounded

LEMMA AcquireWriterKeeps ==
    ASSUME Inv, NEW t \in Tabs, AcquireWriter(t)
    PROVE  Inv'
<1> DEFINE session == tabs[t].session
           ids == WriterLockIds(session.page)
<1>1. Queues(writers) /\ TabsFit(tabs, writers) /\ UNCHANGED <<leases, told, drafts, losses>>
  BY DEF Inv, AcquireWriter
<1>2. /\ tabs[t] \in TabRecords /\ UnsavedFits(tabs[t])
      /\ TransitionFits(t, tabs[t].transition, writers) /\ SessionFits(t, session, writers)
      /\ session \in Sessions \cup {None}
  BY <1>1, TabIn
<1>3. /\ session \in Sessions /\ session # None /\ session.acquired = FALSE
      /\ session.spent = FALSE /\ session.stop # "release"
  BY <1>2 DEF AcquireWriter, Sessions
<1>4. session.page \in Pages /\ session.asked \in {1, 2}
  BY <1>3 DEF Sessions
<1>5. ids[1] \in Scopes /\ ids[2] \in Scopes /\ ids[1] # ids[2] /\ Len(ids) = 2
      /\ ScopesOf(session.page) = {ids[1], ids[2]}
  BY <1>4, Locks
<1>6. Grants(writers[ids[session.asked]], Request(t, "shared"))
  BY DEF AcquireWriter, Granted
<1>7. tabs[t].unsaved # "typed"
  BY <1>2, <1>3 DEF UnsavedFits
<1>8. /\ session.asked = 1 => Asked(session) = {ids[1]}
      /\ session.asked = 2 => Asked(session) = ScopesOf(session.page) /\ Got(session) = {ids[1]}
  BY <1>3, AsksAre
<1>9. CASE session.asked < Len(ids)
  <2> DEFINE next == [session EXCEPT !.asked = session.asked + 1]
             now == [tabs[t] EXCEPT !.session = next]
  <2>1. session.asked = 1
    BY <1>4, <1>5, <1>9
  <2>2. /\ tabs' = [tabs EXCEPT ![t] = now]
        /\ writers' = Joined(writers, ids[2], Request(t, "shared"))
    BY <1>9, <2>1 DEF AcquireWriter, Joined
  <2>3. /\ next \in Sessions /\ next.page = session.page /\ next.asked = 2
        /\ next.acquired = FALSE /\ next.spent = FALSE
    BY <1>3, <2>1 DEF Sessions
  <2> HIDE DEF next
  <2>4. /\ now \in TabRecords /\ now.session = next /\ now.page = tabs[t].page
        /\ now.transition = tabs[t].transition /\ now.unsaved = tabs[t].unsaved
    BY <1>2, <2>3, SessionPut
  <2> HIDE DEF now
  <2>5. Request(t, "shared") \notin Range(writers[ids[2]]) /\ "shared" \in {"shared", "exclusive"}
    BY <1>2, <1>5, <1>8, <2>1 DEF SessionFits
  <2>6. /\ Queues(writers') /\ Request(t, "shared") \in Range(writers'[ids[2]])
        /\ \A s \in Scopes \ {ids[2]} : writers'[s] = writers[s]
        /\ \A u \in Tabs, n \in {"shared", "exclusive"} : u # t \/ n # "shared"
             => \A s \in Scopes : Undisturbed(Request(u, n), writers[s], writers'[s])
    <3> HIDE DEF ids
    <3> QED
      BY <1>1, <1>5, <2>2, <2>5, QueueJoined
  <2>7. \A u \in Tabs \ {t} : TabFits(u, tabs[u], writers')
    BY <1>1, <2>6, TabStays DEF TabsFit, Unmoved
  <2>8. TransitionFits(t, now.transition, writers')
    BY <1>1, <1>2, <2>4, <2>6, TabIn, TransitionStays
  <2>9. SessionFits(t, next, writers')
    <3>1. next.page \in Pages /\ Asked(next) = {ids[1], ids[2]} /\ Got(next) = {ids[1]}
      BY <1>4, <1>5, <2>3, AsksAre
    <3>2. Grants(writers'[ids[1]], Request(t, "shared"))
      BY <1>5, <1>6, <2>1, <2>6
    <3>3. \A s \in Scopes : Request(t, "shared") \in Range(writers'[s]) <=> s \in {ids[1], ids[2]}
      BY <1>2, <1>5, <1>8, <2>1, <2>6 DEF SessionFits
    <3> QED
      BY <2>3, <3>1, <3>2, <3>3 DEF SessionFits
  <2>10. TabFits(t, now, writers')
    BY <1>7, <1>2, <2>4, <2>8, <2>9 DEF TabFits, UnsavedFits
  <2>11. TabsFit(tabs', writers') /\ Goes(tabs, tabs')
    BY <1>1, <2>2, <2>4, <2>7, <2>10 DEF TabsFit, TabFits, Goes
  <2> QED
    BY <1>1, <2>6, <2>11, SameLeases DEF Inv, Bounded
<1>10. CASE session.asked = 2 /\ session.stop = "no"
  <2> DEFINE next == [session EXCEPT !.acquired = TRUE]
             tab == [tabs[t] EXCEPT !.session = next]
  <2>1. Becomes(t, tab, leases, writers)
    BY <1>5, <1>10 DEF AcquireWriter
  <2>2. /\ next \in Sessions /\ next.page = session.page /\ next.asked = 2
        /\ next.acquired = TRUE /\ next.spent = FALSE
    BY <1>3, <1>10 DEF Sessions
  <2> HIDE DEF next
  <2>3. /\ tab \in TabRecords /\ tab.session = next /\ tab.page = tabs[t].page
        /\ tab.transition = tabs[t].transition /\ tab.unsaved = tabs[t].unsaved
    BY <1>2, <2>2, SessionPut
  <2> HIDE DEF tab
  <2>4. SessionFits(t, next, writers)
    <3>1. Asked(next) = ScopesOf(session.page) /\ Got(next) = ScopesOf(session.page)
      BY <2>2, AsksAre
    <3>2. \A s \in Got(next) : Grants(writers[s], Request(t, "shared"))
      BY <1>2, <1>5, <1>6, <1>8, <1>10, <3>1 DEF SessionFits
    <3> QED
      BY <1>2, <1>8, <1>10, <2>2, <3>1, <3>2 DEF SessionFits
  <2>5. TabFits(t, tab, writers)
    BY <1>2, <1>7, <2>3, <2>4 DEF TabFits, UnsavedFits
  <2>6. /\ Queues(writers') /\ TabsFit(tabs', writers') /\ tabs'[t].transition = tab.transition
        /\ \A u \in Tabs \ {t} : tabs'[u] = tabs[u]
    BY <1>1, <2>1, <2>5, Becoming DEF TabsFit
  <2>7. Goes(tabs, tabs')
    BY <2>3, <2>6 DEF Goes
  <2> QED
    BY <1>1, <2>6, <2>7, SameLeases DEF Inv, Bounded
<1>11. CASE session.asked = 2 /\ session.stop # "no"
  <2> DEFINE next == [session EXCEPT !.spent = TRUE]
             now == [tabs[t] EXCEPT !.session = next]
             ws == ReleasedWriter(t)
  <2>1. tabs' = [tabs EXCEPT ![t] = now] /\ writers' = ws
    BY <1>5, <1>11 DEF AcquireWriter
  <2>2. next \in Sessions /\ next.acquired = FALSE /\ next.spent = TRUE
    BY <1>3 DEF Sessions
  <2> HIDE DEF next
  <2>3. /\ now \in TabRecords /\ now.session = next /\ now.page = tabs[t].page
        /\ now.transition = tabs[t].transition /\ now.unsaved = tabs[t].unsaved
    BY <1>2, <2>2, SessionPut
  <2> HIDE DEF now, ws
  <2>4. /\ Queues(ws) /\ \A s \in Scopes : Request(t, "shared") \notin Range(ws[s])
        /\ \A u \in Tabs \ {t} : TabFits(u, tabs[u], ws)
        /\ TransitionFits(t, tabs[t].transition, ws)
    BY <1>1, Released DEF ws
  <2>5. SessionFits(t, next, ws)
    BY <2>2, <2>4 DEF SessionFits, Asked, Got
  <2>6. TabFits(t, now, ws)
    BY <1>2, <1>7, <2>3, <2>4, <2>5 DEF TabFits, UnsavedFits
  <2>7. TabsFit(tabs', ws) /\ Goes(tabs, tabs')
    BY <1>1, <2>1, <2>3, <2>4, <2>6 DEF TabsFit, TabFits, Goes
  <2> QED
    BY <1>1, <2>1, <2>4, <2>7, SameLeases DEF Inv, Bounded
<1> QED
  BY <1>4, <1>5, <1>9, <1>10, <1>11

LEMMA FlushSessionKeeps ==
    ASSUME Inv, NEW t \in Tabs, FlushSession(t)
    PROVE  Inv'
<1> DEFINE next == [tabs[t].session EXCEPT !.stop = "release"]
           between == [tabs[t] EXCEPT !.unsaved = "none"]
           now == [between EXCEPT !.session = next]
<1>1. /\ Queues(writers) /\ TabsFit(tabs, writers) /\ UNCHANGED <<leases, writers, told, losses>>
      /\ tabs' = [tabs EXCEPT ![t].unsaved = "none", ![t].session.stop = "release"]
      /\ drafts' \subseteq drafts /\ tabs[t].session # None
  BY DEF Inv, FlushSession
<1>2. /\ tabs[t] \in TabRecords /\ TabFits(t, tabs[t], writers)
      /\ tabs[t].session \in Sessions /\ SessionFits(t, tabs[t].session, writers)
  BY <1>1, TabIn
<1>3. tabs' = [tabs EXCEPT ![t] = now]
  BY <1>1, <1>2 DEF TabsFit, TabRecords
<1>4. next \in Sessions /\ SessionFits(t, next, writers)
  BY <1>2, StopsAlike
<1> HIDE DEF next
<1>5. /\ between \in TabRecords /\ between.unsaved = "none" /\ between.page = tabs[t].page
      /\ between.session = tabs[t].session /\ between.transition = tabs[t].transition
  BY <1>2, UnsavedPut
<1> HIDE DEF between
<1>6. /\ now \in TabRecords /\ now.session = next /\ now.page = between.page
      /\ now.transition = between.transition /\ now.unsaved = between.unsaved
  BY <1>4, <1>5, SessionPut
<1> HIDE DEF now
<1>7. TabFits(t, now, writers)
  BY <1>2, <1>4, <1>5, <1>6 DEF TabFits, UnsavedFits
<1>8. TabsFit(tabs', writers) /\ Goes(tabs, tabs')
  BY <1>1, <1>3, <1>5, <1>6, <1>7 DEF TabsFit, TabFits, Goes
<1> QED
  BY <1>1, <1>8, SameLeases DEF Inv, Bounded

LEMMA HandleStorageEventKeeps ==
    ASSUME Inv, NEW t \in Tabs, HandleStorageEvent(t)
    PROVE  Inv'
<1> DEFINE tab == Synced(tabs[t], leases)
<1>1. /\ Queues(writers) /\ TabsFit(tabs, writers) /\ UNCHANGED <<leases, losses>>
      /\ told \subseteq Tabs /\ told' \subseteq told /\ drafts \subseteq Pages
  BY DEF Inv, Bounded, HandleStorageEvent
<1>2. /\ tabs[t] \in TabRecords /\ TabFits(t, tabs[t], writers) /\ UnsavedFits(tabs[t])
      /\ SessionFits(t, tabs[t].session, writers)
      /\ TransitionFits(t, tabs[t].transition, writers)
  BY <1>1, TabIn
<1>3. Follows(tabs[t], tab)
  BY <1>2, SyncFollows
<1>4. \/ Becomes(t, tabs[t], leases, writers) /\ UNCHANGED drafts
      \/ Turns(t, tabs[t], Stopped(tab), writers) /\ UNCHANGED drafts
      \/ /\ tab.session = None
         /\ \E unsaved \in {"none", tab.unsaved} :
            /\ tabs' = [tabs EXCEPT ![t] = [tab EXCEPT !.unsaved = unsaved]]
            /\ drafts' \subseteq drafts /\ UNCHANGED writers
  BY DEF HandleStorageEvent
<1> HIDE DEF tab
<1>5. CASE Becomes(t, tabs[t], leases, writers) /\ UNCHANGED drafts
  <2>1. /\ Queues(writers') /\ TabsFit(tabs', writers') /\ tabs'[t].transition = tabs[t].transition
        /\ \A u \in Tabs \ {t} : tabs'[u] = tabs[u]
    BY <1>1, <1>2, <1>5, Becoming DEF TabsFit
  <2>2. Goes(tabs, tabs')
    BY <2>1 DEF Goes
  <2> QED
    BY <1>1, <1>5, <2>1, <2>2, SameLeases DEF Inv, Bounded
<1>6. CASE Turns(t, tabs[t], Stopped(tab), writers) /\ UNCHANGED drafts
  <2>1. Follows(tabs[t], Stopped(tab))
    BY <1>2, <1>3, StopFollows
  <2> HIDE DEF Stopped
  <2>2. /\ Queues(writers') /\ TabsFit(tabs', writers') /\ tabs' = [tabs EXCEPT ![t] = Stopped(tab)]
        /\ Stopped(tab).transition = tabs[t].transition
    BY <1>1, <1>2, <1>6, <2>1, Turned DEF TabsFit
  <2>3. Goes(tabs, tabs')
    BY <1>1, <2>2 DEF Goes, TabsFit
  <2> QED
    BY <1>1, <1>6, <2>2, <2>3, SameLeases DEF Inv, Bounded
<1>7. CASE /\ tab.session = None
           /\ \E unsaved \in {"none", tab.unsaved} :
                /\ tabs' = [tabs EXCEPT ![t] = [tab EXCEPT !.unsaved = unsaved]]
                /\ drafts' \subseteq drafts /\ UNCHANGED writers
  <2>1. PICK unsaved \in {"none", tab.unsaved} :
            /\ tabs' = [tabs EXCEPT ![t] = [tab EXCEPT !.unsaved = unsaved]]
            /\ drafts' \subseteq drafts /\ UNCHANGED writers
    BY <1>7
  <2> DEFINE now == [tab EXCEPT !.unsaved = unsaved]
  <2>2. /\ tab \in TabRecords /\ UnsavedFits(tab) /\ tab.transition = tabs[t].transition
        /\ tab.unsaved \in {"none", "typed", "recovered"} /\ tabs[t].session \in Sessions \cup {None}
    BY <1>2, <1>3, TabParts DEF Follows
  <2>3. tabs[t].session = None
    <3>1. \A session \in Sessions, how \in {"no", "flush", "release"} :
            [session EXCEPT !.stop = how] # None
      BY StopsAlike, SessionTypes
    <3> QED
      BY <1>3, <1>7, <2>2, <3>1 DEF Follows
  <2>4. /\ now \in TabRecords /\ now.unsaved = unsaved /\ now.page = tab.page
        /\ now.session = tab.session /\ now.transition = tab.transition
    BY <2>2, UnsavedPut
  <2>5. tabs' = [tabs EXCEPT ![t] = now]
    BY <2>1
  <2> HIDE DEF now
  <2>6. TabFits(t, now, writers)
    BY <1>2, <1>7, <2>2, <2>3, <2>4 DEF TabFits, UnsavedFits
  <2>7. TabsFit(tabs', writers) /\ Goes(tabs, tabs')
    BY <1>1, <2>2, <2>4, <2>5, <2>6 DEF TabsFit, TabFits, Goes
  <2> QED
    BY <1>1, <2>1, <2>7, SameLeases DEF Inv, Bounded
<1> QED
  BY <1>4, <1>5, <1>6, <1>7

LEMMA ExpireKeeps ==
    ASSUME Inv, NEW s \in Scopes, Expire(s)
    PROVE  Inv'
<1>1. /\ UNCHANGED <<tabs, writers, told, drafts, losses>> /\ leases[s] # None
      /\ leases' = [leases EXCEPT ![s].expired = TRUE] /\ LeasesFit(leases)
  BY DEF Inv, Expire
<1>2. LeasesFit(leases') /\ \A x \in Scopes : leases[x] # None =>
        leases'[x] # None /\ leases'[x].tab = leases[x].tab
  <2>1. LeasesFit(leases')
    BY <1>1, LeasePut
  <2>2. leases[s] \in Leases /\ [leases[s] EXCEPT !.expired = TRUE] \in Leases
        /\ [leases[s] EXCEPT !.expired = TRUE].tab = leases[s].tab
    BY <1>1 DEF LeasesFit, Leases
  <2> QED
    BY <1>1, <2>1, <2>2, NoneAssumption DEF LeasesFit
<1>3. Goes(tabs, tabs)
  BY DEF Goes
<1>4. Remain(tabs, leases, leases')
  BY <1>1, <1>2, TabIn DEF Remain, Inv, Transitions
<1> QED
  BY <1>1, <1>2, <1>3, <1>4, StandsStays DEF Inv, Bounded

LEMMA RenewKeeps ==
    ASSUME Inv, NEW t \in Tabs, Renew(t)
    PROVE  Inv'
<1> DEFINE s == tabs[t].transition.scope
           ls == [leases EXCEPT ![s].expired = FALSE]
<1>1. /\ UNCHANGED <<tabs, writers, drafts, losses>> /\ LeasesFit(leases) /\ told \subseteq Tabs
      /\ leases[s] # None /\ Publish(t, ls) /\ tabs[t].transition # None
  BY DEF Inv, Bounded, Renew, Owns
<1>2. s \in Scopes
  BY <1>1, TabIn DEF Inv, Transitions
<1> HIDE DEF s
<1>3. LeasesFit(ls) /\ \A x \in Scopes : leases[x] # None =>
        ls[x] # None /\ ls[x].tab = leases[x].tab
  <2>1. LeasesFit(ls)
    BY <1>1, <1>2, LeasePut
  <2>2. leases[s] \in Leases /\ [leases[s] EXCEPT !.expired = FALSE] \in Leases
        /\ [leases[s] EXCEPT !.expired = FALSE].tab = leases[s].tab
    BY <1>1, <1>2 DEF LeasesFit, Leases
  <2> QED
    BY <1>1, <1>2, <2>1, <2>2, NoneAssumption DEF LeasesFit
<1>4. leases' = ls /\ told' \subseteq Tabs
  BY <1>1, Published
<1>5. Goes(tabs, tabs)
  BY DEF Goes
<1> HIDE DEF ls
<1>6. Remain(tabs, leases, ls)
  BY <1>3, TabIn DEF Remain, Inv, Transitions
<1> QED
  BY <1>1, <1>3, <1>4, <1>5, <1>6, StandsStays DEF Inv, Bounded

\* No transition holds a lease that ExclusiveFree lets go.
LEMMA FreeLease ==
    ASSUME TabsFit(tabs, writers), NEW scopes, ExclusiveFree(scopes), NEW u \in Tabs,
           tabs[u].transition # None
    PROVE  tabs[u].transition.scope \in Scopes /\ tabs[u].transition.scope \notin scopes
<1>1. tabs[u].transition.scope \in Scopes
  BY TabIn DEF Transitions
<1> QED
  BY <1>1, ScopesInside, TransitionAssumption DEF ExclusiveFree, Scopes

LEMMA ReapKeeps ==
    ASSUME Inv, NEW t \in Tabs, NEW s \in Scopes, Reap(t, s)
    PROVE  Inv'
<1> DEFINE ls == [leases EXCEPT ![s] = None]
<1>1. /\ Queues(writers) /\ TabsFit(tabs, writers) /\ LeasesFit(leases) /\ told \subseteq Tabs
      /\ UNCHANGED <<drafts, losses>> /\ ExclusiveFree(ScopesOf(s))
      /\ Publish(t, ls) /\ Becomes(t, tabs[t], ls, writers)
  BY DEF Inv, Bounded, Reap, Reapable
<1>2. LeasesFit(ls) /\ \A x \in Scopes \ {s} : ls[x] = leases[x]
  BY <1>1, LeasePut DEF LeasesFit
<1> HIDE DEF ls
<1>3. /\ Queues(writers') /\ TabsFit(tabs', writers') /\ tabs'[t].transition = tabs[t].transition
      /\ \A u \in Tabs \ {t} : tabs'[u] = tabs[u]
  BY <1>1, TabIn, Becoming DEF TabsFit
<1>4. leases' = ls /\ told' \subseteq Tabs
  BY <1>1, Published
<1>5. Goes(tabs, tabs')
  BY <1>3 DEF Goes
<1>6. \A u \in Tabs : tabs'[u].transition = tabs[u].transition
  BY <1>3
<1>7. Remain(tabs', leases, ls)
  <2>1. s \in ScopesOf(s)
    BY ScopesInside, TransitionAssumption DEF Scopes
  <2> QED
    BY <1>1, <1>2, <1>6, <2>1, FreeLease DEF Remain
<1> QED
  BY <1>1, <1>2, <1>3, <1>4, <1>5, <1>7, ApartStays, StandsStays DEF Inv, Bounded

\* The transition of t is over: its request for the exclusive lock and its lease
\* are gone, and tab is the rest of what it leaves.
LEMMA EndsKeeps ==
    ASSUME Inv, NEW t \in Tabs, NEW tab, TabFits(t, tab, writers),
           tabs[t].transition # None, tab.transition = tabs[t].transition, Ends(t, tab)
    PROVE  Inv'
<1> DEFINE s == tabs[t].transition.scope
           ls == IF Owns(t, s) THEN [leases EXCEPT ![s] = None] ELSE leases
           ws == [writers EXCEPT ![s] = Without(@, Request(t, "exclusive"))]
           now == [tab EXCEPT !.transition = None]
<1>1. /\ Queues(writers) /\ TabsFit(tabs, writers) /\ LeasesFit(leases) /\ told \subseteq Tabs
      /\ UNCHANGED <<drafts, losses>> /\ Publish(t, ls) /\ Becomes(t, now, ls, ws)
  BY DEF Inv, Bounded, Ends
<1>2. s \in Scopes
  BY <1>1, TabIn DEF Transitions
<1>3. tab \in TabRecords /\ UnsavedFits(tab) /\ tab.session \in Sessions \cup {None}
      /\ SessionFits(t, tab.session, writers) /\ TransitionFits(t, tab.transition, writers)
  BY TabParts DEF TabFits
<1>4. ws = Left(writers, {s}, Request(t, "exclusive"))
  BY <1>1, <1>2 DEF Left, Queues
<1>5. LeasesFit(ls) /\ \A x \in Scopes : ls[x] # leases[x] => x = s /\ leases[s].tab = t
  BY <1>1, <1>2, LeasePut DEF LeasesFit, Owns
<1> HIDE DEF ws, ls
<1>6. /\ Queues(ws) /\ Request(t, "exclusive") \notin Range(ws[s])
      /\ \A x \in Scopes \ {s} : ws[x] = writers[x]
      /\ \A u \in Tabs, n \in {"shared", "exclusive"} : u # t \/ n # "exclusive"
           => \A x \in Scopes : Undisturbed(Request(u, n), writers[x], ws[x])
  <2>1. "exclusive" \in {"shared", "exclusive"} /\ {s} \in SUBSET Scopes
    BY <1>2
  <2> HIDE DEF s
  <2> QED
    BY <1>1, <1>4, <2>1, QueuesLeft
<1>7. \A u \in Tabs \ {t} : TabFits(u, tabs[u], ws)
  BY <1>1, <1>6, TabStays DEF TabsFit, Unmoved
<1>8. /\ now \in TabRecords /\ now.transition = None /\ now.page = tab.page
      /\ now.session = tab.session /\ now.unsaved = tab.unsaved
  BY <1>3, TransitionPut
<1> HIDE DEF now
<1>9. TabFits(t, now, ws)
  <2>1. SessionFits(t, tab.session, ws)
    BY <1>3, <1>6, SessionStays
  <2>2. TransitionFits(t, None, ws)
    BY <1>3, <1>6 DEF TransitionFits
  <2> QED
    BY <1>3, <1>8, <2>1, <2>2 DEF TabFits, UnsavedFits
<1>10. /\ Queues(writers') /\ TabsFit(tabs', writers') /\ tabs'[t].transition = None
       /\ \A u \in Tabs \ {t} : tabs'[u] = tabs[u]
  BY <1>1, <1>6, <1>7, <1>8, <1>9, Becoming
<1>11. leases' = ls /\ told' \subseteq Tabs
  BY <1>1, Published
<1>12. Goes(tabs, tabs')
  BY <1>10 DEF Goes
<1>13. Remain(tabs', leases, ls)
  <2>1. \A u \in Tabs \ {t} : tabs[u].transition # None => tabs[u].transition.scope \in Scopes
    BY <1>1, TabIn DEF Transitions
  <2> QED
    BY <1>5, <1>10, <2>1 DEF Remain
<1> QED
  BY <1>1, <1>5, <1>10, <1>11, <1>12, <1>13, ApartStays, StandsStays DEF Inv, Bounded

LEMMA FlushFailsKeeps ==
    ASSUME Inv, NEW t \in Tabs, FlushFails(t)
    PROVE  Inv'
<1> DEFINE next == [tabs[t].session EXCEPT !.stop = "no"]
           now == HoldsOn(tabs[t])
<1>1. Queues(writers) /\ TabsFit(tabs, writers) /\ tabs[t].session # None
  BY DEF Inv, FlushFails
<1>2. /\ tabs[t] \in TabRecords /\ TabFits(t, tabs[t], writers)
      /\ tabs[t].session \in Sessions /\ SessionFits(t, tabs[t].session, writers)
  BY <1>1, TabIn
<1>3. now = [tabs[t] EXCEPT !.session = next]
  BY DEF HoldsOn
<1>4. /\ next \in Sessions /\ SessionFits(t, next, writers) /\ next.stop = "no"
      /\ next.page = tabs[t].session.page /\ next.acquired = tabs[t].session.acquired
  BY <1>2, StopsAlike
<1> HIDE DEF next, now
<1>5. /\ now \in TabRecords /\ now.session = next /\ now.page = tabs[t].page
      /\ now.transition = tabs[t].transition /\ now.unsaved = tabs[t].unsaved
  BY <1>2, <1>3, <1>4, SessionPut
<1>6. UnsavedFits(now)
  BY <1>2, <1>4, <1>5, SessionTypes DEF TabFits, UnsavedFits
<1>7. TabFits(t, now, writers)
  BY <1>2, <1>4, <1>5, <1>6 DEF TabFits
<1>8. CASE InPhase(t, "draining")
  <2>1. Ends(t, now) /\ tabs[t].transition # None
    BY <1>8 DEF FlushFails, InPhase, now
  <2> QED
    BY <1>5, <1>7, <2>1, EndsKeeps
<1>9. CASE ~InPhase(t, "draining")
  <2>1. Becomes(t, now, leases, writers) /\ UNCHANGED <<leases, told, drafts, losses>>
    BY <1>9 DEF FlushFails, now
  <2>2. /\ Queues(writers') /\ TabsFit(tabs', writers') /\ tabs'[t].transition = now.transition
        /\ \A u \in Tabs \ {t} : tabs'[u] = tabs[u]
    BY <1>1, <1>7, <2>1, Becoming DEF TabsFit
  <2>3. Goes(tabs, tabs')
    BY <1>5, <2>2 DEF Goes
  <2> QED
    BY <2>1, <2>2, <2>3, SameLeases DEF Inv, Bounded
<1> QED
  BY <1>8, <1>9

LEMMA TransitionEnds ==
    ASSUME Inv, NEW t \in Tabs, tabs[t].transition # None, Ends(t, tabs[t])
    PROVE  Inv'
BY EndsKeeps DEF Inv, TabsFit

LEMMA GiveUpKeeps ==
    ASSUME Inv, NEW t \in Tabs, GiveUp(t)
    PROVE  Inv'
BY TransitionEnds DEF GiveUp, InPhase

LEMMA FinishKeeps ==
    ASSUME Inv, NEW t \in Tabs, Finish(t)
    PROVE  Inv'
BY TransitionEnds DEF Finish, InPhase

\* A transition goes into another phase.
LEMMA PhasePut ==
    ASSUME NEW transition \in Transitions, NEW phase \in {"draining", "waiting", "acting"},
           NEW now, now = [transition EXCEPT !.phase = phase]
    PROVE  /\ now \in Transitions /\ now # None /\ now.phase = phase
           /\ now.scope = transition.scope /\ now.leased = transition.leased
BY NoneAssumption DEF Transitions

LEMMA DrainedKeeps ==
    ASSUME Inv, NEW t \in Tabs, Drained(t)
    PROVE  Inv'
<1> DEFINE s == tabs[t].transition.scope
<1>1. Queues(writers) /\ TabsFit(tabs, writers) /\ InPhase(t, "draining")
      /\ tabs[t].transition # None
  BY DEF Inv, Drained, InPhase
<1>2. CASE Ends(t, tabs[t])
  BY <1>1, <1>2, TransitionEnds
<1>3. CASE ~Ends(t, tabs[t])
  <2> DEFINE next == [tabs[t].transition EXCEPT !.phase = "waiting"]
             now == [tabs[t] EXCEPT !.transition = next]
  <2>1. /\ tabs' = [tabs EXCEPT ![t] = now]
        /\ writers' = Joined(writers, s, Request(t, "exclusive"))
        /\ UNCHANGED <<leases, told, drafts, losses>>
    BY <1>3 DEF Drained, Joined
  <2>2. /\ tabs[t] \in TabRecords /\ TabFits(t, tabs[t], writers)
        /\ tabs[t].session \in Sessions \cup {None} /\ SessionFits(t, tabs[t].session, writers)
        /\ tabs[t].transition \in Transitions /\ TransitionFits(t, tabs[t].transition, writers)
    BY <1>1, TabIn
  <2>3. s \in Scopes /\ tabs[t].transition.phase = "draining"
    BY <1>1, <2>2 DEF InPhase, Transitions
  <2>4. /\ next \in Transitions /\ next # None /\ next.phase = "waiting"
        /\ next.scope = s /\ next.leased = tabs[t].transition.leased
    BY <2>2, PhasePut
  <2> HIDE DEF next
  <2>5. /\ now \in TabRecords /\ now.transition = next /\ now.page = tabs[t].page
        /\ now.session = tabs[t].session /\ now.unsaved = tabs[t].unsaved
    BY <2>2, <2>4, TransitionPut
  <2> HIDE DEF now
  <2>6. \A x \in Scopes : Request(t, "exclusive") \notin Range(writers[x])
    BY <2>2, <2>3 DEF TransitionFits
  <2>7. /\ Queues(writers') /\ Request(t, "exclusive") \in Range(writers'[s])
        /\ \A x \in Scopes \ {s} : writers'[x] = writers[x]
        /\ \A u \in Tabs, n \in {"shared", "exclusive"} : u # t \/ n # "exclusive"
             => \A x \in Scopes : Undisturbed(Request(u, n), writers[x], writers'[x])
    <3>1. Request(t, "exclusive") \notin Range(writers[s]) /\ "exclusive" \in {"shared", "exclusive"}
      BY <2>3, <2>6
    <3> HIDE DEF s
    <3> QED
      BY <1>1, <2>1, <2>3, <3>1, QueueJoined
  <2>8. \A u \in Tabs \ {t} : TabFits(u, tabs[u], writers')
    BY <1>1, <2>7, TabStays DEF TabsFit, Unmoved
  <2>9. TabFits(t, now, writers')
    <3>1. SessionFits(t, tabs[t].session, writers')
      BY <2>2, <2>7, SessionStays
    <3>2. TransitionFits(t, next, writers')
      BY <2>3, <2>4, <2>6, <2>7 DEF TransitionFits
    <3> QED
      BY <2>2, <2>5, <3>1, <3>2 DEF TabFits, UnsavedFits
  <2>10. TabsFit(tabs', writers') /\ Goes(tabs, tabs')
    BY <1>1, <2>1, <2>4, <2>5, <2>8, <2>9 DEF TabsFit, TabFits, Goes
  <2> QED
    BY <2>1, <2>7, <2>10, SameLeases DEF Inv, Bounded
<1> QED
  BY <1>2, <1>3

LEMMA ActKeeps ==
    ASSUME Inv, NEW t \in Tabs, Act(t)
    PROVE  Inv'
<1> DEFINE s == tabs[t].transition.scope
           next == [tabs[t].transition EXCEPT !.phase = "acting"]
           now == [tabs[t] EXCEPT !.transition = next]
           ls == Swept(s)
<1>1. /\ Queues(writers) /\ TabsFit(tabs, writers) /\ LeasesFit(leases) /\ Apart(tabs)
      /\ told \subseteq Tabs /\ tabs[t].transition # None
      /\ Grants(writers[s], Request(t, "exclusive"))
      /\ tabs' = [tabs EXCEPT ![t] = now] /\ Publish(t, ls) /\ UNCHANGED <<writers, drafts, losses>>
  BY DEF Inv, Bounded, Act, InPhase, Barrier, Granted
<1>2. /\ tabs[t] \in TabRecords /\ TabFits(t, tabs[t], writers)
      /\ tabs[t].transition \in Transitions /\ TransitionFits(t, tabs[t].transition, writers)
  BY <1>1, TabIn
<1>3. s \in Scopes /\ tabs[t].transition.phase = "waiting"
  BY <1>2 DEF Act, InPhase, Transitions
<1>4. /\ next \in Transitions /\ next # None /\ next.phase = "acting"
      /\ next.scope = s /\ next.leased = tabs[t].transition.leased
  BY <1>2, PhasePut
<1> HIDE DEF next
<1>5. /\ now \in TabRecords /\ now.transition = next /\ now.page = tabs[t].page
      /\ now.session = tabs[t].session /\ now.unsaved = tabs[t].unsaved
  BY <1>2, <1>4, TransitionPut
<1> HIDE DEF now
<1>6. TabFits(t, now, writers)
  BY <1>1, <1>2, <1>3, <1>4, <1>5 DEF TabFits, TransitionFits, UnsavedFits
<1>7. TabsFit(tabs', writers) /\ Goes(tabs, tabs')
  BY <1>1, <1>4, <1>5, <1>6 DEF TabsFit, TabFits, Goes
<1>8. LeasesFit(ls)
  BY <1>1 DEF Swept, LeasesFit
<1>9. \A x \in Scopes : ls[x] # leases[x] => x # s /\ s \in Workspaces /\ leases[x] # None
                                             /\ leases[x].exclusive = s
  BY DEF Swept
<1>10. \A x \in Scopes : ls[x] # leases[x] => x \in Pages /\ Workspace[x] = s /\ s \in ScopesOf(s)
  <2>1. ASSUME NEW x \in Scopes, ls[x] # leases[x]
        PROVE  x \in Pages /\ Workspace[x] = s /\ s \in ScopesOf(s)
    <3>1. x # s /\ s \in Workspaces /\ leases[x] # None /\ leases[x].exclusive = s
      BY <1>9, <2>1
    <3>2. leases[x].exclusive = IF x \in Pages THEN Workspace[x] ELSE x
      BY <1>1, <3>1 DEF LeasesFit, Lease
    <3> QED
      BY <1>3, <3>1, <3>2, ScopesInside, TransitionAssumption DEF Scopes
  <2> QED
    BY <2>1
<1>11. Remain(tabs', leases, ls)
  <2>1. SUFFICES ASSUME NEW u \in Tabs, tabs'[u].transition # None,
                        leases[tabs'[u].transition.scope] # None
                 PROVE  ls[tabs'[u].transition.scope] = leases[tabs'[u].transition.scope]
    BY DEF Remain
  <2>2. /\ tabs[u].transition # None /\ tabs[u].transition.scope = tabs'[u].transition.scope
        /\ tabs[u].transition.scope \in Scopes
    BY <1>1, <1>7, <2>1, TabIn DEF Goes, Transitions
  <2>3. CASE u = t
    BY <1>9, <2>2, <2>3, <1>3
  <2>4. CASE u # t
    <3>1. ScopesOf(tabs[u].transition.scope) \cap ScopesOf(s) = {}
      BY <1>1, <2>2, <2>4 DEF Apart
    <3>2. tabs[u].transition.scope \in Pages =>
            Workspace[tabs[u].transition.scope] \in ScopesOf(tabs[u].transition.scope)
      BY DEF ScopesOf
    <3> QED
      BY <1>10, <2>2, <3>1, <3>2
  <2> QED
    BY <2>3, <2>4
<1> HIDE DEF ls
<1>12. leases' = ls /\ told' \subseteq Tabs
  BY <1>1, Published
<1> QED
  BY <1>1, <1>7, <1>8, <1>11, <1>12, ApartStays, StandsStays DEF Inv, Bounded

LEMMA BeginKeeps ==
    ASSUME Inv, NEW t \in Tabs, NEW s \in Scopes, Begin(t, s)
    PROVE  Inv'
<1> DEFINE written == [x \in Scopes |->
                IF x = s THEN Lease(t, s) ELSE IF x \in ScopesOf(s) THEN None ELSE leases[x]]
           transition == [scope |-> s, phase |-> "draining", leased |-> TRUE]
           tab == [tabs[t] EXCEPT !.transition = transition]
           now == Stopped(Synced(tab, written))
<1>1. /\ Queues(writers) /\ TabsFit(tabs, writers) /\ LeasesFit(leases) /\ Apart(tabs)
      /\ Stands(tabs, leases) /\ told \subseteq Tabs /\ tabs[t].transition = None
      /\ ExclusiveFree(ScopesOf(s)) /\ Publish(t, written)
      /\ Turns(t, tab, now, writers) /\ UNCHANGED <<drafts, losses>>
  BY DEF Inv, Bounded, Begin
<1>2. /\ tabs[t] \in TabRecords /\ UnsavedFits(tabs[t])
      /\ SessionFits(t, tabs[t].session, writers) /\ TransitionFits(t, None, writers)
  BY <1>1, TabIn
<1>3. transition \in Transitions /\ transition # None /\ transition.scope = s
      /\ transition.phase = "draining"
  <2>1. transition \in Transitions
    BY DEF Transitions
  <2> QED
    BY <2>1, NoneAssumption
<1>4. /\ Lease(t, s) \in Leases /\ Lease(t, s) # None /\ Lease(t, s).tab = t
      /\ Lease(t, s).exclusive = Lease(Lease(t, s).tab, s).exclusive
  <2>1. (IF s \in Pages THEN Workspace[s] ELSE s) \in Workspaces
    BY TransitionAssumption DEF Scopes
  <2>2. Lease(t, s) \in Leases /\ Lease(t, s).tab = t
    BY <2>1 DEF Lease, Leases
  <2> QED
    BY <2>2, NoneAssumption DEF Lease
<1>5. LeasesFit(written)
  BY <1>1, <1>4 DEF LeasesFit
<1>6. /\ written[s] = Lease(t, s)
      /\ \A x \in Scopes : x \notin ScopesOf(s) => written[x] = leases[x]
  BY ScopesInside, TransitionAssumption DEF Scopes
<1> HIDE DEF written, transition
<1>7. /\ tab \in TabRecords /\ tab.transition = transition /\ tab.page = tabs[t].page
      /\ tab.session = tabs[t].session /\ tab.unsaved = tabs[t].unsaved
  BY <1>2, <1>3, TransitionPut
<1> HIDE DEF tab
<1>8. UnsavedFits(tab) /\ SessionFits(t, tab.session, writers)
      /\ TransitionFits(t, tab.transition, writers)
  BY <1>2, <1>3, <1>7 DEF UnsavedFits, TransitionFits
<1>9. Follows(tab, now)
  BY <1>7, <1>8, SyncFollows, StopFollows
<1> HIDE DEF now
<1>10. /\ Queues(writers') /\ TabsFit(tabs', writers') /\ tabs' = [tabs EXCEPT ![t] = now]
       /\ now.transition = transition
  BY <1>1, <1>7, <1>8, <1>9, Turned DEF TabsFit
<1>11. tabs'[t].transition = transition /\ \A u \in Tabs \ {t} : tabs'[u] = tabs[u]
  BY <1>1, <1>10 DEF TabsFit
<1>12. leases' = written /\ told' \subseteq Tabs
  BY <1>1, Published
<1>13. Apart(tabs')
  <2>1. \A u \in Tabs \ {t} : tabs[u].transition # None
            => ScopesOf(s) \cap ScopesOf(tabs[u].transition.scope) = {}
    BY <1>1 DEF ExclusiveFree
  <2> QED
    BY <1>1, <1>3, <1>11, <2>1 DEF Apart
<1>14. Stands(tabs', written)
  <2>1. \A u \in Tabs \ {t} : tabs[u].transition # None =>
            tabs[u].transition.scope \in Scopes /\ tabs[u].transition.scope \notin ScopesOf(s)
    BY <1>1, FreeLease
  <2> QED
    BY <1>1, <1>3, <1>4, <1>6, <1>11, <2>1 DEF Stands
<1> QED
  BY <1>1, <1>5, <1>10, <1>12, <1>13, <1>14 DEF Inv, Bounded

\* What a lost tab had not saved was on a page.
LEMMA AbandonedIn ==
    ASSUME TabsFit(tabs, writers), drafts \subseteq Pages, NEW t \in Tabs
    PROVE  Abandoned(t) \subseteq Pages
BY TabIn DEF Abandoned, UnsavedFits

LEMMA CrashKeeps ==
    ASSUME Inv, NEW t \in Tabs, Crash(t)
    PROVE  Inv'
<1> DEFINE between == ReleasedWriter(t)
<1>1. /\ Queues(writers) /\ TabsFit(tabs, writers) /\ Bounded /\ losses < MaxLosses
      /\ losses' = losses + 1 /\ UNCHANGED leases /\ tabs' = [tabs EXCEPT ![t] = Closed]
      /\ writers' = [s \in Scopes |-> Without(between[s], Request(t, "exclusive"))]
      /\ told' = told \ {t} /\ drafts' = Abandoned(t)
  BY DEF Inv, Crash
<1> HIDE DEF between
<1>2. /\ Queues(between) /\ \A s \in Scopes : Request(t, "shared") \notin Range(between[s])
      /\ \A u \in Tabs \ {t} : TabFits(u, tabs[u], between)
  BY <1>1, Released DEF between
<1>3. writers' = Left(between, Scopes, Request(t, "exclusive"))
  BY <1>1 DEF Left
<1>4. /\ Queues(writers') /\ \A s \in Scopes : Request(t, "exclusive") \notin Range(writers'[s])
      /\ \A u \in Tabs, n \in {"shared", "exclusive"} : u # t \/ n # "exclusive"
           => \A s \in Scopes : Undisturbed(Request(u, n), between[s], writers'[s])
  <2>1. "exclusive" \in {"shared", "exclusive"} /\ Scopes \in SUBSET Scopes
    OBVIOUS
  <2> QED
    BY <1>2, <1>3, <2>1, QueuesLeft
<1>5. \A u \in Tabs \ {t} : TabFits(u, tabs[u], writers')
  BY <1>2, <1>4, TabStays DEF Unmoved
<1>6. TabFits(t, Closed, writers')
  <2>1. \A s \in Scopes : Request(t, "shared") \notin Range(writers'[s])
    BY <1>2, <1>4 DEF Undisturbed
  <2> QED
    BY <1>4, <2>1 DEF TabFits, TabRecords, Closed, UnsavedFits, SessionFits, Asked, Got, TransitionFits
<1>7. TabsFit(tabs', writers') /\ Goes(tabs, tabs')
  BY <1>1, <1>5, <1>6 DEF TabsFit, TabFits, Goes, Closed
<1>8. Bounded'
  BY <1>1, AbandonedIn, TransitionAssumption DEF Bounded
<1> QED
  BY <1>1, <1>4, <1>7, <1>8, SameLeases DEF Inv

LEMMA SignOutKeeps ==
    ASSUME Inv, NEW t \in Tabs, SignOut(t)
    PROVE  Inv'
<1> DEFINE ls == [s \in Scopes |-> IF Owns(t, s) THEN None ELSE leases[s]]
           tab == IF tabs[t].transition = None THEN tabs[t]
                  ELSE [tabs[t] EXCEPT !.transition.leased = FALSE]
           now == [tab EXCEPT !.page = None, !.unsaved = "none"]
<1>1. /\ Queues(writers) /\ TabsFit(tabs, writers) /\ LeasesFit(leases) /\ Bounded
      /\ losses < MaxLosses /\ losses' = losses + 1 /\ Publish(t, ls)
      /\ Becomes(t, now, ls, writers) /\ drafts' = Abandoned(t)
  BY DEF Inv, SignOut
<1>2. /\ tabs[t] \in TabRecords /\ SessionFits(t, tabs[t].session, writers)
      /\ TransitionFits(t, tabs[t].transition, writers)
      /\ tabs[t].transition \in Transitions \cup {None}
  BY <1>1, TabIn
<1>3. /\ tab \in TabRecords /\ tab.session = tabs[t].session
      /\ TransitionFits(t, tab.transition, writers)
      /\ tab.transition # None => /\ tabs[t].transition # None
                                  /\ tab.transition.scope = tabs[t].transition.scope
                                  /\ tab.transition.leased = FALSE
  <2>1. CASE tabs[t].transition = None
    BY <1>2, <2>1
  <2>2. CASE tabs[t].transition # None
    <3> DEFINE next == [tabs[t].transition EXCEPT !.leased = FALSE]
    <3>1. /\ next \in Transitions /\ next # None /\ next.scope = tabs[t].transition.scope
          /\ next.phase = tabs[t].transition.phase /\ next.leased = FALSE
      BY <1>2, <2>2, NoneAssumption DEF Transitions
    <3> HIDE DEF next
    <3>2. tab = [tabs[t] EXCEPT !.transition = next]
      BY <2>2 DEF next
    <3> HIDE DEF tab
    <3>3. tab \in TabRecords /\ tab.transition = next /\ tab.session = tabs[t].session
      BY <1>2, <3>1, <3>2, TransitionPut
    <3> QED
      BY <1>2, <2>2, <3>1, <3>3 DEF TransitionFits
  <2> QED
    BY <2>1, <2>2
<1>4. LeasesFit(ls) /\ \A x \in Scopes : ls[x] # leases[x] => leases[x].tab = t
  BY <1>1 DEF LeasesFit, Owns
<1> HIDE DEF tab, ls
<1>5. /\ now \in TabRecords /\ now.session = tab.session /\ now.transition = tab.transition
      /\ now.unsaved = "none" /\ now.page = None
  BY <1>3 DEF TabRecords
<1> HIDE DEF now
<1>6. TabFits(t, now, writers)
  BY <1>2, <1>3, <1>5 DEF TabFits, UnsavedFits
<1>7. /\ Queues(writers') /\ TabsFit(tabs', writers') /\ tabs'[t].transition = now.transition
      /\ \A u \in Tabs \ {t} : tabs'[u] = tabs[u]
  BY <1>1, <1>6, Becoming DEF TabsFit
<1>8. Goes(tabs, tabs')
  BY <1>3, <1>5, <1>7 DEF Goes
<1>9. leases' = ls /\ told' \subseteq Tabs
  BY <1>1, Published DEF Bounded
<1>10. Remain(tabs', leases, ls)
  <2>1. \A u \in Tabs \ {t} : tabs[u].transition # None => tabs[u].transition.scope \in Scopes
    BY <1>1, TabIn DEF Transitions
  <2> QED
    BY <1>3, <1>4, <1>5, <1>7, <2>1 DEF Remain
<1>11. Bounded'
  BY <1>1, <1>9, AbandonedIn, TransitionAssumption DEF Bounded
<1> QED
  BY <1>1, <1>4, <1>7, <1>8, <1>9, <1>10, <1>11, ApartStays, StandsStays DEF Inv
-----------------------------------------------------------------------------
(***************************************************************************)
(* The theorems                                                            *)
(***************************************************************************)
LEMMA InitFits == Init => Inv
<1> SUFFICES ASSUME Init PROVE Inv
  OBVIOUS
<1>1. Queues(writers) /\ \A s \in Scopes : Range(writers[s]) = {}
  BY DEF Init, Queues, Queue, IsInjective, Range
<1>2. \A t \in Tabs : TabFits(t, Closed, writers)
  BY <1>1 DEF TabFits, TabRecords, Closed, UnsavedFits, SessionFits, Asked, Got, TransitionFits
<1>3. TabsFit(tabs, writers)
  BY <1>2 DEF Init, TabsFit, TabFits
<1>4. LeasesFit(leases) /\ Apart(tabs) /\ Stands(tabs, leases) /\ Bounded
  BY TransitionAssumption DEF Init, Closed, LeasesFit, Apart, Stands, Bounded
<1> QED
  BY <1>1, <1>3, <1>4 DEF Inv

LEMMA StepFits == Inv /\ [Next]_vars => Inv'
<1> SUFFICES ASSUME Inv, [Next]_vars PROVE Inv'
  OBVIOUS
<1>1. CASE \E t \in Tabs : \E p \in Pages \cup {None} : Open(t, p)
  BY <1>1, OpenKeeps
<1>2. CASE \E t \in Tabs : Edit(t) \/ Save(t) \/ Renew(t) \/ Crash(t) \/ SignOut(t)
  BY <1>2, EditKeeps, SaveKeeps, RenewKeeps, CrashKeeps, SignOutKeeps
<1>3. CASE \E t \in Tabs : SessionGoes(t)
  BY <1>3, AcquireWriterKeeps, FlushSessionKeeps, FlushFailsKeeps, ReleaseSessionKeeps
     DEF SessionGoes
<1>4. CASE \E t \in Tabs, s \in Scopes : Begin(t, s)
  BY <1>4, BeginKeeps
<1>5. CASE \E t \in Tabs : TransitionGoes(t)
  BY <1>5, DrainedKeeps, GiveUpKeeps, ActKeeps, FinishKeeps DEF TransitionGoes
<1>6. CASE \E t \in Tabs : EventOrTimer(t)
  BY <1>6, HandleStorageEventKeeps, ReapKeeps DEF EventOrTimer
<1>7. CASE \E s \in Scopes : Expire(s)
  BY <1>7, ExpireKeeps
<1>8. CASE UNCHANGED vars
  BY <1>8 DEF vars, Inv, Bounded
<1> QED
  BY <1>1, <1>2, <1>3, <1>4, <1>5, <1>6, <1>7, <1>8 DEF Next

\* The queues hold what the tabs asked for, transitions have no scope in common
\* and each has its lease.
THEOREM Fits == Spec => []Inv
BY InitFits, StepFits, PTL DEF Spec

\* Every variable keeps its type, and no lock is asked for twice
\* (page-transition-lock.js, the session and the lease of app.js).
THEOREM TransitionTyped == Spec => []TypeOK
<1>1. Inv => TypeOK
  <2> SUFFICES ASSUME Inv PROVE TypeOK
    OBVIOUS
  <2>1. /\ tabs \in [Tabs -> TabRecords] /\ LeasesFit(leases) /\ Queues(writers) /\ Bounded
    BY DEF Inv, TabsFit
  <2> QED
    BY <2>1 DEF TypeOK, TabRecords, LeasesFit, Queues, Queue, Requests, Bounded
<1> QED
  BY <1>1, Fits, PTL

\* What was typed lies behind both writer locks of its page, through failed
\* saves, storage events, navigation and sign-outs.
THEOREM TypedLocked == Spec => []TypedBehindLocks
<1>1. Inv => TypedBehindLocks
  <2> SUFFICES ASSUME Inv, NEW t \in Tabs, tabs[t].unsaved = "typed",
                      NEW s \in ScopesOf(tabs[t].page)
               PROVE  Granted(t, s, "shared")
    BY DEF TypedBehindLocks
  <2>1. /\ tabs[t].session \in Sessions \cup {None} /\ SessionFits(t, tabs[t].session, writers)
        /\ UnsavedFits(tabs[t])
    BY TabIn DEF Inv
  <2>2. /\ tabs[t].session # None /\ tabs[t].session \in Sessions /\ tabs[t].session.acquired
        /\ tabs[t].session.page = tabs[t].page /\ ~tabs[t].session.spent
    BY <2>1 DEF UnsavedFits, SessionFits
  <2>3. s \in Got(tabs[t].session)
    BY <2>2, AsksAre
  <2> QED
    BY <2>1, <2>3 DEF SessionFits, Granted
<1> QED
  BY <1>1, Fits, PTL

\* Where a transition acts, nobody types, and nothing that was typed is unsaved:
\* its exclusive lock and the shared locks of an edit are never held together.
THEOREM AloneWhenActing == Spec => []ActsAlone
<1>1. Inv => ActsAlone
  <2> SUFFICES ASSUME Inv, NEW t \in Tabs, NEW u \in Tabs, InPhase(t, "acting"),
                      tabs[t].transition.scope \in ScopesOf(tabs[u].page),
                      tabs[u].unsaved = "typed" \/ CanEdit(u)
               PROVE  FALSE
    BY DEF ActsAlone
  <2> DEFINE s == tabs[t].transition.scope
  <2>1. /\ tabs[u].session \in Sessions \cup {None} /\ SessionFits(u, tabs[u].session, writers)
        /\ UnsavedFits(tabs[u]) /\ TransitionFits(t, tabs[t].transition, writers)
        /\ tabs[t].transition \in Transitions \cup {None} /\ Queues(writers)
    BY TabIn DEF Inv
  <2>2. s \in Scopes /\ Grants(writers[s], Request(t, "exclusive"))
    BY <2>1 DEF InPhase, TransitionFits, Transitions
  <2>3. /\ tabs[u].session # None /\ tabs[u].session \in Sessions /\ tabs[u].session.acquired
        /\ tabs[u].session.page = tabs[u].page /\ ~tabs[u].session.spent
    BY <2>1 DEF UnsavedFits, CanEdit, SessionFits
  <2>4. s \in Got(tabs[u].session)
    BY <2>3, AsksAre
  <2>5. Grants(writers[s], Request(u, "shared"))
    BY <2>1, <2>4 DEF SessionFits
  <2> QED
    BY <2>1, <2>2, <2>5, HeldAlone DEF Queues
<1> QED
  BY <1>1, Fits, PTL

\* While a transition goes on and its tab is signed in, its lease is there, in
\* its name: neither releaseExpired nor another transition takes it away.
THEOREM LeasesStand == Spec => []LeaseStands
<1>1. Inv => LeaseStands
  BY DEF Inv, Stands, LeaseStands, Owns
<1> QED
  BY <1>1, Fits, PTL
=============================================================================
