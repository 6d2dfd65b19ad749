---------------------------- MODULE PageTransition ----------------------------
(***************************************************************************)
(* How the tabs of one browser keep a destructive operation on a page, or  *)
(* on a whole workspace, apart from each other's edits.                    *)
(*                                                                         *)
(* A tab that shows a page for writing holds the shared writer locks of    *)
(* the page and of its workspace.  A transition (a deletion, a move, a     *)
(* restore) takes the exclusive locks of its scopes, leaves a lease in     *)
(* localStorage, and waits for the exclusive writer lock before it acts.   *)
(* The others learn of the lease by a storage event, save what they have,  *)
(* and let go.  A lease outlives its tab: it expires, and who finds it     *)
(* expired may remove it under the exclusive locks.                        *)
(*                                                                         *)
(* The browser gives Web Locks in the order they were asked for and takes  *)
(* them back from a tab that dies; it delivers storage events late.        *)
(*                                                                         *)
(* Definitions whose comment says "Fault" are not part of the model: each  *)
(* is a mistake this code could contain, kept next to the definition it    *)
(* would replace, to show that a property would notice it.                 *)
(***************************************************************************)
EXTENDS Integers, Sequences, SequencesExt

CONSTANTS
    None,
    Tabs, Pages, Workspaces,
    Workspace,              \* the workspace of each page's owner
    BeforeWorkspace,        \* pages whose id sorts before their workspace's
    MaxLosses               \* bound: crashes and sign-outs

ASSUME TransitionAssumption ==
    /\ Workspace \in [Pages -> Workspaces] /\ Pages \cap Workspaces = {}
    /\ None \notin Tabs \cup Pages \cup Workspaces
    /\ BeforeWorkspace \subseteq Pages /\ MaxLosses \in Nat

Scopes == Pages \cup Workspaces

Sessions == [page : Pages, asked : 1 .. 2, acquired : BOOLEAN, spent : BOOLEAN,
             stop : {"no", "flush", "release"}]

Transitions == [scope : Scopes, phase : {"draining", "waiting", "acting"}, leased : BOOLEAN]

Leases == [tab : Tabs, exclusive : Workspaces, expired : BOOLEAN]

ASSUME NoneAssumption == None \notin Sessions \cup Transitions \cup Leases

VARIABLES
    tabs,       \* what each tab remembers
    leases,     \* localStorage: the lease of each scope
    writers,    \* requests for each writer lock, in order of arrival
    told,       \* tabs to which a storage event is on its way
    drafts,     \* pages with an edit that only the recovery store has
    losses

vars == <<tabs, leases, writers, told, drafts, losses>>

\* page: open for writing.  unsaved: an edit that was typed, or recovered from a
\* draft.
Closed == [page |-> None, session |-> None, unsaved |-> "none", transition |-> None]

\* spent: the locks came when the session was about to stop, and were given back.
Session(p) == [page |-> p, asked |-> 1, acquired |-> FALSE, spent |-> FALSE, stop |-> "no"]

Init ==
    /\ tabs = [t \in Tabs |-> Closed]
    /\ leases = [s \in Scopes |-> None]
    /\ writers = [s \in Scopes |-> <<>>]
    /\ told = {} /\ drafts = {} /\ losses = 0

\* The scopes a transition locks, and those a writer of a page locks.
ScopesOf(s) == IF s \in Pages THEN {s, Workspace[s]} ELSE {s} \ {None}

\* In the order of their names.
WriterLockIds(p) == IF p \in BeforeWorkspace THEN <<p, Workspace[p]>> ELSE <<Workspace[p], p>>

Request(t, mode) == [tab |-> t, mode |-> mode]

\* A shared request is granted when only shared ones are before it, an
\* exclusive one when it is the first.
Grants(queue, request) ==
    \E i \in DOMAIN queue :
        /\ queue[i] = request
        /\ \A j \in 1 .. i - 1 : request.mode = "shared" /\ queue[j].mode = "shared"

Granted(t, s, mode) == Grants(writers[s], Request(t, mode))

\* The queue without a request, which is in it at most once.
Without(queue, request) ==
    IF request \in Range(queue)
    THEN RemoveAt(queue, CHOOSE i \in DOMAIN queue : queue[i] = request)
    ELSE queue

ExclusiveFree(scopes) ==
    \A u \in Tabs : tabs[u].transition # None
        => scopes \cap ScopesOf(tabs[u].transition.scope) = {}

Owns(t, s) ==
    /\ tabs[t].transition # None /\ tabs[t].transition.scope = s
    /\ leases[s] # None /\ leases[s].tab = t
-----------------------------------------------------------------------------
(***************************************************************************)
(* syncPageModeUi: the last step of everything a tab does                  *)
(***************************************************************************)
\* A lease that has expired still locks the editor.
TransitionLocked(tab, ls) ==
    \/ tab.transition # None /\ tab.transition.leased /\ tab.transition.scope \in ScopesOf(tab.page)
    \/ \E s \in ScopesOf(tab.page) : ls[s] # None

Stopping(session, how) ==
    IF session # None /\ session.stop = "no" THEN [session EXCEPT !.stop = how] ELSE session

\* stopPageWriterSession({ flush: true })
Stopped(tab) == [tab EXCEPT !.session = Stopping(@, "flush")]

SessionSynced(tab, ls) ==
    IF tab.session # None
    THEN IF tab.session.page = tab.page THEN tab.session ELSE Stopping(tab.session, "release")
    ELSE IF tab.page = None \/ TransitionLocked(tab, ls) THEN None ELSE Session(tab.page)

Synced(tab, ls) == [tab EXCEPT !.session = SessionSynced(tab, ls)]

\* Tab t, which was about to be tab, is now; a session that starts asks for its
\* first lock.
Turns(t, tab, now, ws) ==
    LET first == WriterLockIds(now.page)[1] IN
    /\ tabs' = [tabs EXCEPT ![t] = now]
    /\ writers' = IF tab.session = None /\ now.session # None
                  THEN [ws EXCEPT ![first] = Append(@, Request(t, "shared"))]
                  ELSE ws

Becomes(t, tab, ls, ws) == Turns(t, tab, Synced(tab, ls), ws)

\* The storage event of a change in leases goes to the other tabs.
Publish(t, ls) ==
    /\ leases' = ls
    /\ told' = IF ls = leases THEN told ELSE told \cup (Tabs \ {t})

\* Fault: what was asked for is not withdrawn.
StillAsked(t) == writers

ReleasedWriter(t) == [s \in Scopes |-> Without(writers[s], Request(t, "shared"))]
-----------------------------------------------------------------------------
(***************************************************************************)
(* Pages and edits                                                         *)
(***************************************************************************)
\* canEditSelectedPage, which every edit asks for when it is made.
CanEdit(t) ==
    LET tab == tabs[t] IN
    /\ tab.page # None /\ ~TransitionLocked(tab, leases)
    /\ tab.session # None /\ tab.session.page = tab.page
    /\ tab.session.acquired /\ tab.session.stop = "no"

Edit(t) ==
    /\ CanEdit(t)
    /\ tabs' = [tabs EXCEPT ![t].unsaved = "typed"]
    /\ UNCHANGED <<leases, writers, told, drafts, losses>>

\* A save timer, which saves nothing while the editor is locked.
Save(t) ==
    /\ CanEdit(t) /\ tabs[t].unsaved # "none"
    /\ tabs' = [tabs EXCEPT ![t].unsaved = "none"]
    /\ drafts' = drafts \ {tabs[t].page}
    /\ UNCHANGED <<leases, writers, told, losses>>

\* openPage and setPageMode lock the editor, save, load, and change the page; if
\* they cannot save or load, nothing has changed.
Open(t, p) ==
    LET left == drafts \ (IF tabs[t].unsaved = "none" THEN {} ELSE {tabs[t].page})
        unsaved == IF p \in left THEN "recovered" ELSE "none"
    IN
    /\ drafts' = left
    /\ Becomes(t, [tabs[t] EXCEPT !.unsaved = unsaved, !.page = p], leases, writers)
    /\ UNCHANGED <<leases, told, losses>>
-----------------------------------------------------------------------------
(***************************************************************************)
(* The writer session                                                      *)
(***************************************************************************)
\* The next lock of the session is granted: it asks for another, or has all.
AcquireWriter(t) ==
    LET session == tabs[t].session
        ids == WriterLockIds(session.page)
    IN
    /\ session # None /\ ~session.acquired /\ ~session.spent /\ session.stop # "release"
    /\ Granted(t, ids[session.asked], "shared")
    /\ IF session.asked < Len(ids)
       THEN /\ tabs' = [tabs EXCEPT ![t].session.asked = @ + 1]
            /\ writers' = [writers EXCEPT ![ids[session.asked + 1]] =
                              Append(@, Request(t, "shared"))]
       ELSE IF session.stop = "no"
       THEN Becomes(t, [tabs[t] EXCEPT !.session.acquired = TRUE], leases, writers)
       ELSE /\ tabs' = [tabs EXCEPT ![t].session.spent = TRUE]
            /\ writers' = ReleasedWriter(t)
    /\ UNCHANGED <<leases, told, drafts, losses>>

\* stopPageWriterSession saves before it lets go of the locks.
FlushSession(t) ==
    /\ tabs[t].session # None /\ tabs[t].session.stop = "flush"
    /\ tabs' = [tabs EXCEPT ![t].unsaved = "none", ![t].session.stop = "release"]
    /\ drafts' = drafts \ (IF tabs[t].unsaved = "none" THEN {} ELSE {tabs[t].page})
    /\ UNCHANGED <<leases, writers, told, losses>>

\* Its locks are released, or its requests withdrawn.
ReleaseSession(t) ==
    /\ tabs[t].session # None /\ tabs[t].session.stop = "release"
    /\ Becomes(t, [tabs[t] EXCEPT !.session = None], leases, ReleasedWriter(t))
    /\ UNCHANGED <<leases, told, drafts, losses>>

\* The handler of the storage event.  When there is a lease of another tab, this
\* one stops its session, or saves at once if it has none.
HandleStorageEvent(t) ==
    LET tab == Synced(tabs[t], leases)
        foreign == \E s \in ScopesOf(tab.page) : leases[s] # None /\ leases[s].tab # t
    IN
    /\ t \in told
    /\ told' = told \ {t}
    /\ IF ~foreign
       THEN Becomes(t, tabs[t], leases, writers) /\ UNCHANGED drafts
       ELSE IF tab.session # None
       THEN Turns(t, tabs[t], Stopped(tab), writers) /\ UNCHANGED drafts
       ELSE \E unsaved \in {"none", tab.unsaved} :
            /\ tabs' = [tabs EXCEPT ![t] = [tab EXCEPT !.unsaved = unsaved]]
            /\ drafts' = drafts \ (IF unsaved = tab.unsaved THEN {} ELSE {tab.page})
            /\ UNCHANGED writers
    /\ UNCHANGED <<leases, losses>>
-----------------------------------------------------------------------------
(***************************************************************************)
(* Leases                                                                  *)
(***************************************************************************)
Expire(s) ==
    /\ leases[s] # None /\ ~leases[s].expired
    /\ leases' = [leases EXCEPT ![s].expired = TRUE]
    /\ UNCHANGED <<tabs, writers, told, drafts, losses>>

\* The renewal timer, which may be late.
Renew(t) ==
    LET transition == tabs[t].transition IN
    /\ transition # None /\ Owns(t, transition.scope) /\ leases[transition.scope].expired
    /\ Publish(t, [leases EXCEPT ![transition.scope].expired = FALSE])
    /\ UNCHANGED <<tabs, writers, drafts, losses>>

\* Fault: an expired lease is taken for an abandoned one.
ReapableOnSight(s) == leases[s] # None /\ leases[s].expired

\* Fault: a lease that names another scope is left for its owner.
ReapableIfOwnScope(s) ==
    /\ leases[s] # None /\ leases[s].expired /\ leases[s].exclusive = s
    /\ ExclusiveFree(ScopesOf(s))

\* releaseExpired under runExclusive: no transition holds a lock of the lease.
Reapable(s) == leases[s] # None /\ leases[s].expired /\ ExclusiveFree(ScopesOf(s))

\* The timer of a tab that is locked by a lease.
Reap(t, s) ==
    /\ tabs[t].page # None /\ s \in ScopesOf(tabs[t].page)
    /\ Reapable(s)
    /\ LET ls == [leases EXCEPT ![s] = None] IN Publish(t, ls) /\ Becomes(t, tabs[t], ls, writers)
    /\ UNCHANGED <<drafts, losses>>
-----------------------------------------------------------------------------
(***************************************************************************)
(* withPagePersistenceTransition                                           *)
(***************************************************************************)
Active(s) == leases[s] # None /\ ~leases[s].expired

Lease(t, s) ==
    [tab |-> t, exclusive |-> IF s \in Pages THEN Workspace[s] ELSE s, expired |-> FALSE]

\* The exclusive locks are free; expired leases are removed under them, and the
\* lease is written.  The tab's own session begins to stop.  A transition that
\* is refused leaves no trace.
Begin(t, s) ==
    LET written == [x \in Scopes |->
            IF x = s THEN Lease(t, s) ELSE IF x \in ScopesOf(s) THEN None ELSE leases[x]]
        transition == [scope |-> s, phase |-> "draining", leased |-> TRUE]
        tab == [tabs[t] EXCEPT !.transition = transition]
    IN
    /\ tabs[t].transition = None
    /\ \A x \in ScopesOf(s) : ~Active(x)
    /\ ExclusiveFree(ScopesOf(s))
    /\ Publish(t, written)
    /\ Turns(t, tab, Stopped(Synced(tab, written)), writers)
    /\ UNCHANGED <<drafts, losses>>

\* The transition of t is over, whatever became of it, and the tab is as given.
Ends(t, tab) ==
    LET s == tab.transition.scope
        ls == IF Owns(t, s) THEN [leases EXCEPT ![s] = None] ELSE leases
        ws == [writers EXCEPT ![s] = Without(@, Request(t, "exclusive"))]
    IN
    /\ Publish(t, ls)
    /\ Becomes(t, [tab EXCEPT !.transition = None], ls, ws)
    /\ UNCHANGED <<drafts, losses>>

InPhase(t, phase) == tabs[t].transition # None /\ tabs[t].transition.phase = phase

\* Fault: the lock is given up with the save.
LetGo(tab) == [tab EXCEPT !.session.stop = "release"]

\* What could not be saved stays behind the lock.
HoldsOn(tab) == [tab EXCEPT !.session.stop = "no"]

\* A session of the tab cannot save what it has; nor can its transition go on.
FlushFails(t) ==
    /\ tabs[t].session # None /\ tabs[t].session.stop = "flush" /\ tabs[t].unsaved # "none"
    /\ IF InPhase(t, "draining")
       THEN Ends(t, HoldsOn(tabs[t]))
       ELSE /\ Becomes(t, HoldsOn(tabs[t]), leases, writers)
            /\ UNCHANGED <<leases, told, drafts, losses>>

\* Fault: the writers are not waited for.
NoBarrier(t, s) == TRUE

Barrier(t, s) == Granted(t, s, "exclusive")

\* The tab's own session is gone; without one it has saved all the same.  If the
\* lease stands, and none of the workspace has come, it waits for the writers.
Drained(t) ==
    LET s == tabs[t].transition.scope IN
    /\ InPhase(t, "draining")
    /\ tabs[t].session # None => tabs[t].session.stop = "no"
    /\ IF Owns(t, s) /\ \A x \in ScopesOf(s) \ {s} : leases[x] = None
       THEN /\ tabs' = [tabs EXCEPT ![t].transition.phase = "waiting"]
            /\ writers' = [writers EXCEPT ![s] = Append(@, Request(t, "exclusive"))]
            /\ UNCHANGED <<leases, told, drafts, losses>>
       ELSE Ends(t, tabs[t])

\* The timer of ten seconds fires, another lease is in the way, or the recovery
\* store cannot be read.
GiveUp(t) == InPhase(t, "waiting") /\ Ends(t, tabs[t])

\* A transition of a workspace needs every other lease gone; those of its own
\* pages it removes itself when they have expired.
Swept(s) == [x \in Scopes |->
    IF /\ x # s /\ s \in Workspaces
       /\ leases[x] # None /\ leases[x].expired /\ leases[x].exclusive = s
    THEN None ELSE leases[x]]

Act(t) ==
    LET s == tabs[t].transition.scope IN
    /\ InPhase(t, "waiting") /\ Barrier(t, s)
    /\ s \in Workspaces => \A x \in Scopes \ {s} : Swept(s)[x] = None
    /\ tabs' = [tabs EXCEPT ![t].transition.phase = "acting"]
    /\ Publish(t, Swept(s))
    /\ UNCHANGED <<writers, drafts, losses>>

Finish(t) == InPhase(t, "acting") /\ Ends(t, tabs[t])
-----------------------------------------------------------------------------
(***************************************************************************)
(* A tab is lost                                                           *)
(***************************************************************************)
Abandoned(t) == IF tabs[t].unsaved = "none" THEN drafts ELSE drafts \cup {tabs[t].page}

\* It crashes or is reloaded: the browser takes back its locks, and its lease
\* stays.  What it had not saved is in the recovery store.
Crash(t) ==
    /\ losses < MaxLosses /\ losses' = losses + 1
    /\ tabs' = [tabs EXCEPT ![t] = Closed]
    /\ writers' = [s \in Scopes |-> Without(ReleasedWriter(t)[s], Request(t, "exclusive"))]
    /\ told' = told \ {t} /\ drafts' = Abandoned(t)
    /\ UNCHANGED leases

\* resetAuthenticationSessionState: the lease is released and the page closed
\* under a transition that still runs.
SignOut(t) ==
    LET ls == [s \in Scopes |-> IF Owns(t, s) THEN None ELSE leases[s]]
        tab == IF tabs[t].transition = None THEN tabs[t]
               ELSE [tabs[t] EXCEPT !.transition.leased = FALSE]
    IN
    /\ losses < MaxLosses /\ losses' = losses + 1
    /\ Publish(t, ls)
    /\ Becomes(t, [tab EXCEPT !.page = None, !.unsaved = "none"], ls, writers)
    /\ drafts' = Abandoned(t)
-----------------------------------------------------------------------------
SessionGoes(t) == AcquireWriter(t) \/ FlushSession(t) \/ FlushFails(t) \/ ReleaseSession(t)

TransitionGoes(t) == Drained(t) \/ GiveUp(t) \/ Act(t) \/ Finish(t)

EventOrTimer(t) == HandleStorageEvent(t) \/ \E s \in Scopes : Reap(t, s)

Next ==
    \/ \E t \in Tabs :
        \/ \E p \in Pages \cup {None} : Open(t, p)
        \/ Edit(t) \/ Save(t) \/ SessionGoes(t)
        \/ \E s \in Scopes : Begin(t, s)
        \/ TransitionGoes(t) \/ Renew(t) \/ EventOrTimer(t)
        \/ Crash(t) \/ SignOut(t)
    \/ \E s \in Scopes : Expire(s)

\* Locks are granted, saves end, a transition gets on when what it waits for has
\* come, events and timers are served, and time passes.
Fairness ==
    /\ \A t \in Tabs :
        WF_vars(SessionGoes(t)) /\ SF_vars(TransitionGoes(t)) /\ WF_vars(EventOrTimer(t))
    /\ WF_vars(\E s \in Scopes : Expire(s))

Spec == Init /\ [][Next]_vars /\ Fairness
-----------------------------------------------------------------------------
\* Every variable keeps its type, and nobody asks for a lock twice.
TypeOK ==
    /\ tabs \in [Tabs -> [page : Pages \cup {None}, session : Sessions \cup {None},
                          transition : Transitions \cup {None},
                          unsaved : {"none", "typed", "recovered"}]]
    /\ leases \in [Scopes -> Leases \cup {None}]
    /\ writers \in [Scopes -> Seq([tab : Tabs, mode : {"shared", "exclusive"}])]
    /\ \A s \in Scopes : IsInjective(writers[s])
    /\ told \subseteq Tabs /\ drafts \subseteq Pages /\ losses \in 0 .. MaxLosses

\* While a transition acts, nobody types in its scope, and what was typed there
\* is saved: also when its lease has expired, or was released by a sign-out.
ActsAlone ==
    \A t, u \in Tabs :
        InPhase(t, "acting") /\ tabs[t].transition.scope \in ScopesOf(tabs[u].page)
            => tabs[u].unsaved # "typed" /\ ~CanEdit(u)

\* What was typed and is not saved lies behind the writer locks of its page,
\* whatever events, failed saves and navigation have done to the session.
TypedBehindLocks ==
    \A t \in Tabs : tabs[t].unsaved = "typed" =>
        \A s \in ScopesOf(tabs[t].page) : Granted(t, s, "shared")

\* The lease of a transition stays until its own tab removes it: nobody takes
\* an expired lease for an abandoned one.
LeaseStands ==
    \A t \in Tabs : tabs[t].transition # None /\ tabs[t].transition.leased
        => Owns(t, tabs[t].transition.scope)

NoneBegins == \A t \in Tabs : tabs[t].transition = None => tabs'[t].transition = None

Spent(t) == tabs[t].session # None /\ tabs[t].session.spent

\* When no transition begins any more, those under way end, tabs that hold locks
\* do not wait for each other for ever, leases of tabs that are gone are removed,
\* and a page that tab t has open for writing becomes editable; except in a session
\* that was granted its locks while it was stopping, and could then not save.
EditorReturns(t) ==
    <>[][NoneBegins]_vars => \A p \in Pages :
        tabs[t].page = p ~> CanEdit(t) \/ Spent(t) \/ tabs[t].page # p
=============================================================================
