----------------------------- MODULE BlockSaving -----------------------------
(***************************************************************************)
(* How the editor saves a block of a page that is not shared: a browser    *)
(* journal of drafts, one save queue per block, optimistic versions on the *)
(* server, and the ways in which several tabs of one account get in each   *)
(* other's way.  Requests are lost or answered late, tabs are closed and   *)
(* opened again in the middle of everything, and drafts found at opening   *)
(* are offered for recovery.                                               *)
(*                                                                         *)
(* The model follows one block.  Every edit types a text of its own, so a  *)
(* text is the number of the edit that produced it and 0 is the text the   *)
(* block starts with.  The version of the block is the length of its log.  *)
(*                                                                         *)
(* Definitions whose comment says "Fault" are not part of the model: each  *)
(* is a mistake this code could contain, kept next to the definition it    *)
(* would replace, to show that a property would notice it.                 *)
(***************************************************************************)
EXTENDS Integers, Sequences, FiniteSetsExt

CONSTANTS
    None,
    MaxEdits,               \* bound: texts typed
    MaxLoads,               \* bound: tabs of the account, a reload counted as a new one
    MaxSaves,               \* bound: saves begun
    MaxFailures,            \* bound: answers that never arrive
    OrderLists,             \* reordered lists: "own" has the block, "other" has not
    RebuildsInFlight,       \* whether rows are built again in the middle of a save
    MaxInterruptions        \* bound: reorders, and rows built again

ASSUME SavingAssumption ==
    /\ MaxEdits \in Nat /\ MaxLoads \in Nat /\ MaxSaves \in Nat
    /\ MaxFailures \in Nat /\ MaxInterruptions \in Nat /\ OrderLists \subseteq {"own", "other"}
    /\ RebuildsInFlight \in BOOLEAN

Texts    == 0 .. MaxEdits
Tabs     == 1 .. MaxLoads
Sources  == Tabs                        \* pageDraftSourceId: one per page load
NoMutation == 0                         \* the n-th task has the mutation id n

VARIABLES
    log,                    \* the versions of the block, oldest first
    drafts,                 \* draft journal of the browser, per source
    tabs,                   \* editor state of each tab
    wire,                   \* PATCH requests the server has not processed
    edits,                  \* number of texts typed
    typedOver,              \* texts the user has replaced by typing
    tasks,                  \* number of save tasks made
    loads, saves, failures, interruptions

counters == <<tasks, loads, saves, failures, interruptions>>
vars == <<log, drafts, tabs, wire, edits, typedOver, counters>>

\* `seen' records what the code does not: the newest version whose text the
\* user had before them, or agreed to overwrite, when this one was written.
Entry(text, mutation, source, seen) ==
    [text |-> text, mutation |-> mutation, source |-> source, seen |-> seen]

Version == Len(log)
Block   == log[Version]

ClosedTab ==
    [source |-> 0, text |-> 0, revision |-> 0, expected |-> 0, dirty |-> FALSE,
     conflict |-> FALSE, origin |-> None, known |-> 0, content |-> 0,
     timer |-> FALSE, admitting |-> {}, latest |-> 0,
     retry |-> None, pending |-> None, run |-> None, order |-> None, seen |-> 0]

Opened(tab) == tab.source # 0
Busy(tab)   == tab.retry # None \/ tab.pending # None \/ tab.run # None

Init ==
    /\ log = <<Entry(0, NoMutation, 0, 0)>>
    /\ drafts = [s \in Sources |-> None]
    /\ tabs = [t \in Tabs |-> ClosedTab]
    /\ wire = {}
    /\ edits = 0 /\ typedOver = {} /\ tasks = 0
    /\ loads = 0 /\ saves = 0 /\ failures = 0
    /\ interruptions = 0
-----------------------------------------------------------------------------
(***************************************************************************)
(* The draft journal.                                                      *)
(***************************************************************************)
Draft(text, expected, revision) ==
    [text |-> text, expected |-> expected, revision |-> revision]

\* acknowledgeBlock: a newer draft is rebased, not removed.
Acknowledged(draft, revision, version) ==
    IF draft = None \/ draft.revision <= revision THEN None
    ELSE [draft EXCEPT !.expected = version]

\* Fault: the draft a recovery started from goes whatever it holds by now.
RemovedAnyway(draft, origin) == None

\* removeBlockIfUnchanged
RemovedIfUnchanged(draft, origin) ==
    IF draft # None /\ draft = Draft(origin.text, origin.expected, origin.revision)
    THEN None ELSE draft

\* persistBlockDraft: the version the row is based on moves up with what the
\* tab knows, except while a conflict is open.
Base(tab) ==
    LET draft == drafts[tab.source]
    IN  Max({tab.expected, IF draft = None THEN 0 ELSE draft.expected}
                \cup (IF tab.conflict THEN {} ELSE {tab.known}))

Persisted(tab) == [tab EXCEPT !.expected = Base(tab), !.dirty = TRUE]

Journal(tab) ==
    [drafts EXCEPT ![tab.source] = Draft(tab.text, Base(tab), tab.revision)]
-----------------------------------------------------------------------------
(***************************************************************************)
(* Opening a page.                                                         *)
(***************************************************************************)

\* A row without a draft, as renderBlock builds it from the state.
CleanRow(tab) ==
    [tab EXCEPT !.text = tab.content, !.revision = 0, !.expected = 0,
                !.dirty = FALSE, !.conflict = FALSE, !.seen = tab.known]

\* A row built from a draft or from the origin of a recovery.
DraftRow(tab, draft) ==
    [tab EXCEPT !.text = draft.text, !.revision = draft.revision,
                !.expected = draft.expected, !.dirty = TRUE,
                !.conflict = tab.origin # None /\ ~tab.origin.resolved]

\* renderSelectedPage: what dirty rows hold goes into the state, and the rows
\* are built again.  A timer set for another content does nothing any more.
Rendered(tab) ==
    LET draft == drafts[tab.source]
        kept  == [tab EXCEPT !.content = IF tab.dirty THEN tab.text ELSE @]
        row   == IF draft # None THEN DraftRow(kept, draft)
                 ELSE IF tab.origin # None THEN DraftRow(kept, tab.origin)
                 ELSE CleanRow(kept)
    IN  [row EXCEPT !.timer = @ /\ row.text = tab.text /\ row.revision = tab.revision]

\* A page freshly read from the server.
Fresh(source) ==
    CleanRow([ClosedTab EXCEPT !.source = source, !.known = Version, !.content = Block.text])

\* applyPersistedPageDraft: a draft that the server has is acknowledged.
Reconciled ==
    [s \in Sources |-> IF drafts[s] # None /\ drafts[s].text = Block.text
                       THEN None ELSE drafts[s]]

\* activatePersistedPageDraft: a draft is copied into the source of this tab,
\* and only an explicit confirmation will send it.
Recovered(source, from, kept) ==
    LET own == kept[source]
        draft == kept[from]
        base == Max({draft.expected, IF own = None THEN 0 ELSE own.expected})
    IN  [Fresh(source) EXCEPT
            !.text = draft.text, !.revision = draft.revision, !.expected = base,
            !.dirty = TRUE, !.conflict = TRUE, !.content = draft.text, !.seen = 0,
            !.origin = [source |-> from, text |-> draft.text, expected |-> draft.expected,
                        revision |-> draft.revision, resolved |-> FALSE]]

\* Which of several drafts was written last is left open.
OpenedPage(t) ==
    LET kept == Reconciled
        left == {s \in Sources : kept[s] # None}
    IN  \/ /\ left = {}
           /\ drafts' = kept
           /\ tabs' = [tabs EXCEPT ![t] = Fresh(t)]
        \/ \E from \in left :
              LET tab == Recovered(t, from, kept)
              IN  /\ drafts' = [kept EXCEPT
                        ![t] = Draft(tab.text, tab.expected, tab.revision)]
                  /\ tabs' = [tabs EXCEPT ![t] = tab]

\* A new tab, or a reload: the source is new, the page the same.
Open(t) ==
    /\ t = loads + 1 /\ loads' = t
    /\ OpenedPage(t)
    /\ UNCHANGED <<log, wire, edits, typedOver, tasks, saves, failures, interruptions>>

\* The tab is closed, reloaded or crashes.
Close(t) ==
    /\ Opened(tabs[t])
    /\ tabs' = [tabs EXCEPT ![t] = ClosedTab]
    /\ UNCHANGED <<log, drafts, wire, edits, typedOver, counters>>

\* A change of the language, for one, builds the rows again in place.
Rebuild(t) ==
    /\ Opened(tabs[t]) /\ tabs[t].order = None /\ interruptions < MaxInterruptions
    /\ RebuildsInFlight \/ (~Busy(tabs[t]) /\ tabs[t].admitting = {})
    /\ tabs' = [tabs EXCEPT ![t] = Rendered(@)]
    /\ interruptions' = interruptions + 1
    /\ UNCHANGED <<log, drafts, wire, edits, typedOver, tasks, loads, saves, failures>>
-----------------------------------------------------------------------------
(***************************************************************************)
(* Typing and saving.                                                      *)
(***************************************************************************)

\* promoteBlockDraftConflict: the user agrees to overwrite the version the
\* tab knows.
Confirmed(tab) ==
    [tab EXCEPT !.conflict = FALSE, !.expected = tab.known, !.seen = tab.known,
                !.origin = IF @ = None THEN None ELSE [@ EXCEPT !.resolved = TRUE]]

\* markBlockDirty, scheduleBlockSave: the draft is in the journal before
\* anything else happens.  With a conflict open the user is asked.
Type(t, agrees) ==
    /\ Opened(tabs[t]) /\ tabs[t].order = None /\ edits < MaxEdits
    /\ tabs[t].conflict \/ agrees
    /\ LET tab == [tabs[t] EXCEPT !.text = edits + 1, !.revision = @ + 1]
           asked == IF tab.conflict /\ agrees THEN Confirmed(tab) ELSE tab
       IN  /\ tabs' = [tabs EXCEPT ![t] = [Persisted(asked) EXCEPT !.timer = agrees]]
           /\ drafts' = Journal(asked)
    /\ edits' = edits + 1
    /\ typedOver' = typedOver \cup {tabs[t].text}
    /\ UNCHANGED <<log, wire, counters>>

\* saveBlockRow up to the wait for durable storage.
Unsaved(tab) ==
    \/ drafts[tab.source] # None \/ tab.expected # 0 \/ tab.dirty
    \/ tab.timer \/ Busy(tab) \/ tab.content # tab.text

NewRevision(tab) ==
    LET draft == drafts[tab.source]
        kept  == Max({tab.revision, IF draft = None THEN 0 ELSE draft.revision})
    IN  IF draft = None \/ draft.text # tab.text THEN kept + 1 ELSE kept

SaveRow(t, tab) ==
    LET row == [tab EXCEPT !.revision = NewRevision(tab)]
        saved == Persisted(row)
    IN  /\ tabs' = [tabs EXCEPT ![t] =
                IF tab.conflict THEN saved
                ELSE [saved EXCEPT !.admitting =
                        @ \cup {[text |-> row.text, revision |-> row.revision]}]]
        /\ drafts' = Journal(row)
        /\ saves < MaxSaves /\ saves' = saves + 1
        /\ UNCHANGED <<log, wire, edits, typedOver, tasks, loads, failures, interruptions>>

\* Enter, leaving the block, or a flush; `agrees' resolves an open conflict.
Save(t, agrees) ==
    /\ Opened(tabs[t]) /\ tabs[t].order = None
    /\ Unsaved(tabs[t]) /\ (agrees => tabs[t].conflict)
    /\ SaveRow(t, IF agrees THEN Confirmed(tabs[t]) ELSE tabs[t])

TimerFires(t) ==
    /\ Opened(tabs[t]) /\ tabs[t].order = None /\ tabs[t].timer
    /\ SaveRow(t, [tabs[t] EXCEPT !.timer = FALSE])

\* Fault: whatever waited for storage is admitted.
StillCurrent(tab, admission) == TRUE

\* The row may have changed while its draft was made durable.
Current(tab, admission) ==
    /\ tab.revision = admission.revision /\ tab.text = admission.text
    /\ ~tab.conflict /\ tab.order = None

Task(tab, admission) ==
    [id |-> tasks + 1, source |-> tab.source, text |-> admission.text,
     revision |-> admission.revision, expected |-> Max({tab.expected, tab.known}),
     pinned |-> 0, origin |-> tab.origin, seen |-> 0]

\* The writer fixes the version of a task when it first sends it.
Pinned(tab, task, journal) ==
    LET draft == journal[tab.source]
    IN  IF task.pinned # 0 THEN task
        ELSE [task EXCEPT !.seen = tab.seen, !.pinned =
                Max({IF draft = None THEN 0 ELSE draft.expected,
                         tab.expected, task.expected, tab.known})]

Request(task, attempt) ==
    [id |-> task.id, source |-> task.source, attempt |-> attempt, text |-> task.text,
     expected |-> task.pinned, seen |-> task.seen]

Run(task, attempt) == [task |-> task, attempt |-> attempt, answer |-> None]

\* Fault: a waiting edit goes before the task to be retried.
DrainedNewestFirst(tab, attempt, journal) ==
    IF tab.pending # None
    THEN [tab EXCEPT !.run = Run(Pinned(tab, tab.pending, journal), attempt), !.pending = None]
    ELSE IF tab.retry # None
    THEN [tab EXCEPT !.run = Run(Pinned(tab, tab.retry, journal), attempt), !.retry = None]
    ELSE [tab EXCEPT !.run = None]

\* drain: a task whose outcome is unknown goes before any newer one.
Drained(tab, attempt, journal) ==
    IF tab.retry # None
    THEN [tab EXCEPT !.run = Run(Pinned(tab, tab.retry, journal), attempt), !.retry = None]
    ELSE IF tab.pending # None
    THEN [tab EXCEPT !.run = Run(Pinned(tab, tab.pending, journal), attempt), !.pending = None]
    ELSE [tab EXCEPT !.run = None]

\* The requests on the wire after a step that may have sent one.
Sent(before, after) ==
    IF after.run = None \/ after.run = before.run THEN wire
    ELSE wire \cup {Request(after.run.task, after.run.attempt)}

\* saveBlockRow after the wait, and enqueue: only the newest task waits.
Admit(t, admission) ==
    /\ Opened(tabs[t]) /\ admission \in tabs[t].admitting
    /\ LET tab == [tabs[t] EXCEPT !.admitting = @ \ {admission}]
           task == Task(tab, admission)
           queued == [tab EXCEPT !.timer = FALSE, !.latest = task.id, !.pending = task]
           next == IF tab.run = None THEN Drained(queued, failures, drafts) ELSE queued
       IN  IF ~Current(tab, admission)
           THEN /\ tabs' = [tabs EXCEPT ![t] = tab]
                /\ UNCHANGED <<wire, tasks>>
           ELSE /\ tasks' = tasks + 1
                /\ tabs' = [tabs EXCEPT ![t] = next]
                /\ wire' = Sent(tab, next)
    /\ UNCHANGED <<log, drafts, edits, typedOver, loads, saves, failures, interruptions>>
-----------------------------------------------------------------------------
(***************************************************************************)
(* The server.                                                             *)
(***************************************************************************)
Answer(version, text) == [version |-> version, text |-> text]
Conflict == Answer(0, 0)

\* isMatchingMutationReplay
Replayed(request) == Block.mutation = request.id

Accepted(request) == request.expected = Version

\* Fault: a replay answers with the version a new save would have got.
AnswerAhead(request) ==
    IF Replayed(request) \/ Accepted(request) THEN Answer(Version + 1, request.text)
    ELSE Conflict

AnswerTo(request) ==
    IF Replayed(request) THEN Answer(Version, Block.text)
    ELSE IF Accepted(request) THEN Answer(Version + 1, request.text)
    ELSE Conflict

\* Whoever still waits for the answer: the attempt was not given up.
Awaits(tab, request) ==
    /\ tab.source = request.source /\ tab.run # None
    /\ tab.run.task.id = request.id /\ tab.run.attempt = request.attempt

\* PATCH /blocks/:blockId
Patch(request) ==
    /\ request \in wire
    /\ wire' = wire \ {request}
    /\ log' = IF ~Replayed(request) /\ Accepted(request)
              THEN Append(log, Entry(request.text, request.id, request.source, request.seen))
              ELSE log
    /\ tabs' = [t \in Tabs |->
            IF Awaits(tabs[t], request)
            THEN [tabs[t] EXCEPT !.run.answer = AnswerTo(request)] ELSE tabs[t]]
    /\ UNCHANGED <<drafts, edits, typedOver, counters>>
-----------------------------------------------------------------------------
(***************************************************************************)
(* What the tab makes of the outcome.                                      *)
(***************************************************************************)
Answered(t) == Opened(tabs[t]) /\ tabs[t].run # None /\ tabs[t].run.answer # None

\* The journal after a save: the draft of the source, then the one the
\* recovery started from.
Settled(task, version) ==
    LET kept == [drafts EXCEPT ![task.source] = Acknowledged(@, task.revision, version)]
    IN  IF task.origin = None THEN kept
        ELSE [kept EXCEPT ![task.origin.source] = RemovedIfUnchanged(@, task.origin)]

\* The end of the writer: the state takes the version, but the text only if
\* nothing newer is in the row or the journal; the row becomes clean or is
\* based on the new version.
RowAfter(tab, task, draft, answer) ==
    LET newerDraft == draft # None /\ draft.revision > task.revision
        newer == newerDraft \/ tab.revision > task.revision \/ tab.latest > task.id
        based == [tab EXCEPT !.known = answer.version,
                             !.content = IF newerDraft THEN draft.text
                                         ELSE IF newer THEN tab.text ELSE answer.text]
    IN  IF tab.latest = task.id /\ tab.revision = task.revision
        THEN [based EXCEPT !.dirty = FALSE, !.expected = 0]
        ELSE IF newer THEN [based EXCEPT !.expected = answer.version]
        ELSE based

ReceiveSaved(t) ==
    /\ Answered(t) /\ tabs[t].run.answer # Conflict
    /\ LET tab == tabs[t]
           task == tab.run.task
           answer == tab.run.answer
           kept == Settled(task, answer.version)
           after == [RowAfter(tab, task, kept[tab.source], answer) EXCEPT
                        !.seen = answer.version,
                        !.origin = IF @ = task.origin THEN None ELSE @]
           next == Drained(after, failures, kept)
       IN  /\ drafts' = kept
           /\ tabs' = [tabs EXCEPT ![t] = next]
           /\ wire' = Sent(tab, next)
    /\ UNCHANGED <<log, edits, typedOver, counters>>

\* Fault: the queue still counts the failed task as running.
RejectedRunning(tab) ==
    [tab EXCEPT !.run.answer = None, !.pending = None, !.dirty = TRUE, !.conflict = TRUE]

\* Fault: the row moves on to the version it met, and no conflict is shown.
RejectedRebased(tab) ==
    [tab EXCEPT !.run = None, !.pending = None, !.dirty = TRUE, !.expected = Version]

\* A definitive failure: what waited behind the task is not sent either, and
\* the row keeps the version that was rejected.
Rejected(tab) ==
    [tab EXCEPT !.run = None, !.pending = None, !.dirty = TRUE, !.conflict = TRUE]

ReceiveConflict(t) ==
    /\ Answered(t) /\ tabs[t].run.answer = Conflict
    /\ tabs' = [tabs EXCEPT ![t] = Rejected(tabs[t])]
    /\ wire' = Sent(tabs[t], tabs'[t])
    /\ UNCHANGED <<log, drafts, edits, typedOver, counters>>

\* No answer, or a failure of the server: the outcome is unknown, and the
\* request may still be carried out.  The task waits for the next save or
\* flush, exactly as it was sent.
LoseAnswer(t) ==
    /\ Opened(tabs[t]) /\ tabs[t].run # None /\ failures < MaxFailures
    /\ tabs' = [tabs EXCEPT ![t] =
            [@ EXCEPT !.run = None, !.retry = tabs[t].run.task, !.dirty = TRUE]]
    /\ failures' = failures + 1
    /\ UNCHANGED <<log, drafts, wire, edits, typedOver, tasks, loads, saves, interruptions>>

\* flush: the queue is drained without a new task.
Flush(t) ==
    /\ Opened(tabs[t]) /\ tabs[t].run = None /\ tabs[t].order = None
    /\ tabs[t].retry # None \/ tabs[t].pending # None
    /\ tabs' = [tabs EXCEPT ![t] = Drained(@, failures, drafts)]
    /\ wire' = Sent(tabs[t], tabs'[t])
    /\ UNCHANGED <<log, drafts, edits, typedOver, counters>>
-----------------------------------------------------------------------------
(***************************************************************************)
(* Reordering sibling blocks, with the page locked for edits.              *)
(***************************************************************************)

\* finishBlockDrag: pending edits were saved first, or stand in conflict.
StartOrder(t, list) ==
    /\ Opened(tabs[t]) /\ tabs[t].order = None /\ interruptions < MaxInterruptions
    /\ ~Busy(tabs[t]) /\ ~tabs[t].timer /\ (tabs[t].dirty => tabs[t].conflict)
    /\ tabs' = [tabs EXCEPT ![t] =
            [Rendered([@ EXCEPT !.content = tabs[t].text]) EXCEPT !.order =
                [list |-> list, expected |-> tabs[t].known, answer |-> None]]]
    /\ interruptions' = interruptions + 1
    /\ UNCHANGED <<log, drafts, wire, edits, typedOver, tasks, loads, saves, failures>>

\* POST /pages/:pageId/blocks/reorder: the answer has every block of the page.
Reorder(t) ==
    LET order == tabs[t].order
    IN  /\ Opened(tabs[t]) /\ order # None /\ order.answer = None
        /\ log' = IF order.list = "own" /\ order.expected = Version
                  THEN Append(log, Entry(Block.text, NoMutation, tabs[t].source, Version))
                  ELSE log
        /\ tabs' = [tabs EXCEPT ![t].order =
                IF order.list = "own" /\ order.expected # Version
                THEN [@ EXCEPT !.answer = Conflict]
                ELSE [@ EXCEPT !.answer = Answer(Len(log'), Block.text)]]
        /\ UNCHANGED <<drafts, wire, edits, typedOver, counters>>

\* submitBlockOrderTask: every block of the answer goes into the state; the
\* rows stay as they are, unless the order is refused.
OrderAnswered(t) ==
    LET order == tabs[t].order
    IN  /\ Opened(tabs[t]) /\ order # None /\ order.answer # None
        /\ tabs' = [tabs EXCEPT ![t] =
                IF order.answer = Conflict THEN [Rendered(@) EXCEPT !.order = None]
                ELSE [@ EXCEPT !.order = None, !.known = order.answer.version,
                               !.content = order.answer.text]]
        /\ UNCHANGED <<log, drafts, wire, edits, typedOver, counters>>
-----------------------------------------------------------------------------
Next ==
    \/ \E t \in Tabs :
          \/ Open(t) \/ Close(t) \/ Rebuild(t)
          \/ \E agrees \in BOOLEAN : Type(t, agrees) \/ Save(t, agrees)
          \/ TimerFires(t)
          \/ \E admission \in tabs[t].admitting : Admit(t, admission)
          \/ ReceiveSaved(t) \/ ReceiveConflict(t) \/ LoseAnswer(t) \/ Flush(t)
          \/ \E list \in OrderLists : StartOrder(t, list)
          \/ Reorder(t) \/ OrderAnswered(t)
    \/ \E request \in wire : Patch(request)

\* What a running tab does by itself: the callbacks of a save run, and the
\* request it waits for is carried out.
Fairness ==
    \A t \in Tabs :
        /\ WF_vars(\E admission \in tabs[t].admitting : Admit(t, admission))
        /\ WF_vars(\E request \in wire : Awaits(tabs[t], request) /\ Patch(request))
        /\ WF_vars(ReceiveSaved(t) \/ ReceiveConflict(t))

Spec == Init /\ [][Next]_vars /\ Fairness
-----------------------------------------------------------------------------
(***************************************************************************)
(* Properties.                                                             *)
(***************************************************************************)
DraftType == [text : Texts, expected : Nat, revision : Nat]
OriginType ==
    [source : Sources, text : Texts, expected : Nat, revision : Nat, resolved : BOOLEAN]
AdmissionType == [text : Texts, revision : 0 .. MaxEdits + MaxSaves]
TaskType(ids, versions) ==
    [id : ids, source : Sources, text : Texts, revision : Nat, expected : versions,
     pinned : versions \cup {0}, origin : OriginType \cup {None}, seen : versions \cup {0}]
AnswerType(versions) == [version : versions \cup {0}, text : Texts]
RunType(ids, versions) ==
    [task : TaskType(ids, versions), attempt : 0 .. MaxFailures,
     answer : AnswerType(versions) \cup {None}]
OrderType(versions) ==
    [list : OrderLists, expected : versions, answer : AnswerType(versions) \cup {None}]
TabType(ids, versions) ==
    [source : {0} \cup Sources, text : Texts, revision : 0 .. MaxEdits + MaxSaves,
     expected : versions \cup {0}, dirty : BOOLEAN, conflict : BOOLEAN,
     origin : OriginType \cup {None}, known : versions \cup {0}, content : Texts,
     timer : BOOLEAN, admitting : SUBSET AdmissionType, latest : ids \cup {0},
     retry : TaskType(ids, versions) \cup {None}, pending : TaskType(ids, versions) \cup {None},
     run : RunType(ids, versions) \cup {None}, order : OrderType(versions) \cup {None},
     seen : versions \cup {0}]
RequestType(ids, versions) ==
    [id : ids, source : Sources, attempt : 0 .. MaxFailures, text : Texts,
     expected : versions, seen : versions \cup {0}]

\* What is missing is None, which is not what might be there.
ASSUME NoneAssumption ==
    /\ None \notin DraftType \cup OriginType \cup TaskType(Nat, Nat)
    /\ None \notin AnswerType(Nat) \cup RunType(Nat, Nat) \cup OrderType(Nat)

\* Types and ranges; a version a tab has heard of is one the server has given.
TypeOK ==
    /\ log \in Seq([text : Texts, mutation : Nat, source : Nat, seen : Nat])
    /\ drafts \in [Sources -> DraftType \cup {None}]
    /\ tabs \in [Tabs -> TabType(1 .. tasks, 1 .. Version)]
    /\ wire \subseteq RequestType(1 .. tasks, 1 .. Version)
    /\ edits \in Texts /\ typedOver \subseteq Texts /\ tasks \in 0 .. saves
    /\ loads \in 0 .. MaxLoads /\ saves \in 0 .. MaxSaves
    /\ failures \in 0 .. MaxFailures /\ interruptions \in 0 .. MaxInterruptions

Texted(v) == v > 1 => log[v].text # log[v - 1].text

\* Nothing is overwritten that the author of the newer text had not seen, or
\* agreed to overwrite.
NoBlindOverwrite ==
    \A v \in 2 .. Version : Texted(v) =>
        \A w \in 1 .. v - 1 : Texted(w) => w <= log[v].seen

Logged == {log[v].text : v \in 1 .. Version}
InJournal == {drafts[s].text : s \in {r \in Sources : drafts[r] # None}}

\* A text the user has not typed over is in the journal or on the server.
EditsKept == 1 .. edits \subseteq typedOver \cup Logged \cup InJournal

\* A page never puts an older text of its own over a newer one.
NewestWins ==
    \A v \in 1 .. Version, w \in 1 .. Version :
        v < w /\ Texted(v) /\ Texted(w) /\ log[v].source = log[w].source => log[v].text <= log[w].text

\* A conflict is reported only when somebody else changed the block.
ConflictsAreReal ==
    [][\A t \in Tabs : ReceiveConflict(t) =>
          \E v \in tabs[t].run.task.pinned + 1 .. Version :
              log[v].source # tabs[t].source]_vars

\* A save that has begun ends.
SavesEnd ==
    \A t \in Tabs : []<>(tabs[t].admitting = {} /\ tabs[t].run = None)

\* The versions of the block, without the mutation ids that replays need.
Versions ==
    [v \in 1 .. Version |->
        [text |-> log[v].text, source |-> log[v].source, seen |-> log[v].seen]]

Register == INSTANCE TextRegister WITH Pages <- Tabs, history <- Versions

\* Whatever tabs, queues and requests do, the versions of the block are those of
\* a register whose writers know what they replace and do not go back.
ImplementsRegister == Register!Spec
=============================================================================
