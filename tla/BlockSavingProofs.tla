--------------------------- MODULE BlockSavingProofs ---------------------------
(***************************************************************************)
(* Proofs about BlockSaving, for any number of tabs, texts, saves, lost    *)
(* answers and interruptions.                                              *)
(***************************************************************************)
EXTENDS BlockSaving, FiniteSetTheorems, TLAPS

\* The task whose outcome a tab does not know yet.
HasTask(tab)  == tab.run # None \/ tab.retry # None
Underway(tab) == IF tab.run # None THEN tab.run.task ELSE tab.retry

\* The origin of a recovery that nobody has confirmed.
Unresolved(tab) == tab.origin # None /\ ~tab.origin.resolved

-----------------------------------------------------------------------------
(***************************************************************************)
(* Numbers and records.                                                    *)
(***************************************************************************)
LEMMA MaxIs ==
    ASSUME NEW S \in SUBSET Nat, NEW m \in S, \A x \in S : x <= m
    PROVE  Max(S) = m
<1>1. m \in S /\ \A y \in S : m >= y
  OBVIOUS
<1>2. Max(S) \in S /\ \A y \in S : Max(S) >= y
  BY <1>1 DEF Max
<1>3. Max(S) >= m /\ Max(S) <= m /\ Max(S) \in Nat
  BY <1>2
<1> QED
  BY <1>3

LEMMA MaxOfThree ==
    ASSUME NEW a \in Nat, NEW b \in Nat, NEW c \in Nat
    PROVE  LET m == Max({a, b, c}) IN m \in {a, b, c} /\ a <= m /\ b <= m /\ c <= m
<1>1. \E m \in {a, b, c} : \A x \in {a, b, c} : x <= m
  OBVIOUS
<1>2. PICK m \in {a, b, c} : \A x \in {a, b, c} : x <= m
  BY <1>1
<1>3. Max({a, b, c}) = m
  BY <1>2, MaxIs
<1> QED
  BY <1>2, <1>3

LEMMA SeqIsFunction ==
    ASSUME NEW S, NEW s \in Seq(S)
    PROVE  Len(s) \in Nat /\ s \in [1 .. Len(s) -> S]
OBVIOUS

\* A tab that had its type before has it when ids and versions are more.
LEMMA TypesGrow ==
    ASSUME NEW I, NEW J, NEW V, NEW W, I \subseteq J, V \subseteq W
    PROVE  /\ TaskType(I, V) \subseteq TaskType(J, W) /\ AnswerType(V) \subseteq AnswerType(W)
           /\ RunType(I, V) \subseteq RunType(J, W) /\ OrderType(V) \subseteq OrderType(W)
           /\ TabType(I, V) \subseteq TabType(J, W) /\ RequestType(I, V) \subseteq RequestType(J, W)
<1>1. TaskType(I, V) \subseteq TaskType(J, W) /\ AnswerType(V) \subseteq AnswerType(W)
  BY DEF TaskType, AnswerType
<1>2. RunType(I, V) \subseteq RunType(J, W) /\ OrderType(V) \subseteq OrderType(W)
  BY <1>1 DEF RunType, OrderType
<1>3. TabType(I, V) \subseteq TabType(J, W)
  BY <1>1, <1>2 DEF TabType
<1>4. RequestType(I, V) \subseteq RequestType(J, W)
  BY DEF RequestType
<1> QED
  BY <1>1, <1>2, <1>3, <1>4

LEMMA NotNone ==
    ASSUME NEW I \in SUBSET Nat, NEW V \in SUBSET Nat
    PROVE  /\ None \notin DraftType /\ None \notin OriginType /\ None \notin TaskType(I, V)
           /\ None \notin AnswerType(V) /\ None \notin RunType(I, V) /\ None \notin OrderType(V)
<1>1. /\ TaskType(I, V) \subseteq TaskType(Nat, Nat) /\ AnswerType(V) \subseteq AnswerType(Nat)
      /\ RunType(I, V) \subseteq RunType(Nat, Nat) /\ OrderType(V) \subseteq OrderType(Nat)
  BY TypesGrow
<1> QED
  BY <1>1, NoneAssumption

\* What a draft or the origin of a recovery may bring into a row.
Bounded(draft, V) ==
    draft # None => /\ draft.text \in Texts /\ draft.expected \in V \cup {0}
                    /\ draft.revision \in 0 .. MaxEdits + MaxSaves

\* What a tab keeps of its saves and of what it knows.
Work(tab) == <<tab.source, tab.known, tab.latest, tab.retry, tab.pending, tab.run>>

\* Flags are set one at a time.
LEMMA FlagsSet ==
    ASSUME NEW I, NEW V, NEW tab \in TabType(I, V), NEW flag \in BOOLEAN
    PROVE  /\ [tab EXCEPT !.dirty = flag] \in TabType(I, V)
           /\ [tab EXCEPT !.conflict = flag] \in TabType(I, V)
           /\ [tab EXCEPT !.timer = flag] \in TabType(I, V)
<1>1. [tab EXCEPT !.dirty = flag] \in TabType(I, V)
  BY DEF TabType
<1>2. [tab EXCEPT !.conflict = flag] \in TabType(I, V)
  BY DEF TabType
<1>3. [tab EXCEPT !.timer = flag] \in TabType(I, V)
  BY DEF TabType
<1> QED
  BY <1>1, <1>2, <1>3

LEMMA DraftRowIs ==
    ASSUME NEW I, NEW V, NEW tab \in TabType(I, V), NEW draft, draft # None, Bounded(draft, V)
    PROVE  LET row == DraftRow(tab, draft) IN
           /\ row \in TabType(I, V) /\ Work(row) = Work(tab)
           /\ row.admitting = tab.admitting /\ row.order = tab.order /\ row.origin = tab.origin
           /\ row.content = tab.content /\ row.seen = tab.seen /\ (row.timer <=> tab.timer)
           /\ row.text = draft.text /\ row.revision = draft.revision
           /\ row.expected = draft.expected /\ row.dirty
           /\ (row.conflict <=> Unresolved(tab))
<1>1. PICK c \in BOOLEAN : c = (tab.origin # None /\ ~tab.origin.resolved)
  OBVIOUS
<1> DEFINE r1 == [tab EXCEPT !.text = draft.text, !.revision = draft.revision,
                             !.expected = draft.expected]
           r2 == [r1 EXCEPT !.dirty = TRUE]
           row == [r2 EXCEPT !.conflict = c]
<1>2. DraftRow(tab, draft) = row /\ (c <=> Unresolved(tab))
  BY <1>1 DEF DraftRow, Unresolved
<1>3. r1 \in TabType(I, V)
  BY ZenonT(60) DEF TabType, Bounded
<1> HIDE DEF r1
<1>4. r2 \in TabType(I, V)
  BY <1>3, FlagsSet
<1> HIDE DEF r2
<1>5. row \in TabType(I, V)
  BY <1>4, FlagsSet
<1> USE DEF r1, r2
<1>6. /\ Work(row) = Work(tab)
      /\ row.admitting = tab.admitting /\ row.order = tab.order /\ row.origin = tab.origin
      /\ row.content = tab.content /\ row.seen = tab.seen /\ (row.timer <=> tab.timer)
      /\ row.text = draft.text /\ row.revision = draft.revision
      /\ row.expected = draft.expected /\ row.dirty
      /\ row.conflict = c
  BY DEF TabType, Work
<1> HIDE DEF row, r1, r2
<1> QED
  BY <1>2, <1>5, <1>6

LEMMA CleanRowIs ==
    ASSUME NEW I, NEW V, NEW tab \in TabType(I, V)
    PROVE  LET row == CleanRow(tab) IN
           /\ row \in TabType(I, V) /\ Work(row) = Work(tab)
           /\ row.admitting = tab.admitting /\ row.order = tab.order /\ row.origin = tab.origin
           /\ row.content = tab.content /\ row.seen = tab.known /\ (row.timer <=> tab.timer)
           /\ row.text = tab.content /\ row.revision = 0
           /\ row.expected = 0 /\ ~row.dirty /\ ~row.conflict
<1> DEFINE r1 == [tab EXCEPT !.text = tab.content, !.revision = 0, !.expected = 0,
                             !.seen = tab.known]
           r2 == [r1 EXCEPT !.dirty = FALSE]
           row == [r2 EXCEPT !.conflict = FALSE]
<1>1. CleanRow(tab) = row
  BY DEF CleanRow
<1> 0 \in 0 .. MaxEdits + MaxSaves
  BY SavingAssumption
<1>2. r1 \in TabType(I, V)
  BY ZenonT(60) DEF TabType
<1> HIDE DEF r1
<1>3. r2 \in TabType(I, V)
  BY <1>2, FlagsSet
<1> HIDE DEF r2
<1>4. row \in TabType(I, V)
  BY <1>3, FlagsSet
<1> USE DEF r1, r2
<1>5. /\ Work(row) = Work(tab)
      /\ row.admitting = tab.admitting /\ row.order = tab.order /\ row.origin = tab.origin
      /\ row.content = tab.content /\ row.seen = tab.known /\ (row.timer <=> tab.timer)
      /\ row.text = tab.content /\ row.revision = 0
      /\ row.expected = 0 /\ ~row.dirty /\ ~row.conflict
  BY DEF TabType, Work
<1> HIDE DEF row, r1, r2
<1> QED
  BY <1>1, <1>4, <1>5

\* renderSelectedPage: what a row shows after it is built again.
ShownAgain(row, tab, draft) ==
    /\ Work(row) = Work(tab)
    /\ row.admitting = tab.admitting /\ row.order = tab.order /\ row.origin = tab.origin
    /\ row.content = IF tab.dirty THEN tab.text ELSE tab.content
    /\ (draft # None \/ tab.origin # None) =>
           row.seen = tab.seen /\ row.dirty /\ (row.conflict <=> Unresolved(tab))
    /\ draft # None =>
           /\ row.text = draft.text /\ row.revision = draft.revision
           /\ row.expected = draft.expected
    /\ draft = None /\ tab.origin # None =>
           /\ row.text = tab.origin.text /\ row.revision = tab.origin.revision
           /\ row.expected = tab.origin.expected
    /\ draft = None /\ tab.origin = None =>
           /\ row.seen = tab.known /\ row.text = row.content /\ row.revision = 0
           /\ row.expected = 0 /\ ~row.dirty /\ ~row.conflict

LEMMA RenderedIs ==
    ASSUME NEW I, NEW V, NEW tab \in TabType(I, V),
           Bounded(drafts[tab.source], V), Bounded(tab.origin, V)
    PROVE  /\ Rendered(tab) \in TabType(I, V)
           /\ ShownAgain(Rendered(tab), tab, drafts[tab.source])
<1> DEFINE draft == drafts[tab.source]
           kept == [tab EXCEPT !.content = IF tab.dirty THEN tab.text ELSE @]
           row == IF draft # None THEN DraftRow(kept, draft)
                  ELSE IF tab.origin # None THEN DraftRow(kept, tab.origin)
                  ELSE CleanRow(kept)
           on == row.timer /\ row.text = tab.text /\ row.revision = tab.revision
           last == [row EXCEPT !.timer = on]
<1>1. Rendered(tab) = last
  BY DEF Rendered
<1>2. /\ kept \in TabType(I, V) /\ Work(kept) = Work(tab)
      /\ kept.admitting = tab.admitting /\ kept.order = tab.order /\ kept.origin = tab.origin
      /\ kept.content = IF tab.dirty THEN tab.text ELSE tab.content
      /\ kept.seen = tab.seen /\ kept.known = tab.known
  BY DEF TabType, Work
<1>3. Unresolved(kept) <=> Unresolved(tab)
  BY SMTT(60), <1>2 DEF Unresolved
<1> HIDE DEF kept
<1>4. /\ row \in TabType(I, V) /\ Work(row) = Work(tab)
      /\ row.admitting = tab.admitting /\ row.order = tab.order /\ row.origin = tab.origin
      /\ row.content = kept.content
      /\ (draft # None \/ tab.origin # None) =>
             row.seen = tab.seen /\ row.dirty /\ (row.conflict <=> Unresolved(tab))
      /\ draft # None => /\ row.text = draft.text /\ row.revision = draft.revision
                         /\ row.expected = draft.expected
      /\ draft = None /\ tab.origin # None =>
             /\ row.text = tab.origin.text /\ row.revision = tab.origin.revision
             /\ row.expected = tab.origin.expected
      /\ draft = None /\ tab.origin = None =>
             /\ row.seen = tab.known /\ row.text = row.content /\ row.revision = 0
             /\ row.expected = 0 /\ ~row.dirty /\ ~row.conflict
  <2>1. CASE draft # None
    <3>1. row = DraftRow(kept, draft) /\ Bounded(draft, V)
      BY <2>1
    <3>2. Work(DraftRow(kept, draft)) = Work(tab)
      BY <1>2, <2>1, <3>1, DraftRowIs
    <3> HIDE DEF row, draft
    <3> QED
      BY <1>2, <1>3, <2>1, <3>1, <3>2, DraftRowIs
  <2>2. CASE draft = None /\ tab.origin # None
    <3>1. row = DraftRow(kept, tab.origin) /\ Bounded(tab.origin, V)
      BY <2>2
    <3>2. Work(DraftRow(kept, tab.origin)) = Work(tab)
      BY <1>2, <2>2, <3>1, DraftRowIs
    <3> HIDE DEF row, draft
    <3> QED
      BY <1>2, <1>3, <2>2, <3>1, <3>2, DraftRowIs
  <2>3. CASE draft = None /\ tab.origin = None
    <3>1. row = CleanRow(kept)
      BY <2>3
    <3>2. Work(CleanRow(kept)) = Work(tab)
      BY <1>2, CleanRowIs
    <3> HIDE DEF row, draft
    <3> QED
      BY <1>2, <2>3, <3>1, <3>2, CleanRowIs
  <2> QED
    BY <2>1, <2>2, <2>3
<1>5. on \in BOOLEAN
  BY <1>4 DEF TabType
<1> HIDE DEF row, on
<1>6. /\ last \in TabType(I, V) /\ Work(last) = Work(row)
      /\ last.admitting = row.admitting /\ last.order = row.order /\ last.origin = row.origin
      /\ last.content = row.content /\ last.seen = row.seen /\ (last.dirty <=> row.dirty)
      /\ (last.conflict <=> row.conflict) /\ last.text = row.text /\ last.revision = row.revision
      /\ last.expected = row.expected
  BY <1>4, <1>5 DEF TabType, Work
<1> HIDE DEF last
<1> QED
  BY <1>1, <1>2, <1>4, <1>6 DEF ShownAgain

-----------------------------------------------------------------------------
(***************************************************************************)
(* What the helpers of the editor make of a row.                           *)
(***************************************************************************)

\* Nothing a row is based on is newer than what its tab knows.
Grounded(tab, draft) ==
    /\ tab.expected <= tab.known
    /\ draft # None => draft \in DraftType /\ draft.expected <= tab.known

LEMMA BaseIs ==
    ASSUME NEW I, NEW n \in Nat, NEW V, V = 1 .. n, NEW tab \in TabType(I, V), Grounded(tab, drafts[tab.source])
    PROVE  Base(tab) \in 0 .. tab.known /\ Base(tab) \in V \cup {0}
<1> DEFINE draft == drafts[tab.source]
           d == IF draft = None THEN 0 ELSE draft.expected
<1>0. tab.expected \in V \cup {0} /\ tab.known \in V \cup {0}
  BY DEF TabType
<1>1. /\ tab.expected \in Nat /\ tab.known \in Nat /\ tab.expected <= tab.known
      /\ tab.expected \in V \cup {0} /\ tab.known \in V \cup {0}
  BY <1>0 DEF Grounded
<1>2. d \in 0 .. tab.known
  BY <1>1 DEF Grounded, DraftType
<1> HIDE DEF d
<1>3. Base(tab) = Max({tab.expected, d} \cup (IF tab.conflict THEN {} ELSE {tab.known}))
  BY DEF Base, d
<1>4. CASE tab.conflict
  <2>1. {tab.expected, d} \cup (IF tab.conflict THEN {} ELSE {tab.known}) = {tab.expected, d, d}
    BY <1>4
  <2>2. Max({tab.expected, d, d}) \in {tab.expected, d, d}
    BY <1>1, <1>2, MaxOfThree
  <2>3. Base(tab) = tab.expected \/ Base(tab) = d
    BY <1>3, <2>1, <2>2
  <2> QED
    BY <1>1, <1>2, <2>3
<1>5. CASE ~tab.conflict
  <2>1. {tab.expected, d} \cup (IF tab.conflict THEN {} ELSE {tab.known})
            = {tab.expected, d, tab.known}
    BY <1>5
  <2>2. Max({tab.expected, d, tab.known}) \in {tab.expected, d, tab.known}
    BY <1>1, <1>2, MaxOfThree
  <2>3. Base(tab) = tab.expected \/ Base(tab) = d \/ Base(tab) = tab.known
    BY <1>3, <2>1, <2>2
  <2> QED
    BY <1>1, <1>2, <2>3
<1> QED
  BY <1>4, <1>5

LEMMA PersistedIs ==
    ASSUME NEW I, NEW n \in Nat, NEW V, V = 1 .. n, NEW tab \in TabType(I, V), Grounded(tab, drafts[tab.source])
    PROVE  LET row == Persisted(tab) IN
           /\ row \in TabType(I, V) /\ Work(row) = Work(tab)
           /\ row.admitting = tab.admitting /\ row.order = tab.order /\ row.origin = tab.origin
           /\ row.content = tab.content /\ row.seen = tab.seen /\ (row.timer <=> tab.timer)
           /\ row.text = tab.text /\ row.revision = tab.revision
           /\ row.expected = Base(tab) /\ row.expected <= tab.known
           /\ row.dirty /\ (row.conflict <=> tab.conflict)
<1> DEFINE base == Base(tab)
           r1 == [tab EXCEPT !.expected = base]
           row == [r1 EXCEPT !.dirty = TRUE]
<1>1. base \in 0 .. tab.known /\ base \in V \cup {0}
  BY BaseIs
<1>2. Persisted(tab) = row
  BY DEF Persisted
<1> HIDE DEF base
<1>3. r1 \in TabType(I, V)
  BY <1>1 DEF TabType
<1> HIDE DEF r1
<1>4. row \in TabType(I, V)
  BY <1>3, FlagsSet
<1> USE DEF r1
<1>5. /\ Work(row) = Work(tab)
      /\ row.admitting = tab.admitting /\ row.order = tab.order /\ row.origin = tab.origin
      /\ row.content = tab.content /\ row.seen = tab.seen /\ (row.timer <=> tab.timer)
      /\ row.text = tab.text /\ row.revision = tab.revision
      /\ row.expected = base
      /\ row.dirty /\ (row.conflict <=> tab.conflict)
  BY DEF TabType, Work
<1> HIDE DEF row, r1
<1>6. row.expected <= tab.known
  BY <1>1, <1>5
<1> QED
  BY <1>2, <1>4, <1>5, <1>6 DEF base

\* The same recovery, whether its use has been confirmed or not.
SameOrigin(a, b) ==
    /\ a = None <=> b = None
    /\ a # None => /\ a.source = b.source /\ a.text = b.text
                   /\ a.expected = b.expected /\ a.revision = b.revision

LEMMA ConfirmedIs ==
    ASSUME NEW I, NEW V, NEW tab \in TabType(I, V)
    PROVE  LET row == Confirmed(tab) IN
           /\ row \in TabType(I, V) /\ Work(row) = Work(tab)
           /\ row.admitting = tab.admitting /\ row.order = tab.order
           /\ SameOrigin(row.origin, tab.origin) /\ ~Unresolved(row)
           /\ row.content = tab.content /\ row.seen = tab.known /\ (row.timer <=> tab.timer)
           /\ row.text = tab.text /\ row.revision = tab.revision
           /\ row.expected = tab.known /\ ~row.conflict /\ (row.dirty <=> tab.dirty)
<1> DEFINE o == IF tab.origin = None THEN None ELSE [tab.origin EXCEPT !.resolved = TRUE]
           r1 == [tab EXCEPT !.expected = tab.known, !.seen = tab.known, !.origin = o]
           row == [r1 EXCEPT !.conflict = FALSE]
<1>0. tab.origin \in OriginType \cup {None} /\ None \notin OriginType
  BY NoneAssumption DEF TabType
<1>1. o \in OriginType \cup {None}
  BY <1>0 DEF OriginType
<1>2. SameOrigin(o, tab.origin) /\ ~(o # None /\ ~o.resolved)
  BY <1>0, <1>1 DEF OriginType, SameOrigin
<1>3. Confirmed(tab) = row
  BY DEF Confirmed, TabType
<1> HIDE DEF o
<1>4. r1 \in TabType(I, V)
  BY <1>1, ZenonT(60) DEF TabType
<1> HIDE DEF r1
<1>5. row \in TabType(I, V)
  BY <1>4, FlagsSet
<1> USE DEF r1
<1>6. /\ Work(row) = Work(tab)
      /\ row.admitting = tab.admitting /\ row.order = tab.order
      /\ row.origin = o
      /\ row.content = tab.content /\ row.seen = tab.known /\ (row.timer <=> tab.timer)
      /\ row.text = tab.text /\ row.revision = tab.revision
      /\ row.expected = tab.known /\ ~row.conflict /\ (row.dirty <=> tab.dirty)
  BY DEF TabType, Work
<1> HIDE DEF row, r1
<1>7. ~Unresolved(row)
  BY <1>2, <1>6 DEF Unresolved
<1> QED
  BY <1>2, <1>3, <1>5, <1>6, <1>7

LEMMA NewRevisionIs ==
    ASSUME NEW I, NEW V, NEW tab \in TabType(I, V), NEW n \in Nat, tab.revision <= n,
           drafts[tab.source] # None =>
               drafts[tab.source] \in DraftType /\ drafts[tab.source].revision <= n
    PROVE  /\ NewRevision(tab) \in 0 .. n + 1 /\ tab.revision <= NewRevision(tab)
           /\ drafts[tab.source] # None => drafts[tab.source].revision <= NewRevision(tab)
<1> DEFINE draft == drafts[tab.source]
           d == IF draft = None THEN 0 ELSE draft.revision
           kept == Max({tab.revision, d})
<1>1. tab.revision \in Nat
  BY DEF TabType
<1>2. d \in Nat /\ d <= n
  BY DEF DraftType
<1>3. draft # None => d = draft.revision
  OBVIOUS
<1>4. NewRevision(tab) = IF draft = None \/ draft.text # tab.text THEN kept + 1 ELSE kept
  BY DEF NewRevision
<1> HIDE DEF d
<1>5. kept \in {tab.revision, d} /\ tab.revision <= kept /\ d <= kept
  <2>1. {tab.revision, d} = {tab.revision, d, d}
    OBVIOUS
  <2> QED
    BY <1>1, <1>2, <2>1, MaxOfThree
<1> HIDE DEF kept
<1> QED
  BY <1>1, <1>2, <1>3, <1>4, <1>5

\* The task as it goes to the server: the version is the one the tab knows.
Fixed(tab, task) == [task EXCEPT !.seen = tab.seen, !.pinned = tab.known]

LEMMA PinnedIs ==
    ASSUME NEW I, NEW n \in Nat, NEW V, V = 1 .. n, NEW tab \in TabType(I, V),
           NEW task \in TaskType(I, V), NEW journal,
           Grounded(tab, journal[tab.source]), task.pinned = 0, task.expected <= tab.known
    PROVE  /\ Pinned(tab, task, journal) = Fixed(tab, task)
           /\ tab.known # 0 => Fixed(tab, task) \in TaskType(I, V)
<1> DEFINE draft == journal[tab.source]
           d == IF draft = None THEN 0 ELSE draft.expected
           S == {d, tab.expected, task.expected, tab.known}
<1>0. tab.expected \in V \cup {0} /\ tab.known \in V \cup {0} /\ task.expected \in V
  BY DEF TabType, TaskType
<1>1. /\ tab.expected \in Nat /\ tab.known \in Nat /\ tab.expected <= tab.known
      /\ task.expected \in Nat
  BY <1>0 DEF Grounded
<1>2. d \in Nat /\ d <= tab.known
  BY <1>1 DEF Grounded, DraftType
<1>3. Pinned(tab, task, journal) = [task EXCEPT !.seen = tab.seen, !.pinned = Max(S)]
  BY DEF Pinned
<1> HIDE DEF d
<1>4. Max(S) = tab.known
  <2>1. S \in SUBSET Nat /\ tab.known \in S /\ \A x \in S : x <= tab.known
    BY <1>1, <1>2
  <2> QED
    BY <2>1, MaxIs
<1>5. ASSUME tab.known # 0
      PROVE  Fixed(tab, task) \in TaskType(I, V)
  <2>1. tab.known \in V \cup {0} /\ tab.seen \in V \cup {0}
    BY DEF TabType
  <2> QED
    BY <2>1, <1>5 DEF TaskType, Fixed
<1> QED
  BY <1>3, <1>4, <1>5 DEF Fixed

\* drain: what goes to the server next.
NextTask(tab) ==
    IF tab.retry # None THEN tab.retry
    ELSE IF tab.pending # None THEN Fixed(tab, tab.pending) ELSE None

LEMMA QueueSet ==
    ASSUME NEW I, NEW V, NEW tab \in TabType(I, V), NEW run \in RunType(I, V) \cup {None}
    PROVE  /\ [tab EXCEPT !.run = run, !.retry = None] \in TabType(I, V)
           /\ [tab EXCEPT !.run = run, !.pending = None] \in TabType(I, V)
<1>1. [tab EXCEPT !.run = run, !.retry = None] \in TabType(I, V)
  BY ZenonT(60) DEF TabType
<1>2. [tab EXCEPT !.run = run, !.pending = None] \in TabType(I, V)
  BY ZenonT(60) DEF TabType
<1> QED
  BY <1>1, <1>2

LEMMA DrainedIs ==
    ASSUME NEW I, NEW n \in Nat, NEW V, V = 1 .. n, I \subseteq Nat, NEW tab \in TabType(I, V), NEW journal,
           NEW attempt \in 0 .. MaxFailures, tab.known # 0,
           Grounded(tab, journal[tab.source]),
           tab.retry # None => tab.retry.pinned # 0,
           tab.pending # None => tab.pending.pinned = 0 /\ tab.pending.expected <= tab.known
    PROVE  LET row == Drained(tab, attempt, journal) IN
           /\ row \in TabType(I, V)
           /\ row.source = tab.source /\ row.known = tab.known /\ row.latest = tab.latest
           /\ row.admitting = tab.admitting /\ row.order = tab.order /\ row.origin = tab.origin
           /\ row.content = tab.content /\ row.seen = tab.seen /\ (row.timer <=> tab.timer)
           /\ row.text = tab.text /\ row.revision = tab.revision /\ row.expected = tab.expected
           /\ (row.dirty <=> tab.dirty) /\ (row.conflict <=> tab.conflict)
           /\ row.retry = None
           /\ row.pending = IF tab.retry # None THEN tab.pending ELSE None
           /\ row.run = IF NextTask(tab) = None THEN None ELSE Run(NextTask(tab), attempt)
           /\ NextTask(tab) # None => NextTask(tab) \in TaskType(I, V)
<1> DEFINE row == Drained(tab, attempt, journal)
           task == NextTask(tab)
<1>1. /\ tab.retry \in TaskType(I, V) \cup {None}
      /\ tab.pending \in TaskType(I, V) \cup {None}
  BY DEF TabType
<1>2. /\ None \notin TaskType(I, V) /\ None \notin RunType(I, V)
  BY NotNone
<1>3. task # None => task \in TaskType(I, V) /\ Run(task, attempt) \in RunType(I, V)
  <2>1. task # None => task \in TaskType(I, V)
    BY <1>1, PinnedIs DEF NextTask
  <2> HIDE DEF task
  <2> QED
    BY <2>1 DEF Run, RunType
<1>4. CASE tab.retry # None
  <2>1. Pinned(tab, tab.retry, journal) = tab.retry
    BY <1>4 DEF Pinned
  <2>2. task = tab.retry
    BY <1>4 DEF NextTask
  <2> DEFINE run == Run(tab.retry, attempt)
             r == [tab EXCEPT !.run = run, !.retry = None]
  <2>3. row = r /\ run \in RunType(I, V)
    BY <1>3, <1>4, <2>1, <2>2 DEF Drained
  <2> HIDE DEF run
  <2>4. r \in TabType(I, V)
    BY ZenonT(60), <2>3, QueueSet
  <2>5. /\ r.source = tab.source /\ r.known = tab.known /\ r.latest = tab.latest
        /\ r.admitting = tab.admitting /\ r.order = tab.order /\ r.origin = tab.origin
        /\ r.content = tab.content /\ r.seen = tab.seen /\ (r.timer <=> tab.timer)
        /\ r.text = tab.text /\ r.revision = tab.revision /\ r.expected = tab.expected
        /\ (r.dirty <=> tab.dirty) /\ (r.conflict <=> tab.conflict)
        /\ r.retry = None /\ r.pending = tab.pending /\ r.run = run
    BY DEF TabType
  <2> HIDE DEF r, row, task
  <2> QED
    BY <1>2, <1>3, <1>4, <2>2, <2>3, <2>4, <2>5 DEF run, row, task
<1>5. CASE tab.retry = None /\ tab.pending # None
  <2>1. Pinned(tab, tab.pending, journal) = Fixed(tab, tab.pending)
    BY <1>1, <1>5, PinnedIs
  <2>2. task = Fixed(tab, tab.pending) /\ task # None
    BY <1>1, <1>2, <1>5, PinnedIs DEF NextTask
  <2> DEFINE run == Run(task, attempt)
             r == [tab EXCEPT !.run = run, !.pending = None]
  <2>3. row = r /\ run \in RunType(I, V)
    BY <1>3, <1>5, <2>1, <2>2 DEF Drained
  <2> HIDE DEF run
  <2>4. r \in TabType(I, V)
    BY ZenonT(60), <2>3, QueueSet
  <2>5. /\ r.source = tab.source /\ r.known = tab.known /\ r.latest = tab.latest
        /\ r.admitting = tab.admitting /\ r.order = tab.order /\ r.origin = tab.origin
        /\ r.content = tab.content /\ r.seen = tab.seen /\ (r.timer <=> tab.timer)
        /\ r.text = tab.text /\ r.revision = tab.revision /\ r.expected = tab.expected
        /\ (r.dirty <=> tab.dirty) /\ (r.conflict <=> tab.conflict)
        /\ r.retry = tab.retry /\ r.pending = None /\ r.run = run
    BY DEF TabType
  <2> HIDE DEF r, row, task
  <2> QED
    BY <1>2, <1>3, <1>5, <2>2, <2>3, <2>4, <2>5 DEF run, row, task
<1>6. CASE tab.retry = None /\ tab.pending = None
  <2> DEFINE r == [tab EXCEPT !.run = None]
  <2>1. task = None /\ row = r
    BY <1>6 DEF NextTask, Drained
  <2>2. r \in TabType(I, V)
    BY DEF TabType
  <2>3. /\ r.source = tab.source /\ r.known = tab.known /\ r.latest = tab.latest
        /\ r.admitting = tab.admitting /\ r.order = tab.order /\ r.origin = tab.origin
        /\ r.content = tab.content /\ r.seen = tab.seen /\ (r.timer <=> tab.timer)
        /\ r.text = tab.text /\ r.revision = tab.revision /\ r.expected = tab.expected
        /\ (r.dirty <=> tab.dirty) /\ (r.conflict <=> tab.conflict)
        /\ r.retry = tab.retry /\ r.pending = tab.pending /\ r.run = None
    BY DEF TabType
  <2> HIDE DEF r, row, task
  <2> QED
    BY <1>6, <2>1, <2>2, <2>3 DEF row, task
<1> QED
  BY <1>4, <1>5, <1>6

-----------------------------------------------------------------------------
(***************************************************************************)
(* The inductive invariant, in layers.                                     *)
(***************************************************************************)

Good(answer) == answer # None /\ answer # Conflict

\* An open tab: what it saves is based on the version it knows, at most one
\* request of it is awaited, an unconfirmed recovery saves nothing, and the
\* block is not reordered while it is being saved.
Fits(t, tab, revisions) ==
    /\ tab.source = t /\ tab.known # 0 /\ tab.expected <= tab.known /\ tab.revision <= revisions
    /\ tab.origin # None =>
           /\ tab.origin.source # t /\ tab.origin.expected <= tab.known
           /\ tab.origin.revision <= revisions
    /\ Unresolved(tab) => tab.conflict /\ ~Busy(tab)
    /\ tab.run # None =>
           tab.retry = None /\ tab.run.task.pinned = tab.known /\ tab.run.task.source = t
    /\ tab.retry # None => tab.retry.pinned = tab.known /\ tab.retry.source = t
    /\ tab.pending # None =>
           /\ HasTask(tab) /\ tab.pending.pinned = 0 /\ tab.pending.source = t
           /\ tab.pending.expected <= tab.known
    /\ tab.order # None => ~Busy(tab) /\ tab.order.expected = tab.known
    /\ tab.order # None /\ Good(tab.order.answer) => tab.known <= tab.order.answer.version

\* The texts whose drafts are being made durable.
Waiting == {p \in Tabs \X AdmissionType : p[2] \in tabs[p[1]].admitting}

Revisions == edits + saves

TabsFit ==
    \A t \in Tabs : Opened(tabs[t]) =>
        /\ t <= loads /\ Fits(t, tabs[t], Revisions)
        /\ drafts[t] # None => drafts[t].expected <= tabs[t].known

\* Sources that were never opened are unused, drafts are not ahead of what the
\* server has given and the users have done, and every task was a save begun.
Bookkeeping ==
    /\ \A t \in Tabs : ~Opened(tabs[t]) => tabs[t] = ClosedTab
    /\ \A t \in Tabs : t > loads => drafts[t] = None
    /\ \A s \in Sources : drafts[s] # None =>
           drafts[s].expected <= Version /\ drafts[s].revision <= Revisions
    /\ \A v \in 1 .. Version : log[v].source <= loads
    /\ \A r \in wire : r.source <= loads
    /\ IsFiniteSet(Waiting) /\ Cardinality(Waiting) + tasks <= saves
    /\ Version >= 1

\* What a tab asks the server for, or asked and may still get.
Claim(id, source, text, expected, seen) ==
    [id |-> id, source |-> source, text |-> text, expected |-> expected, seen |-> seen]
OfTask(task)    == Claim(task.id, task.source, task.text, task.pinned, task.seen)
OfRequest(request) ==
    Claim(request.id, request.source, request.text, request.expected, request.seen)
Claims ==
    {OfRequest(request) : request \in wire}
        \cup {OfTask(Underway(tabs[t])) : t \in {u \in Tabs : HasTask(tabs[u])}}

\* One mutation id is one claim, and the version it made, if it made one, is
\* the next after the version it was based on.
ClaimsFit ==
    /\ \A a, b \in Claims : a.id = b.id => a = b
    /\ \A a \in Claims : \A v \in 1 .. Version : log[v].mutation = a.id =>
           v = a.expected + 1 /\ log[v].text = a.text /\ log[v].source = a.source
    /\ \A v \in 1 .. Version : log[v].mutation <= tasks

\* A task that waits has not been sent, and no other task has its id.
WaitingFits ==
    \A t \in Tabs : tabs[t].pending # None =>
        /\ \A a \in Claims : a.id # tabs[t].pending.id
        /\ \A v \in 1 .. Version : log[v].mutation # tabs[t].pending.id
        /\ \A u \in Tabs \ {t} : tabs[u].pending # None => tabs[u].pending.id # tabs[t].pending.id

\* Who is told that a save succeeded is told the version it made.
AnswersFit ==
    \A t \in Tabs : tabs[t].run # None /\ Good(tabs[t].run.answer) =>
        LET task == tabs[t].run.task
            answer == tabs[t].run.answer
        IN  /\ answer.version = task.pinned + 1 /\ answer.version <= Version
            /\ log[answer.version].mutation = task.id /\ answer.text = task.text

Overtaken(version, t) == \E v \in version + 1 .. Version : log[v].source # t
UpToDate(version, t)  == Version = version \/ Overtaken(version, t)

\* A tab is behind only if somebody else changed the block, or by the save or
\* the reorder it waits for.
Behind(t, tab) ==
    /\ IF tab.order # None /\ Good(tab.order.answer)
       THEN UpToDate(tab.order.answer.version, t)
       ELSE \/ UpToDate(tab.known, t)
            \/ /\ HasTask(tab) /\ Version = tab.known + 1
               /\ log[Version].mutation = Underway(tab).id
    /\ tab.run # None /\ tab.run.answer = Conflict => Overtaken(tab.known, t)
    /\ \A a \in Claims : a.source = t =>
           a.expected < Version \/ (HasTask(tab) /\ a.id = Underway(tab).id)

BehindFits == \A t \in Tabs : Opened(tabs[t]) => Behind(t, tabs[t])

Safety == TypeOK /\ TabsFit /\ Bookkeeping /\ ClaimsFit /\ WaitingFits /\ AnswersFit /\ BehindFits

-----------------------------------------------------------------------------
Covers(known, seen) == \A w \in 1 .. known : Texted(w) => w <= seen

\* What a tab is about to overwrite it has seen, or the user has agreed to.
SeenFits ==
    /\ \A t \in Tabs : Opened(tabs[t]) =>
           Covers(tabs[t].known, tabs[t].seen) \/ Unresolved(tabs[t])
    /\ \A a \in Claims : Covers(a.expected, a.seen)
    /\ \A t \in Tabs : tabs[t].order # None /\ Good(tabs[t].order.answer) =>
           LET answer == tabs[t].order.answer IN
           /\ \A v \in tabs[t].known + 1 .. answer.version : ~Texted(v) /\ log[v].source = t
           /\ answer.version \in 1 .. Version /\ answer.text = log[answer.version].text

Kept == typedOver \cup Logged
TasksOf(tab) ==
    {task \in {tab.pending} \cup (IF HasTask(tab) THEN {Underway(tab)} ELSE {}) : task # None}

\* The draft of a tab holds what its row shows, and a task of the same revision
\* the same text; a recovery started from that text, or from one that is kept.
HoldsEdits(tab, draft, kept) ==
    /\ draft # None => draft.text = tab.text /\ draft.revision = tab.revision
    /\ \A task \in TasksOf(tab) :
          /\ task.revision <= tab.revision
          /\ task.revision = tab.revision => task.text = tab.text
          /\ task.origin # None => task.origin.text \in {task.text} \cup kept
    /\ tab.origin # None => tab.origin.text \in {tab.text} \cup kept

EditsFit == \A t \in Tabs : Opened(tabs[t]) => HoldsEdits(tabs[t], drafts[t], Kept)

\* Texts are numbered in the order they are typed.
Numbered(tab, n) ==
    /\ tab.text <= n /\ tab.content <= n
    /\ tab.origin # None => tab.origin.text <= n
    /\ tab.pending # None => tab.pending.text <= n

Typed ==
    /\ \A v \in 1 .. Version : log[v].text <= edits
    /\ \A s \in Sources : drafts[s] # None => drafts[s].text <= edits
    /\ \A t \in Tabs : Numbered(tabs[t], edits)
    /\ \A a \in Claims : a.text <= edits

\* The changes of a block are the entries of its log with another text; those
\* of one source are up to a text when none of them is newer.
Changed(entries, v) == v > 1 => entries[v].text # entries[v - 1].text
OwnUpTo(entries, t, version, text) ==
    \A v \in 1 .. version : Changed(entries, v) /\ entries[v].source = t => entries[v].text <= text
Over(entries, version, t) == \E v \in version + 1 .. Len(entries) : entries[v].source # t

\* Unless somebody else has overtaken it, so that it will meet a conflict, what
\* a tab shows, keeps and sends is not older than its own saved texts.
HoldsNewest(entries, t, tab) ==
    LET over == Over(entries, tab.known, t)
    IN  /\ over \/ OwnUpTo(entries, t, Len(entries), tab.text)
        /\ over \/ OwnUpTo(entries, t, tab.known, tab.content)
        /\ over \/ tab.origin = None
                \/ \A v \in 1 .. tab.known : entries[v].source = t => ~Changed(entries, v)
        /\ OwnUpTo(entries, t, tab.known, entries[tab.known].text)
        /\ \A task \in TasksOf(tab) :
              /\ task.text <= tab.text
              /\ over \/ OwnUpTo(entries, t, Len(entries), task.text)
              /\ task.origin = tab.origin \/ tab.origin = None
        /\ HasTask(tab) /\ tab.pending # None => Underway(tab).text <= tab.pending.text
        /\ Busy(tab) => ~tab.conflict
        /\ tab.order # None /\ Good(tab.order.answer) => tab.order.answer.version = tab.known + 1

NewestFits ==
    /\ \A t \in Tabs : Opened(tabs[t]) => HoldsNewest(log, t, tabs[t])
    /\ \A a \in Claims : a.expected = Version => OwnUpTo(log, a.source, Version, a.text)

-----------------------------------------------------------------------------
(***************************************************************************)
(* What the invariant says of one open tab.                                *)
(***************************************************************************)
LEMMA CountsFit ==
    ASSUME TypeOK
    PROVE  /\ Version \in Nat /\ tasks \in Nat /\ edits \in Nat /\ saves \in Nat /\ loads \in Nat
           /\ Revisions \in 0 .. MaxEdits + MaxSaves
           /\ 1 .. tasks \subseteq Nat /\ 1 .. Version \subseteq Nat
           /\ log \in [1 .. Version -> [text : Texts, mutation : Nat, source : Nat, seen : Nat]]
<1>1. /\ tasks \in 0 .. saves /\ edits \in 0 .. MaxEdits /\ saves \in 0 .. MaxSaves
      /\ loads \in 0 .. MaxLoads
  BY DEF TypeOK, Texts
<1>2. MaxEdits \in Nat /\ MaxSaves \in Nat /\ MaxLoads \in Nat
  BY SavingAssumption
<1>3. log \in Seq([text : Texts, mutation : Nat, source : Nat, seen : Nat])
  BY DEF TypeOK
<1>4. /\ Version \in Nat
      /\ log \in [1 .. Version -> [text : Texts, mutation : Nat, source : Nat, seen : Nat]]
  BY <1>3, SeqIsFunction DEF Version
<1>5. Revisions \in 0 .. MaxEdits + MaxSaves
  BY <1>1, <1>2 DEF Revisions
<1> QED
  BY <1>1, <1>2, <1>4, <1>5

LEMMA DraftsFit ==
    ASSUME TypeOK, Bookkeeping, NEW s \in Sources, drafts[s] # None
    PROVE  /\ drafts[s] \in DraftType /\ drafts[s].expected \in 0 .. Version
           /\ drafts[s].expected \in (1 .. Version) \cup {0}
           /\ drafts[s].revision \in 0 .. Revisions /\ drafts[s].text \in Texts
           /\ Bounded(drafts[s], 1 .. Version)
<1>1. drafts[s] \in DraftType
  BY DEF TypeOK
<1>2. drafts[s].expected <= Version /\ drafts[s].revision <= Revisions
  BY DEF Bookkeeping
<1>3. /\ drafts[s].expected \in Nat /\ drafts[s].revision \in Nat /\ drafts[s].text \in Texts
  BY <1>1 DEF DraftType
<1>4. Version \in Nat /\ Revisions \in 0 .. MaxEdits + MaxSaves
  BY CountsFit
<1>5. /\ drafts[s].expected \in 0 .. Version /\ drafts[s].expected \in (1 .. Version) \cup {0}
      /\ drafts[s].revision \in 0 .. Revisions
      /\ drafts[s].revision \in 0 .. MaxEdits + MaxSaves
  BY <1>2, <1>3, <1>4, SavingAssumption
<1> QED
  BY <1>1, <1>3, <1>5 DEF Bounded

LEMMA OpenTabFits ==
    ASSUME TypeOK, TabsFit, Bookkeeping, NEW t \in Tabs, Opened(tabs[t])
    PROVE  LET tab == tabs[t] IN
           /\ tab \in TabType(1 .. tasks, 1 .. Version)
           /\ tab.source = t /\ t <= loads /\ tab.known \in 1 .. Version
           /\ Fits(t, tab, Revisions) /\ Grounded(tab, drafts[t])
           /\ Bounded(drafts[t], 1 .. Version) /\ Bounded(tab.origin, 1 .. Version)
           /\ tab.retry # None => tab.retry.pinned # 0
           /\ tab.pending # None => tab.pending.pinned = 0 /\ tab.pending.expected <= tab.known
<1> DEFINE tab == tabs[t]
<1>1. tab \in TabType(1 .. tasks, 1 .. Version)
  BY DEF TypeOK
<1>2. /\ Fits(t, tab, Revisions) /\ t <= loads
      /\ drafts[t] # None => drafts[t].expected <= tab.known
  BY DEF TabsFit
<1>3. tab.known \in 1 .. Version
  BY <1>1, <1>2 DEF TabType, Fits
<1>4. Version \in Nat /\ Revisions \in 0 .. MaxEdits + MaxSaves
  BY CountsFit
<1>5. drafts[t] # None => drafts[t] \in DraftType /\ Bounded(drafts[t], 1 .. Version)
  BY DraftsFit DEF Sources
<1>6. Grounded(tab, drafts[t]) /\ Bounded(drafts[t], 1 .. Version)
  <2>1. tab.expected <= tab.known
    BY <1>2 DEF Fits
  <2> QED
    BY <1>2, <1>5, <2>1 DEF Grounded, Bounded
<1>7. Bounded(tab.origin, 1 .. Version)
  <2>1. tab.origin # None => tab.origin \in OriginType
    BY <1>1 DEF TabType
  <2>2. ASSUME tab.origin # None
        PROVE  /\ tab.origin.expected \in Nat /\ tab.origin.expected <= tab.known
               /\ tab.origin.revision \in Nat /\ tab.origin.revision <= Revisions
               /\ tab.origin.text \in Texts
    BY <1>2, <2>1, <2>2 DEF Fits, OriginType
  <2>3. ASSUME tab.origin # None
        PROVE  /\ tab.origin.expected \in (1 .. Version) \cup {0}
               /\ tab.origin.revision \in 0 .. MaxEdits + MaxSaves
    BY <1>3, <1>4, <2>2, <2>3, SavingAssumption
  <2> QED
    BY <2>2, <2>3 DEF Bounded
<1>8. /\ tab.source = t
      /\ tab.retry # None => tab.retry.pinned # 0
      /\ tab.pending # None => tab.pending.pinned = 0 /\ tab.pending.expected <= tab.known
  BY <1>2 DEF Fits
<1> QED
  BY <1>1, <1>2, <1>3, <1>6, <1>7, <1>8

-----------------------------------------------------------------------------
(***************************************************************************)
(* What each step does to the row of its tab, as far as the invariant can  *)
(* tell.                                                                   *)
(***************************************************************************)
Elsewhere(t) ==
    \A u \in Tabs \ {t} :
        tabs'[u] = tabs[u] /\ (drafts'[u] = drafts[u] \/ drafts'[u] = None)

RowTyped(row) == row \in TabType(1 .. tasks, 1 .. Version)

\* The rows are built again: after a change of the language, when a block is
\* dragged, and when the new order is refused.
Redrawn(t) ==
    LET old == tabs[t]
        new == tabs'[t]
        draft == drafts[t]
    IN  /\ Opened(old) /\ RowTyped(new) /\ Work(new) = Work(old) /\ Elsewhere(t)
        /\ new.admitting = old.admitting /\ new.origin = old.origin
        /\ ~RebuildsInFlight => ~Busy(old)
        /\ \/ old.order = None /\ new.order = None
           \/ /\ old.order = None /\ ~Busy(old)
              /\ new.order # None /\ new.order.expected = old.known /\ new.order.answer = None
           \/ old.order # None /\ old.order.answer = Conflict /\ new.order = None
        /\ new.content = old.text \/ new.content = old.content
        /\ (draft # None \/ old.origin # None) =>
               new.seen = old.seen /\ (new.conflict <=> Unresolved(old))
        /\ draft # None =>
               /\ new.text = draft.text /\ new.revision = draft.revision
               /\ new.expected = draft.expected
        /\ draft = None /\ old.origin # None =>
               /\ new.text = old.origin.text /\ new.revision = old.origin.revision
               /\ new.expected = old.origin.expected
        /\ draft = None /\ old.origin = None =>
               /\ new.seen = old.known /\ new.text = new.content /\ new.revision = 0
               /\ new.expected = 0 /\ ~new.conflict
        /\ UNCHANGED <<log, drafts, wire, edits, typedOver, tasks, loads, saves, failures>>
        /\ interruptions' \in 0 .. MaxInterruptions

LEMMA RebuildStep ==
    ASSUME TypeOK, TabsFit, Bookkeeping, NEW t \in Tabs, Rebuild(t)
    PROVE  Redrawn(t)
<1> DEFINE old == tabs[t]
<1>1. /\ Opened(old) /\ old.order = None /\ (RebuildsInFlight \/ ~Busy(old))
      /\ tabs' = [tabs EXCEPT ![t] = Rendered(old)]
      /\ UNCHANGED <<log, drafts, wire, edits, typedOver, tasks, loads, saves, failures>>
      /\ interruptions < MaxInterruptions /\ interruptions' = interruptions + 1
  BY DEF Rebuild
<1>2. interruptions' \in 0 .. MaxInterruptions
  BY <1>1, SavingAssumption DEF TypeOK
<1>3. tabs'[t] = Rendered(old) /\ Elsewhere(t)
  BY <1>1 DEF TypeOK, Elsewhere
<1>4. /\ RowTyped(old) /\ old.source = t
      /\ Bounded(drafts[t], 1 .. Version) /\ Bounded(old.origin, 1 .. Version)
  BY <1>1, OpenTabFits DEF RowTyped
<1>5. RowTyped(Rendered(old)) /\ ShownAgain(Rendered(old), old, drafts[t])
  BY <1>4, RenderedIs DEF RowTyped
<1> HIDE DEF old
<1> QED
  BY <1>1, <1>2, <1>3, <1>5 DEF Redrawn, ShownAgain, old

LEMMA StartOrderStep ==
    ASSUME TypeOK, TabsFit, Bookkeeping, NEW t \in Tabs, NEW list \in OrderLists,
           StartOrder(t, list)
    PROVE  Redrawn(t)
<1> DEFINE old == tabs[t]
           shown == [old EXCEPT !.content = old.text]
           drawn == Rendered(shown)
           order == [list |-> list, expected |-> old.known, answer |-> None]
           new == [drawn EXCEPT !.order = order]
<1>1. /\ Opened(old) /\ old.order = None /\ ~Busy(old)
      /\ tabs' = [tabs EXCEPT ![t] = new]
      /\ UNCHANGED <<log, drafts, wire, edits, typedOver, tasks, loads, saves, failures>>
      /\ interruptions < MaxInterruptions /\ interruptions' = interruptions + 1
  BY DEF StartOrder
<1>2. interruptions' \in 0 .. MaxInterruptions
  BY <1>1, SavingAssumption DEF TypeOK
<1>3. tabs'[t] = new /\ Elsewhere(t)
  BY <1>1 DEF TypeOK, Elsewhere
<1>4. /\ RowTyped(old) /\ old.source = t /\ old.known \in 1 .. Version
      /\ Bounded(drafts[t], 1 .. Version) /\ Bounded(old.origin, 1 .. Version)
  BY <1>1, OpenTabFits DEF RowTyped
<1>5. /\ RowTyped(shown) /\ Work(shown) = Work(old) /\ shown.source = t
      /\ shown.admitting = old.admitting /\ shown.order = None /\ shown.origin = old.origin
      /\ shown.text = old.text /\ shown.content = old.text /\ shown.seen = old.seen
      /\ shown.known = old.known
  BY <1>1, <1>4 DEF RowTyped, TabType, Work
<1>6. Unresolved(shown) <=> Unresolved(old)
  BY <1>5 DEF Unresolved
<1> HIDE DEF shown
<1>7. RowTyped(drawn) /\ ShownAgain(drawn, shown, drafts[t])
  BY <1>4, <1>5, RenderedIs DEF RowTyped
<1> HIDE DEF drawn
<1>8. order \in OrderType(1 .. Version) /\ order.expected = old.known /\ order.answer = None
  BY <1>4 DEF OrderType
<1>9. order # None
  BY <1>8, NotNone, CountsFit
<1> HIDE DEF order
<1>10. /\ RowTyped(new) /\ Work(new) = Work(drawn) /\ new.admitting = drawn.admitting
       /\ new.origin = drawn.origin /\ new.order = order /\ new.content = drawn.content
       /\ new.text = drawn.text /\ new.revision = drawn.revision
       /\ new.expected = drawn.expected /\ new.seen = drawn.seen
       /\ (new.conflict <=> drawn.conflict)
  BY <1>7, <1>8 DEF RowTyped, TabType, Work
<1> HIDE DEF new, old
<1> QED
  BY <1>1, <1>2, <1>3, <1>5, <1>6, <1>7, <1>8, <1>9, <1>10 DEF Redrawn, ShownAgain, old

LEMMA OrderRefusedStep ==
    ASSUME TypeOK, TabsFit, Bookkeeping, NEW t \in Tabs, OrderAnswered(t),
           tabs[t].order.answer = Conflict
    PROVE  Redrawn(t)
<1> DEFINE old == tabs[t]
           drawn == Rendered(old)
           new == [drawn EXCEPT !.order = None]
<1>1. /\ Opened(old) /\ old.order # None
      /\ tabs' = [tabs EXCEPT ![t] = new]
      /\ UNCHANGED <<log, drafts, wire, edits, typedOver, counters>>
  BY DEF OrderAnswered
<1>2. interruptions' \in 0 .. MaxInterruptions
  BY <1>1 DEF TypeOK, counters
<1>3. tabs'[t] = new /\ Elsewhere(t)
  BY <1>1 DEF TypeOK, Elsewhere
<1>4. /\ RowTyped(old) /\ old.source = t /\ ~Busy(old)
      /\ Bounded(drafts[t], 1 .. Version) /\ Bounded(old.origin, 1 .. Version)
  BY <1>1, OpenTabFits DEF RowTyped, Fits
<1>5. RowTyped(drawn) /\ ShownAgain(drawn, old, drafts[t])
  BY <1>4, RenderedIs DEF RowTyped
<1> HIDE DEF drawn
<1>6. /\ RowTyped(new) /\ Work(new) = Work(drawn) /\ new.admitting = drawn.admitting
      /\ new.origin = drawn.origin /\ new.order = None /\ new.content = drawn.content
      /\ new.text = drawn.text /\ new.revision = drawn.revision
      /\ new.expected = drawn.expected /\ new.seen = drawn.seen
      /\ (new.conflict <=> drawn.conflict)
  BY <1>5 DEF RowTyped, TabType, Work
<1> HIDE DEF new, old
<1> QED
  BY <1>1, <1>2, <1>3, <1>4, <1>5, <1>6 DEF Redrawn, ShownAgain, old, counters

\* The row after the user was asked, and perhaps agreed to overwrite.
Asked(row, tab) ==
    /\ Work(row) = Work(tab)
    /\ row.admitting = tab.admitting /\ row.order = tab.order /\ row.content = tab.content
    /\ row.text = tab.text
    /\ \/ row.origin = tab.origin /\ row.seen = tab.seen /\ (row.conflict <=> tab.conflict)
       \/ /\ SameOrigin(row.origin, tab.origin) /\ ~Unresolved(row)
          /\ row.seen = tab.known /\ ~row.conflict

\* A row is typed into, or its draft is made durable: a save is begun.
Edited(t) ==
    LET old == tabs[t]
        new == tabs'[t]
    IN  /\ Opened(old) /\ RowTyped(new) /\ Work(new) = Work(old) /\ Elsewhere(t)
        /\ old.order = None /\ new.order = None /\ new.content = old.content
        /\ new.expected <= new.known
        /\ old.revision <= new.revision /\ new.revision <= Revisions + 1
        /\ drafts' = [drafts EXCEPT ![t] = Draft(new.text, new.expected, new.revision)]
        /\ \/ new.origin = old.origin /\ new.seen = old.seen /\ (new.conflict <=> old.conflict)
           \/ /\ SameOrigin(new.origin, old.origin) /\ ~Unresolved(new)
              /\ new.seen = old.known /\ ~new.conflict
        /\ \/ /\ new.text = edits + 1 /\ new.revision = old.revision + 1
              /\ new.admitting = old.admitting
              /\ edits < MaxEdits /\ edits' = edits + 1
              /\ typedOver' = typedOver \cup {old.text} /\ UNCHANGED saves
           \/ /\ new.text = old.text
              /\ \/ new.admitting = old.admitting
                 \/ \E a \in AdmissionType : new.admitting = old.admitting \cup {a}
              /\ saves < MaxSaves /\ saves' = saves + 1 /\ UNCHANGED <<edits, typedOver>>
        /\ UNCHANGED <<log, wire, tasks, loads, failures, interruptions>>

LEMMA TypeStep ==
    ASSUME TypeOK, TabsFit, Bookkeeping, NEW t \in Tabs, NEW agrees \in BOOLEAN, Type(t, agrees)
    PROVE  Edited(t)
<1> DEFINE old == tabs[t]
           tab == [old EXCEPT !.text = edits + 1, !.revision = @ + 1]
           asked == IF tab.conflict /\ agrees THEN Confirmed(tab) ELSE tab
           kept == Persisted(asked)
           new == [kept EXCEPT !.timer = agrees]
<1>1. /\ Opened(old) /\ old.order = None /\ edits < MaxEdits
      /\ tabs' = [tabs EXCEPT ![t] = new] /\ drafts' = Journal(asked)
      /\ edits' = edits + 1 /\ typedOver' = typedOver \cup {old.text}
      /\ UNCHANGED <<log, wire, counters>>
  BY DEF Type
<1>2. /\ RowTyped(old) /\ old.source = t /\ Grounded(old, drafts[t])
      /\ old.revision \in Nat /\ old.revision <= Revisions /\ edits \in Nat
      /\ Revisions \in Nat /\ Version \in Nat
      /\ Revisions + 1 <= MaxEdits + MaxSaves /\ edits + 1 \in Texts
  <2>1. /\ RowTyped(old) /\ old.source = t /\ Grounded(old, drafts[t])
        /\ old.revision \in Nat /\ old.revision <= Revisions
    BY <1>1, OpenTabFits DEF Fits, RowTyped, TabType
  <2>2. edits \in 0 .. MaxEdits /\ saves \in 0 .. MaxSaves /\ MaxEdits \in Nat /\ MaxSaves \in Nat
    BY SavingAssumption DEF TypeOK, Texts
  <2>3. Version \in Nat
    BY CountsFit
  <2> QED
    BY <1>1, <2>1, <2>2, <2>3 DEF Revisions, Texts
<1>3. /\ RowTyped(tab) /\ Work(tab) = Work(old) /\ tab.source = t /\ tab.known = old.known
      /\ tab.admitting = old.admitting /\ tab.order = None /\ tab.origin = old.origin
      /\ tab.text = edits + 1 /\ tab.revision = old.revision + 1 /\ tab.content = old.content
      /\ tab.seen = old.seen /\ tab.expected = old.expected /\ (tab.conflict <=> old.conflict)
  <2> DEFINE text == edits + 1
             revision == old.revision + 1
  <2>1. text \in Texts /\ revision \in 0 .. MaxEdits + MaxSaves
    BY <1>2, SavingAssumption
  <2>2. tab = [old EXCEPT !.text = text, !.revision = revision]
    BY <1>2 DEF RowTyped, TabType
  <2> HIDE DEF tab, text, revision
  <2>3. RowTyped(tab)
    BY ZenonT(60), <1>2, <2>1, <2>2 DEF RowTyped, TabType
  <2>4. /\ Work(tab) = Work(old)
        /\ tab.admitting = old.admitting /\ tab.order = old.order /\ tab.origin = old.origin
        /\ tab.text = text /\ tab.revision = revision
        /\ tab.content = old.content /\ tab.seen = old.seen /\ tab.expected = old.expected
        /\ (tab.conflict <=> old.conflict)
    BY <1>2, <2>1, <2>2 DEF RowTyped, TabType, Work
  <2> QED
    BY <1>1, <1>2, <2>3, <2>4 DEF Work, text, revision
<1>4. Unresolved(tab) <=> Unresolved(old)
  BY <1>3 DEF Unresolved
<1> HIDE DEF tab
<1>5. /\ RowTyped(asked) /\ Asked(asked, tab) /\ asked.revision = tab.revision
      /\ asked.source = t /\ asked.known = old.known /\ Grounded(asked, drafts[t])
  <2>0. Grounded(tab, drafts[t]) /\ tab.known \in Nat
    BY <1>2, <1>3 DEF Grounded, RowTyped, TabType
  <2>1. CASE tab.conflict /\ agrees
    <3>1. asked = Confirmed(tab)
      BY <2>1
    <3> HIDE DEF asked
    <3>2. /\ RowTyped(asked) /\ Work(asked) = Work(tab)
          /\ asked.admitting = tab.admitting /\ asked.order = tab.order
          /\ SameOrigin(asked.origin, tab.origin) /\ ~Unresolved(asked)
          /\ asked.content = tab.content /\ asked.seen = tab.known
          /\ asked.text = tab.text /\ asked.revision = tab.revision
          /\ asked.expected = tab.known /\ ~asked.conflict
      BY <1>3, <3>1, ConfirmedIs DEF RowTyped
    <3>3. asked.source = t /\ asked.known = old.known
      BY <1>3, <3>2 DEF Work
    <3> QED
      BY <1>3, <2>0, <3>2, <3>3 DEF Asked, Grounded
  <2>2. CASE ~(tab.conflict /\ agrees)
    <3>1. asked = tab
      BY <2>2
    <3> QED
      BY <1>3, <2>0, <3>1 DEF Asked
  <2> QED
    BY <2>1, <2>2
<1> HIDE DEF asked
<1>6. /\ RowTyped(kept) /\ Work(kept) = Work(asked)
      /\ kept.admitting = asked.admitting /\ kept.order = asked.order
      /\ kept.origin = asked.origin /\ kept.content = asked.content /\ kept.seen = asked.seen
      /\ kept.text = asked.text /\ kept.revision = asked.revision
      /\ kept.expected = Base(asked) /\ kept.expected <= asked.known
      /\ (kept.conflict <=> asked.conflict)
  BY <1>2, <1>5, PersistedIs DEF RowTyped
<1> HIDE DEF kept
<1>7. /\ RowTyped(new) /\ Work(new) = Work(kept)
      /\ new.admitting = kept.admitting /\ new.order = kept.order
      /\ new.origin = kept.origin /\ new.content = kept.content /\ new.seen = kept.seen
      /\ new.text = kept.text /\ new.revision = kept.revision
      /\ new.expected = kept.expected /\ (new.conflict <=> kept.conflict)
  BY <1>6, FlagsSet DEF RowTyped, TabType, Work
<1>8. tabs'[t] = new /\ Elsewhere(t)
  BY <1>1, <1>5 DEF TypeOK, Elsewhere, Journal, Sources
<1> HIDE DEF new
<1>9. drafts' = [drafts EXCEPT ![t] = Draft(new.text, new.expected, new.revision)]
  BY <1>1, <1>5, <1>6, <1>7 DEF Journal
<1>10. /\ new.text = edits + 1 /\ new.revision = old.revision + 1
       /\ new.content = old.content /\ new.order = None /\ new.admitting = old.admitting
       /\ Work(new) = Work(old) /\ new.known = old.known
  BY <1>3, <1>5, <1>6, <1>7 DEF Asked, Work
<1>11. Unresolved(new) <=> Unresolved(asked)
  BY <1>6, <1>7 DEF Unresolved
<1>12. \/ new.origin = old.origin /\ new.seen = old.seen /\ (new.conflict <=> old.conflict)
       \/ /\ SameOrigin(new.origin, old.origin) /\ ~Unresolved(new)
          /\ new.seen = old.known /\ ~new.conflict
  BY <1>3, <1>5, <1>6, <1>7, <1>11 DEF Asked
<1>13. /\ new.expected <= new.known /\ old.revision <= new.revision
       /\ new.revision <= Revisions + 1
  BY <1>2, <1>5, <1>6, <1>7, <1>10
<1> QED
  BY <1>1, <1>7, <1>8, <1>9, <1>10, <1>12, <1>13 DEF Edited, counters

LEMMA SaveRowStep ==
    ASSUME TypeOK, TabsFit, Bookkeeping, NEW t \in Tabs, NEW tab,
           Opened(tabs[t]), tabs[t].order = None,
           RowTyped(tab), Asked(tab, tabs[t]), tab.revision = tabs[t].revision,
           Grounded(tab, drafts[t]), SaveRow(t, tab)
    PROVE  Edited(t)
<1> DEFINE old == tabs[t]
           revision == NewRevision(tab)
           row == [tab EXCEPT !.revision = revision]
           saved == Persisted(row)
           admission == [text |-> row.text, revision |-> row.revision]
           new == IF tab.conflict THEN saved
                  ELSE [saved EXCEPT !.admitting = @ \cup {admission}]
<1>1. /\ tabs' = [tabs EXCEPT ![t] = new] /\ drafts' = Journal(row)
      /\ saves < MaxSaves /\ saves' = saves + 1
      /\ UNCHANGED <<log, wire, edits, typedOver, tasks, loads, failures, interruptions>>
  BY DEF SaveRow
<1>2. /\ RowTyped(old) /\ old.source = t
      /\ old.revision \in Nat /\ old.revision <= Revisions
  BY OpenTabFits DEF Fits, RowTyped, TabType
<1>3. /\ Revisions \in Nat /\ Version \in Nat /\ Revisions + 1 <= MaxEdits + MaxSaves
  <2>1. edits \in 0 .. MaxEdits /\ saves \in 0 .. MaxSaves /\ MaxEdits \in Nat /\ MaxSaves \in Nat
    BY SavingAssumption DEF TypeOK, Texts
  <2>2. Version \in Nat
    BY CountsFit
  <2> QED
    BY <1>1, <2>1, <2>2 DEF Revisions
<1>4. /\ Work(tab) = Work(old) /\ tab.source = t /\ tab.known = old.known
      /\ tab.order = None /\ tab.text = old.text /\ tab.content = old.content
      /\ tab.admitting = old.admitting
  BY <1>2 DEF Asked, Work
<1>5. drafts[t] # None => drafts[t] \in DraftType /\ drafts[t].revision <= Revisions
  <2>1. drafts[t] # None => drafts[t] \in DraftType /\ drafts[t].revision \in 0 .. Revisions
    BY DraftsFit DEF Sources
  <2> QED
    BY <1>3, <2>1
<1>6. revision \in 0 .. Revisions + 1 /\ tab.revision <= revision
  BY <1>2, <1>3, <1>4, <1>5, NewRevisionIs DEF RowTyped
<1>7. revision \in 0 .. MaxEdits + MaxSaves
  BY <1>3, <1>6, SavingAssumption
<1> HIDE DEF revision
<1>8. /\ RowTyped(row) /\ Work(row) = Work(tab)
      /\ row.admitting = tab.admitting /\ row.order = tab.order
      /\ row.origin = tab.origin /\ row.content = tab.content /\ row.seen = tab.seen
      /\ row.text = tab.text /\ row.revision = revision
      /\ row.expected = tab.expected /\ (row.conflict <=> tab.conflict)
  <2>1. RowTyped(row)
    BY <1>7 DEF RowTyped, TabType
  <2>2. /\ Work(row) = Work(tab)
        /\ row.admitting = tab.admitting /\ row.order = tab.order
        /\ row.origin = tab.origin /\ row.content = tab.content /\ row.seen = tab.seen
        /\ row.text = tab.text /\ row.revision = revision
        /\ row.expected = tab.expected /\ (row.conflict <=> tab.conflict)
    BY DEF RowTyped, TabType, Work
  <2> QED
    BY <2>1, <2>2
<1> HIDE DEF row
<1>9. row.source = t /\ row.known = old.known /\ Grounded(row, drafts[t])
  BY <1>4, <1>8 DEF Work, Grounded
<1>10. /\ RowTyped(saved) /\ Work(saved) = Work(row)
       /\ saved.admitting = row.admitting /\ saved.order = row.order
       /\ saved.origin = row.origin /\ saved.content = row.content /\ saved.seen = row.seen
       /\ saved.text = row.text /\ saved.revision = row.revision
       /\ saved.expected = Base(row) /\ saved.expected <= row.known
       /\ (saved.conflict <=> row.conflict)
  BY <1>3, <1>8, <1>9, PersistedIs DEF RowTyped
<1> HIDE DEF saved
<1>11. admission \in AdmissionType
  BY <1>7, <1>8 DEF AdmissionType, RowTyped, TabType
<1> HIDE DEF admission
<1>12. /\ RowTyped(new) /\ Work(new) = Work(saved)
       /\ new.order = saved.order
       /\ new.origin = saved.origin /\ new.content = saved.content /\ new.seen = saved.seen
       /\ new.text = saved.text /\ new.revision = saved.revision
       /\ new.expected = saved.expected /\ (new.conflict <=> saved.conflict)
       /\ new.admitting = saved.admitting \/ new.admitting = saved.admitting \cup {admission}
  <2>1. CASE tab.conflict
    BY <1>10, <2>1
  <2>2. CASE ~tab.conflict
    <3> DEFINE r == [saved EXCEPT !.admitting = saved.admitting \cup {admission}]
    <3>1. new = r
      BY <2>2
    <3>2. RowTyped(r)
      BY <1>10, <1>11 DEF RowTyped, TabType
    <3>3. /\ Work(r) = Work(saved)
          /\ r.order = saved.order
          /\ r.origin = saved.origin /\ r.content = saved.content /\ r.seen = saved.seen
          /\ r.text = saved.text /\ r.revision = saved.revision
          /\ r.expected = saved.expected /\ (r.conflict <=> saved.conflict)
          /\ r.admitting = saved.admitting \cup {admission}
      BY <1>10 DEF RowTyped, TabType, Work
    <3> HIDE DEF r, new
    <3> QED
      BY <3>1, <3>2, <3>3
  <2> QED
    BY <2>1, <2>2
<1>13. tabs'[t] = new /\ Elsewhere(t)
  BY <1>1, <1>9 DEF TypeOK, Elsewhere, Journal, Sources
<1> HIDE DEF new
<1>14. drafts' = [drafts EXCEPT ![t] = Draft(new.text, new.expected, new.revision)]
  BY <1>1, <1>8, <1>9, <1>10, <1>12 DEF Journal
<1>15. /\ new.text = old.text /\ new.content = old.content /\ new.order = None
       /\ Work(new) = Work(old) /\ new.known = old.known
       /\ new.admitting = old.admitting \/ new.admitting = old.admitting \cup {admission}
  BY <1>4, <1>8, <1>10, <1>12 DEF Work
<1>16. Unresolved(new) <=> Unresolved(tab)
  BY <1>8, <1>10, <1>12 DEF Unresolved
<1>17. \/ new.origin = old.origin /\ new.seen = old.seen /\ (new.conflict <=> old.conflict)
       \/ /\ SameOrigin(new.origin, old.origin) /\ ~Unresolved(new)
          /\ new.seen = old.known /\ ~new.conflict
  BY <1>8, <1>10, <1>12, <1>16 DEF Asked
<1>18. /\ new.expected <= new.known /\ old.revision <= new.revision
       /\ new.revision <= Revisions + 1
  BY <1>2, <1>3, <1>6, <1>8, <1>9, <1>10, <1>12, <1>15
<1> QED
  BY <1>1, <1>11, <1>12, <1>13, <1>14, <1>15, <1>17, <1>18 DEF Edited

LEMMA SaveStep ==
    ASSUME TypeOK, TabsFit, Bookkeeping, NEW t \in Tabs, NEW agrees \in BOOLEAN, Save(t, agrees)
    PROVE  Edited(t)
<1> DEFINE old == tabs[t]
           tab == IF agrees THEN Confirmed(old) ELSE old
<1>1. Opened(old) /\ old.order = None /\ SaveRow(t, tab)
  BY DEF Save
<1>2. /\ RowTyped(old) /\ old.source = t /\ Grounded(old, drafts[t]) /\ old.known \in Nat
  BY <1>1, OpenTabFits, CountsFit DEF RowTyped
<1>3. RowTyped(tab) /\ Asked(tab, old) /\ tab.revision = old.revision /\ Grounded(tab, drafts[t])
  <2>1. CASE agrees
    <3>1. tab = Confirmed(old)
      BY <2>1
    <3> HIDE DEF tab
    <3>2. /\ RowTyped(tab) /\ Work(tab) = Work(old)
          /\ tab.admitting = old.admitting /\ tab.order = old.order
          /\ SameOrigin(tab.origin, old.origin) /\ ~Unresolved(tab)
          /\ tab.content = old.content /\ tab.seen = old.known
          /\ tab.text = old.text /\ tab.revision = old.revision
          /\ tab.expected = old.known /\ ~tab.conflict
      BY <1>2, <3>1, ConfirmedIs DEF RowTyped
    <3>3. tab.known = old.known
      BY <3>2 DEF Work
    <3> QED
      BY <1>2, <3>2, <3>3 DEF Asked, Grounded
  <2>2. CASE ~agrees
    BY <1>2, <2>2 DEF Asked
  <2> QED
    BY <2>1, <2>2
<1> HIDE DEF tab
<1> QED
  BY <1>1, <1>3, SaveRowStep

LEMMA TimerStep ==
    ASSUME TypeOK, TabsFit, Bookkeeping, NEW t \in Tabs, TimerFires(t)
    PROVE  Edited(t)
<1> DEFINE old == tabs[t]
           tab == [old EXCEPT !.timer = FALSE]
<1>1. Opened(old) /\ old.order = None /\ SaveRow(t, tab)
  BY DEF TimerFires
<1>2. /\ RowTyped(old) /\ old.source = t /\ Grounded(old, drafts[t])
  BY <1>1, OpenTabFits DEF RowTyped
<1>3. RowTyped(tab) /\ Asked(tab, old) /\ tab.revision = old.revision /\ Grounded(tab, drafts[t])
  <2>1. RowTyped(tab)
    BY <1>2, FlagsSet DEF RowTyped
  <2>2. /\ Work(tab) = Work(old) /\ tab.known = old.known
        /\ tab.admitting = old.admitting /\ tab.order = old.order /\ tab.origin = old.origin
        /\ tab.content = old.content /\ tab.seen = old.seen /\ tab.text = old.text
        /\ tab.revision = old.revision /\ tab.expected = old.expected
        /\ (tab.conflict <=> old.conflict)
    BY <1>2 DEF RowTyped, TabType, Work
  <2> HIDE DEF tab
  <2> QED
    BY <1>2, <2>1, <2>2 DEF Asked, Grounded
<1> HIDE DEF tab
<1> QED
  BY <1>1, <1>3, SaveRowStep

SameRow(new, old) ==
    /\ new.source = old.source /\ new.known = old.known /\ new.text = old.text
    /\ new.revision = old.revision /\ new.expected = old.expected
    /\ new.content = old.content /\ new.seen = old.seen /\ new.order = old.order
    /\ new.origin = old.origin

\* The requests on the wire are the earlier ones and the one the tab awaits.
SentBy(new) ==
    /\ wire' \subseteq wire \cup {Request(new.run.task, new.run.attempt)}
    /\ new.run = None => wire' = wire

LEMMA SentIs ==
    ASSUME NEW before, NEW after, wire' = Sent(before, after)
    PROVE  SentBy(after) /\ (after.run = before.run => wire' = wire)
BY DEF Sent, SentBy

\* A row whose draft is durable became a task.
Admitted(t, task) ==
    LET old == tabs[t]
        new == tabs'[t]
    IN  /\ Opened(old) /\ new \in TabType(1 .. tasks', 1 .. Version) /\ Elsewhere(t)
        /\ SameRow(new, old) /\ ~old.conflict /\ ~new.conflict /\ old.order = None
        /\ \E admission \in old.admitting : new.admitting = old.admitting \ {admission}
        /\ tasks' = tasks + 1
        /\ task \in TaskType(1 .. tasks', 1 .. Version) /\ task.id = tasks + 1
        /\ task.source = t /\ task.text = old.text /\ task.revision = old.revision
        /\ task.expected <= old.known /\ task.pinned = 0 /\ task.origin = old.origin
        /\ new.run # None /\ new.retry = None
        /\ HasTask(old) => new.run.task = Underway(old) /\ new.pending = task
        /\ ~HasTask(old) => new.run.task = Fixed(old, task) /\ new.pending = None
        /\ \/ new.run = old.run /\ wire' = wire
           \/ new.run.answer = None /\ SentBy(new)
        /\ UNCHANGED <<log, drafts, edits, typedOver, loads, saves, failures, interruptions>>

\* The row changed while its draft was made durable.
Outdated(t) ==
    LET old == tabs[t]
        new == tabs'[t]
    IN  /\ Opened(old) /\ RowTyped(new) /\ Elsewhere(t)
        /\ SameRow(new, old) /\ (new.conflict <=> old.conflict) /\ Work(new) = Work(old)
        /\ \E admission \in old.admitting : new.admitting = old.admitting \ {admission}
        /\ UNCHANGED <<log, drafts, wire, edits, typedOver, counters>>

LEMMA OutdatedStep ==
    ASSUME TypeOK, TabsFit, Bookkeeping, NEW t \in Tabs, NEW admission, Admit(t, admission),
           ~Current([tabs[t] EXCEPT !.admitting = @ \ {admission}], admission)
    PROVE  Outdated(t)
<1> DEFINE old == tabs[t]
           tab == [old EXCEPT !.admitting = @ \ {admission}]
<1>1. /\ Opened(old) /\ admission \in old.admitting
      /\ tabs' = [tabs EXCEPT ![t] = tab] /\ UNCHANGED <<wire, tasks>>
      /\ UNCHANGED <<log, drafts, edits, typedOver, loads, saves, failures, interruptions>>
  BY DEF Admit
<1>2. RowTyped(old)
  BY <1>1, OpenTabFits DEF RowTyped
<1>3. RowTyped(tab)
  BY <1>2 DEF RowTyped, TabType
<1>4. /\ SameRow(tab, old) /\ (tab.conflict <=> old.conflict) /\ Work(tab) = Work(old)
      /\ tab.admitting = old.admitting \ {admission}
  BY <1>2 DEF RowTyped, TabType, SameRow, Work
<1> HIDE DEF tab
<1>5. tabs'[t] = tab /\ Elsewhere(t)
  BY <1>1 DEF TypeOK, Elsewhere
<1> QED
  BY <1>1, <1>3, <1>4, <1>5 DEF Outdated, counters

LEMMA AdmittedStep ==
    ASSUME TypeOK, TabsFit, Bookkeeping, NEW t \in Tabs, NEW admission, Admit(t, admission),
           Current([tabs[t] EXCEPT !.admitting = @ \ {admission}], admission)
    PROVE  \E task : Admitted(t, task)
<1> DEFINE old == tabs[t]
           tab == [old EXCEPT !.admitting = @ \ {admission}]
           task == Task(tab, admission)
           queued == [tab EXCEPT !.timer = FALSE, !.latest = task.id, !.pending = task]
           next == IF tab.run = None THEN Drained(queued, failures, drafts) ELSE queued
<1>1. /\ Opened(old) /\ admission \in old.admitting
      /\ tasks' = tasks + 1 /\ tabs' = [tabs EXCEPT ![t] = next] /\ wire' = Sent(tab, next)
      /\ UNCHANGED <<log, drafts, edits, typedOver, loads, saves, failures, interruptions>>
  BY DEF Admit
<1>2. /\ tab.revision = admission.revision /\ tab.text = admission.text
      /\ ~tab.conflict /\ tab.order = None
  BY DEF Current
<1>3. /\ old \in TabType(1 .. tasks, 1 .. Version) /\ old.source = t /\ old.known \in 1 .. Version
      /\ Fits(t, old, Revisions) /\ Grounded(old, drafts[t])
      /\ old.retry # None => old.retry.pinned # 0
  BY <1>1, OpenTabFits
<1>4. tasks \in Nat /\ Version \in Nat /\ failures \in 0 .. MaxFailures /\ tasks' \in Nat
  BY <1>1, CountsFit DEF TypeOK
<1>5. /\ tab \in TabType(1 .. tasks', 1 .. Version)
      /\ SameRow(tab, old) /\ (tab.conflict <=> old.conflict) /\ Work(tab) = Work(old)
      /\ tab.admitting = old.admitting \ {admission}
  <2>1. old \in TabType(1 .. tasks', 1 .. Version)
    <3>1. 1 .. tasks \subseteq 1 .. tasks'
      BY <1>1, <1>4
    <3> QED
      BY <1>3, <3>1, TypesGrow
  <2>2. tab \in TabType(1 .. tasks', 1 .. Version)
    BY <2>1 DEF TabType
  <2>3. /\ SameRow(tab, old) /\ (tab.conflict <=> old.conflict) /\ Work(tab) = Work(old)
        /\ tab.admitting = old.admitting \ {admission}
    BY <2>1 DEF TabType, SameRow, Work
  <2> QED
    BY <2>2, <2>3
<1> HIDE DEF tab
<1>6. /\ task.id = tasks + 1 /\ task.source = tab.source /\ task.text = admission.text
      /\ task.revision = admission.revision /\ task.pinned = 0 /\ task.origin = tab.origin
      /\ task.expected = Max({tab.expected, tab.known}) /\ task.seen = 0
      /\ task = [id |-> task.id, source |-> task.source, text |-> task.text,
                 revision |-> task.revision, expected |-> task.expected,
                 pinned |-> task.pinned, origin |-> task.origin, seen |-> task.seen]
  BY DEF Task
<1>7. Max({tab.expected, tab.known}) = old.known
  <2>1. /\ tab.expected \in Nat /\ tab.known \in Nat /\ tab.expected <= tab.known
        /\ tab.known = old.known
    BY <1>3, <1>4, <1>5 DEF SameRow, Grounded, TabType
  <2> QED
    BY <2>1, MaxIs
<1>8. /\ tab.origin \in OriginType \cup {None} /\ tab.text \in Texts /\ tab.revision \in Nat
      /\ tab.source = t
  BY <1>3, <1>5 DEF TabType, SameRow
<1> HIDE DEF task
<1>9. task \in TaskType(1 .. tasks', 1 .. Version)
  <2>1. task.id \in 1 .. tasks' /\ task.source \in Sources /\ task.expected \in 1 .. Version
    BY <1>1, <1>3, <1>4, <1>6, <1>7, <1>8 DEF Sources
  <2> QED
    BY <1>2, <1>6, <1>8, <2>1 DEF TaskType
<1>10. /\ queued \in TabType(1 .. tasks', 1 .. Version)
       /\ SameRow(queued, tab) /\ ~queued.conflict
       /\ queued.admitting = tab.admitting /\ queued.pending = task
       /\ queued.run = tab.run /\ queued.retry = tab.retry
  <2> DEFINE r1 == [tab EXCEPT !.latest = task.id, !.pending = task]
             r2 == [r1 EXCEPT !.timer = FALSE]
  <2>1. task.id \in 1 .. tasks'
    BY <1>1, <1>4, <1>6
  <2>2. r1 \in TabType(1 .. tasks', 1 .. Version)
    BY <1>5, <1>9, <2>1, ZenonT(60) DEF TabType
  <2> HIDE DEF r1
  <2>3. r2 \in TabType(1 .. tasks', 1 .. Version)
    BY <2>2, FlagsSet
  <2>4. queued = r2
    BY DEF r1
  <2> USE DEF r1
  <2>5. /\ SameRow(r2, tab) /\ ~r2.conflict
        /\ r2.admitting = tab.admitting /\ r2.pending = task
        /\ r2.run = tab.run /\ r2.retry = tab.retry
    BY <1>2, <1>5 DEF TabType, SameRow
  <2> QED
    BY <2>3, <2>4, <2>5
<1> HIDE DEF queued
<1>11. tab.run = old.run /\ tab.retry = old.retry /\ tab.known = old.known
  BY <1>5 DEF Work
<1>12. /\ next \in TabType(1 .. tasks', 1 .. Version) /\ SameRow(next, queued) /\ ~next.conflict
       /\ next.admitting = queued.admitting
       /\ next.run # None /\ next.retry = None
       /\ HasTask(old) => next.run.task = Underway(old) /\ next.pending = task
       /\ ~HasTask(old) => next.run.task = Fixed(old, task) /\ next.pending = None
       /\ next.run = old.run \/ next.run.answer = None
  <2>1. CASE old.run # None
    <3>1. next = queued
      BY <1>11, <2>1
    <3>2. old.retry = None
      BY <1>3, <2>1 DEF Fits
    <3> HIDE DEF next, old
    <3> QED
      BY <1>10, <1>11, <2>1, <3>1, <3>2 DEF SameRow, HasTask, Underway
  <2>2. CASE old.run = None
    <3>1. next = Drained(queued, failures, drafts)
      BY <1>11, <2>2
    <3> HIDE DEF next
    <3>2. /\ queued.known = old.known /\ queued.source = t /\ queued.known # 0
          /\ queued.expected = old.expected /\ queued.seen = old.seen
      BY <1>3, <1>5, <1>8, <1>10 DEF SameRow
    <3>3. Grounded(queued, drafts[queued.source])
      BY <1>3, <3>2 DEF Grounded
    <3>4. task.expected <= queued.known /\ task.pinned = 0
      BY <1>3, <1>4, <1>6, <1>7, <3>2
    <3>5. 1 .. tasks' \subseteq Nat
      BY <1>4
    <3>6. /\ next \in TabType(1 .. tasks', 1 .. Version)
          /\ next.source = queued.source /\ next.known = queued.known
          /\ next.admitting = queued.admitting /\ next.order = queued.order
          /\ next.origin = queued.origin
          /\ next.content = queued.content /\ next.seen = queued.seen
          /\ next.text = queued.text /\ next.revision = queued.revision
          /\ next.expected = queued.expected
          /\ (next.conflict <=> queued.conflict)
          /\ next.retry = None
          /\ next.pending = IF queued.retry # None THEN queued.pending ELSE None
          /\ next.run = IF NextTask(queued) = None THEN None ELSE Run(NextTask(queued), failures)
      BY <1>3, <1>4, <1>10, <1>11, <3>1, <3>2, <3>3, <3>4, <3>5, DrainedIs
    <3>7. /\ None \notin RunType(1 .. tasks', 1 .. Version)
          /\ None \notin TaskType(1 .. tasks', 1 .. Version)
      BY <1>4, <3>5, NotNone
    <3>8. task # None /\ Fixed(old, task) = Fixed(queued, task)
      BY <1>9, <3>2, <3>7 DEF Fixed
    <3>9. Fixed(queued, task) \in TaskType(1 .. tasks', 1 .. Version)
      BY <1>4, <1>9, <1>10, <3>2, <3>3, <3>4, PinnedIs
    <3>10. NextTask(queued) = IF HasTask(old) THEN Underway(old) ELSE Fixed(old, task)
      BY <1>10, <1>11, <2>2, <3>8 DEF NextTask, HasTask, Underway
    <3>11. NextTask(queued) # None
      BY <1>10, <1>11, <2>2, <3>7, <3>8, <3>9, <3>10 DEF HasTask, Underway
    <3>12. next.run = Run(NextTask(queued), failures)
      BY <3>6, <3>11
    <3>13. next.run.task = NextTask(queued) /\ next.run.answer = None
      BY <3>12 DEF Run
    <3>14. next.run # None
      <4>1. next.run = [task |-> NextTask(queued), attempt |-> failures, answer |-> None]
        BY <3>12 DEF Run
      <4>2. NextTask(queued) \in TaskType(1 .. tasks', 1 .. Version)
        BY <1>5, <1>10, <1>11, <3>9, <3>10, <3>8, <2>2, <3>11 DEF TabType, HasTask, Underway
      <4>3. next.run \in RunType(1 .. tasks', 1 .. Version)
        BY <1>4, <4>1, <4>2 DEF RunType
      <4> QED
        BY <3>7, <4>3
    <3>15. HasTask(old) <=> queued.retry # None
      BY <1>10, <1>11, <2>2 DEF HasTask
    <3> QED
      BY <1>10, <3>6, <3>10, <3>13, <3>14, <3>15 DEF SameRow
  <2> QED
    BY <2>1, <2>2
<1>13. tabs'[t] = next /\ Elsewhere(t)
  BY <1>1 DEF TypeOK, Elsewhere
<1>14. SentBy(next) /\ (next.run = old.run => wire' = wire)
  BY <1>1, <1>11, SentIs
<1> HIDE DEF next
<1>15. Admitted(t, task)
  <2>1. SameRow(next, old) /\ next.admitting = old.admitting \ {admission}
    BY <1>5, <1>10, <1>12 DEF SameRow
  <2>2. /\ old.order = None /\ ~old.conflict /\ task.text = old.text /\ task.revision = old.revision
        /\ task.origin = old.origin /\ task.source = t /\ task.expected <= old.known
    BY <1>2, <1>3, <1>4, <1>5, <1>6, <1>7, <1>8 DEF SameRow
  <2> HIDE DEF old
  <2> QED
    BY <1>1, <1>6, <1>9, <1>12, <1>13, <1>14, <2>1, <2>2 DEF Admitted, old
<1> QED
  BY <1>15

\* The task whose outcome was unknown is sent again.
Resumed(t) ==
    LET old == tabs[t]
        new == tabs'[t]
    IN  /\ Opened(old) /\ RowTyped(new) /\ Elsewhere(t)
        /\ SameRow(new, old) /\ (new.conflict <=> old.conflict)
        /\ new.admitting = old.admitting
        /\ old.run = None /\ old.retry # None
        /\ new.run # None /\ new.run.task = old.retry /\ new.run.answer = None
        /\ new.retry = None /\ new.pending = old.pending
        /\ SentBy(new)
        /\ UNCHANGED <<log, drafts, edits, typedOver, counters>>

LEMMA FlushStep ==
    ASSUME TypeOK, TabsFit, Bookkeeping, NEW t \in Tabs, Flush(t)
    PROVE  Resumed(t)
<1> DEFINE old == tabs[t]
           next == Drained(old, failures, drafts)
<1>1. /\ Opened(old) /\ old.run = None /\ (old.retry # None \/ old.pending # None)
      /\ tabs' = [tabs EXCEPT ![t] = next] /\ wire' = Sent(old, tabs'[t])
      /\ UNCHANGED <<log, drafts, edits, typedOver, counters>>
  BY DEF Flush
<1>2. /\ old \in TabType(1 .. tasks, 1 .. Version) /\ old.source = t /\ old.known \in 1 .. Version
      /\ Fits(t, old, Revisions) /\ Grounded(old, drafts[t])
      /\ old.retry # None => old.retry.pinned # 0
      /\ old.pending # None => old.pending.pinned = 0 /\ old.pending.expected <= old.known
  BY <1>1, OpenTabFits
<1>3. old.retry # None
  BY <1>1, <1>2 DEF Fits, HasTask
<1>4. tabs'[t] = next /\ Elsewhere(t)
  BY <1>1 DEF TypeOK, Elsewhere
<1>5. SentBy(next)
  BY <1>1, <1>4, SentIs
<1>6. /\ Version \in Nat /\ 1 .. tasks \subseteq Nat /\ 1 .. Version \subseteq Nat
      /\ failures \in 0 .. MaxFailures
  BY CountsFit DEF TypeOK
<1> DEFINE run == Run(old.retry, failures)
           row == [old EXCEPT !.run = run, !.retry = None]
<1>7. next = row
  BY <1>2, <1>3 DEF Drained, Pinned
<1>8. run \in RunType(1 .. tasks, 1 .. Version) /\ run.task = old.retry /\ run.answer = None
  <2>1. old.retry \in TaskType(1 .. tasks, 1 .. Version)
    BY <1>2, <1>3 DEF TabType
  <2> QED
    BY <1>6, <2>1 DEF Run, RunType
<1>9. run # None
  <2>1. 1 .. tasks \in SUBSET Nat /\ 1 .. Version \in SUBSET Nat
    BY <1>6
  <2> HIDE DEF run
  <2> QED
    BY <1>8, <2>1, NotNone
<1> HIDE DEF run
<1>10. row \in TabType(1 .. tasks, 1 .. Version)
  BY ZenonT(60), <1>2, <1>8, QueueSet
<1>11. /\ SameRow(row, old) /\ (row.conflict <=> old.conflict) /\ row.admitting = old.admitting
       /\ row.run = run /\ row.retry = None /\ row.pending = old.pending
  BY <1>2 DEF TabType, SameRow
<1> HIDE DEF old, row, next
<1> QED
  BY <1>1, <1>3, <1>4, <1>5, <1>7, <1>8, <1>9, <1>10, <1>11 DEF Resumed, RowTyped, old

\* The server refused the save: the draft is in conflict, and nothing is sent.
Refused(t) ==
    LET old == tabs[t]
        new == tabs'[t]
    IN  /\ Opened(old) /\ RowTyped(new) /\ Elsewhere(t)
        /\ SameRow(new, old) /\ new.conflict /\ new.admitting = old.admitting
        /\ old.run # None /\ old.run.answer = Conflict
        /\ new.run = None /\ new.retry = old.retry /\ new.pending = None
        /\ UNCHANGED <<log, drafts, wire, edits, typedOver, counters>>

LEMMA ReceiveConflictStep ==
    ASSUME TypeOK, TabsFit, Bookkeeping, NEW t \in Tabs, ReceiveConflict(t)
    PROVE  Refused(t)
<1> DEFINE old == tabs[t]
           new == Rejected(old)
<1>1. /\ Opened(old) /\ old.run # None /\ old.run.answer = Conflict
      /\ tabs' = [tabs EXCEPT ![t] = new] /\ wire' = Sent(old, tabs'[t])
      /\ UNCHANGED <<log, drafts, edits, typedOver, counters>>
  BY DEF ReceiveConflict, Answered
<1>2. RowTyped(old)
  BY <1>1, OpenTabFits DEF RowTyped
<1>3. tabs'[t] = new /\ Elsewhere(t)
  BY <1>1 DEF TypeOK, Elsewhere
<1>4. /\ RowTyped(new) /\ SameRow(new, old) /\ new.conflict /\ new.admitting = old.admitting
      /\ new.run = None /\ new.retry = old.retry /\ new.pending = None
  <2> DEFINE r1 == [old EXCEPT !.run = None, !.pending = None]
             r2 == [r1 EXCEPT !.dirty = TRUE]
             r3 == [r2 EXCEPT !.conflict = TRUE]
  <2>1. new = r3
    BY DEF Rejected
  <2>2. r1 \in TabType(1 .. tasks, 1 .. Version)
    BY <1>2, ZenonT(60) DEF RowTyped, TabType
  <2> HIDE DEF r1
  <2>3. r2 \in TabType(1 .. tasks, 1 .. Version)
    BY <2>2, FlagsSet
  <2> HIDE DEF r2
  <2>4. r3 \in TabType(1 .. tasks, 1 .. Version)
    BY <2>3, FlagsSet
  <2> USE DEF r1, r2
  <2>5. /\ SameRow(r3, old) /\ r3.conflict /\ r3.admitting = old.admitting
        /\ r3.run = None /\ r3.retry = old.retry /\ r3.pending = None
    BY <1>2 DEF RowTyped, TabType, SameRow
  <2> HIDE DEF r1, r2, r3
  <2> QED
    BY <2>1, <2>4, <2>5 DEF RowTyped
<1>5. wire' = wire
  BY <1>1, <1>3, <1>4 DEF Sent
<1> HIDE DEF new
<1> QED
  BY <1>1, <1>3, <1>4, <1>5 DEF Refused

\* The outcome is unknown.
Lost(t) ==
    LET old == tabs[t]
        new == tabs'[t]
    IN  /\ Opened(old) /\ RowTyped(new) /\ Elsewhere(t)
        /\ SameRow(new, old) /\ (new.conflict <=> old.conflict)
        /\ new.admitting = old.admitting
        /\ old.run # None /\ new.run = None /\ new.retry = old.run.task
        /\ new.pending = old.pending
        /\ failures' \in 0 .. MaxFailures
        /\ UNCHANGED <<log, drafts, wire, edits, typedOver, tasks, loads, saves, interruptions>>

LEMMA LoseAnswerStep ==
    ASSUME TypeOK, TabsFit, Bookkeeping, NEW t \in Tabs, LoseAnswer(t)
    PROVE  Lost(t)
<1> DEFINE old == tabs[t]
           new == [old EXCEPT !.run = None, !.retry = old.run.task, !.dirty = TRUE]
<1>1. /\ Opened(old) /\ old.run # None /\ tabs' = [tabs EXCEPT ![t] = new]
      /\ failures < MaxFailures /\ failures' = failures + 1
      /\ UNCHANGED <<log, drafts, wire, edits, typedOver, tasks, loads, saves, interruptions>>
  BY DEF LoseAnswer
<1>2. RowTyped(old)
  BY <1>1, OpenTabFits DEF RowTyped
<1>3. tabs'[t] = new /\ Elsewhere(t)
  BY <1>1 DEF TypeOK, Elsewhere
<1>4. old.run.task \in TaskType(1 .. tasks, 1 .. Version)
  BY <1>1, <1>2 DEF RowTyped, TabType, RunType
<1>5. RowTyped(new)
  BY <1>2, <1>4, ZenonT(60) DEF RowTyped, TabType
<1>6. /\ SameRow(new, old) /\ (new.conflict <=> old.conflict)
      /\ new.admitting = old.admitting
      /\ new.run = None /\ new.retry = old.run.task /\ new.pending = old.pending
  BY <1>2 DEF RowTyped, TabType, SameRow
<1>7. failures' \in 0 .. MaxFailures
  BY <1>1, SavingAssumption, SMTT(60) DEF TypeOK
<1> HIDE DEF new
<1> QED
  BY <1>1, <1>3, <1>5, <1>6, <1>7 DEF Lost

\* A reorder leaves the row as it is.
SameText(new, old) ==
    /\ new.text = old.text /\ new.revision = old.revision /\ new.expected = old.expected
    /\ new.seen = old.seen /\ new.origin = old.origin /\ (new.conflict <=> old.conflict)
    /\ new.admitting = old.admitting

\* The page was reordered, or the server refused to.
Ordered(t) ==
    LET old == tabs[t]
        new == tabs'[t]
    IN  /\ Opened(old) /\ new \in TabType(1 .. tasks, 1 .. Version') /\ Elsewhere(t)
        /\ SameText(new, old) /\ Work(new) = Work(old) /\ new.content = old.content
        /\ old.order # None /\ old.order.answer = None
        /\ new.order # None /\ new.order.expected = old.order.expected
        /\ UNCHANGED <<drafts, wire, edits, typedOver, counters>>
        /\ \/ /\ log' = Append(log, Entry(Block.text, NoMutation, t, Version))
              /\ old.order.expected = Version /\ "own" \in OrderLists
              /\ new.order.answer = Answer(Version + 1, Block.text)
           \/ log' = log /\ new.order.answer = Conflict
           \/ /\ log' = log /\ new.order.answer = Answer(Version, Block.text)
              /\ "other" \in OrderLists

LEMMA ReorderStep ==
    ASSUME TypeOK, TabsFit, Bookkeeping, NEW t \in Tabs, Reorder(t)
    PROVE  Ordered(t)
<1> DEFINE old == tabs[t]
           order == old.order
           answer == IF order.list = "own" /\ order.expected # Version THEN Conflict
                     ELSE Answer(Len(log'), Block.text)
           asked == [order EXCEPT !.answer = answer]
           new == [old EXCEPT !.order = asked]
<1>1. /\ Opened(old) /\ order # None /\ order.answer = None
      /\ log' = IF order.list = "own" /\ order.expected = Version
                THEN Append(log, Entry(Block.text, NoMutation, old.source, Version)) ELSE log
      /\ UNCHANGED <<drafts, wire, edits, typedOver, counters>>
  BY DEF Reorder
<1>2. /\ old \in TabType(1 .. tasks, 1 .. Version) /\ old.source = t
  BY <1>1, OpenTabFits
<1>3. order \in OrderType(1 .. Version)
  BY <1>1, <1>2 DEF TabType
<1>4. tabs' = [tabs EXCEPT ![t] = new]
  <2>1. tabs' = [tabs EXCEPT ![t].order =
                IF order.list = "own" /\ order.expected # Version
                THEN [@ EXCEPT !.answer = Conflict]
                ELSE [@ EXCEPT !.answer = Answer(Len(log'), Block.text)]]
    BY DEF Reorder
  <2> QED
    BY <2>1, <1>2 DEF TabType, TypeOK
<1>5. /\ Version \in Nat /\ Version >= 1 /\ Block.text \in Texts
      /\ log \in Seq([text : Texts, mutation : Nat, source : Nat, seen : Nat])
  <2>1. Version \in Nat /\ Version >= 1 /\ log \in [1 .. Version -> [text : Texts, mutation : Nat, source : Nat, seen : Nat]]
    BY CountsFit DEF Bookkeeping
  <2>2. Block \in [text : Texts, mutation : Nat, source : Nat, seen : Nat]
    BY <2>1 DEF Block
  <2> QED
    BY <2>1, <2>2 DEF TypeOK
<1>6. \/ /\ log' = Append(log, Entry(Block.text, NoMutation, t, Version))
         /\ order.expected = Version /\ "own" \in OrderLists
         /\ Version' = Version + 1 /\ answer = Answer(Version + 1, Block.text)
      \/ log' = log /\ Version' = Version /\ answer = Conflict
      \/ /\ log' = log /\ Version' = Version /\ answer = Answer(Version, Block.text)
         /\ "other" \in OrderLists
  <2>1. order.list \in {"own", "other"} /\ order.list \in OrderLists
    BY <1>3, SavingAssumption DEF OrderType
  <2>2. ASSUME log' = log
        PROVE  Version' = Version /\ Len(log') = Version
    BY <2>2 DEF Version
  <2>3. ASSUME log' = Append(log, Entry(Block.text, NoMutation, t, Version))
        PROVE  Version' = Version + 1 /\ Len(log') = Version + 1
    BY <1>5, <2>3 DEF Version
  <2>4. CASE order.list = "own" /\ order.expected = Version
    BY <1>1, <1>2, <2>1, <2>3, <2>4
  <2>5. CASE order.list = "own" /\ order.expected # Version
    BY <1>1, <2>2, <2>5
  <2>6. CASE order.list = "other"
    BY <1>1, <2>1, <2>2, <2>6
  <2> QED
    BY <2>1, <2>4, <2>5, <2>6
<1>7. answer \in AnswerType(1 .. Version') /\ Version' \in Nat /\ Version <= Version'
  <2> HIDE DEF answer
  <2>1. 0 \in Texts
    BY SavingAssumption DEF Texts
  <2>2. Conflict = [version |-> 0, text |-> 0]
    BY DEF Conflict, Answer
  <2> QED
    BY <1>5, <1>6, <2>1, <2>2 DEF AnswerType, Answer
<1> HIDE DEF answer
<1>8. old \in TabType(1 .. tasks, 1 .. Version') /\ order \in OrderType(1 .. Version')
  <2>1. 1 .. Version \subseteq 1 .. Version'
    BY <1>5, <1>7
  <2> QED
    BY <1>2, <1>3, <2>1, TypesGrow
<1>9. asked \in OrderType(1 .. Version') /\ asked.answer = answer /\ asked.expected = order.expected
  BY <1>7, <1>8 DEF OrderType
<1>10. asked # None
  <2>1. 1 .. Version' \in SUBSET Nat /\ 1 .. tasks \in SUBSET Nat
    BY <1>7, CountsFit
  <2> HIDE DEF asked
  <2> QED
    BY <1>9, <2>1, NotNone
<1> HIDE DEF asked
<1>11. new \in TabType(1 .. tasks, 1 .. Version')
  BY <1>8, <1>9 DEF TabType
<1>12. SameText(new, old) /\ Work(new) = Work(old) /\ new.content = old.content /\ new.order = asked
  BY <1>8 DEF TabType, SameText, Work
<1>13. tabs'[t] = new /\ Elsewhere(t)
  BY <1>1, <1>4 DEF TypeOK, Elsewhere
<1> HIDE DEF new
<1> QED
  BY <1>1, <1>6, <1>9, <1>10, <1>11, <1>12, <1>13 DEF Ordered

\* The tab takes the version the reorder made.
OrderTaken(t) ==
    LET old == tabs[t]
        new == tabs'[t]
    IN  /\ Opened(old) /\ RowTyped(new) /\ Elsewhere(t)
        /\ SameText(new, old) /\ new.source = old.source
        /\ new.latest = old.latest /\ new.retry = old.retry /\ new.pending = old.pending
        /\ new.run = old.run
        /\ old.order # None /\ Good(old.order.answer) /\ new.order = None
        /\ new.known = old.order.answer.version /\ new.content = old.order.answer.text
        /\ UNCHANGED <<log, drafts, wire, edits, typedOver, counters>>

LEMMA OrderTakenStep ==
    ASSUME TypeOK, TabsFit, Bookkeeping, NEW t \in Tabs, OrderAnswered(t),
           tabs[t].order.answer # Conflict
    PROVE  OrderTaken(t)
<1> DEFINE old == tabs[t]
           answer == old.order.answer
           new == [old EXCEPT !.order = None, !.known = answer.version, !.content = answer.text]
<1>1. /\ Opened(old) /\ old.order # None /\ answer # None /\ answer # Conflict
      /\ tabs' = [tabs EXCEPT ![t] = new]
      /\ UNCHANGED <<log, drafts, wire, edits, typedOver, counters>>
  BY DEF OrderAnswered
<1>2. RowTyped(old)
  BY <1>1, OpenTabFits DEF RowTyped
<1>3. tabs'[t] = new /\ Elsewhere(t)
  BY <1>1 DEF TypeOK, Elsewhere
<1>4. answer \in AnswerType(1 .. Version)
  BY <1>1, <1>2 DEF RowTyped, TabType, OrderType
<1>5. answer.version \in (1 .. Version) \cup {0} /\ answer.text \in Texts
  BY <1>4 DEF AnswerType
<1> HIDE DEF answer
<1>6. RowTyped(new)
  BY <1>2, <1>5, ZenonT(60) DEF RowTyped, TabType
<1>7. /\ SameText(new, old) /\ new.source = old.source
      /\ new.latest = old.latest /\ new.retry = old.retry /\ new.pending = old.pending
      /\ new.run = old.run /\ new.order = None
      /\ new.known = answer.version /\ new.content = answer.text
  BY <1>2 DEF RowTyped, TabType, SameText
<1> HIDE DEF new
<1> QED
  BY <1>1, <1>3, <1>6, <1>7 DEF OrderTaken, Good, answer

\* The tab is gone.
Closed(t) ==
    /\ Opened(tabs[t]) /\ tabs'[t] = ClosedTab /\ Elsewhere(t)
    /\ UNCHANGED <<log, drafts, wire, edits, typedOver, counters>>

LEMMA CloseStep ==
    ASSUME TypeOK, NEW t \in Tabs, Close(t)
    PROVE  Closed(t)
BY DEF Close, Closed, Elsewhere, TypeOK

LEMMA ClosedTabTyped ==
    ASSUME NEW I, NEW V
    PROVE  ClosedTab \in TabType(I, V)
<1>1. 0 \in Texts /\ 0 \in 0 .. MaxEdits + MaxSaves
  BY SavingAssumption DEF Texts
<1> QED
  BY <1>1 DEF ClosedTab, TabType

\* A tab that asks for nothing.
Idle(tab) ==
    /\ tab.retry = None /\ tab.pending = None /\ tab.run = None /\ tab.order = None
    /\ tab.admitting = {}

\* A page was opened, with or without a draft that is offered for recovery.
Loaded(t) ==
    LET new == tabs'[t]
    IN  /\ t = loads + 1 /\ loads' = t /\ RowTyped(new) /\ Elsewhere(t)
        /\ new.source = t /\ new.known = Version /\ Idle(new)
        /\ \A s \in Tabs \ {t} : drafts'[s] = drafts[s] \/ drafts[s].text = Block.text
        /\ drafts' \in [Sources -> DraftType \cup {None}]
        /\ \/ /\ new.text = Block.text /\ new.content = Block.text /\ new.revision = 0
              /\ new.expected = 0 /\ ~new.conflict /\ new.origin = None /\ new.seen = Version
              /\ drafts'[t] = None
           \/ \E from \in Sources \ {t} :
                 LET draft == drafts[from] IN
                 /\ draft # None /\ draft.text # Block.text
                 /\ new.text = draft.text /\ new.content = draft.text
                 /\ new.revision = draft.revision /\ new.expected = draft.expected
                 /\ new.conflict /\ new.seen = 0 /\ new.origin # None /\ ~new.origin.resolved
                 /\ new.origin.source = from /\ new.origin.text = draft.text
                 /\ new.origin.expected = draft.expected
                 /\ new.origin.revision = draft.revision
                 /\ drafts'[t] = Draft(new.text, new.expected, new.revision)
        /\ UNCHANGED <<log, wire, edits, typedOver, tasks, saves, failures, interruptions>>

LEMMA BlockTyped ==
    ASSUME TypeOK, Bookkeeping
    PROVE  /\ Version \in Nat /\ Version >= 1 /\ Version \in 1 .. Version
           /\ Block \in [text : Texts, mutation : Nat, source : Nat, seen : Nat]
           /\ Block.text \in Texts
<1>1. Version \in Nat /\ Version >= 1 /\ log \in [1 .. Version -> [text : Texts, mutation : Nat, source : Nat, seen : Nat]]
  BY CountsFit DEF Bookkeeping
<1>2. Block \in [text : Texts, mutation : Nat, source : Nat, seen : Nat]
  BY <1>1 DEF Block
<1> QED
  BY <1>1, <1>2

LEMMA FreshIs ==
    ASSUME TypeOK, Bookkeeping, NEW t \in Tabs
    PROVE  LET row == Fresh(t) IN
           /\ RowTyped(row) /\ Idle(row) /\ row.source = t /\ row.known = Version
           /\ row.text = Block.text /\ row.content = Block.text /\ row.revision = 0
           /\ row.expected = 0 /\ ~row.conflict /\ row.origin = None /\ row.seen = Version
<1> DEFINE read == [ClosedTab EXCEPT !.source = t, !.known = Version, !.content = Block.text]
           row == CleanRow(read)
<1>1. /\ Version \in 1 .. Version /\ Block.text \in Texts
  BY BlockTyped
<1>2. ClosedTab \in TabType(1 .. tasks, 1 .. Version)
  BY ClosedTabTyped
<1>3. read \in TabType(1 .. tasks, 1 .. Version)
  BY <1>1, <1>2, ZenonT(60) DEF TabType, Sources
<1>4. /\ read.source = t /\ read.known = Version /\ read.content = Block.text
      /\ read.latest = 0 /\ read.retry = None /\ read.pending = None /\ read.run = None
      /\ read.order = None /\ read.admitting = {} /\ read.origin = None
  BY DEF ClosedTab
<1> HIDE DEF read
<1>5. /\ row \in TabType(1 .. tasks, 1 .. Version) /\ Work(row) = Work(read)
      /\ row.admitting = read.admitting /\ row.order = read.order /\ row.origin = read.origin
      /\ row.content = read.content /\ row.seen = read.known
      /\ row.text = read.content /\ row.revision = 0
      /\ row.expected = 0 /\ ~row.dirty /\ ~row.conflict
  BY <1>3, CleanRowIs
<1>6. Fresh(t) = row
  BY DEF Fresh, read
<1> HIDE DEF row
<1>7. /\ row.source = t /\ row.known = Version /\ Idle(row)
  BY <1>4, <1>5 DEF Work, Idle
<1> QED
  BY <1>4, <1>5, <1>6, <1>7 DEF RowTyped

LEMMA TextFilled ==
    ASSUME NEW I, NEW V, NEW tab \in TabType(I, V), NEW text \in Texts,
           NEW revision \in 0 .. MaxEdits + MaxSaves
    PROVE  [tab EXCEPT !.text = text, !.revision = revision, !.content = text] \in TabType(I, V)
BY ZenonT(60) DEF TabType

LEMMA OriginFilled ==
    ASSUME NEW I, NEW V, NEW tab \in TabType(I, V), NEW base \in V \cup {0},
           NEW origin \in OriginType \cup {None}
    PROVE  [tab EXCEPT !.expected = base, !.origin = origin] \in TabType(I, V)
BY ZenonT(60) DEF TabType

LEMMA SeenFilled ==
    ASSUME NEW I, NEW V, NEW tab \in TabType(I, V), NEW seen \in V \cup {0}
    PROVE  [tab EXCEPT !.seen = seen] \in TabType(I, V)
BY DEF TabType

LEMMA RecoveredIs ==
    ASSUME TypeOK, Bookkeeping, NEW t \in Tabs, NEW from \in Sources, NEW kept,
           kept[t] = None, kept[from] = drafts[from], drafts[from] # None
    PROVE  LET row == Recovered(t, from, kept)
               draft == drafts[from] IN
           /\ RowTyped(row) /\ Idle(row) /\ row.source = t /\ row.known = Version
           /\ row.text = draft.text /\ row.content = draft.text
           /\ row.revision = draft.revision /\ row.expected = draft.expected
           /\ row.conflict /\ row.seen = 0 /\ row.origin # None /\ ~row.origin.resolved
           /\ row.origin.source = from /\ row.origin.text = draft.text
           /\ row.origin.expected = draft.expected
           /\ row.origin.revision = draft.revision
<1> DEFINE draft == drafts[from]
           base == Max({draft.expected, 0})
           origin == [source |-> from, text |-> draft.text, expected |-> draft.expected,
                      revision |-> draft.revision, resolved |-> FALSE]
           r1 == [Fresh(t) EXCEPT
            !.text = draft.text, !.revision = draft.revision, !.expected = base,
            !.content = draft.text, !.seen = 0, !.origin = origin]
           r2 == [r1 EXCEPT !.dirty = TRUE]
           r3 == [r2 EXCEPT !.conflict = TRUE]
<1>1. /\ draft \in DraftType /\ draft.expected \in Nat
      /\ draft.expected \in (1 .. Version) \cup {0}
      /\ draft.revision \in 0 .. MaxEdits + MaxSaves /\ draft.text \in Texts
      /\ draft.revision \in Nat
  <2>1. /\ draft \in DraftType /\ draft.expected \in (1 .. Version) \cup {0}
        /\ Bounded(draft, 1 .. Version)
    BY DraftsFit
  <2> QED
    BY <2>1 DEF Bounded, DraftType
<1>2. base = draft.expected
  <2>1. {draft.expected, 0} \in SUBSET Nat
    BY <1>1
  <2> QED
    BY <1>1, <2>1, MaxIs
<1>3. origin \in OriginType
  BY <1>1 DEF OriginType
<1>4. origin # None
  BY <1>3, NoneAssumption
<1>5. Fresh(t) \in TabType(1 .. tasks, 1 .. Version) /\ Idle(Fresh(t)) /\ Fresh(t).source = t
      /\ Fresh(t).known = Version
  BY FreshIs DEF RowTyped
<1>6. /\ origin.source = from /\ origin.text = draft.text /\ origin.expected = draft.expected
      /\ origin.revision = draft.revision /\ ~origin.resolved
  OBVIOUS
<1> HIDE DEF origin, base
<1>7. r1 \in TabType(1 .. tasks, 1 .. Version)
  <2> DEFINE fresh == Fresh(t)
             text == draft.text
             revision == draft.revision
             I == 1 .. tasks
             V == 1 .. Version
  <2>1. /\ text \in Texts /\ revision \in 0 .. MaxEdits + MaxSaves /\ base \in V \cup {0}
        /\ origin \in OriginType \cup {None} /\ fresh \in TabType(I, V)
    BY <1>1, <1>2, <1>3, <1>5
  <2> DEFINE q1 == [fresh EXCEPT !.text = text, !.revision = revision, !.content = text]
             q2 == [q1 EXCEPT !.expected = base, !.origin = origin]
             q3 == [q2 EXCEPT !.seen = 0]
  <2> HIDE DEF fresh, text, revision, I, V, r1
  <2>2. q1 \in TabType(I, V)
    BY <2>1, TextFilled
  <2>3. r1 = q3
    BY <2>1 DEF r1, TabType, fresh, text, revision
  <2> HIDE DEF q1
  <2>4. q2 \in TabType(I, V)
    BY <2>1, <2>2, OriginFilled
  <2> HIDE DEF q2
  <2>5. q3 \in TabType(I, V)
    <3>1. 0 \in V \cup {0}
      OBVIOUS
    <3> QED
      BY <2>4, <3>1, SeenFilled
  <2> QED
    BY <2>3, <2>5 DEF I, V
<1> HIDE DEF r1
<1>8. r2 \in TabType(1 .. tasks, 1 .. Version)
  BY <1>7, FlagsSet
<1> HIDE DEF r2
<1>9. r3 \in TabType(1 .. tasks, 1 .. Version)
  BY <1>8, FlagsSet
<1> USE DEF r1, r2
<1>10. Recovered(t, from, kept) = r3
  BY <1>5, ZenonT(60) DEF Recovered, base, origin, TabType
<1>11. /\ Idle(r3) /\ r3.source = t /\ r3.known = Version
       /\ r3.text = draft.text /\ r3.content = draft.text
       /\ r3.revision = draft.revision /\ r3.expected = base
       /\ r3.conflict /\ r3.seen = 0 /\ r3.origin = origin
  BY <1>5 DEF TabType, Idle
<1> HIDE DEF r1, r2, r3
<1> QED
  BY <1>2, <1>4, <1>6, <1>9, <1>10, <1>11 DEF RowTyped

LEMMA OpenStep ==
    ASSUME TypeOK, TabsFit, Bookkeeping, NEW t \in Tabs, Open(t)
    PROVE  Loaded(t)
<1> DEFINE kept == Reconciled
           left == {s \in Sources : kept[s] # None}
<1>1. /\ t = loads + 1 /\ loads' = t /\ OpenedPage(t)
      /\ UNCHANGED <<log, wire, edits, typedOver, tasks, saves, failures, interruptions>>
  BY DEF Open
<1>2. drafts[t] = None
  BY <1>1, CountsFit DEF Bookkeeping
<1>3. /\ kept \in [Sources -> DraftType \cup {None}] /\ kept[t] = None
      /\ \A s \in Sources : kept[s] = drafts[s]
                               \/ (drafts[s].text = Block.text /\ kept[s] = None)
      /\ \A s \in Sources : kept[s] # None => kept[s] = drafts[s] /\ drafts[s].text # Block.text
  <2>1. kept = [s \in Sources |-> IF drafts[s] # None /\ drafts[s].text = Block.text
                                  THEN None ELSE drafts[s]]
    BY DEF Reconciled
  <2>2. drafts \in [Sources -> DraftType \cup {None}]
    BY DEF TypeOK
  <2> HIDE DEF kept
  <2> QED
    BY <1>2, <2>1, <2>2 DEF Sources
<1> HIDE DEF kept
<1>4. CASE left = {} /\ drafts' = kept /\ tabs' = [tabs EXCEPT ![t] = Fresh(t)]
  <2> DEFINE row == Fresh(t)
  <2>1. /\ RowTyped(row) /\ Idle(row) /\ row.source = t /\ row.known = Version
        /\ row.text = Block.text /\ row.content = Block.text /\ row.revision = 0
        /\ row.expected = 0 /\ ~row.conflict /\ row.origin = None /\ row.seen = Version
    BY FreshIs
  <2>2. tabs'[t] = row /\ \A u \in Tabs \ {t} : tabs'[u] = tabs[u]
    BY <1>4 DEF TypeOK
  <2>3. Elsewhere(t)
    BY <1>3, <1>4, <2>2 DEF Elsewhere, Sources
  <2> HIDE DEF row
  <2>4. \A s \in Tabs \ {t} : drafts'[s] = drafts[s] \/ drafts[s].text = Block.text
    BY <1>3, <1>4 DEF Sources
  <2> QED
    BY <1>1, <1>3, <1>4, <2>1, <2>2, <2>3, <2>4 DEF Loaded
<1>5. ASSUME NEW from \in left,
             drafts' = [kept EXCEPT ![t] = Draft(Recovered(t, from, kept).text,
                            Recovered(t, from, kept).expected, Recovered(t, from, kept).revision)],
             tabs' = [tabs EXCEPT ![t] = Recovered(t, from, kept)]
      PROVE  Loaded(t)
  <2> DEFINE row == Recovered(t, from, kept)
             draft == drafts[from]
  <2>1. /\ from \in Sources /\ from # t /\ kept[from] = draft /\ draft # None
        /\ draft.text # Block.text
    BY <1>3, <1>5
  <2>2. /\ RowTyped(row) /\ Idle(row) /\ row.source = t /\ row.known = Version
        /\ row.text = draft.text /\ row.content = draft.text
        /\ row.revision = draft.revision /\ row.expected = draft.expected
        /\ row.conflict /\ row.seen = 0 /\ row.origin # None /\ ~row.origin.resolved
        /\ row.origin.source = from /\ row.origin.text = draft.text
        /\ row.origin.expected = draft.expected
        /\ row.origin.revision = draft.revision
    BY <1>3, <2>1, RecoveredIs
  <2>3. tabs'[t] = row /\ \A u \in Tabs \ {t} : tabs'[u] = tabs[u]
    BY <1>5 DEF TypeOK
  <2>4. draft \in DraftType
    BY <2>1 DEF TypeOK
  <2> HIDE DEF row
  <2>5. Draft(row.text, row.expected, row.revision) = draft
    BY <2>2, <2>4 DEF Draft, DraftType
  <2>6. /\ drafts' = [kept EXCEPT ![t] = draft]
        /\ drafts'[t] = Draft(row.text, row.expected, row.revision)
    BY <1>3, <1>5, <2>5 DEF row, Sources
  <2>7. drafts' \in [Sources -> DraftType \cup {None}]
    BY <1>3, <2>4, <2>6
  <2>8. \A s \in Tabs \ {t} : drafts'[s] = kept[s]
    BY <1>3, <2>6 DEF Sources
  <2>9. Elsewhere(t) /\ \A s \in Tabs \ {t} : drafts'[s] = drafts[s] \/ drafts[s].text = Block.text
    BY <1>3, <2>3, <2>8 DEF Elsewhere, Sources
  <2> HIDE DEF draft
  <2> QED
    BY <1>1, <2>1, <2>2, <2>3, <2>6, <2>7, <2>9 DEF Loaded, draft
<1>6. \/ left = {} /\ drafts' = kept /\ tabs' = [tabs EXCEPT ![t] = Fresh(t)]
      \/ \E from \in left :
           /\ drafts' = [kept EXCEPT ![t] = Draft(Recovered(t, from, kept).text,
                            Recovered(t, from, kept).expected, Recovered(t, from, kept).revision)]
           /\ tabs' = [tabs EXCEPT ![t] = Recovered(t, from, kept)]
  BY <1>1 DEF OpenedPage, kept
<1> QED
  BY <1>4, <1>5, <1>6

\* The server handled a request: a replay is answered again, a request based
\* on the newest version makes the next, any other is refused.
Patched(request) ==
    LET t   == request.source
        old == tabs[t]
        new == tabs'[t]
    IN  /\ request \in wire /\ wire' = wire \ {request} /\ t \in Tabs
        /\ \A u \in Tabs \ {t} : tabs'[u] = tabs[u]
        /\ \/ new = old
           \/ /\ Awaits(old, request) /\ Opened(old)
              /\ new \in TabType(1 .. tasks, 1 .. Version')
              /\ SameRow(new, old) /\ (new.conflict <=> old.conflict)
              /\ new.admitting = old.admitting
              /\ new.latest = old.latest /\ new.retry = old.retry /\ new.pending = old.pending
              /\ new.run # None /\ new.run.task = old.run.task
              /\ new.run.answer = AnswerTo(request)
        /\ \/ /\ ~Replayed(request) /\ Accepted(request) /\ Version' = Version + 1
              /\ log' = Append(log, Entry(request.text, request.id, request.source, request.seen))
              /\ AnswerTo(request) = Answer(Version + 1, request.text)
           \/ /\ Replayed(request) /\ log' = log
              /\ AnswerTo(request) = Answer(Version, Block.text)
           \/ ~Replayed(request) /\ ~Accepted(request) /\ log' = log /\ AnswerTo(request) = Conflict
        /\ UNCHANGED <<drafts, edits, typedOver, counters>>

LEMMA PatchStep ==
    ASSUME TypeOK, TabsFit, Bookkeeping, NEW request, Patch(request)
    PROVE  Patched(request)
<1> DEFINE t == request.source
           old == tabs[t]
           answer == AnswerTo(request)
           run == [old.run EXCEPT !.answer = answer]
           new == [old EXCEPT !.run = run]
<1>1. /\ request \in wire /\ wire' = wire \ {request}
      /\ log' = IF ~Replayed(request) /\ Accepted(request)
                THEN Append(log, Entry(request.text, request.id, request.source, request.seen))
                ELSE log
      /\ tabs' = [u \in Tabs |->
            IF Awaits(tabs[u], request)
            THEN [tabs[u] EXCEPT !.run.answer = AnswerTo(request)] ELSE tabs[u]]
      /\ UNCHANGED <<drafts, edits, typedOver, counters>>
  BY DEF Patch
<1>2. request \in RequestType(1 .. tasks, 1 .. Version)
  BY <1>1 DEF TypeOK
<1>3. t \in Tabs /\ t # 0 /\ request.text \in Texts
  BY <1>2 DEF RequestType, Sources, Tabs
<1>4. \A u \in Tabs : Awaits(tabs[u], request) => u = t /\ Opened(tabs[u])
  <2> TAKE u \in Tabs
  <2> HAVE Awaits(tabs[u], request)
  <2>1. tabs[u].source = t /\ Opened(tabs[u])
    BY <1>3 DEF Awaits, Opened
  <2> QED
    BY <2>1, OpenTabFits
<1>5. /\ Version \in Nat /\ Version >= 1 /\ Block.text \in Texts
      /\ log \in Seq([text : Texts, mutation : Nat, source : Nat, seen : Nat])
  BY BlockTyped DEF TypeOK
<1>6. \/ /\ ~Replayed(request) /\ Accepted(request) /\ Version' = Version + 1
         /\ log' = Append(log, Entry(request.text, request.id, request.source, request.seen))
         /\ answer = Answer(Version + 1, request.text)
      \/ /\ Replayed(request) /\ log' = log /\ Version' = Version
         /\ answer = Answer(Version, Block.text)
      \/ /\ ~Replayed(request) /\ ~Accepted(request) /\ log' = log /\ Version' = Version
         /\ answer = Conflict
  <2>1. ASSUME log' = log
        PROVE  Version' = Version
    BY <2>1 DEF Version
  <2>2. ASSUME log' = Append(log, Entry(request.text, request.id, request.source, request.seen))
        PROVE  Version' = Version + 1
    BY <1>5, <2>2 DEF Version
  <2>3. CASE Replayed(request)
    BY <1>1, <2>1, <2>3 DEF AnswerTo
  <2>4. CASE ~Replayed(request) /\ Accepted(request)
    BY <1>1, <2>2, <2>4 DEF AnswerTo
  <2>5. CASE ~Replayed(request) /\ ~Accepted(request)
    BY <1>1, <2>1, <2>5 DEF AnswerTo
  <2> QED
    BY <2>3, <2>4, <2>5
<1>7. answer \in AnswerType(1 .. Version') /\ Version' \in Nat /\ Version <= Version'
  <2> HIDE DEF answer
  <2>1. 0 \in Texts
    BY SavingAssumption DEF Texts
  <2>2. Conflict = [version |-> 0, text |-> 0]
    BY DEF Conflict, Answer
  <2> QED
    BY <1>3, <1>5, <1>6, <2>1, <2>2 DEF AnswerType, Answer
<1>8. ASSUME Awaits(old, request)
      PROVE  /\ tabs'[t] = new /\ Opened(old)
             /\ new \in TabType(1 .. tasks, 1 .. Version')
             /\ SameRow(new, old) /\ (new.conflict <=> old.conflict)
             /\ new.admitting = old.admitting
             /\ new.latest = old.latest /\ new.retry = old.retry /\ new.pending = old.pending
             /\ new.run # None /\ new.run.task = old.run.task
             /\ new.run.answer = answer
  <2> HIDE DEF answer
  <2>1. old.run # None /\ Opened(old)
    BY <1>3, <1>4, <1>8 DEF Awaits
  <2>2. old \in TabType(1 .. tasks, 1 .. Version')
    <3>1. 1 .. Version \subseteq 1 .. Version'
      BY <1>5, <1>7
    <3>2. old \in TabType(1 .. tasks, 1 .. Version)
      BY <1>3, <2>1, OpenTabFits
    <3> QED
      BY <3>1, <3>2, TypesGrow
  <2>3. old.run \in RunType(1 .. tasks, 1 .. Version')
    BY <2>1, <2>2 DEF TabType
  <2>4. run \in RunType(1 .. tasks, 1 .. Version') /\ run.task = old.run.task /\ run.answer = answer
    BY <1>7, <2>3 DEF RunType
  <2>5. run # None
    <3>1. 1 .. Version' \in SUBSET Nat /\ 1 .. tasks \in SUBSET Nat
      BY <1>7, CountsFit
    <3> HIDE DEF run
    <3> QED
      BY <2>4, <3>1, NotNone
  <2>6. tabs'[t] = [old EXCEPT !.run.answer = answer]
    BY <1>1, <1>3, <1>8 DEF answer
  <2>7. [old EXCEPT !.run.answer = answer] = new
    BY <2>2, <2>3 DEF TabType
  <2> HIDE DEF run, old
  <2>8. new \in TabType(1 .. tasks, 1 .. Version')
    BY <2>2, <2>4 DEF TabType
  <2>9. /\ SameRow(new, old) /\ (new.conflict <=> old.conflict)
        /\ new.admitting = old.admitting
        /\ new.latest = old.latest /\ new.retry = old.retry /\ new.pending = old.pending
        /\ new.run = run
    BY <2>2 DEF TabType, SameRow
  <2> QED
    BY <2>1, <2>4, <2>5, <2>6, <2>7, <2>8, <2>9
<1>9. ~Awaits(old, request) => tabs'[t] = old
  BY <1>1, <1>3
<1>10. \A u \in Tabs \ {t} : tabs'[u] = tabs[u]
  BY <1>1, <1>4
<1> HIDE DEF answer, new
<1> QED
  BY <1>1, <1>3, <1>6, <1>8, <1>9, <1>10 DEF Patched, answer

\* The journal after a save: the draft it saved and the one its recovery
\* started from may go, and a newer draft is based on the version it made.
SettledBy(t, task, version) ==
    /\ drafts' \in [Sources -> DraftType \cup {None}]
    /\ \A s \in Sources :
          \/ drafts'[s] = drafts[s]
          \/ /\ drafts[s] # None /\ drafts'[s] = None
             /\ \/ s = t /\ drafts[s].revision <= task.revision
                \/ task.origin # None /\ drafts[s].text = task.origin.text
          \/ /\ s = t /\ drafts[s] # None /\ drafts'[s] # None
             /\ drafts'[s].text = drafts[s].text /\ drafts'[s].revision = drafts[s].revision
             /\ drafts'[s].expected = version
    /\ drafts'[t] # None => drafts'[t].expected <= version

\* A save succeeded: the tab takes the version it made, and what waited is
\* sent, based on that version.
Received(t) ==
    LET old == tabs[t]
        new == tabs'[t]
        task == old.run.task
        answer == old.run.answer
    IN  /\ Opened(old) /\ RowTyped(new) /\ \A u \in Tabs \ {t} : tabs'[u] = tabs[u]
        /\ old.run # None /\ Good(answer) /\ SettledBy(t, task, answer.version)
        /\ new.source = old.source /\ new.known = answer.version
        /\ new.text = old.text /\ new.revision = old.revision /\ new.expected <= new.known
        /\ new.seen = answer.version /\ new.order = old.order
        /\ (new.conflict <=> old.conflict) /\ new.admitting = old.admitting
        /\ \/ new.origin = None
           \/ new.origin = old.origin /\ old.origin # task.origin
        /\ \/ new.content \in {old.text, answer.text}
           \/ drafts[t] # None /\ new.content = drafts[t].text
        /\ new.retry = None /\ new.pending = None
        /\ \/ new.run = None /\ old.pending = None
           \/ /\ new.run # None /\ old.pending # None /\ new.run.answer = None
              /\ new.run.task = Fixed(new, old.pending)
        /\ SentBy(new)
        /\ UNCHANGED <<log, edits, typedOver, counters>>

LEMMA SettledIs ==
    ASSUME TypeOK, NEW t \in Sources, NEW task, task.source = t, NEW version \in Nat,
           task.origin # None => task.origin.source \in Sources,
           drafts[t] # None => drafts[t].expected <= version,
           drafts' = Settled(task, version)
    PROVE  SettledBy(t, task, version)
<1> DEFINE own == Acknowledged(drafts[t], task.revision, version)
           kept == [drafts EXCEPT ![t] = own]
<1>1. drafts \in [Sources -> DraftType \cup {None}]
  BY DEF TypeOK
<1>2. None \notin DraftType
  BY NoneAssumption
<1>3. \/ own = None /\ (drafts[t] # None => drafts[t].revision <= task.revision)
      \/ /\ drafts[t] # None /\ own # None /\ own \in DraftType
         /\ own.text = drafts[t].text /\ own.revision = drafts[t].revision
         /\ own.expected = version
  <2>1. CASE drafts[t] = None \/ drafts[t].revision <= task.revision
    BY <2>1 DEF Acknowledged
  <2>2. CASE ~(drafts[t] = None \/ drafts[t].revision <= task.revision)
    <3>1. own = [drafts[t] EXCEPT !.expected = version]
      BY <2>2 DEF Acknowledged
    <3>2. drafts[t] \in DraftType
      BY <1>1, <2>2
    <3> HIDE DEF own
    <3>3. own \in DraftType /\ own.text = drafts[t].text
          /\ own.revision = drafts[t].revision /\ own.expected = version
      BY <3>1, <3>2 DEF DraftType
    <3> QED
      BY <1>2, <2>2, <3>3
  <2> QED
    BY <2>1, <2>2
<1> HIDE DEF own
<1>4. kept \in [Sources -> DraftType \cup {None}] /\ kept[t] = own
      /\ \A s \in Sources \ {t} : kept[s] = drafts[s]
  BY <1>1, <1>3
<1> HIDE DEF kept
<1>5. \A s \in Sources :
          \/ kept[s] = drafts[s]
          \/ /\ drafts[s] # None /\ kept[s] = None
             /\ s = t /\ drafts[s].revision <= task.revision
          \/ /\ s = t /\ drafts[s] # None /\ kept[s] # None
             /\ kept[s].text = drafts[s].text /\ kept[s].revision = drafts[s].revision
             /\ kept[s].expected = version
  BY <1>3, <1>4
<1>6. CASE task.origin = None
  <2>1. drafts' = kept
    BY <1>6 DEF Settled, kept, own
  <2>2. drafts'[t] # None => drafts'[t].expected <= version
    BY <1>3, <1>4, <2>1
  <2> QED
    BY <1>4, <1>5, <2>1, <2>2 DEF SettledBy
<1>7. CASE task.origin # None
  <2> DEFINE o == task.origin.source
             last == RemovedIfUnchanged(kept[o], task.origin)
  <2>1. drafts' = [kept EXCEPT ![o] = last] /\ o \in Sources
    BY <1>4, <1>7 DEF Settled, kept, own
  <2>2. \/ last = kept[o]
        \/ last = None /\ kept[o] # None /\ kept[o].text = task.origin.text
    BY DEF RemovedIfUnchanged, Draft
  <2> HIDE DEF last, o
  <2>3. \A s \in Sources : drafts'[s] = IF s = o THEN last ELSE kept[s]
    BY <1>4, <2>1
  <2>4. drafts' \in [Sources -> DraftType \cup {None}]
    BY <1>4, <2>1, <2>2
  <2>5. drafts'[t] # None => drafts'[t].expected <= version
    BY <1>3, <1>4, <2>2, <2>3
  <2>6. ASSUME NEW s \in Sources
        PROVE  \/ drafts'[s] = drafts[s]
               \/ /\ drafts[s] # None /\ drafts'[s] = None
                  /\ \/ s = t /\ drafts[s].revision <= task.revision
                     \/ task.origin # None /\ drafts[s].text = task.origin.text
               \/ /\ s = t /\ drafts[s] # None /\ drafts'[s] # None
                  /\ drafts'[s].text = drafts[s].text /\ drafts'[s].revision = drafts[s].revision
                  /\ drafts'[s].expected = version
    <3>1. CASE drafts'[s] = kept[s]
      BY <1>5, <3>1
    <3>2. CASE drafts'[s] # kept[s]
      <4>1. drafts'[s] = None /\ kept[s] # None /\ kept[s].text = task.origin.text
        BY <2>2, <2>3, <3>2
      <4>2. drafts[s] # None /\ drafts[s].text = kept[s].text
        BY <1>5, <4>1
      <4> QED
        BY <1>7, <4>1, <4>2
    <3> QED
      BY <3>1, <3>2
  <2> QED
    BY <2>4, <2>5, <2>6 DEF SettledBy
<1> QED
  BY <1>6, <1>7

LEMMA KnownFilled ==
    ASSUME NEW I, NEW V, NEW tab \in TabType(I, V), NEW known \in V \cup {0}, NEW content \in Texts
    PROVE  [tab EXCEPT !.known = known, !.content = content] \in TabType(I, V)
BY ZenonT(60) DEF TabType

\* The row before the queue goes on.
\* What the end of a save leaves of a row.
RowSettled(row, tab, draft, answer) ==
    /\ row.source = tab.source /\ row.known = answer.version
    /\ row.text = tab.text /\ row.revision = tab.revision /\ row.order = tab.order
    /\ (row.conflict <=> tab.conflict) /\ row.admitting = tab.admitting
    /\ row.origin = tab.origin /\ row.latest = tab.latest
    /\ row.retry = tab.retry /\ row.pending = tab.pending /\ row.run = tab.run
    /\ \/ row.content \in {tab.text, answer.text}
       \/ draft # None /\ row.content = draft.text
    /\ row.expected \in {0, answer.version, tab.expected}

LEMMA RowAfterIs ==
    ASSUME NEW I, NEW V, NEW tab \in TabType(I, V), NEW task, NEW draft, NEW answer,
           answer.version \in V \cup {0}, answer.text \in Texts,
           draft # None => draft.text \in Texts
    PROVE  LET row == RowAfter(tab, task, draft, answer) IN
           row \in TabType(I, V) /\ RowSettled(row, tab, draft, answer)
<1> DEFINE newerDraft == draft # None /\ draft.revision > task.revision
           newer == newerDraft \/ tab.revision > task.revision \/ tab.latest > task.id
           version == answer.version
           content == IF newerDraft THEN draft.text ELSE IF newer THEN tab.text ELSE answer.text
           based == [tab EXCEPT !.known = version, !.content = content]
           row == RowAfter(tab, task, draft, answer)
<1>1. /\ content \in Texts
      /\ \/ content \in {tab.text, answer.text}
         \/ draft # None /\ content = draft.text
  BY DEF TabType
<1>2. row = IF tab.latest = task.id /\ tab.revision = task.revision
            THEN [based EXCEPT !.dirty = FALSE, !.expected = 0]
            ELSE IF newer THEN [based EXCEPT !.expected = version]
            ELSE based
  BY DEF RowAfter
<1>3. version \in V \cup {0} /\ 0 \in V \cup {0}
  OBVIOUS
<1> HIDE DEF content, newer, row
<1>4. based \in TabType(I, V)
  <2> HIDE DEF version
  <2> QED
    BY <1>1, <1>3, KnownFilled
<1>5. /\ based.source = tab.source /\ based.known = version /\ based.content = content
      /\ based.text = tab.text /\ based.revision = tab.revision /\ based.order = tab.order
      /\ (based.conflict <=> tab.conflict) /\ based.admitting = tab.admitting
      /\ based.origin = tab.origin /\ based.latest = tab.latest
      /\ based.retry = tab.retry /\ based.pending = tab.pending /\ based.run = tab.run
      /\ based.expected = tab.expected
  BY DEF TabType
<1> HIDE DEF based
<1> DEFINE r1 == [based EXCEPT !.dirty = FALSE]
           r2 == [r1 EXCEPT !.expected = 0]
           r3 == [based EXCEPT !.expected = version]
<1>6. r1 \in TabType(I, V)
  BY <1>4, FlagsSet
<1>7. row \in {r2, r3, based}
  BY <1>2
<1>8. r2 \in TabType(I, V) /\ r3 \in TabType(I, V)
  <2>1. r3 \in TabType(I, V)
    BY <1>3, <1>4 DEF TabType
  <2> HIDE DEF r1
  <2>2. r2 \in TabType(I, V)
    BY <1>3, <1>6 DEF TabType
  <2> QED
    BY <2>1, <2>2
<1> DEFINE Carried(r) ==
      /\ r.source = based.source /\ r.known = based.known /\ r.content = based.content
      /\ r.text = based.text /\ r.revision = based.revision /\ r.order = based.order
      /\ (r.conflict <=> based.conflict) /\ r.admitting = based.admitting
      /\ r.origin = based.origin /\ r.latest = based.latest
      /\ r.retry = based.retry /\ r.pending = based.pending /\ r.run = based.run
<1>9. /\ Carried(r2) /\ r2.expected = 0
      /\ Carried(r3) /\ r3.expected = version
      /\ Carried(based)
  BY <1>4 DEF TabType
<1> HIDE DEF r1, r2, r3
<1>10. Carried(row) /\ row.expected \in {0, version, based.expected} /\ row \in TabType(I, V)
  <2> HIDE DEF Carried
  <2> QED
    BY <1>4, <1>7, <1>8, <1>9
<1> HIDE DEF version
<1> QED
  BY <1>1, <1>5, <1>10 DEF row, version, RowSettled

LEMMA RunMade ==
    ASSUME NEW n \in Nat, NEW task \in TaskType(1 .. tasks, 1 .. n), tasks \in Nat,
           failures \in 0 .. MaxFailures
    PROVE  /\ Run(task, failures) \in RunType(1 .. tasks, 1 .. n) /\ Run(task, failures) # None
           /\ Run(task, failures).task = task /\ Run(task, failures).answer = None
<1> DEFINE run == Run(task, failures)
<1>1. run \in RunType(1 .. tasks, 1 .. n) /\ run.task = task /\ run.answer = None
  BY DEF Run, RunType
<1>2. 1 .. tasks \in SUBSET Nat /\ 1 .. n \in SUBSET Nat
  OBVIOUS
<1> HIDE DEF run
<1>3. run # None
  BY <1>1, <1>2, NotNone
<1> QED
  BY <1>1, <1>3 DEF run

LEMMA ReceiveSavedStep ==
    ASSUME TypeOK, TabsFit, Bookkeeping, AnswersFit, NEW t \in Tabs, ReceiveSaved(t)
    PROVE  Received(t)
<1> DEFINE old == tabs[t]
           task == old.run.task
           answer == old.run.answer
           kept == Settled(task, answer.version)
           row == RowAfter(old, task, kept[t], answer)
           origin == IF row.origin = task.origin THEN None ELSE row.origin
           seen == [row EXCEPT !.seen = answer.version]
           after == [seen EXCEPT !.origin = origin]
           next == Drained(after, failures, kept)
<1>1. /\ Opened(old) /\ old.run # None /\ Good(answer)
      /\ drafts' = Settled(task, answer.version)
      /\ UNCHANGED <<log, edits, typedOver, counters>>
  BY ZenonT(60) DEF ReceiveSaved, Answered, Good
<1>2. /\ old \in TabType(1 .. tasks, 1 .. Version) /\ old.source = t /\ old.known \in 1 .. Version
      /\ Fits(t, old, Revisions) /\ Grounded(old, drafts[t])
      /\ old.pending # None => old.pending.pinned = 0 /\ old.pending.expected <= old.known
  BY <1>1, OpenTabFits
<1>3. /\ Version \in Nat /\ tasks \in Nat /\ failures \in 0 .. MaxFailures
  BY CountsFit DEF TypeOK
<1>4. old.run \in RunType(1 .. tasks, 1 .. Version)
  BY <1>1, <1>2 DEF TabType
<1>5. task \in TaskType(1 .. tasks, 1 .. Version) /\ answer \in AnswerType(1 .. Version)
  BY <1>1, <1>4 DEF RunType, Good
<1>6. /\ answer.version = old.known + 1 /\ answer.version <= Version
      /\ task.pinned = old.known /\ task.source = t /\ old.retry = None
  BY <1>1, <1>2 DEF AnswersFit, Fits
<1>7. /\ answer.version \in 1 .. Version /\ answer.version \in Nat /\ answer.text \in Texts
      /\ old.known <= answer.version /\ answer.version # 0 /\ old.known \in Nat
      /\ answer.version \in (1 .. Version) \cup {0}
  BY <1>2, <1>3, <1>5, <1>6 DEF AnswerType
<1>8. SettledBy(t, task, answer.version)
  <2>1. task.origin # None => task.origin.source \in Sources
    BY <1>5 DEF TaskType, OriginType
  <2>2. drafts[t] # None => drafts[t].expected <= answer.version
    BY <1>2, <1>7 DEF Grounded, DraftType
  <2>3. t \in Sources
    BY DEF Sources
  <2> HIDE DEF task, answer
  <2> QED
    BY <1>1, <1>6, <1>7, <2>1, <2>2, <2>3, SettledIs
<1>9. /\ tabs' = [tabs EXCEPT ![t] = next] /\ wire' = Sent(old, next)
  <2>1. /\ tabs' = [tabs EXCEPT ![t] = Drained([RowAfter(old, task, kept[old.source], answer) EXCEPT
                        !.seen = answer.version,
                        !.origin = IF @ = task.origin THEN None ELSE @], failures, kept)]
        /\ wire' = Sent(old, Drained([RowAfter(old, task, kept[old.source], answer) EXCEPT
                        !.seen = answer.version,
                        !.origin = IF @ = task.origin THEN None ELSE @], failures, kept))
    BY ZenonT(60) DEF ReceiveSaved
  <2>2. [RowAfter(old, task, kept[t], answer) EXCEPT
                        !.seen = answer.version,
                        !.origin = IF @ = task.origin THEN None ELSE @] = after
    <3>1. row = RowAfter(old, task, kept[t], answer)
      OBVIOUS
    <3> HIDE DEF row
    <3> QED
      BY <3>1 DEF row
  <2> HIDE DEF next, after, kept, answer, task
  <2> QED
    BY <1>2, <2>1, <2>2 DEF next
<1>10. drafts' = kept
  BY <1>1
<1>11. drafts'[t] # None => drafts'[t] \in DraftType /\ drafts'[t].text = drafts[t].text
                            /\ drafts[t] # None /\ drafts'[t].expected <= answer.version
  BY <1>8 DEF SettledBy, Sources
<1>12. drafts'[t] # None => drafts'[t].text \in Texts
  BY <1>11 DEF DraftType
<1> HIDE DEF kept, answer, task
<1>13. /\ row \in TabType(1 .. tasks, 1 .. Version)
       /\ row.source = old.source /\ row.known = answer.version
       /\ row.text = old.text /\ row.revision = old.revision /\ row.order = old.order
       /\ (row.conflict <=> old.conflict) /\ row.admitting = old.admitting
       /\ row.origin = old.origin /\ row.latest = old.latest
       /\ row.retry = old.retry /\ row.pending = old.pending /\ row.run = old.run
       /\ \/ row.content \in {old.text, answer.text}
          \/ drafts'[t] # None /\ row.content = drafts'[t].text
       /\ row.expected \in {0, answer.version, old.expected}
  <2>1. row = RowAfter(old, task, drafts'[t], answer)
    BY <1>10
  <2> HIDE DEF row, old
  <2>2. row \in TabType(1 .. tasks, 1 .. Version) /\ RowSettled(row, old, drafts'[t], answer)
    BY <1>2, <1>7, <1>12, <2>1, RowAfterIs
  <2> QED
    BY <2>2 DEF RowSettled
<1> HIDE DEF row
<1>14. origin \in OriginType \cup {None}
  BY <1>13 DEF TabType
<1>15. origin = None \/ (origin = old.origin /\ old.origin # task.origin)
  BY <1>13
<1> HIDE DEF origin
<1>16. seen \in TabType(1 .. tasks, 1 .. Version)
  BY <1>7, <1>13, SeenFilled
<1>17. /\ after \in TabType(1 .. tasks, 1 .. Version)
       /\ after.source = row.source /\ after.known = row.known
       /\ after.text = row.text /\ after.revision = row.revision /\ after.order = row.order
       /\ (after.conflict <=> row.conflict) /\ after.admitting = row.admitting
       /\ after.origin = origin /\ after.latest = row.latest /\ after.seen = answer.version
       /\ after.retry = row.retry /\ after.pending = row.pending
       /\ after.content = row.content /\ after.expected = row.expected
  <2>1. after \in TabType(1 .. tasks, 1 .. Version)
    <3> HIDE DEF seen
    <3> QED
      BY <1>14, <1>16 DEF TabType
  <2>2. /\ after.source = row.source /\ after.known = row.known
        /\ after.text = row.text /\ after.revision = row.revision /\ after.order = row.order
        /\ (after.conflict <=> row.conflict) /\ after.admitting = row.admitting
        /\ after.origin = origin /\ after.latest = row.latest /\ after.seen = answer.version
        /\ after.retry = row.retry /\ after.pending = row.pending
        /\ after.content = row.content /\ after.expected = row.expected
    BY <1>13 DEF TabType
  <2> HIDE DEF after
  <2> QED
    BY <2>1, <2>2
<1> HIDE DEF seen, after
<1>18. after.expected <= after.known
  BY <1>2, <1>7, <1>13, <1>17 DEF Grounded, TabType
<1>19. next = IF old.pending = None THEN [after EXCEPT !.run = None]
              ELSE [after EXCEPT !.run = Run(Fixed(after, old.pending), failures), !.pending = None]
  <2>1. after.retry = None /\ after.pending = old.pending
    BY <1>6, <1>13, <1>17
  <2>2. ASSUME old.pending # None
        PROVE  Pinned(after, old.pending, kept) = Fixed(after, old.pending)
    <3>1. old.pending \in TaskType(1 .. tasks, 1 .. Version)
      BY <1>2, <2>2 DEF TabType
    <3>2. kept[after.source] = drafts'[t] /\ after.known = answer.version
      BY <1>2, <1>10, <1>13, <1>17
    <3>3. Grounded(after, kept[after.source])
      BY <1>11, <1>18, <3>2 DEF Grounded
    <3>4. old.pending.pinned = 0 /\ old.pending.expected <= after.known
      <4>1. old.pending.expected \in Nat
        BY <3>1 DEF TaskType
      <4> QED
        BY <1>2, <1>7, <2>2, <3>2, <4>1
    <3> QED
      BY <1>3, <1>17, <3>1, <3>3, <3>4, PinnedIs
  <2> HIDE DEF old
  <2> QED
    BY <2>1, <2>2 DEF Drained
<1>20. /\ next \in TabType(1 .. tasks, 1 .. Version)
       /\ next.source = after.source /\ next.known = after.known
       /\ next.text = after.text /\ next.revision = after.revision /\ next.order = after.order
       /\ (next.conflict <=> after.conflict) /\ next.admitting = after.admitting
       /\ next.origin = after.origin /\ next.seen = after.seen
       /\ next.content = after.content /\ next.expected = after.expected
       /\ next.retry = None /\ next.pending = None
       /\ \/ next.run = None /\ old.pending = None
          \/ /\ next.run # None /\ old.pending # None /\ next.run.answer = None
             /\ next.run.task = Fixed(next, old.pending)
  <2>0. after.retry = None /\ after.pending = old.pending
    BY <1>6, <1>13, <1>17
  <2>1. CASE old.pending = None
    <3> DEFINE r == [after EXCEPT !.run = None]
    <3>1. next = r
      BY <1>19, <2>1
    <3>2. r \in TabType(1 .. tasks, 1 .. Version)
      BY <1>17 DEF TabType
    <3>3. /\ r.source = after.source /\ r.known = after.known
          /\ r.text = after.text /\ r.revision = after.revision /\ r.order = after.order
          /\ (r.conflict <=> after.conflict) /\ r.admitting = after.admitting
          /\ r.origin = after.origin /\ r.seen = after.seen
          /\ r.content = after.content /\ r.expected = after.expected
          /\ r.retry = after.retry /\ r.pending = after.pending /\ r.run = None
      BY <1>17 DEF TabType
    <3> HIDE DEF r, next, old
    <3> QED
      BY <2>0, <2>1, <3>1, <3>2, <3>3
  <2>2. CASE old.pending # None
    <3> DEFINE run == Run(Fixed(after, old.pending), failures)
               r == [after EXCEPT !.run = run, !.pending = None]
    <3>1. next = r
      BY <1>19, <2>2
    <3>2. Fixed(after, old.pending) \in TaskType(1 .. tasks, 1 .. Version)
      <4>1. old.pending \in TaskType(1 .. tasks, 1 .. Version)
        BY <1>2, <2>2 DEF TabType
      <4>2. after.known \in 1 .. Version /\ after.seen \in 1 .. Version
        BY <1>7, <1>13, <1>17
      <4> HIDE DEF old
      <4> QED
        BY <4>1, <4>2 DEF Fixed, TaskType
    <3>3. /\ run \in RunType(1 .. tasks, 1 .. Version) /\ run # None
          /\ run.task = Fixed(after, old.pending) /\ run.answer = None
      BY <1>3, <3>2, RunMade
    <3> HIDE DEF run
    <3>4. r \in TabType(1 .. tasks, 1 .. Version)
      BY ZenonT(60), <1>17, <3>3, QueueSet
    <3>5. /\ r.source = after.source /\ r.known = after.known
          /\ r.text = after.text /\ r.revision = after.revision /\ r.order = after.order
          /\ (r.conflict <=> after.conflict) /\ r.admitting = after.admitting
          /\ r.origin = after.origin /\ r.seen = after.seen
          /\ r.content = after.content /\ r.expected = after.expected
          /\ r.retry = after.retry /\ r.pending = None /\ r.run = run
      BY <1>17 DEF TabType
    <3>6. Fixed(r, old.pending) = Fixed(after, old.pending)
      BY <3>5 DEF Fixed
    <3> HIDE DEF r, next, old
    <3> QED
      BY <2>0, <2>2, <3>1, <3>3, <3>4, <3>5, <3>6
  <2> QED
    BY <2>1, <2>2
<1> HIDE DEF next
<1>21. tabs'[t] = next /\ \A u \in Tabs \ {t} : tabs'[u] = tabs[u]
  BY <1>9 DEF TypeOK
<1>22. SentBy(next)
  BY <1>9, SentIs
<1>23. /\ next.source = old.source /\ next.known = answer.version
       /\ next.text = old.text /\ next.revision = old.revision /\ next.expected <= next.known
       /\ next.seen = answer.version /\ next.order = old.order
       /\ (next.conflict <=> old.conflict) /\ next.admitting = old.admitting
       /\ \/ next.origin = None
          \/ next.origin = old.origin /\ old.origin # task.origin
       /\ \/ next.content \in {old.text, answer.text}
          \/ drafts[t] # None /\ next.content = drafts[t].text
  BY <1>11, <1>13, <1>15, <1>17, <1>18, <1>20
<1> HIDE DEF old
<1> QED
  BY <1>1, <1>8, <1>20, <1>21, <1>22, <1>23 DEF Received, RowTyped, old, task, answer

-----------------------------------------------------------------------------
(***************************************************************************)
(* Every step is one of these.                                             *)
(***************************************************************************)
StepOf(t) ==
    \/ Redrawn(t) \/ Edited(t) \/ Outdated(t) \/ (\E task : Admitted(t, task))
    \/ Resumed(t) \/ Refused(t) \/ Lost(t) \/ Received(t)
    \/ Ordered(t) \/ OrderTaken(t) \/ Closed(t) \/ Loaded(t)

\* Rows and drafts stay functions of the tabs and sources.
Framed ==
    /\ tabs' = [u \in Tabs |-> tabs'[u]]
    /\ drafts' = [s \in Sources |-> drafts'[s]]

LEMMA StepIs ==
    ASSUME TypeOK, TabsFit, Bookkeeping, AnswersFit, Next
    PROVE  (\E t \in Tabs : StepOf(t)) \/ (\E request : Patched(request))
<1>1. CASE \E t \in Tabs : Open(t) \/ Close(t) \/ Rebuild(t)
  BY <1>1, OpenStep, CloseStep, RebuildStep DEF StepOf
<1>2. CASE \E t \in Tabs : \E agrees \in BOOLEAN : Type(t, agrees) \/ Save(t, agrees)
  BY <1>2, TypeStep, SaveStep DEF StepOf
<1>3. CASE \E t \in Tabs : TimerFires(t)
  BY <1>3, TimerStep DEF StepOf
<1>4. CASE \E t \in Tabs : \E admission \in tabs[t].admitting : Admit(t, admission)
  BY <1>4, OutdatedStep, AdmittedStep DEF StepOf
<1>5. CASE \E t \in Tabs : ReceiveSaved(t) \/ ReceiveConflict(t) \/ LoseAnswer(t) \/ Flush(t)
  BY <1>5, ReceiveSavedStep, ReceiveConflictStep, LoseAnswerStep, FlushStep DEF StepOf
<1>6. CASE \E t \in Tabs : \E list \in OrderLists : StartOrder(t, list)
  BY <1>6, StartOrderStep DEF StepOf
<1>7. CASE \E t \in Tabs : Reorder(t) \/ OrderAnswered(t)
  BY <1>7, ReorderStep, OrderRefusedStep, OrderTakenStep DEF StepOf
<1>8. CASE \E request \in wire : Patch(request)
  BY <1>8, PatchStep
<1> QED
  BY <1>1, <1>2, <1>3, <1>4, <1>5, <1>6, <1>7, <1>8 DEF Next

LEMMA FramedStep ==
    ASSUME TypeOK, Next
    PROVE  Framed
<1> DEFINE T == tabs' = [u \in Tabs |-> tabs'[u]]
           D == drafts' = [s \in Sources |-> drafts'[s]]
<1>0. /\ tabs \in [Tabs -> TabType(1 .. tasks, 1 .. Version)]
      /\ drafts \in [Sources -> DraftType \cup {None}]
  BY DEF TypeOK
<1>1. ASSUME NEW t \in Tabs, NEW row, tabs' = [tabs EXCEPT ![t] = row]
      PROVE  T
  BY <1>0, <1>1
<1>2. ASSUME NEW s, NEW draft, drafts' = [drafts EXCEPT ![s] = draft]
      PROVE  D
  BY <1>0, <1>2
<1>3. ASSUME drafts' = drafts
      PROVE  D
  BY <1>0, <1>3
<1>4. ASSUME NEW t \in Tabs, Open(t)
      PROVE  T /\ D
  <2>1. T
    BY <1>0, <1>4 DEF Open, OpenedPage
  <2>2. D
    BY <1>0, <1>4 DEF Open, OpenedPage, Reconciled
  <2> QED
    BY <2>1, <2>2
<1>5. ASSUME NEW t \in Tabs, Close(t) \/ Rebuild(t)
      PROVE  T /\ D
  BY <1>1, <1>3, <1>5 DEF Close, Rebuild
<1>6. ASSUME NEW t \in Tabs, NEW tab, SaveRow(t, tab)
      PROVE  T /\ D
  BY ZenonT(60), <1>1, <1>2, <1>6 DEF SaveRow, Journal
<1>7. ASSUME NEW t \in Tabs, NEW agrees \in BOOLEAN, Type(t, agrees) \/ Save(t, agrees)
      PROVE  T /\ D
  <2>1. CASE Type(t, agrees)
    BY <1>1, <1>2, <2>1 DEF Type, Journal
  <2>2. CASE Save(t, agrees)
    BY <1>6, <2>2 DEF Save
  <2> QED
    BY <1>7, <2>1, <2>2
<1>8. ASSUME NEW t \in Tabs, TimerFires(t)
      PROVE  T /\ D
  BY <1>6, <1>8 DEF TimerFires
<1>9. ASSUME NEW t \in Tabs, NEW admission, Admit(t, admission)
      PROVE  T /\ D
  <2>1. T
    BY <1>1, <1>9 DEF Admit
  <2>2. D
    BY <1>3, <1>9 DEF Admit
  <2> QED
    BY <2>1, <2>2
<1>10. ASSUME NEW t \in Tabs, ReceiveSaved(t)
       PROVE  T /\ D
  <2>1. T
    BY ZenonT(60), <1>1, <1>10 DEF ReceiveSaved
  <2>2. D
    BY ZenonT(60), <1>0, <1>10 DEF ReceiveSaved, Settled
  <2> QED
    BY <2>1, <2>2
<1>11. ASSUME NEW t \in Tabs, ReceiveConflict(t) \/ LoseAnswer(t) \/ Flush(t)
       PROVE  T /\ D
  BY <1>1, <1>3, <1>11 DEF ReceiveConflict, LoseAnswer, Flush
<1>12. ASSUME NEW t \in Tabs, NEW list \in OrderLists, StartOrder(t, list)
       PROVE  T /\ D
  BY <1>1, <1>3, <1>12 DEF StartOrder
<1>13. ASSUME NEW t \in Tabs, Reorder(t)
       PROVE  T /\ D
  <2>1. T
    BY <1>0, <1>13 DEF Reorder
  <2>2. D
    BY <1>3, <1>13 DEF Reorder
  <2> QED
    BY <2>1, <2>2
<1>14. ASSUME NEW t \in Tabs, OrderAnswered(t)
       PROVE  T /\ D
  BY <1>1, <1>3, <1>14 DEF OrderAnswered
<1>15. ASSUME NEW request \in wire, Patch(request)
       PROVE  T /\ D
  <2>1. D
    BY <1>3, <1>15 DEF Patch
  <2>2. T
    BY <1>15 DEF Patch
  <2> QED
    BY <2>1, <2>2
<1> HIDE DEF T, D
<1>16. T /\ D
  BY <1>4, <1>5, <1>7, <1>8, <1>9, <1>10, <1>11, <1>12, <1>13, <1>14, <1>15 DEF Next
<1> QED
  BY <1>16 DEF Framed, T, D

-----------------------------------------------------------------------------
(***************************************************************************)
(* Types, and what holds of every open tab.                                *)
(***************************************************************************)
CountersTyped ==
    /\ edits \in Texts /\ typedOver \subseteq Texts /\ tasks \in 0 .. saves
    /\ loads \in 0 .. MaxLoads /\ saves \in 0 .. MaxSaves
    /\ failures \in 0 .. MaxFailures /\ interruptions \in 0 .. MaxInterruptions

LEMMA WireTyped ==
    ASSUME NEW I, NEW V, NEW new \in TabType(I, V), SentBy(new), wire \subseteq RequestType(I, V),
           new.run # None => new.run.task.pinned # 0
    PROVE  wire' \subseteq RequestType(I, V)
<1>1. CASE new.run = None
  BY <1>1 DEF SentBy
<1>2. CASE new.run # None
  <2> DEFINE run == new.run
  <2>1. run \in RunType(I, V) /\ run.task.pinned # 0
    BY <1>2 DEF TabType
  <2> HIDE DEF run
  <2>2. Request(run.task, run.attempt) \in RequestType(I, V)
    BY <2>1 DEF RunType, TaskType, RequestType, Request
  <2> QED
    BY <2>2 DEF SentBy, run
<1> QED
  BY <1>1, <1>2

LEMMA TypedNext ==
    ASSUME TypeOK, Framed, NEW t \in Tabs, Elsewhere(t),
           tabs'[t] \in TabType(1 .. tasks', 1 .. Version'),
           drafts'[t] \in DraftType \cup {None},
           log' \in Seq([text : Texts, mutation : Nat, source : Nat, seen : Nat]),
           Version <= Version', tasks <= tasks', Version' \in Nat, tasks' \in Nat,
           wire' \subseteq RequestType(1 .. tasks', 1 .. Version'), CountersTyped'
    PROVE  TypeOK'
<1>1. Version \in Nat /\ tasks \in Nat
  BY CountsFit
<1>2. 1 .. Version \subseteq 1 .. Version' /\ 1 .. tasks \subseteq 1 .. tasks'
  BY <1>1
<1> DEFINE I == 1 .. tasks
           V == 1 .. Version
           J == 1 .. tasks'
           W == 1 .. Version'
<1>3. TabType(I, V) \subseteq TabType(J, W)
  BY <1>2, TypesGrow
<1>4. \A u \in Tabs : tabs[u] \in TabType(I, V)
  BY DEF TypeOK
<1>5. tabs'[t] \in TabType(J, W)
  OBVIOUS
<1>5a. wire' \subseteq RequestType(J, W)
  OBVIOUS
<1> HIDE DEF I, V, J, W
<1>6. \A u \in Tabs : tabs'[u] \in TabType(J, W)
  BY <1>3, <1>4, <1>5 DEF Elsewhere
<1>7. tabs' \in [Tabs -> TabType(J, W)]
  BY <1>6 DEF Framed
<1>8. \A s \in Sources : drafts'[s] \in DraftType \cup {None}
  BY DEF Elsewhere, Sources, TypeOK
<1>9. drafts' \in [Sources -> DraftType \cup {None}]
  BY <1>8 DEF Framed
<1> QED
  BY <1>5a, <1>7, <1>9 DEF TypeOK, CountersTyped, J, W

LEMMA FitsNext ==
    ASSUME TypeOK, TabsFit, NEW t \in Tabs, Elsewhere(t),
           Opened(tabs'[t]) =>
               /\ t <= loads' /\ Fits(t, tabs'[t], Revisions')
               /\ drafts'[t] # None => drafts'[t].expected <= tabs'[t].known,
           Revisions <= Revisions', Revisions' \in Nat, loads <= loads', loads' \in Nat
    PROVE  TabsFit'
<1> SUFFICES ASSUME NEW u \in Tabs, Opened(tabs'[u])
             PROVE  /\ u <= loads' /\ Fits(u, tabs'[u], Revisions')
                    /\ drafts'[u] # None => drafts'[u].expected <= tabs'[u].known
  BY DEF TabsFit
<1>1. CASE u = t
  BY <1>1
<1>2. CASE u # t
  <2>1. tabs'[u] = tabs[u] /\ (drafts'[u] = drafts[u] \/ drafts'[u] = None)
    BY <1>2 DEF Elsewhere
  <2>2. /\ u <= loads /\ Fits(u, tabs[u], Revisions)
        /\ drafts[u] # None => drafts[u].expected <= tabs[u].known
    BY <2>1 DEF TabsFit
  <2> DEFINE tab == tabs[u]
  <2>3. /\ tab.revision \in Nat /\ (tab.origin # None => tab.origin.revision \in Nat)
        /\ loads \in Nat /\ Revisions \in Nat /\ u \in Nat
    <3>1. tab \in TabType(1 .. tasks, 1 .. Version)
      BY DEF TypeOK
    <3>2. tab.revision \in Nat /\ tab.origin \in OriginType \cup {None}
      BY <3>1 DEF TabType
    <3>3. Revisions \in Nat /\ loads \in Nat
      BY CountsFit
    <3> QED
      BY <3>2, <3>3 DEF OriginType, Tabs
  <2> HIDE DEF tab
  <2>4. Fits(u, tab, Revisions')
    BY <2>2, <2>3 DEF Fits, tab
  <2> QED
    BY <2>1, <2>2, <2>3, <2>4 DEF tab
<1> QED
  BY <1>1, <1>2

LEMMA Unchanged ==
    ASSUME TypeOK, log' = log
    PROVE  Version' = Version /\ Block' = Block
BY DEF Version, Block

LEMMA RedrawnTyped ==
    ASSUME TypeOK, TabsFit, Bookkeeping, Framed, NEW t \in Tabs, Redrawn(t)
    PROVE  TypeOK' /\ TabsFit'
<1> DEFINE old == tabs[t]
           new == tabs'[t]
<1>1. /\ Opened(old) /\ RowTyped(new) /\ Elsewhere(t)
      /\ UNCHANGED <<log, drafts, wire, edits, typedOver, tasks, loads, saves, failures>>
      /\ interruptions' \in 0 .. MaxInterruptions
  BY DEF Redrawn
<1>2. Version' = Version /\ Revisions' = Revisions
  BY <1>1, Unchanged DEF Revisions
<1>3. /\ Version \in Nat /\ tasks \in Nat /\ Revisions \in Nat /\ loads \in Nat
  BY CountsFit
<1>4. TypeOK'
  <2>1. drafts'[t] \in DraftType \cup {None}
    BY <1>1 DEF TypeOK, Sources
  <2>2. /\ tabs'[t] \in TabType(1 .. tasks', 1 .. Version')
        /\ wire' \subseteq RequestType(1 .. tasks', 1 .. Version') /\ CountersTyped'
        /\ log' \in Seq([text : Texts, mutation : Nat, source : Nat, seen : Nat])
    BY <1>1, <1>2 DEF TypeOK, CountersTyped, RowTyped
  <2>3. Version <= Version' /\ tasks <= tasks' /\ Version' \in Nat /\ tasks' \in Nat
    BY <1>1, <1>2, <1>3
  <2> QED
    BY <1>1, <2>1, <2>2, <2>3, TypedNext
<1>5. /\ Fits(t, old, Revisions) /\ t <= loads /\ old.known \in 1 .. Version
      /\ drafts[t] # None => drafts[t].expected <= old.known /\ drafts[t].revision <= Revisions
      /\ Grounded(old, drafts[t])
  <2>1. drafts[t] # None => drafts[t].revision \in 0 .. Revisions
    BY DraftsFit DEF Sources
  <2> QED
    BY <1>1, <1>3, <2>1, OpenTabFits DEF TabsFit
<1>6. /\ Work(new) = Work(old) /\ new.origin = old.origin
      /\ \/ old.order = None /\ new.order = None
         \/ /\ old.order = None /\ ~Busy(old)
            /\ new.order # None /\ new.order.expected = old.known /\ new.order.answer = None
         \/ old.order # None /\ old.order.answer = Conflict /\ new.order = None
      /\ (drafts[t] # None \/ old.origin # None) => (new.conflict <=> Unresolved(old))
      /\ drafts[t] # None =>
               /\ new.revision = drafts[t].revision
               /\ new.expected = drafts[t].expected
      /\ drafts[t] = None /\ old.origin # None =>
               /\ new.revision = old.origin.revision
               /\ new.expected = old.origin.expected
      /\ drafts[t] = None /\ old.origin = None => new.revision = 0 /\ new.expected = 0
  BY DEF Redrawn
<1>7. /\ new.source = old.source /\ new.known = old.known /\ new.latest = old.latest
      /\ new.retry = old.retry /\ new.pending = old.pending /\ new.run = old.run
  BY <1>6 DEF Work
<1> HIDE DEF new, old
<1>8. Fits(t, new, Revisions)
  <2>1. /\ new.source = t /\ new.known # 0 /\ new.expected <= new.known /\ new.revision <= Revisions
    BY <1>3, <1>5, <1>6, <1>7 DEF Fits
  <2>2. (Busy(new) <=> Busy(old)) /\ (HasTask(new) <=> HasTask(old))
        /\ (Unresolved(new) <=> Unresolved(old))
    BY <1>6, <1>7 DEF Busy, HasTask, Unresolved
  <2>3. Unresolved(old) => new.conflict
    BY <1>6 DEF Unresolved
  <2>4. new.order # None => ~Busy(new) /\ new.order.expected = new.known /\ ~Good(new.order.answer)
    BY <1>6, <1>7, <2>2 DEF Good
  <2> QED
    BY <1>5, <1>6, <1>7, <2>1, <2>2, <2>3, <2>4 DEF Fits
<1>9. TabsFit'
  <2>1. /\ t <= loads' /\ Fits(t, tabs'[t], Revisions')
        /\ drafts'[t] # None => drafts'[t].expected <= tabs'[t].known
    BY <1>1, <1>2, <1>5, <1>7, <1>8 DEF new
  <2> QED
    BY <1>1, <1>2, <1>3, <2>1, FitsNext
<1> QED
  BY <1>4, <1>9

LEMMA EditedTyped ==
    ASSUME TypeOK, TabsFit, Bookkeeping, Framed, NEW t \in Tabs, Edited(t)
    PROVE  TypeOK' /\ TabsFit'
<1> DEFINE old == tabs[t]
           new == tabs'[t]
<1>1. /\ Opened(old) /\ RowTyped(new) /\ Elsewhere(t)
      /\ UNCHANGED <<log, wire, tasks, loads, failures, interruptions>>
      /\ drafts' = [drafts EXCEPT ![t] = Draft(new.text, new.expected, new.revision)]
  BY DEF Edited
<1>2. Version' = Version
  BY <1>1, Unchanged
<1>3. /\ Version \in Nat /\ tasks \in Nat /\ Revisions \in Nat /\ loads \in Nat
      /\ edits \in 0 .. MaxEdits /\ saves \in 0 .. MaxSaves /\ MaxEdits \in Nat /\ MaxSaves \in Nat
  BY CountsFit, SavingAssumption DEF TypeOK, Texts
<1>4. /\ \/ /\ edits < MaxEdits /\ edits' = edits + 1
            /\ typedOver' = typedOver \cup {old.text} /\ saves' = saves
         \/ saves < MaxSaves /\ saves' = saves + 1 /\ UNCHANGED <<edits, typedOver>>
  BY DEF Edited
<1>5. /\ Fits(t, old, Revisions) /\ t <= loads /\ old.known \in 1 .. Version
      /\ RowTyped(old)
  BY <1>1, OpenTabFits DEF RowTyped
<1>6. Revisions' = Revisions + 1
  BY <1>3, <1>4 DEF Revisions
<1>7. /\ new.expected \in Nat /\ new.revision \in Nat /\ new.text \in Texts /\ old.text \in Texts
  <2>1. new.expected \in (1 .. Version) \cup {0} /\ new.revision \in 0 .. MaxEdits + MaxSaves
    BY <1>1 DEF RowTyped, TabType
  <2>2. new.text \in Texts /\ old.text \in Texts
    BY <1>1, <1>5 DEF RowTyped, TabType
  <2> QED
    BY <1>3, <2>1, <2>2
<1>8. CountersTyped'
  <2>0. typedOver \subseteq Texts /\ typedOver' \in {typedOver, typedOver \cup {old.text}}
    BY <1>4 DEF TypeOK
  <2>1. edits' \in Texts /\ typedOver' \subseteq Texts /\ saves' \in 0 .. MaxSaves
    <3>1. edits' \in 0 .. MaxEdits /\ saves' \in 0 .. MaxSaves
      BY <1>3, <1>4
    <3> QED
      BY <1>7, <2>0, <3>1 DEF Texts
  <2>2. tasks \in 0 .. saves /\ saves <= saves'
    BY <1>3, <1>4 DEF TypeOK
  <2>3. tasks' \in 0 .. saves'
    BY <1>1, <1>3, <2>1, <2>2
  <2> QED
    BY <1>1, <2>1, <2>3 DEF CountersTyped, TypeOK
<1>9. TypeOK'
  <2>1. drafts'[t] = Draft(new.text, new.expected, new.revision)
    BY <1>1 DEF TypeOK, Sources
  <2>2. drafts'[t] \in DraftType
    BY <1>7, <2>1 DEF Draft, DraftType
  <2>3. /\ tabs'[t] \in TabType(1 .. tasks', 1 .. Version')
        /\ wire' \subseteq RequestType(1 .. tasks', 1 .. Version')
        /\ log' \in Seq([text : Texts, mutation : Nat, source : Nat, seen : Nat])
    BY <1>1, <1>2 DEF TypeOK, RowTyped
  <2>4. Version <= Version' /\ tasks <= tasks' /\ Version' \in Nat /\ tasks' \in Nat
    BY <1>1, <1>2, <1>3
  <2> QED
    BY <1>1, <1>8, <2>2, <2>3, <2>4, TypedNext
<1>10. /\ Work(new) = Work(old) /\ new.order = None
       /\ new.expected <= new.known
       /\ new.revision <= Revisions + 1
       /\ \/ new.origin = old.origin /\ (new.conflict <=> old.conflict)
          \/ SameOrigin(new.origin, old.origin) /\ ~Unresolved(new)
  BY DEF Edited
<1>11. /\ new.source = old.source /\ new.known = old.known /\ new.latest = old.latest
       /\ new.retry = old.retry /\ new.pending = old.pending /\ new.run = old.run
  BY <1>10 DEF Work
<1>12. drafts'[t] # None => drafts'[t].expected <= new.known
  BY <1>1, <1>10 DEF TypeOK, Sources, Draft
<1>13. old.origin # None => old.origin.revision \in Nat
  BY <1>5 DEF RowTyped, TabType, OriginType
<1> HIDE DEF new, old
<1>14. Fits(t, new, Revisions + 1)
  <2>1. (Busy(new) <=> Busy(old)) /\ (HasTask(new) <=> HasTask(old))
    BY <1>11 DEF Busy, HasTask
  <2>2. Unresolved(new) => Unresolved(old) /\ new.conflict
    BY <1>5, <1>10 DEF Fits, Unresolved
  <2>3. new.origin # None =>
           /\ new.origin.source # t /\ new.origin.expected <= new.known
           /\ new.origin.revision <= Revisions + 1
    BY <1>3, <1>5, <1>10, <1>11, <1>13 DEF Fits, SameOrigin
  <2> QED
    BY <1>5, <1>10, <1>11, <2>1, <2>2, <2>3 DEF Fits
<1>15. TabsFit'
  <2>1. /\ t <= loads' /\ Fits(t, tabs'[t], Revisions')
        /\ drafts'[t] # None => drafts'[t].expected <= tabs'[t].known
    BY <1>1, <1>5, <1>6, <1>12, <1>14 DEF new
  <2> QED
    BY <1>1, <1>3, <1>6, <2>1, FitsNext
<1> QED
  BY <1>9, <1>15

LEMMA CountersKept ==
    ASSUME TypeOK, UNCHANGED <<edits, typedOver, counters>>
    PROVE  CountersTyped' /\ Revisions' = Revisions /\ tasks' = tasks /\ loads' = loads /\ saves' = saves
BY DEF TypeOK, counters, CountersTyped, Revisions

LEMMA LogGrows ==
    ASSUME TypeOK, NEW text \in Texts, NEW mutation \in Nat, NEW source \in Nat, NEW seen \in Nat,
           log' = Append(log, Entry(text, mutation, source, seen))
    PROVE  /\ Version' = Version + 1 /\ Version \in Nat
           /\ log' \in Seq([text : Texts, mutation : Nat, source : Nat, seen : Nat])
           /\ \A v \in 1 .. Version : log'[v] = log[v]
           /\ log'[Version + 1].text = text /\ log'[Version + 1].mutation = mutation
           /\ log'[Version + 1].source = source /\ log'[Version + 1].seen = seen
<1> DEFINE S == [text : Texts, mutation : Nat, source : Nat, seen : Nat]
           e == Entry(text, mutation, source, seen)
<1>1. log \in Seq(S) /\ e \in S
  BY DEF TypeOK, Entry
<1>2. e.text = text /\ e.mutation = mutation /\ e.source = source /\ e.seen = seen
  BY DEF Entry
<1>3. log' = Append(log, e)
  OBVIOUS
<1> HIDE DEF S, e
<1>4. /\ Len(log') = Len(log) + 1 /\ Len(log) \in Nat /\ log' \in Seq(S)
      /\ \A v \in 1 .. Len(log) : log'[v] = log[v]
      /\ log'[Len(log) + 1] = e
  BY <1>1, <1>3
<1> QED
  BY <1>2, <1>4 DEF Version, S

\* A step of one open tab that leaves the journal alone.
LEMMA QuietTyped ==
    ASSUME TypeOK, TabsFit, Bookkeeping, Framed, NEW t \in Tabs, Elsewhere(t), Opened(tabs[t]),
           tabs'[t] \in TabType(1 .. tasks', 1 .. Version'), drafts' = drafts,
           log' \in Seq([text : Texts, mutation : Nat, source : Nat, seen : Nat]),
           Version' \in Nat, Version <= Version', tasks' \in Nat, tasks <= tasks',
           edits' = edits, saves' = saves, loads' = loads, CountersTyped',
           wire' \subseteq RequestType(1 .. tasks', 1 .. Version'),
           Fits(t, tabs'[t], Revisions), tabs[t].known <= tabs'[t].known, tabs'[t].known \in Nat
    PROVE  TypeOK' /\ TabsFit'
<1>1. /\ t <= loads /\ tabs[t].known \in 1 .. Version
      /\ drafts[t] # None => drafts[t].expected <= tabs[t].known
  BY OpenTabFits DEF TabsFit
<1>2. /\ Version \in Nat /\ tasks \in Nat /\ Revisions \in Nat /\ loads \in Nat
      /\ Revisions' = Revisions
  BY CountsFit DEF Revisions
<1>3. TypeOK'
  <2>1. drafts'[t] \in DraftType \cup {None}
    BY DEF TypeOK, Sources
  <2> QED
    BY <2>1, TypedNext
<1>4. TabsFit'
  <2>1. drafts[t] # None => drafts[t].expected \in Nat
    BY DEF TypeOK, Sources, DraftType
  <2>2. /\ t <= loads' /\ Fits(t, tabs'[t], Revisions')
        /\ drafts'[t] # None => drafts'[t].expected <= tabs'[t].known
    BY <1>1, <1>2, <2>1
  <2>3. Revisions <= Revisions' /\ Revisions' \in Nat /\ loads <= loads' /\ loads' \in Nat
    BY <1>2
  <2> QED
    BY <2>2, <2>3, FitsNext
<1> QED
  BY <1>3, <1>4

LEMMA OutdatedTyped ==
    ASSUME TypeOK, TabsFit, Bookkeeping, Framed, NEW t \in Tabs, Outdated(t)
    PROVE  TypeOK' /\ TabsFit'
<1> DEFINE old == tabs[t]
           new == tabs'[t]
<1>1. /\ Opened(old) /\ RowTyped(new) /\ Elsewhere(t)
      /\ SameRow(new, old) /\ (new.conflict <=> old.conflict) /\ Work(new) = Work(old)
      /\ UNCHANGED <<log, drafts, wire, edits, typedOver, counters>>
  BY DEF Outdated
<1>2. Version' = Version /\ Version \in Nat /\ tasks \in Nat
  BY <1>1, Unchanged, CountsFit
<1>3. Fits(t, old, Revisions) /\ old.known \in 1 .. Version
  BY <1>1, OpenTabFits
<1> HIDE DEF new, old
<1>4. Fits(t, new, Revisions)
  BY <1>1, <1>3 DEF Fits, Work, SameRow, Unresolved, Busy, HasTask
<1>5. new.known = old.known
  BY <1>1 DEF SameRow
<1>6. /\ CountersTyped' /\ tasks' = tasks /\ loads' = loads /\ saves' = saves
  BY <1>1, CountersKept
<1>7. /\ tabs'[t] \in TabType(1 .. tasks', 1 .. Version')
      /\ wire' \subseteq RequestType(1 .. tasks', 1 .. Version')
      /\ log' \in Seq([text : Texts, mutation : Nat, source : Nat, seen : Nat])
  BY <1>1, <1>2, <1>6 DEF TypeOK, RowTyped, new
<1>8. /\ Version' \in Nat /\ Version <= Version' /\ tasks' \in Nat /\ tasks <= tasks'
      /\ tabs[t].known <= tabs'[t].known /\ tabs'[t].known \in Nat
      /\ Fits(t, tabs'[t], Revisions) /\ Opened(tabs[t])
  BY <1>1, <1>2, <1>3, <1>4, <1>5, <1>6 DEF old, new
<1> QED
  BY <1>1, <1>6, <1>7, <1>8, QuietTyped

LEMMA AdmittedTyped ==
    ASSUME TypeOK, TabsFit, Bookkeeping, Framed, NEW t \in Tabs, NEW task, Admitted(t, task)
    PROVE  TypeOK' /\ TabsFit'
<1> DEFINE old == tabs[t]
           new == tabs'[t]
<1>1. /\ Opened(old) /\ new \in TabType(1 .. tasks', 1 .. Version) /\ Elsewhere(t)
      /\ SameRow(new, old) /\ ~old.conflict /\ ~new.conflict /\ old.order = None
      /\ \E admission \in old.admitting : new.admitting = old.admitting \ {admission}
      /\ tasks' = tasks + 1
      /\ task \in TaskType(1 .. tasks', 1 .. Version) /\ task.id = tasks + 1
      /\ task.source = t /\ task.text = old.text /\ task.revision = old.revision
      /\ task.expected <= old.known /\ task.pinned = 0 /\ task.origin = old.origin
      /\ new.run # None /\ new.retry = None
      /\ HasTask(old) => new.run.task = Underway(old) /\ new.pending = task
      /\ ~HasTask(old) => new.run.task = Fixed(old, task) /\ new.pending = None
      /\ \/ new.run = old.run /\ wire' = wire
         \/ new.run.answer = None /\ SentBy(new)
      /\ UNCHANGED <<log, drafts, edits, typedOver, loads, saves, failures, interruptions>>
  BY DEF Admitted
<1>2. Version' = Version /\ Version \in Nat /\ tasks \in Nat /\ saves \in Nat
  BY <1>1, Unchanged, CountsFit
<1>3. Fits(t, old, Revisions) /\ old.known \in 1 .. Version /\ old \in TabType(1 .. tasks, 1 .. Version)
  BY <1>1, OpenTabFits
<1>4. tasks' <= saves
  <2>1. PICK admission \in old.admitting : new.admitting = old.admitting \ {admission}
    BY <1>1
  <2>2. admission \in AdmissionType
    BY <1>3 DEF TabType
  <2> DEFINE p == <<t, admission>>
  <2>3. p \in Waiting
    BY <2>2 DEF Waiting
  <2>4. IsFiniteSet(Waiting) /\ Cardinality(Waiting) + tasks <= saves
    BY DEF Bookkeeping
  <2>5. Cardinality(Waiting) \in Nat /\ Cardinality(Waiting) # 0
    BY <2>3, <2>4, FS_CardinalityType, FS_EmptySet
  <2> QED
    BY <1>1, <1>2, <2>4, <2>5
<1>5. Fixed(old, task) \in TaskType(1 .. tasks', 1 .. Version) /\ Fixed(old, task).pinned = old.known
      /\ Fixed(old, task).source = t
  <2>1. old.known \in 1 .. Version /\ old.seen \in (1 .. Version) \cup {0}
    BY <1>3 DEF TabType
  <2> HIDE DEF old, new
  <2> QED
    BY <1>1, <2>1 DEF Fixed, TaskType
<1> HIDE DEF new, old
<1>6. new.run.task.pinned = old.known /\ new.run.task.source = t
  <2>1. CASE HasTask(old)
    BY <1>1, <1>3, <2>1 DEF Fits, HasTask, Underway
  <2>2. CASE ~HasTask(old)
    BY <1>1, <1>5, <2>2
  <2> QED
    BY <2>1, <2>2
<1>7. Fits(t, new, Revisions)
  <2>1. /\ new.source = t /\ new.known # 0 /\ new.expected <= new.known /\ new.revision <= Revisions
        /\ new.origin # None =>
             /\ new.origin.source # t /\ new.origin.expected <= new.known
             /\ new.origin.revision <= Revisions
        /\ new.order = None /\ new.known = old.known
    BY <1>1, <1>3 DEF Fits, SameRow
  <2>2. ~Unresolved(new)
    BY <1>1, <1>3 DEF Fits, SameRow, Unresolved
  <2>3. new.pending # None =>
           /\ HasTask(new) /\ new.pending.pinned = 0 /\ new.pending.source = t
           /\ new.pending.expected <= new.known
    BY <1>1, <2>1 DEF HasTask
  <2> QED
    BY <1>1, <1>6, <2>1, <2>2, <2>3 DEF Fits
<1>8. /\ CountersTyped'
  <2>1. tasks' \in 0 .. saves'
    BY <1>1, <1>2, <1>4
  <2> QED
    BY <1>1, <2>1 DEF CountersTyped, TypeOK
<1>9. wire' \subseteq RequestType(1 .. tasks', 1 .. Version)
  <2>1. wire \subseteq RequestType(1 .. tasks', 1 .. Version)
    <3>1. 1 .. tasks \subseteq 1 .. tasks'
      BY <1>1, <1>2
    <3>2. wire \subseteq RequestType(1 .. tasks, 1 .. Version)
      BY DEF TypeOK
    <3> QED
      BY <3>1, <3>2, TypesGrow
  <2>2. new.run.task.pinned # 0
    BY <1>2, <1>3, <1>6
  <2> QED
    BY <1>1, <2>1, <2>2, WireTyped
<1>10. /\ tabs'[t] \in TabType(1 .. tasks', 1 .. Version')
       /\ wire' \subseteq RequestType(1 .. tasks', 1 .. Version')
       /\ log' \in Seq([text : Texts, mutation : Nat, source : Nat, seen : Nat])
  BY <1>1, <1>2, <1>9 DEF TypeOK, new
<1>11. /\ Version' \in Nat /\ Version <= Version' /\ tasks' \in Nat /\ tasks <= tasks'
       /\ tabs[t].known <= tabs'[t].known /\ tabs'[t].known \in Nat
       /\ Fits(t, tabs'[t], Revisions) /\ Opened(tabs[t])
  BY <1>1, <1>2, <1>3, <1>7 DEF old, new, SameRow
<1> QED
  BY <1>1, <1>8, <1>10, <1>11, QuietTyped

LEMMA ResumedTyped ==
    ASSUME TypeOK, TabsFit, Bookkeeping, Framed, NEW t \in Tabs, Resumed(t)
    PROVE  TypeOK' /\ TabsFit'
<1> DEFINE old == tabs[t]
           new == tabs'[t]
<1>1. /\ Opened(old) /\ RowTyped(new) /\ Elsewhere(t)
      /\ SameRow(new, old) /\ (new.conflict <=> old.conflict)
      /\ old.run = None /\ old.retry # None
      /\ new.run # None /\ new.run.task = old.retry
      /\ new.retry = None /\ new.pending = old.pending
      /\ SentBy(new)
      /\ UNCHANGED <<log, drafts, edits, typedOver, counters>>
  BY DEF Resumed
<1>2. Version' = Version /\ Version \in Nat /\ tasks \in Nat
  BY <1>1, Unchanged, CountsFit
<1>3. Fits(t, old, Revisions) /\ old.known \in 1 .. Version
  BY <1>1, OpenTabFits
<1> HIDE DEF new, old
<1>4. Fits(t, new, Revisions) /\ new.run.task.pinned = new.known
  BY <1>1, <1>3 DEF Fits, SameRow, Unresolved, Busy, HasTask
<1>5. new.known = old.known
  BY <1>1 DEF SameRow
<1>6. /\ CountersTyped' /\ tasks' = tasks /\ loads' = loads /\ saves' = saves
  BY <1>1, CountersKept
<1>7. wire' \subseteq RequestType(1 .. tasks, 1 .. Version)
  <2>1. wire \subseteq RequestType(1 .. tasks, 1 .. Version)
    BY DEF TypeOK
  <2> QED
    BY <1>1, <1>2, <1>3, <1>4, <1>5, <2>1, WireTyped DEF RowTyped
<1>8. /\ tabs'[t] \in TabType(1 .. tasks', 1 .. Version')
      /\ wire' \subseteq RequestType(1 .. tasks', 1 .. Version')
      /\ log' \in Seq([text : Texts, mutation : Nat, source : Nat, seen : Nat])
  BY <1>1, <1>2, <1>6, <1>7 DEF TypeOK, RowTyped, new
<1>9. /\ Version' \in Nat /\ Version <= Version' /\ tasks' \in Nat /\ tasks <= tasks'
      /\ tabs[t].known <= tabs'[t].known /\ tabs'[t].known \in Nat
      /\ Fits(t, tabs'[t], Revisions) /\ Opened(tabs[t])
  BY <1>1, <1>2, <1>3, <1>4, <1>5, <1>6 DEF old, new
<1> QED
  BY <1>1, <1>6, <1>8, <1>9, QuietTyped

LEMMA RefusedTyped ==
    ASSUME TypeOK, TabsFit, Bookkeeping, Framed, NEW t \in Tabs, Refused(t)
    PROVE  TypeOK' /\ TabsFit'
<1> DEFINE old == tabs[t]
           new == tabs'[t]
<1>1. /\ Opened(old) /\ RowTyped(new) /\ Elsewhere(t)
      /\ SameRow(new, old) /\ new.conflict
      /\ old.run # None
      /\ new.run = None /\ new.retry = old.retry /\ new.pending = None
      /\ UNCHANGED <<log, drafts, wire, edits, typedOver, counters>>
  BY DEF Refused
<1>2. Version' = Version /\ Version \in Nat /\ tasks \in Nat
  BY <1>1, Unchanged, CountsFit
<1>3. Fits(t, old, Revisions) /\ old.known \in 1 .. Version
  BY <1>1, OpenTabFits
<1> HIDE DEF new, old
<1>4. Fits(t, new, Revisions)
  BY <1>1, <1>3 DEF Fits, SameRow, Unresolved, Busy, HasTask
<1>5. new.known = old.known
  BY <1>1 DEF SameRow
<1>6. /\ CountersTyped' /\ tasks' = tasks /\ loads' = loads /\ saves' = saves
  BY <1>1, CountersKept
<1>7. /\ tabs'[t] \in TabType(1 .. tasks', 1 .. Version')
      /\ wire' \subseteq RequestType(1 .. tasks', 1 .. Version')
      /\ log' \in Seq([text : Texts, mutation : Nat, source : Nat, seen : Nat])
  BY <1>1, <1>2, <1>6 DEF TypeOK, RowTyped, new
<1>8. /\ Version' \in Nat /\ Version <= Version' /\ tasks' \in Nat /\ tasks <= tasks'
      /\ tabs[t].known <= tabs'[t].known /\ tabs'[t].known \in Nat
      /\ Fits(t, tabs'[t], Revisions) /\ Opened(tabs[t])
  BY <1>1, <1>2, <1>3, <1>4, <1>5, <1>6 DEF old, new
<1> QED
  BY <1>1, <1>6, <1>7, <1>8, QuietTyped

LEMMA LostTyped ==
    ASSUME TypeOK, TabsFit, Bookkeeping, Framed, NEW t \in Tabs, Lost(t)
    PROVE  TypeOK' /\ TabsFit'
<1> DEFINE old == tabs[t]
           new == tabs'[t]
<1>1. /\ Opened(old) /\ RowTyped(new) /\ Elsewhere(t)
      /\ SameRow(new, old) /\ (new.conflict <=> old.conflict)
      /\ old.run # None /\ new.run = None /\ new.retry = old.run.task
      /\ new.pending = old.pending
      /\ failures' \in 0 .. MaxFailures
      /\ UNCHANGED <<log, drafts, wire, edits, typedOver, tasks, loads, saves, interruptions>>
  BY DEF Lost
<1>2. Version' = Version /\ Version \in Nat /\ tasks \in Nat
  BY <1>1, Unchanged, CountsFit
<1>3. Fits(t, old, Revisions) /\ old.known \in 1 .. Version
  BY <1>1, OpenTabFits
<1>0. old.run.task # None
  <2>1. old.run.task \in TaskType(1 .. tasks, 1 .. Version)
    <3>1. old \in TabType(1 .. tasks, 1 .. Version)
      BY <1>1, OpenTabFits
    <3> QED
      BY <1>1, <3>1 DEF TabType, RunType
  <2> QED
    BY <1>2, <2>1, NotNone, CountsFit
<1> HIDE DEF new, old
<1>4. Fits(t, new, Revisions)
  BY <1>0, <1>1, <1>3 DEF Fits, SameRow, Unresolved, Busy, HasTask
<1>5. new.known = old.known
  BY <1>1 DEF SameRow
<1>6. CountersTyped'
  BY <1>1 DEF TypeOK, CountersTyped
<1>7. /\ tabs'[t] \in TabType(1 .. tasks', 1 .. Version')
      /\ wire' \subseteq RequestType(1 .. tasks', 1 .. Version')
      /\ log' \in Seq([text : Texts, mutation : Nat, source : Nat, seen : Nat])
  BY <1>1, <1>2, <1>6 DEF TypeOK, RowTyped, new
<1>8. /\ Version' \in Nat /\ Version <= Version' /\ tasks' \in Nat /\ tasks <= tasks'
      /\ tabs[t].known <= tabs'[t].known /\ tabs'[t].known \in Nat
      /\ Fits(t, tabs'[t], Revisions) /\ Opened(tabs[t])
  BY <1>1, <1>2, <1>3, <1>4, <1>5, <1>6 DEF old, new
<1> QED
  BY <1>1, <1>6, <1>7, <1>8, QuietTyped

LEMMA OrderTakenTyped ==
    ASSUME TypeOK, TabsFit, Bookkeeping, Framed, NEW t \in Tabs, OrderTaken(t)
    PROVE  TypeOK' /\ TabsFit'
<1> DEFINE old == tabs[t]
           new == tabs'[t]
<1>1. /\ Opened(old) /\ RowTyped(new) /\ Elsewhere(t)
      /\ SameText(new, old) /\ new.source = old.source
      /\ new.retry = old.retry /\ new.pending = old.pending
      /\ new.run = old.run
      /\ old.order # None /\ Good(old.order.answer) /\ new.order = None
      /\ new.known = old.order.answer.version
      /\ UNCHANGED <<log, drafts, wire, edits, typedOver, counters>>
  BY DEF OrderTaken
<1>2. Version' = Version /\ Version \in Nat /\ tasks \in Nat
  BY <1>1, Unchanged, CountsFit
<1>3. Fits(t, old, Revisions) /\ old.known \in 1 .. Version /\ Grounded(old, drafts[t])
      /\ old \in TabType(1 .. tasks, 1 .. Version)
  BY <1>1, OpenTabFits
<1>4. old.known <= new.known /\ ~Busy(old)
  BY <1>1, <1>3 DEF Fits
<1>5. /\ new.known \in Nat /\ old.known \in Nat /\ old.expected \in Nat
      /\ (old.origin # None => old.origin.expected \in Nat)
  <2>1. new.known \in (1 .. Version) \cup {0} /\ old.expected \in (1 .. Version) \cup {0}
    BY <1>1, <1>3 DEF RowTyped, TabType
  <2>2. old.origin \in OriginType \cup {None}
    BY <1>3 DEF TabType
  <2> QED
    BY <1>2, <1>3, <2>1, <2>2 DEF OriginType
<1> HIDE DEF new, old
<1>6. Fits(t, new, Revisions)
  <2>1. new.known # 0 /\ new.expected <= new.known
    BY <1>1, <1>2, <1>3, <1>4, <1>5 DEF Fits, SameText
  <2>2. /\ new.source = t /\ new.revision <= Revisions /\ (Unresolved(new) => new.conflict)
        /\ ~Busy(new) /\ new.order = None
    BY <1>1, <1>3, <1>4 DEF Fits, SameText, Unresolved, Busy
  <2>3. new.origin # None =>
           /\ new.origin.source # t /\ new.origin.expected <= new.known
           /\ new.origin.revision <= Revisions
    BY <1>1, <1>3, <1>4, <1>5 DEF Fits, SameText
  <2> QED
    BY <2>1, <2>2, <2>3 DEF Fits, Busy
<1>7. /\ CountersTyped' /\ tasks' = tasks /\ loads' = loads /\ saves' = saves
  BY <1>1, CountersKept
<1>8. /\ tabs'[t] \in TabType(1 .. tasks', 1 .. Version')
      /\ wire' \subseteq RequestType(1 .. tasks', 1 .. Version')
      /\ log' \in Seq([text : Texts, mutation : Nat, source : Nat, seen : Nat])
  BY <1>1, <1>2, <1>7 DEF TypeOK, RowTyped, new
<1>9. /\ Version' \in Nat /\ Version <= Version' /\ tasks' \in Nat /\ tasks <= tasks'
      /\ tabs[t].known <= tabs'[t].known /\ tabs'[t].known \in Nat
      /\ Fits(t, tabs'[t], Revisions) /\ Opened(tabs[t])
  BY <1>1, <1>2, <1>4, <1>5, <1>6, <1>7 DEF old, new
<1> QED
  BY <1>1, <1>7, <1>8, <1>9, QuietTyped

LEMMA OrderedLog ==
    ASSUME TypeOK, Bookkeeping, NEW t \in Tabs, Ordered(t)
    PROVE  /\ log' \in Seq([text : Texts, mutation : Nat, source : Nat, seen : Nat])
           /\ Version \in Nat /\ Version' \in {Version, Version + 1}
           /\ \A v \in 1 .. Version : log'[v] = log[v]
           /\ log' = log \/ (Version' = Version + 1 /\ log'[Version + 1] = Entry(Block.text, NoMutation, t, Version))
<1>1. Version \in Nat /\ Block.text \in Texts /\ t \in Nat /\ NoMutation \in Nat
  BY BlockTyped DEF Tabs, NoMutation
<1>2. CASE log' = log
  BY <1>1, <1>2, Unchanged DEF TypeOK
<1>3. CASE log' = Append(log, Entry(Block.text, NoMutation, t, Version))
  <2>1. log'[Version + 1] = Entry(Block.text, NoMutation, t, Version)
    BY <1>3 DEF TypeOK, Version
  <2> QED
    BY <1>1, <1>3, <2>1, LogGrows
<1> QED
  BY <1>2, <1>3 DEF Ordered

LEMMA OrderedTyped ==
    ASSUME TypeOK, TabsFit, Bookkeeping, Framed, NEW t \in Tabs, Ordered(t)
    PROVE  TypeOK' /\ TabsFit'
<1> DEFINE old == tabs[t]
           new == tabs'[t]
<1>1. /\ Opened(old) /\ new \in TabType(1 .. tasks, 1 .. Version') /\ Elsewhere(t)
      /\ SameText(new, old) /\ Work(new) = Work(old) /\ new.content = old.content
      /\ old.order # None /\ old.order.answer = None
      /\ new.order # None /\ new.order.expected = old.order.expected
      /\ UNCHANGED <<drafts, wire, edits, typedOver, counters>>
      /\ \/ new.order.answer = Answer(Version + 1, Block.text)
         \/ new.order.answer = Conflict
         \/ new.order.answer = Answer(Version, Block.text)
  BY DEF Ordered
<1>2. /\ log' \in Seq([text : Texts, mutation : Nat, source : Nat, seen : Nat])
      /\ Version \in Nat /\ Version' \in {Version, Version + 1} /\ tasks \in Nat
  BY OrderedLog, CountsFit
<1>3. Fits(t, old, Revisions) /\ old.known \in 1 .. Version
  BY <1>1, OpenTabFits
<1>4. Good(new.order.answer) => old.known <= new.order.answer.version
  BY <1>1, <1>2, <1>3 DEF Good, Answer
<1>5. /\ new.source = old.source /\ new.known = old.known
      /\ new.retry = old.retry /\ new.pending = old.pending /\ new.run = old.run
  BY <1>1 DEF Work
<1> HIDE DEF new, old
<1>6. Fits(t, new, Revisions)
  BY <1>1, <1>3, <1>4, <1>5 DEF Fits, SameText, Unresolved, Busy, HasTask
<1>7. /\ CountersTyped' /\ tasks' = tasks /\ loads' = loads /\ saves' = saves
  BY <1>1, CountersKept
<1>8. wire' \subseteq RequestType(1 .. tasks', 1 .. Version')
  <2>1. 1 .. Version \subseteq 1 .. Version' /\ wire \subseteq RequestType(1 .. tasks, 1 .. Version)
    BY <1>2 DEF TypeOK
  <2> QED
    BY <1>1, <1>7, <2>1, TypesGrow
<1>9. tabs'[t] \in TabType(1 .. tasks', 1 .. Version')
  BY <1>1, <1>7 DEF new
<1>10. /\ Version' \in Nat /\ Version <= Version' /\ tasks' \in Nat /\ tasks <= tasks'
       /\ tabs[t].known <= tabs'[t].known /\ tabs'[t].known \in Nat
       /\ Fits(t, tabs'[t], Revisions) /\ Opened(tabs[t])
  BY <1>1, <1>2, <1>3, <1>5, <1>6, <1>7 DEF old, new
<1> QED
  BY <1>1, <1>2, <1>7, <1>8, <1>9, <1>10, QuietTyped

LEMMA PatchedLog ==
    ASSUME TypeOK, Bookkeeping, NEW request, Patched(request)
    PROVE  /\ log' \in Seq([text : Texts, mutation : Nat, source : Nat, seen : Nat])
           /\ Version \in Nat /\ Version' \in {Version, Version + 1}
           /\ \A v \in 1 .. Version : log'[v] = log[v]
           /\ request \in RequestType(1 .. tasks, 1 .. Version) /\ request.source \in Tabs
           /\ \/ log' = log
              \/ /\ ~Replayed(request) /\ Accepted(request) /\ Version' = Version + 1
                 /\ log'[Version + 1].text = request.text
                 /\ log'[Version + 1].mutation = request.id
                 /\ log'[Version + 1].source = request.source
                 /\ log'[Version + 1].seen = request.seen
<1>1. Version \in Nat
  BY BlockTyped
<1>2. request \in RequestType(1 .. tasks, 1 .. Version) /\ request.source \in Tabs
  BY DEF TypeOK, Patched
<1>3. /\ request.text \in Texts /\ request.id \in Nat /\ request.source \in Nat
      /\ request.seen \in Nat
  <2>1. /\ request.text \in Texts /\ request.id \in 1 .. tasks /\ request.source \in Tabs
        /\ request.seen \in (1 .. Version) \cup {0}
    BY <1>2 DEF RequestType
  <2>2. 1 .. tasks \subseteq Nat /\ 1 .. MaxLoads \subseteq Nat /\ 1 .. Version \subseteq Nat
    BY CountsFit, SavingAssumption
  <2> QED
    BY <2>1, <2>2 DEF Tabs
<1>4. CASE log' = log
  BY <1>1, <1>2, <1>4, Unchanged DEF TypeOK
<1>5. CASE /\ ~Replayed(request) /\ Accepted(request)
           /\ log' = Append(log, Entry(request.text, request.id, request.source, request.seen))
  <2> DEFINE text == request.text
             id == request.id
             source == request.source
             seen == request.seen
  <2>1. /\ log' = Append(log, Entry(text, id, source, seen))
        /\ text \in Texts /\ id \in Nat /\ source \in Nat /\ seen \in Nat
    BY <1>3, <1>5
  <2> HIDE DEF text, id, source, seen
  <2>2. /\ Version' = Version + 1
        /\ log' \in Seq([text : Texts, mutation : Nat, source : Nat, seen : Nat])
        /\ \A v \in 1 .. Version : log'[v] = log[v]
        /\ log'[Version + 1].text = text /\ log'[Version + 1].mutation = id
        /\ log'[Version + 1].source = source /\ log'[Version + 1].seen = seen
    BY <2>1, LogGrows
  <2> QED
    BY <1>1, <1>2, <1>5, <2>2 DEF text, id, source, seen
<1> QED
  BY <1>4, <1>5 DEF Patched

LEMMA PatchedTyped ==
    ASSUME TypeOK, TabsFit, Bookkeeping, Framed, NEW request, Patched(request)
    PROVE  TypeOK' /\ TabsFit'
<1> DEFINE t == request.source
           old == tabs[t]
           new == tabs'[t]
<1>1. /\ t \in Tabs /\ wire' \subseteq wire
      /\ \A u \in Tabs \ {t} : tabs'[u] = tabs[u]
      /\ \/ new = old
         \/ /\ Opened(old)
            /\ new \in TabType(1 .. tasks, 1 .. Version')
            /\ SameRow(new, old) /\ (new.conflict <=> old.conflict)
            /\ new.retry = old.retry /\ new.pending = old.pending
            /\ old.run # None /\ new.run # None /\ new.run.task = old.run.task
      /\ UNCHANGED <<drafts, edits, typedOver, counters>>
  BY DEF Patched, Awaits
<1>2. /\ log' \in Seq([text : Texts, mutation : Nat, source : Nat, seen : Nat])
      /\ Version \in Nat /\ Version' \in {Version, Version + 1} /\ tasks \in Nat
  BY PatchedLog, CountsFit
<1>3. /\ CountersTyped' /\ tasks' = tasks /\ loads' = loads /\ saves' = saves /\ Revisions' = Revisions
  BY <1>1, CountersKept
<1>4. wire' \subseteq RequestType(1 .. tasks', 1 .. Version')
  <2>1. 1 .. Version \subseteq 1 .. Version' /\ wire \subseteq RequestType(1 .. tasks, 1 .. Version)
    BY <1>2 DEF TypeOK
  <2> QED
    BY <1>1, <1>3, <2>1, TypesGrow
<1>5. Elsewhere(t)
  BY <1>1 DEF Elsewhere
<1>6. /\ Version' \in Nat /\ Version <= Version' /\ tasks' \in Nat /\ tasks <= tasks'
  BY <1>2, <1>3
<1>7. new \in TabType(1 .. tasks', 1 .. Version')
  <2>1. 1 .. Version \subseteq 1 .. Version' /\ old \in TabType(1 .. tasks, 1 .. Version)
    BY <1>1, <1>2 DEF TypeOK
  <2> QED
    BY <1>1, <1>3, <2>1, TypesGrow
<1>8. Opened(new) => Opened(old) /\ Fits(t, new, Revisions) /\ new.known = old.known
  <2>1. ASSUME Opened(old)
        PROVE  Fits(t, old, Revisions)
    BY <1>1, <2>1, OpenTabFits
  <2> HIDE DEF old, new
  <2> QED
    BY <1>1, <2>1 DEF Fits, SameRow, Unresolved, Busy, HasTask
<1>9. TypeOK'
  <2>1. drafts'[t] \in DraftType \cup {None}
    BY <1>1 DEF TypeOK, Sources
  <2> HIDE DEF t
  <2> QED
    BY <1>1, <1>2, <1>3, <1>4, <1>5, <1>6, <1>7, <2>1, TypedNext
<1>10. TabsFit'
  <2>1. Opened(tabs'[t]) =>
               /\ t <= loads' /\ Fits(t, tabs'[t], Revisions')
               /\ drafts'[t] # None => drafts'[t].expected <= tabs'[t].known
    BY <1>1, <1>3, <1>8 DEF TabsFit
  <2>2. Revisions <= Revisions' /\ Revisions' \in Nat /\ loads <= loads' /\ loads' \in Nat
    BY <1>3, CountsFit
  <2> HIDE DEF t
  <2> QED
    BY <1>1, <1>5, <2>1, <2>2, FitsNext
<1> QED
  BY <1>9, <1>10

LEMMA ReceivedTyped ==
    ASSUME TypeOK, TabsFit, Bookkeeping, AnswersFit, Framed, NEW t \in Tabs, Received(t)
    PROVE  TypeOK' /\ TabsFit'
<1> DEFINE old == tabs[t]
           new == tabs'[t]
<1>1. /\ Opened(old) /\ RowTyped(new) /\ \A u \in Tabs \ {t} : tabs'[u] = tabs[u]
      /\ old.run # None /\ Good(old.run.answer) /\ SettledBy(t, old.run.task, old.run.answer.version)
      /\ new.source = old.source /\ new.known = old.run.answer.version
      /\ new.text = old.text /\ new.revision = old.revision /\ new.expected <= new.known
      /\ new.order = old.order
      /\ (new.conflict <=> old.conflict)
      /\ new.origin = None \/ new.origin = old.origin
      /\ new.retry = None /\ new.pending = None
      /\ \/ new.run = None
         \/ /\ new.run # None /\ old.pending # None
            /\ new.run.task = Fixed(new, old.pending)
      /\ SentBy(new)
      /\ UNCHANGED <<log, edits, typedOver, counters>>
  BY DEF Received
<1>2. Version' = Version /\ Version \in Nat /\ tasks \in Nat /\ Revisions \in Nat /\ loads \in Nat
  BY <1>1, Unchanged, CountsFit
<1>3. Fits(t, old, Revisions) /\ old.known \in 1 .. Version /\ t <= loads
      /\ old \in TabType(1 .. tasks, 1 .. Version)
  BY <1>1, OpenTabFits
<1>4. new.known = old.known + 1
  BY <1>1, <1>3 DEF AnswersFit, Fits
<1>5. new.run # None => new.run.task.pinned = new.known /\ new.run.task.source = t
  <2>1. CASE new.run # None
    <3>1. old.pending \in TaskType(1 .. tasks, 1 .. Version) /\ old.pending.source = t
      BY <1>1, <1>3, <2>1 DEF TabType, Fits
    <3>2. Fixed(new, old.pending).pinned = new.known /\ Fixed(new, old.pending).source = t
      BY <3>1 DEF Fixed, TaskType
    <3> QED
      BY <1>1, <2>1, <3>2
  <2> QED
    BY <2>1
<1>6. /\ CountersTyped' /\ tasks' = tasks /\ loads' = loads /\ saves' = saves /\ Revisions' = Revisions
  BY <1>1, CountersKept
<1>7. wire' \subseteq RequestType(1 .. tasks, 1 .. Version)
  <2>1. wire \subseteq RequestType(1 .. tasks, 1 .. Version)
    BY DEF TypeOK
  <2>2. new.run # None => new.run.task.pinned # 0
    BY <1>2, <1>3, <1>4, <1>5
  <2> QED
    BY <1>1, <2>1, <2>2, WireTyped DEF RowTyped
<1>8. /\ drafts'[t] \in DraftType \cup {None} /\ Elsewhere(t)
      /\ drafts'[t] # None => drafts'[t].expected <= new.known
  BY <1>1 DEF SettledBy, Elsewhere, Sources
<1>9. old.origin # None => old.origin.expected \in Nat
  BY <1>3 DEF TabType, OriginType
<1> HIDE DEF new, old
<1>10. Fits(t, new, Revisions)
  <2>1. new.known # 0 /\ new.expected <= new.known /\ new.revision <= Revisions /\ new.source = t
    BY <1>1, <1>2, <1>3, <1>4 DEF Fits
  <2>2. new.origin # None =>
           /\ new.origin.source # t /\ new.origin.expected <= new.known
           /\ new.origin.revision <= Revisions
    BY <1>1, <1>2, <1>3, <1>4, <1>9 DEF Fits
  <2>3. ~Unresolved(new) /\ new.order = None
    BY <1>1, <1>3 DEF Fits, Unresolved, Busy
  <2> QED
    BY <1>1, <1>5, <2>1, <2>2, <2>3 DEF Fits
<1>11. TypeOK'
  <2>1. /\ tabs'[t] \in TabType(1 .. tasks', 1 .. Version')
        /\ wire' \subseteq RequestType(1 .. tasks', 1 .. Version')
        /\ log' \in Seq([text : Texts, mutation : Nat, source : Nat, seen : Nat])
    BY <1>1, <1>2, <1>6, <1>7 DEF TypeOK, RowTyped, new
  <2>2. /\ Version' \in Nat /\ Version <= Version' /\ tasks' \in Nat /\ tasks <= tasks'
    BY <1>2, <1>6
  <2> QED
    BY <1>6, <1>8, <2>1, <2>2, TypedNext
<1>12. TabsFit'
  <2>1. /\ t <= loads' /\ Fits(t, tabs'[t], Revisions')
        /\ drafts'[t] # None => drafts'[t].expected <= tabs'[t].known
    BY <1>3, <1>6, <1>8, <1>10 DEF new
  <2>2. Revisions <= Revisions' /\ Revisions' \in Nat /\ loads <= loads' /\ loads' \in Nat
    BY <1>2, <1>6
  <2> QED
    BY <1>8, <2>1, <2>2, FitsNext
<1> QED
  BY <1>11, <1>12

LEMMA ClosedTyped ==
    ASSUME TypeOK, TabsFit, Bookkeeping, Framed, NEW t \in Tabs, Closed(t)
    PROVE  TypeOK' /\ TabsFit'
<1>1. /\ tabs'[t] = ClosedTab /\ Elsewhere(t)
      /\ UNCHANGED <<log, drafts, wire, edits, typedOver, counters>>
  BY DEF Closed
<1>2. Version' = Version /\ Version \in Nat /\ tasks \in Nat /\ Revisions \in Nat /\ loads \in Nat
  BY <1>1, Unchanged, CountsFit
<1>3. /\ CountersTyped' /\ tasks' = tasks /\ loads' = loads /\ saves' = saves /\ Revisions' = Revisions
  BY <1>1, CountersKept
<1>4. TypeOK'
  <2>1. /\ tabs'[t] \in TabType(1 .. tasks', 1 .. Version')
        /\ wire' \subseteq RequestType(1 .. tasks', 1 .. Version')
        /\ log' \in Seq([text : Texts, mutation : Nat, source : Nat, seen : Nat])
        /\ drafts'[t] \in DraftType \cup {None}
    BY <1>1, <1>2, <1>3, ClosedTabTyped DEF TypeOK, Sources
  <2>2. /\ Version' \in Nat /\ Version <= Version' /\ tasks' \in Nat /\ tasks <= tasks'
    BY <1>2, <1>3
  <2> QED
    BY <1>1, <1>3, <2>1, <2>2, TypedNext
<1>5. TabsFit'
  <2>1. ~Opened(tabs'[t])
    BY <1>1 DEF Opened, ClosedTab
  <2>2. Revisions <= Revisions' /\ Revisions' \in Nat /\ loads <= loads' /\ loads' \in Nat
    BY <1>2, <1>3
  <2> QED
    BY <1>1, <2>1, <2>2, FitsNext
<1> QED
  BY <1>4, <1>5

LEMMA LoadedTyped ==
    ASSUME TypeOK, TabsFit, Bookkeeping, Framed, NEW t \in Tabs, Loaded(t)
    PROVE  TypeOK' /\ TabsFit'
<1> DEFINE new == tabs'[t]
<1>1. /\ t = loads + 1 /\ loads' = t /\ RowTyped(new) /\ Elsewhere(t)
      /\ new.source = t /\ new.known = Version /\ Idle(new)
      /\ drafts' \in [Sources -> DraftType \cup {None}]
      /\ UNCHANGED <<log, wire, edits, typedOver, tasks, saves, failures, interruptions>>
  BY DEF Loaded
<1>2. Version' = Version /\ Version \in Nat /\ Version >= 1
      /\ tasks \in Nat /\ Revisions \in Nat /\ loads \in Nat
      /\ Revisions' = Revisions
  BY <1>1, Unchanged, CountsFit, BlockTyped DEF Revisions
<1>3. CountersTyped'
  <2>1. loads' \in 0 .. MaxLoads
    BY <1>1, SavingAssumption DEF Tabs
  <2> QED
    BY <1>1, <2>1 DEF TypeOK, CountersTyped
<1>4. TypeOK'
  <2>1. /\ tabs'[t] \in TabType(1 .. tasks', 1 .. Version')
        /\ wire' \subseteq RequestType(1 .. tasks', 1 .. Version')
        /\ log' \in Seq([text : Texts, mutation : Nat, source : Nat, seen : Nat])
        /\ drafts'[t] \in DraftType \cup {None}
    BY <1>1, <1>2 DEF TypeOK, Sources, RowTyped
  <2>2. /\ Version' \in Nat /\ Version <= Version' /\ tasks' \in Nat /\ tasks <= tasks'
    BY <1>1, <1>2
  <2> QED
    BY <1>1, <1>3, <2>1, <2>2, TypedNext
<1>5. Fits(t, new, Revisions) /\ (drafts'[t] # None => drafts'[t].expected <= new.known)
  <2>1. CASE /\ new.revision = 0 /\ new.expected = 0 /\ new.origin = None
             /\ drafts'[t] = None
    <3> HIDE DEF new
    <3> QED
      BY <1>1, <1>2, <2>1 DEF Fits, Idle, Unresolved, Busy, HasTask
  <2>2. ASSUME NEW from \in Sources \ {t}, drafts[from] # None,
               new.revision = drafts[from].revision, new.expected = drafts[from].expected,
               new.conflict, new.origin # None,
               new.origin.source = from, new.origin.expected = drafts[from].expected,
               new.origin.revision = drafts[from].revision,
               drafts'[t] = Draft(new.text, new.expected, new.revision)
        PROVE  Fits(t, new, Revisions) /\ (drafts'[t] # None => drafts'[t].expected <= new.known)
    <3>1. drafts[from].expected <= Version /\ drafts[from].revision <= Revisions
      BY <2>2 DEF Bookkeeping
    <3> HIDE DEF new
    <3> QED
      BY <1>1, <1>2, <2>2, <3>1 DEF Fits, Idle, Unresolved, Busy, HasTask, Draft
  <2> QED
    BY <2>1, <2>2 DEF Loaded
<1>6. TabsFit'
  <2>1. /\ t <= loads' /\ Fits(t, tabs'[t], Revisions')
        /\ drafts'[t] # None => drafts'[t].expected <= tabs'[t].known
    BY <1>1, <1>2, <1>5
  <2>2. Revisions <= Revisions' /\ Revisions' \in Nat /\ loads <= loads' /\ loads' \in Nat
    BY <1>1, <1>2
  <2> QED
    BY <1>1, <2>1, <2>2, FitsNext
<1> QED
  BY <1>4, <1>6

-----------------------------------------------------------------------------
(***************************************************************************)
(* The books: unused sources, drafts, and saves that have begun.           *)
(***************************************************************************)
OnlyRow(t) == \A u \in Tabs \ {t} : tabs'[u] = tabs[u]

LEMMA WaitingKept ==
    ASSUME Bookkeeping, NEW t \in Tabs, OnlyRow(t), tabs'[t].admitting \subseteq tabs[t].admitting
    PROVE  IsFiniteSet(Waiting') /\ Cardinality(Waiting') <= Cardinality(Waiting)
           /\ Cardinality(Waiting) \in Nat /\ Cardinality(Waiting') \in Nat
<1>1. Waiting' \subseteq Waiting
  BY DEF Waiting, OnlyRow
<1>2. IsFiniteSet(Waiting)
  BY DEF Bookkeeping
<1> QED
  BY <1>1, <1>2, FS_Subset, FS_CardinalityType

LEMMA WaitingMore ==
    ASSUME Bookkeeping, NEW t \in Tabs, OnlyRow(t), NEW a,
           tabs'[t].admitting \subseteq tabs[t].admitting \cup {a}
    PROVE  IsFiniteSet(Waiting') /\ Cardinality(Waiting') <= Cardinality(Waiting) + 1
           /\ Cardinality(Waiting) \in Nat /\ Cardinality(Waiting') \in Nat
<1> DEFINE W == Waiting \cup {<<t, a>>}
<1>1. Waiting' \subseteq W
  <2> SUFFICES ASSUME NEW p \in Tabs \X AdmissionType, p[2] \in tabs'[p[1]].admitting
               PROVE  p \in W
    BY DEF Waiting
  <2>1. CASE p[1] = t /\ p[2] = a
    BY <2>1
  <2>2. CASE p[1] = t /\ p[2] # a
    BY <2>2 DEF Waiting
  <2>3. CASE p[1] # t
    BY <2>3 DEF Waiting, OnlyRow
  <2> QED
    BY <2>1, <2>2, <2>3
<1>2. IsFiniteSet(Waiting)
  BY DEF Bookkeeping
<1>3. IsFiniteSet(W) /\ (Cardinality(W) = Cardinality(Waiting) \/ Cardinality(W) = Cardinality(Waiting) + 1)
      /\ Cardinality(Waiting) \in Nat
  BY <1>2, FS_AddElement, FS_CardinalityType
<1> HIDE DEF W
<1>4. IsFiniteSet(Waiting') /\ Cardinality(Waiting') <= Cardinality(W) /\ Cardinality(Waiting') \in Nat
  BY <1>1, <1>3, FS_Subset, FS_CardinalityType
<1> QED
  BY <1>3, <1>4

LEMMA WaitingLess ==
    ASSUME Bookkeeping, NEW t \in Tabs, OnlyRow(t), NEW a \in AdmissionType, a \in tabs[t].admitting,
           tabs'[t].admitting = tabs[t].admitting \ {a}
    PROVE  IsFiniteSet(Waiting') /\ Cardinality(Waiting') + 1 <= Cardinality(Waiting)
           /\ Cardinality(Waiting) \in Nat /\ Cardinality(Waiting') \in Nat
<1> DEFINE p == <<t, a>>
           W == Waiting \ {p}
<1>1. p \in Waiting /\ Waiting' \subseteq W
  BY DEF Waiting, OnlyRow
<1>2. IsFiniteSet(Waiting)
  BY DEF Bookkeeping
<1> HIDE DEF p
<1>3. IsFiniteSet(W) /\ Cardinality(W) = Cardinality(Waiting) - 1 /\ Cardinality(Waiting) \in Nat
  BY <1>1, <1>2, FS_RemoveElement, FS_CardinalityType
<1> HIDE DEF W
<1>4. IsFiniteSet(Waiting') /\ Cardinality(Waiting') <= Cardinality(W) /\ Cardinality(Waiting') \in Nat
  BY <1>1, <1>3, FS_Subset, FS_CardinalityType
<1> QED
  BY <1>3, <1>4

\* What a step leaves of the log and of the requests.
LogKept ==
    /\ Version <= Version' /\ Version \in Nat /\ Version' \in Nat
    /\ \A v \in 1 .. Version' : v \in 1 .. Version \/ log'[v].source <= loads'
    /\ \A v \in 1 .. Version : log'[v] = log[v]
    /\ \A r \in wire' : r \in wire \/ r.source <= loads'

LEMMA BooksNext ==
    ASSUME TypeOK, TabsFit, Bookkeeping, TypeOK', NEW t \in Tabs, Elsewhere(t),
           t > loads' => drafts'[t] = None,
           ~Opened(tabs'[t]) => tabs'[t] = ClosedTab,
           drafts'[t] # None =>
               drafts'[t].expected <= Version' /\ drafts'[t].revision <= Revisions',
           LogKept, Revisions <= Revisions', loads <= loads',
           IsFiniteSet(Waiting'), Cardinality(Waiting') + tasks' <= saves'
    PROVE  Bookkeeping'
<1>1. /\ Version \in Nat /\ Version' \in Nat /\ Revisions \in Nat /\ loads \in Nat
      /\ Version <= Version' /\ Version >= 1
  BY CountsFit DEF LogKept, Bookkeeping
<1>2. Revisions' \in Nat /\ loads' \in Nat
  <2>1. edits' \in Nat /\ saves' \in Nat /\ loads' \in Nat
    BY SavingAssumption DEF TypeOK, Texts
  <2>2. Revisions' = edits' + saves'
    BY DEF Revisions
  <2>3. edits' + saves' \in Nat
    <3>1. \A x, y \in Nat : x + y \in Nat
      OBVIOUS
    <3> QED
      BY <2>1, <3>1
  <2> QED
    BY <2>1, <2>2, <2>3
<1>3. \A u \in Tabs : ~Opened(tabs'[u]) => tabs'[u] = ClosedTab
  BY DEF Bookkeeping, Elsewhere
<1>4. \A u \in Tabs : u > loads' => drafts'[u] = None
  BY <1>1, <1>2 DEF Bookkeeping, Elsewhere, Tabs
<1>5. ASSUME NEW s \in Sources, drafts'[s] # None
      PROVE  drafts'[s].expected <= Version' /\ drafts'[s].revision <= Revisions'
  <2>1. CASE s = t
    BY <1>5, <2>1
  <2>2. CASE s # t
    <3>1. drafts'[s] = drafts[s] /\ drafts[s] # None
      BY <1>5, <2>2 DEF Elsewhere, Sources
    <3>2. drafts[s].expected \in 0 .. Version /\ drafts[s].revision \in 0 .. Revisions
      BY <3>1, DraftsFit
    <3> QED
      BY <1>1, <1>2, <3>1, <3>2
  <2> QED
    BY <2>1, <2>2
<1>6. \A v \in 1 .. Version' : log'[v].source <= loads'
  <2> TAKE v \in 1 .. Version'
  <2>1. CASE v \in 1 .. Version
    <3>1. log[v].source \in Nat /\ log[v].source <= loads /\ log'[v] = log[v]
      BY <2>1, CountsFit DEF Bookkeeping, LogKept
    <3> QED
      BY <1>1, <1>2, <3>1
  <2>2. CASE v \notin 1 .. Version
    BY <2>2 DEF LogKept
  <2> QED
    BY <2>1, <2>2
<1>7. \A r \in wire' : r.source <= loads'
  <2> TAKE r \in wire'
  <2>1. CASE r \in wire
    <3>0. r \in RequestType(1 .. tasks, 1 .. Version)
      BY <2>1 DEF TypeOK
    <3>1. r.source \in Nat /\ r.source <= loads
      BY <2>1, <3>0 DEF Bookkeeping, RequestType, Sources, Tabs
    <3> QED
      BY <1>1, <1>2, <3>1
  <2>2. CASE r \notin wire
    BY <2>2 DEF LogKept
  <2> QED
    BY <2>1, <2>2
<1>8. Version' >= 1
  BY <1>1
<1> QED
  BY <1>3, <1>4, <1>5, <1>6, <1>7, <1>8 DEF Bookkeeping

\* Steps of one tab that make no task and no draft ahead of the versions.
LEMMA PlainBooks ==
    ASSUME TypeOK, TabsFit, Bookkeeping, TypeOK', NEW t \in Tabs, Elsewhere(t),
           ~Opened(tabs'[t]) => tabs'[t] = ClosedTab,
           tabs'[t].admitting \subseteq tabs[t].admitting,
           drafts'[t] = drafts[t] \/ drafts'[t] = None,
           LogKept, edits' = edits, saves' = saves, loads' = loads, tasks' = tasks
    PROVE  Bookkeeping'
<1>1. /\ Version \in Nat /\ Version' \in Nat /\ Revisions \in Nat /\ loads \in Nat
      /\ Version <= Version' /\ Revisions' = Revisions /\ tasks \in Nat /\ saves \in Nat
  BY CountsFit DEF LogKept, Revisions
<1>2. drafts'[t] # None =>
         drafts'[t].expected <= Version' /\ drafts'[t].revision <= Revisions'
  <2>1. drafts[t] # None => drafts[t].expected \in 0 .. Version /\ drafts[t].revision \in 0 .. Revisions
    BY DraftsFit DEF Sources
  <2> QED
    BY <1>1, <2>1
<1>3. IsFiniteSet(Waiting') /\ Cardinality(Waiting') + tasks' <= saves'
  <2>1. Cardinality(Waiting) + tasks <= saves
    BY DEF Bookkeeping
  <2>2. OnlyRow(t)
    BY DEF OnlyRow, Elsewhere
  <2> QED
    BY <1>1, <2>1, <2>2, WaitingKept
<1>4. t > loads' => drafts'[t] = None
  BY DEF Bookkeeping
<1>5. Revisions <= Revisions' /\ loads <= loads'
  BY <1>1
<1> QED
  BY <1>2, <1>3, <1>4, <1>5, BooksNext

LEMMA StillKept ==
    ASSUME TypeOK, log' = log, wire' = wire
    PROVE  LogKept
<1>1. Version' = Version /\ Version \in Nat
  BY Unchanged, CountsFit
<1> QED
  BY <1>1 DEF LogKept

LEMMA SentKept ==
    ASSUME TypeOK, log' = log, NEW new, SentBy(new), new.run # None => new.run.task.source <= loads'
    PROVE  LogKept
<1>1. Version' = Version /\ Version \in Nat
  BY Unchanged, CountsFit
<1>2. \A r \in wire' : r \in wire \/ r.source <= loads'
  BY DEF SentBy, Request
<1> QED
  BY <1>1, <1>2 DEF LogKept

LEMMA RedrawnBooks ==
    ASSUME TypeOK, TabsFit, Bookkeeping, TypeOK', NEW t \in Tabs, Redrawn(t)
    PROVE  Bookkeeping'
<1>1. /\ Opened(tabs[t]) /\ Work(tabs'[t]) = Work(tabs[t]) /\ Elsewhere(t)
      /\ tabs'[t].admitting = tabs[t].admitting
      /\ UNCHANGED <<log, drafts, wire, edits, typedOver, tasks, loads, saves, failures>>
  BY DEF Redrawn
<1>2. Opened(tabs'[t])
  BY <1>1 DEF Work, Opened
<1>3. LogKept
  BY <1>1, StillKept
<1> QED
  BY <1>1, <1>2, <1>3, PlainBooks

LEMMA EditedBooks ==
    ASSUME TypeOK, TabsFit, Bookkeeping, TypeOK', TabsFit', NEW t \in Tabs, Edited(t)
    PROVE  Bookkeeping'
<1> DEFINE old == tabs[t]
           new == tabs'[t]
<1>1. /\ Opened(old) /\ Elsewhere(t) /\ Work(new) = Work(old)
      /\ new.revision <= Revisions + 1
      /\ drafts' = [drafts EXCEPT ![t] = Draft(new.text, new.expected, new.revision)]
      /\ UNCHANGED <<log, wire, tasks, loads, failures, interruptions>>
      /\ \/ new.admitting = old.admitting /\ edits' = edits + 1 /\ saves' = saves
         \/ /\ \/ new.admitting = old.admitting
               \/ \E a \in AdmissionType : new.admitting = old.admitting \cup {a}
            /\ saves' = saves + 1 /\ UNCHANGED edits
  BY DEF Edited
<1>2. /\ Version' = Version /\ Version \in Nat /\ Revisions \in Nat /\ edits \in Nat
      /\ saves \in Nat /\ tasks \in Nat /\ loads \in Nat
  BY <1>1, Unchanged, CountsFit
<1>3. Revisions' = Revisions + 1
  BY <1>1, <1>2 DEF Revisions
<1>4. Opened(new) /\ OnlyRow(t) /\ LogKept
  BY <1>1, StillKept DEF Work, Opened, Elsewhere, OnlyRow
<1>5. t <= loads /\ t \in Nat /\ new.known \in 1 .. Version /\ new.expected \in Nat /\ new.expected <= new.known
  <2>1. t <= loads /\ Fits(t, new, Revisions') /\ new \in TabType(1 .. tasks, 1 .. Version)
    BY <1>1, <1>2, <1>4 DEF TabsFit, TypeOK
  <2>2. new.known \in (1 .. Version) \cup {0} /\ new.expected \in (1 .. Version) \cup {0}
    BY <2>1 DEF TabType
  <2> HIDE DEF new
  <2> QED
    BY <1>2, <2>1, <2>2 DEF Fits, Tabs
<1>6. drafts'[t].expected <= Version' /\ drafts'[t].revision <= Revisions'
  BY SMTT(60), <1>1, <1>2, <1>3, <1>5 DEF TypeOK, Sources, Draft
<1>7. IsFiniteSet(Waiting') /\ Cardinality(Waiting') + tasks' <= saves'
  <2>1. Cardinality(Waiting) + tasks <= saves
    BY DEF Bookkeeping
  <2>2. CASE new.admitting = old.admitting /\ (saves' = saves \/ saves' = saves + 1)
    BY <1>1, <1>2, <1>4, <2>1, <2>2, WaitingKept
  <2>3. CASE saves' = saves + 1 /\ \E a \in AdmissionType : new.admitting = old.admitting \cup {a}
    BY <1>1, <1>2, <1>4, <2>1, <2>3, WaitingMore
  <2> QED
    BY <1>1, <2>2, <2>3
<1>8. Revisions <= Revisions' /\ loads <= loads' /\ ~(t > loads')
  BY <1>1, <1>2, <1>3, <1>5
<1> QED
  BY <1>1, <1>4, <1>6, <1>7, <1>8, BooksNext

LEMMA AdmittedBooks ==
    ASSUME TypeOK, TabsFit, Bookkeeping, TypeOK', TabsFit', NEW t \in Tabs, NEW task, Admitted(t, task)
    PROVE  Bookkeeping'
<1> DEFINE old == tabs[t]
           new == tabs'[t]
<1>1. /\ Opened(old) /\ Elsewhere(t) /\ new.source = old.source
      /\ \E admission \in old.admitting : new.admitting = old.admitting \ {admission}
      /\ tasks' = tasks + 1 /\ new.run # None
      /\ wire' = wire \/ SentBy(new)
      /\ UNCHANGED <<log, drafts, edits, typedOver, loads, saves, failures, interruptions>>
  BY DEF Admitted, SameRow
<1>2. /\ Version' = Version /\ Version \in Nat /\ Revisions \in Nat
      /\ saves \in Nat /\ tasks \in Nat /\ loads \in Nat
  BY <1>1, Unchanged, CountsFit
<1>3. Revisions' = Revisions
  BY <1>1 DEF Revisions
<1>4. Opened(new) /\ OnlyRow(t) /\ t <= loads' /\ t \in Nat
  BY <1>1 DEF Opened, Elsewhere, OnlyRow, TabsFit, Tabs
<1>5. LogKept
  <2>1. CASE wire' = wire
    BY <1>1, <2>1, StillKept
  <2>2. CASE SentBy(new)
    <3>1. new.run.task.source = t
      BY <1>1, <1>4 DEF TabsFit, Fits
    <3> QED
      BY <1>1, <1>4, <2>2, <3>1, SentKept
  <2> QED
    BY <1>1, <2>1, <2>2
<1>6. IsFiniteSet(Waiting') /\ Cardinality(Waiting') + tasks' <= saves'
  <2>1. Cardinality(Waiting) + tasks <= saves
    BY DEF Bookkeeping
  <2>2. PICK a \in old.admitting : new.admitting = old.admitting \ {a}
    BY <1>1
  <2>3. a \in AdmissionType
    <3>1. old \in TabType(1 .. tasks, 1 .. Version)
      BY <1>1, OpenTabFits
    <3> QED
      BY <3>1 DEF TabType
  <2>4. IsFiniteSet(Waiting') /\ Cardinality(Waiting') + 1 <= Cardinality(Waiting)
        /\ Cardinality(Waiting) \in Nat /\ Cardinality(Waiting') \in Nat
    BY <1>4, <2>2, <2>3, WaitingLess
  <2> QED
    BY <1>1, <1>2, <2>1, <2>4
<1>7. drafts'[t] # None =>
         drafts'[t].expected <= Version' /\ drafts'[t].revision <= Revisions'
  BY <1>1, <1>2, <1>3 DEF Bookkeeping, Sources
<1>8. Revisions <= Revisions' /\ loads <= loads' /\ ~(t > loads')
  BY <1>1, <1>2, <1>3, <1>4
<1> QED
  BY <1>1, <1>4, <1>5, <1>6, <1>7, <1>8, BooksNext

LEMMA SavingBooks ==
    ASSUME TypeOK, TabsFit, Bookkeeping, TypeOK', TabsFit', NEW t \in Tabs,
           Outdated(t) \/ Resumed(t) \/ Refused(t) \/ Lost(t)
    PROVE  Bookkeeping'
<1> DEFINE old == tabs[t]
           new == tabs'[t]
<1>1. /\ Opened(old) /\ Elsewhere(t) /\ new.source = old.source
      /\ new.admitting \subseteq old.admitting
      /\ wire' = wire \/ SentBy(new)
      /\ UNCHANGED <<log, drafts, edits, typedOver, loads, saves, tasks>>
  BY DEF Outdated, Resumed, Refused, Lost, SameRow, counters
<1>2. Opened(new) /\ t <= loads'
  BY <1>1 DEF Opened, TabsFit
<1>3. LogKept
  <2>1. CASE wire' = wire
    BY <1>1, <2>1, StillKept
  <2>2. CASE SentBy(new)
    <3>1. new.run # None => new.run.task.source = t
      BY <1>2 DEF TabsFit, Fits
    <3> QED
      BY <1>1, <1>2, <2>2, <3>1, SentKept
  <2> QED
    BY <1>1, <2>1, <2>2
<1> QED
  BY <1>1, <1>2, <1>3, PlainBooks

LEMMA OrderBooks ==
    ASSUME TypeOK, TabsFit, Bookkeeping, TypeOK', TabsFit', NEW t \in Tabs,
           Ordered(t) \/ OrderTaken(t) \/ Closed(t)
    PROVE  Bookkeeping'
<1> DEFINE old == tabs[t]
           new == tabs'[t]
<1>1. /\ Opened(old) /\ Elsewhere(t) /\ (new.source = old.source \/ new = ClosedTab)
      /\ new.admitting \subseteq old.admitting
      /\ UNCHANGED <<drafts, wire, edits, typedOver, loads, saves, tasks>>
  BY DEF Ordered, OrderTaken, Closed, SameText, counters, ClosedTab, Work
<1>2. (Opened(new) \/ new = ClosedTab) /\ t <= loads /\ t \in Nat /\ loads \in Nat
  BY <1>1, CountsFit DEF Opened, TabsFit, Tabs
<1>3. LogKept
  <2>1. CASE Ordered(t)
    <3>1. /\ Version \in Nat /\ Version' \in {Version, Version + 1}
          /\ \A v \in 1 .. Version : log'[v] = log[v]
          /\ log' = log \/ (Version' = Version + 1 /\ log'[Version + 1] = Entry(Block.text, NoMutation, t, Version))
      BY <2>1, OrderedLog
    <3>2. CASE log' = log
      BY <1>1, <3>2, StillKept
    <3>3. CASE Version' = Version + 1 /\ log'[Version + 1] = Entry(Block.text, NoMutation, t, Version)
      BY <1>1, <1>2, <3>1, <3>3 DEF LogKept, Entry
    <3> QED
      BY <3>1, <3>2, <3>3
  <2>2. CASE log' = log
    BY <1>1, <2>2, StillKept
  <2> QED
    BY <2>1, <2>2 DEF OrderTaken, Closed
<1> QED
  BY <1>1, <1>2, <1>3, PlainBooks

LEMMA ReceivedBooks ==
    ASSUME TypeOK, TabsFit, Bookkeeping, AnswersFit, TypeOK', TabsFit', NEW t \in Tabs, Received(t)
    PROVE  Bookkeeping'
<1> DEFINE old == tabs[t]
           new == tabs'[t]
<1>1. /\ Opened(old) /\ OnlyRow(t) /\ new.source = old.source
      /\ old.run # None /\ Good(old.run.answer) /\ SettledBy(t, old.run.task, old.run.answer.version)
      /\ new.admitting = old.admitting
      /\ SentBy(new)
      /\ UNCHANGED <<log, edits, typedOver, counters>>
  BY DEF Received, OnlyRow
<1>2. /\ Version' = Version /\ Version \in Nat /\ Revisions \in Nat
      /\ saves \in Nat /\ tasks \in Nat /\ loads \in Nat
  BY <1>1, Unchanged, CountsFit
<1>3. Revisions' = Revisions /\ tasks' = tasks /\ saves' = saves /\ loads' = loads
  BY <1>1 DEF Revisions, counters
<1>4. Opened(new) /\ t <= loads' /\ t \in Nat
  BY <1>1, <1>3 DEF Opened, TabsFit, Tabs
<1>5. LogKept
  <2>1. new.run # None => new.run.task.source = t
    BY <1>4 DEF TabsFit, Fits
  <2> QED
    BY <1>1, <1>4, <2>1, SentKept
<1>6. Elsewhere(t)
  BY <1>1 DEF OnlyRow, SettledBy, Elsewhere, Sources
<1>7. IsFiniteSet(Waiting') /\ Cardinality(Waiting') + tasks' <= saves'
  <2>1. Cardinality(Waiting) + tasks <= saves
    BY DEF Bookkeeping
  <2> QED
    BY <1>1, <1>2, <1>3, <2>1, WaitingKept
<1>8. drafts'[t] # None =>
         drafts'[t].expected <= Version' /\ drafts'[t].revision <= Revisions'
  <2>1. old.run.answer.version <= Version
    BY <1>1 DEF AnswersFit
  <2>2. drafts[t] # None => drafts[t].expected <= Version /\ drafts[t].revision <= Revisions
    BY DEF Bookkeeping, Sources
  <2>3. t \in Sources
    BY DEF Sources
  <2> HIDE DEF old
  <2> QED
    BY <1>1, <1>2, <1>3, <2>1, <2>2, <2>3 DEF SettledBy
<1>9. Revisions <= Revisions' /\ loads <= loads' /\ ~(t > loads')
  BY <1>2, <1>3, <1>4
<1> QED
  BY <1>4, <1>5, <1>6, <1>7, <1>8, <1>9, BooksNext

LEMMA LoadedBooks ==
    ASSUME TypeOK, TabsFit, Bookkeeping, TypeOK', TabsFit', NEW t \in Tabs, Loaded(t)
    PROVE  Bookkeeping'
<1> DEFINE new == tabs'[t]
<1>1. /\ t = loads + 1 /\ loads' = t /\ Elsewhere(t)
      /\ new.source = t /\ new.known = Version /\ Idle(new)
      /\ UNCHANGED <<log, wire, edits, typedOver, tasks, saves, failures, interruptions>>
  BY DEF Loaded
<1>2. /\ Version' = Version /\ Version \in Nat /\ Revisions \in Nat
      /\ saves \in Nat /\ tasks \in Nat /\ loads \in Nat
  BY <1>1, Unchanged, CountsFit
<1>3. Revisions' = Revisions
  BY <1>1 DEF Revisions
<1>4. Opened(new)
  BY <1>1 DEF Opened, Tabs
<1>5. LogKept
  BY <1>1, StillKept
<1>6. IsFiniteSet(Waiting') /\ Cardinality(Waiting') + tasks' <= saves'
  <2>1. Cardinality(Waiting) + tasks <= saves
    BY DEF Bookkeeping
  <2>2. OnlyRow(t) /\ new.admitting \subseteq tabs[t].admitting
    BY <1>1 DEF OnlyRow, Elsewhere, Idle
  <2> QED
    BY <1>1, <1>2, <2>1, <2>2, WaitingKept
<1>7. drafts'[t] # None =>
         drafts'[t].expected <= Version' /\ drafts'[t].revision <= Revisions'
  <2>1. CASE drafts'[t] = None
    BY <2>1
  <2>2. ASSUME NEW from \in Sources \ {t}, drafts[from] # None,
               new.revision = drafts[from].revision, new.expected = drafts[from].expected,
               drafts'[t] = Draft(new.text, new.expected, new.revision)
        PROVE  drafts'[t].expected <= Version' /\ drafts'[t].revision <= Revisions'
    <3>1. drafts[from].expected <= Version /\ drafts[from].revision <= Revisions
      BY <2>2 DEF Bookkeeping
    <3> HIDE DEF new
    <3> QED
      BY <1>2, <1>3, <2>2, <3>1 DEF Draft
  <2> QED
    BY <2>1, <2>2 DEF Loaded
<1>8. Revisions <= Revisions' /\ loads <= loads' /\ ~(t > loads')
  BY <1>1, <1>2, <1>3
<1> QED
  BY <1>1, <1>4, <1>5, <1>6, <1>7, <1>8, BooksNext

LEMMA PatchedBooks ==
    ASSUME TypeOK, TabsFit, Bookkeeping, TypeOK', TabsFit', NEW request, Patched(request)
    PROVE  Bookkeeping'
<1> DEFINE t == request.source
           old == tabs[t]
           new == tabs'[t]
<1>1. /\ t \in Tabs /\ request \in wire /\ wire' \subseteq wire
      /\ \A u \in Tabs \ {t} : tabs'[u] = tabs[u]
      /\ new = old \/ (Opened(old) /\ new.source = old.source /\ new.admitting = old.admitting)
      /\ UNCHANGED <<drafts, edits, typedOver, counters>>
  BY DEF Patched, SameRow
<1>2. /\ Version \in Nat /\ Version' \in {Version, Version + 1}
      /\ \A v \in 1 .. Version : log'[v] = log[v]
      /\ log' = log \/ (Version' = Version + 1 /\ log'[Version + 1].source = t)
  BY PatchedLog
<1>3. Elsewhere(t) /\ tasks' = tasks /\ loads' = loads /\ saves' = saves
  BY <1>1 DEF Elsewhere, counters
<1>4. t <= loads /\ t \in Nat /\ loads \in Nat
  BY <1>1, CountsFit DEF Bookkeeping, Tabs
<1>5. LogKept
  <2>1. CASE log' = log
    <3>1. Version' = Version
      BY <2>1, Unchanged
    <3> HIDE DEF t
    <3> QED
      BY <1>1, <1>2, <2>1, <3>1 DEF LogKept
  <2>2. CASE Version' = Version + 1 /\ log'[Version + 1].source = t
    <3> HIDE DEF t
    <3> QED
      BY <1>1, <1>2, <1>3, <1>4, <2>2 DEF LogKept
  <2> QED
    BY <1>2, <2>1, <2>2
<1>6. ~Opened(new) => new = ClosedTab
  BY <1>1 DEF Bookkeeping, Opened
<1>7. new.admitting \subseteq old.admitting
  BY <1>1
<1> HIDE DEF t
<1> QED
  BY <1>1, <1>3, <1>5, <1>6, <1>7, PlainBooks

-----------------------------------------------------------------------------
(***************************************************************************)
(* Claims.                                                                 *)
(***************************************************************************)
LEMMA ClaimsAre ==
    /\ \A a \in Claims : \/ \E r \in wire : a = OfRequest(r)
                         \/ \E u \in Tabs : HasTask(tabs[u]) /\ a = OfTask(Underway(tabs[u]))
    /\ \A r \in wire : OfRequest(r) \in Claims
    /\ \A u \in Tabs : HasTask(tabs[u]) => OfTask(Underway(tabs[u])) \in Claims
  BY DEF Claims

\* The task of an open tab that is being saved.
LEMMA UnderwayIs ==
    ASSUME TypeOK, TabsFit, Bookkeeping, NEW t \in Tabs, HasTask(tabs[t])
    PROVE  /\ Underway(tabs[t]) \in TaskType(1 .. tasks, 1 .. Version)
           /\ Opened(tabs[t]) /\ Underway(tabs[t]).source = t
           /\ Underway(tabs[t]).pinned = tabs[t].known /\ tabs[t].known \in 1 .. Version
<1> DEFINE tab == tabs[t]
<1>1. Opened(tab)
  BY DEF Bookkeeping, HasTask, ClosedTab
<1>2. tab \in TabType(1 .. tasks, 1 .. Version) /\ tab.known \in 1 .. Version
  BY <1>1, OpenTabFits
<1>3. Fits(t, tab, Revisions)
  BY <1>1 DEF TabsFit
<1>4. CASE tab.run # None
  <2>1. tab.run \in RunType(1 .. tasks, 1 .. Version)
    BY <1>2, <1>4 DEF TabType
  <2>2. Underway(tab) = tab.run.task
    BY <1>4 DEF Underway
  <2> QED
    BY <1>1, <1>2, <1>3, <1>4, <2>1, <2>2 DEF RunType, Fits
<1>5. CASE tab.run = None
  <2>1. tab.retry # None /\ Underway(tab) = tab.retry
    BY <1>5 DEF Underway, HasTask
  <2>2. tab.retry \in TaskType(1 .. tasks, 1 .. Version)
    BY <1>2, <2>1 DEF TabType
  <2> QED
    BY <1>1, <1>2, <1>3, <2>1, <2>2 DEF Fits
<1> QED
  BY <1>4, <1>5

LEMMA ClaimTyped ==
    ASSUME TypeOK, TabsFit, Bookkeeping, NEW a \in Claims
    PROVE  /\ a.id \in 1 .. tasks /\ a.source \in Tabs /\ a.source <= loads
           /\ a.expected \in 1 .. Version /\ a.text \in Texts /\ a.seen \in (1 .. Version) \cup {0}
<1>1. CASE \E r \in wire : a = OfRequest(r)
  <2>1. PICK r \in wire : a = OfRequest(r)
    BY <1>1
  <2>2. r \in RequestType(1 .. tasks, 1 .. Version) /\ r.source <= loads
    BY DEF TypeOK, Bookkeeping
  <2> QED
    BY <2>1, <2>2 DEF RequestType, OfRequest, Claim, Sources
<1>2. CASE \E u \in Tabs : HasTask(tabs[u]) /\ a = OfTask(Underway(tabs[u]))
  <2>1. PICK u \in Tabs : HasTask(tabs[u]) /\ a = OfTask(Underway(tabs[u]))
    BY <1>2
  <2>2. /\ Underway(tabs[u]) \in TaskType(1 .. tasks, 1 .. Version)
        /\ Opened(tabs[u]) /\ Underway(tabs[u]).source = u
        /\ Underway(tabs[u]).pinned = tabs[u].known /\ tabs[u].known \in 1 .. Version
    BY <2>1, UnderwayIs
  <2>3. u <= loads
    BY <2>2 DEF TabsFit
  <2> DEFINE task == Underway(tabs[u])
  <2>4. /\ a.id = task.id /\ a.source = task.source /\ a.expected = task.pinned
        /\ a.text = task.text /\ a.seen = task.seen
    BY <2>1 DEF OfTask, Claim
  <2>5. task.id \in 1 .. tasks /\ task.text \in Texts /\ task.seen \in (1 .. Version) \cup {0}
    BY <2>2 DEF TaskType
  <2> QED
    BY <2>2, <2>3, <2>4, <2>5
<1> QED
  BY <1>1, <1>2, ClaimsAre

\* A claim is one of the earlier ones, or of the task the tab now saves.
LEMMA ClaimsNext ==
    ASSUME NEW t \in Tabs, OnlyRow(t), SentBy(tabs'[t]) \/ wire' \subseteq wire, NEW a \in Claims'
    PROVE  a \in Claims \/ (HasTask(tabs'[t]) /\ a = OfTask(Underway(tabs'[t])))
<1> DEFINE new == tabs'[t]
<1>1. CASE \E r \in wire' : a = OfRequest(r)
  <2>1. PICK r \in wire' : a = OfRequest(r)
    BY <1>1
  <2>2. CASE r \in wire
    BY <2>1, <2>2 DEF Claims
  <2>3. CASE r \notin wire
    <3>1. new.run # None /\ r = Request(new.run.task, new.run.attempt)
      BY <2>3 DEF SentBy
    <3>2. OfRequest(r) = OfTask(new.run.task)
      BY <3>1 DEF OfRequest, OfTask, Request
    <3> QED
      BY <2>1, <3>1, <3>2 DEF HasTask, Underway
  <2> QED
    BY <2>2, <2>3
<1>2. CASE \E u \in Tabs : HasTask(tabs'[u]) /\ a = OfTask(Underway(tabs'[u]))
  <2>1. PICK u \in Tabs : HasTask(tabs'[u]) /\ a = OfTask(Underway(tabs'[u]))
    BY <1>2
  <2>2. CASE u = t
    BY <2>1, <2>2
  <2>3. CASE u # t
    <3>1. tabs'[u] = tabs[u]
      BY <2>3 DEF OnlyRow
    <3> QED
      BY <2>1, <3>1 DEF Claims
  <2> QED
    BY <2>2, <2>3
<1>3. (\E r \in wire' : a = OfRequest(r))
      \/ (\E u \in Tabs : HasTask(tabs'[u]) /\ a = OfTask(Underway(tabs'[u])))
  BY DEF Claims, OfRequest, OfTask, Claim, HasTask, Underway
<1> QED
  BY <1>1, <1>2, <1>3

\* The tab saves what it saved before, or nothing.
SameTask(t) ==
    HasTask(tabs'[t]) => HasTask(tabs[t]) /\ Underway(tabs'[t]) = Underway(tabs[t])

LEMMA ClaimsKept ==
    ASSUME NEW t \in Tabs, OnlyRow(t), SentBy(tabs'[t]) \/ wire' \subseteq wire, SameTask(t)
    PROVE  Claims' \subseteq Claims
<1>1. HasTask(tabs'[t]) => OfTask(Underway(tabs'[t])) \in Claims
  BY ClaimsAre DEF SameTask
<1> QED
  BY <1>1, ClaimsNext

\* A claim whose id nobody else has.
NewClaim(c) ==
    /\ \A a \in Claims : a.id # c.id
    /\ \A v \in 1 .. Version : log[v].mutation # c.id

LEMMA ClaimsFitKept ==
    ASSUME TypeOK, ClaimsFit, log' = log, tasks' \in Nat, tasks <= tasks',
           \/ Claims' \subseteq Claims
           \/ \E c : Claims' \subseteq Claims \cup {c} /\ NewClaim(c)
    PROVE  ClaimsFit'
<1>1. Version' = Version /\ tasks \in Nat
  BY Unchanged, CountsFit
<1>2. \A v \in 1 .. Version : log[v].mutation <= tasks'
  <2>1. ASSUME NEW v \in 1 .. Version PROVE log[v].mutation <= tasks'
    <3>1. log[v].mutation \in Nat
      BY CountsFit
    <3> QED
      BY <1>1, <3>1 DEF ClaimsFit
  <2> QED
    BY <2>1
<1>3. CASE Claims' \subseteq Claims
  BY <1>1, <1>2, <1>3 DEF ClaimsFit
<1>4. ASSUME NEW c, Claims' \subseteq Claims \cup {c}, NewClaim(c)
      PROVE  ClaimsFit'
  BY <1>1, <1>2, <1>4 DEF ClaimsFit, NewClaim
<1> QED
  BY <1>3, <1>4

\* The log grew by a version that nobody claims, or by one that was claimed.
Grown(mutation, source, text) ==
    /\ Version' = Version + 1 /\ \A v \in 1 .. Version : log'[v] = log[v]
    /\ log'[Version + 1].mutation = mutation /\ log'[Version + 1].source = source
    /\ log'[Version + 1].text = text
    /\ \/ mutation = NoMutation
       \/ \E c \in Claims : /\ c.id = mutation /\ c.expected = Version
                            /\ c.source = source /\ c.text = text

LEMMA ClaimsFitGrown ==
    ASSUME TypeOK, TabsFit, Bookkeeping, ClaimsFit, tasks' = tasks, Claims' \subseteq Claims,
           NEW mutation, NEW source, NEW text, Grown(mutation, source, text)
    PROVE  ClaimsFit'
<1>1. Version \in Nat /\ tasks \in Nat
  BY CountsFit
<1>2. /\ Version' = Version + 1 /\ \A v \in 1 .. Version : log'[v] = log[v]
      /\ log'[Version + 1].mutation = mutation /\ log'[Version + 1].source = source
      /\ log'[Version + 1].text = text
  BY DEF Grown
<1>3. \A v \in 1 .. Version' : v \in 1 .. Version \/ v = Version + 1
  BY <1>1, <1>2
<1>4. mutation = NoMutation \/ mutation \in 1 .. tasks
  BY ClaimTyped DEF Grown
<1>5. ASSUME NEW a \in Claims, NEW v \in 1 .. Version', log'[v].mutation = a.id
      PROVE  v = a.expected + 1 /\ log'[v].text = a.text /\ log'[v].source = a.source
  <2>1. CASE v \in 1 .. Version
    BY <1>2, <1>5, <2>1 DEF ClaimsFit
  <2>2. CASE v = Version + 1
    <3>1. a.id = mutation /\ a.id \in 1 .. tasks
      BY <1>2, <1>5, <2>2, ClaimTyped
    <3>2. mutation # NoMutation
      BY <1>1, <3>1 DEF NoMutation
    <3>3. PICK c \in Claims : /\ c.id = mutation /\ c.expected = Version
                              /\ c.source = source /\ c.text = text
      BY <3>2 DEF Grown
    <3>4. a = c
      BY <3>1, <3>3 DEF ClaimsFit
    <3> QED
      BY <1>2, <2>2, <3>3, <3>4
  <2> QED
    BY <1>3, <2>1, <2>2
<1>6. ASSUME NEW v \in 1 .. Version' PROVE log'[v].mutation <= tasks
  BY <1>1, <1>2, <1>3, <1>4 DEF ClaimsFit, NoMutation
<1>7. \A a, b \in Claims : a.id = b.id => a = b
  BY DEF ClaimsFit
<1> QED
  BY <1>5, <1>6, <1>7 DEF ClaimsFit

\* A task that waits keeps waiting, and nothing was sent with its id.
LEMMA WaitingFitsKept ==
    ASSUME TypeOK, TabsFit, Bookkeeping, WaitingFits, NEW t \in Tabs, OnlyRow(t),
           tabs'[t].pending \in {None, tabs[t].pending}, Claims' \subseteq Claims,
           \/ log' = log
           \/ \E mutation, source, text : Grown(mutation, source, text)
    PROVE  WaitingFits'
<1>1. Version \in Nat /\ tasks \in Nat
  BY CountsFit
<1>2. ASSUME NEW u \in Tabs, tabs'[u].pending # None
      PROVE  tabs[u].pending # None /\ tabs'[u].pending = tabs[u].pending
  BY <1>2 DEF OnlyRow
<1>3. ASSUME NEW u \in Tabs, tabs[u].pending # None, NEW v \in 1 .. Version'
      PROVE  log'[v].mutation # tabs[u].pending.id
  <2>1. CASE log' = log
    <3>1. Version' = Version
      BY <2>1, Unchanged
    <3> QED
      BY <1>3, <2>1, <3>1 DEF WaitingFits
  <2>2. ASSUME NEW mutation, NEW source, NEW text, Grown(mutation, source, text)
        PROVE  log'[v].mutation # tabs[u].pending.id
    <3>1. v \in 1 .. Version \/ v = Version + 1
      BY <1>1, <2>2 DEF Grown
    <3>2. CASE v \in 1 .. Version
      BY <1>3, <2>2, <3>2 DEF Grown, WaitingFits
    <3>3. CASE v = Version + 1
      <4>1. log'[v].mutation = mutation
        BY <2>2, <3>3 DEF Grown
      <4>2. CASE \E c \in Claims : c.id = mutation
        BY <1>3, <4>1, <4>2 DEF WaitingFits
      <4>3. CASE mutation = NoMutation
        <5>1. tabs[u].pending \in TaskType(1 .. tasks, 1 .. Version)
          BY <1>3 DEF TypeOK, TabType
        <5>2. tabs[u].pending.id \in 1 .. tasks
          BY <5>1 DEF TaskType
        <5> QED
          BY <1>1, <4>1, <4>3, <5>2 DEF NoMutation
      <4> QED
        BY <2>2, <4>2, <4>3 DEF Grown
    <3> QED
      BY <3>1, <3>2, <3>3
  <2> QED
    BY <2>1, <2>2
<1>4. ASSUME NEW u \in Tabs, tabs'[u].pending # None
      PROVE  /\ \A a \in Claims' : a.id # tabs'[u].pending.id
             /\ \A v \in 1 .. Version' : log'[v].mutation # tabs'[u].pending.id
             /\ \A w \in Tabs \ {u} : tabs'[w].pending # None =>
                    tabs'[w].pending.id # tabs'[u].pending.id
  <2>1. tabs[u].pending # None /\ tabs'[u].pending = tabs[u].pending
    BY <1>2, <1>4
  <2>2. \A w \in Tabs : tabs'[w].pending # None =>
            tabs[w].pending # None /\ tabs'[w].pending = tabs[w].pending
    BY <1>2
  <2> QED
    BY <1>3, <2>1, <2>2 DEF WaitingFits
<1> QED
  BY <1>4 DEF WaitingFits

\* The task that waited, or the one just made, is sent.
LEMMA WaitingFitsSent ==
    ASSUME TypeOK, WaitingFits, NEW t \in Tabs, OnlyRow(t), log' = log,
           tabs'[t].pending = None, NEW c, Claims' \subseteq Claims \cup {c},
           \A u \in Tabs \ {t} : tabs[u].pending # None => tabs[u].pending.id # c.id
    PROVE  WaitingFits'
<1>1. Version' = Version
  BY Unchanged
<1>2. ASSUME NEW u \in Tabs, tabs'[u].pending # None
      PROVE  u # t /\ tabs[u].pending # None /\ tabs'[u].pending = tabs[u].pending
  BY <1>2 DEF OnlyRow
<1>3. ASSUME NEW u \in Tabs, tabs'[u].pending # None
      PROVE  /\ \A a \in Claims' : a.id # tabs'[u].pending.id
             /\ \A v \in 1 .. Version' : log'[v].mutation # tabs'[u].pending.id
             /\ \A w \in Tabs \ {u} : tabs'[w].pending # None =>
                    tabs'[w].pending.id # tabs'[u].pending.id
  <2>1. u # t /\ tabs[u].pending # None /\ tabs'[u].pending = tabs[u].pending
    BY <1>2, <1>3
  <2>2. \A w \in Tabs : tabs'[w].pending # None =>
            tabs[w].pending # None /\ tabs'[w].pending = tabs[w].pending
    BY <1>2
  <2>3. \A a \in Claims' : a.id # tabs'[u].pending.id
    BY <2>1 DEF WaitingFits
  <2> QED
    BY <1>1, <2>1, <2>2, <2>3 DEF WaitingFits
<1> QED
  BY <1>3 DEF WaitingFits

\* Nothing has the id the next task will get.
LEMMA FreshId ==
    ASSUME TypeOK, TabsFit, Bookkeeping, ClaimsFit
    PROVE  /\ \A a \in Claims : a.id # tasks + 1
           /\ \A v \in 1 .. Version : log[v].mutation # tasks + 1
           /\ \A u \in Tabs : tabs[u].pending # None => tabs[u].pending.id # tasks + 1
<1>1. tasks \in Nat
  BY CountsFit
<1>2. \A a \in Claims : a.id # tasks + 1
  <2>1. \A a \in Claims : a.id \in 1 .. tasks
    BY ClaimTyped
  <2> QED
    BY <1>1, <2>1
<1>3. \A v \in 1 .. Version : log[v].mutation # tasks + 1
  <2>1. \A v \in 1 .. Version : log[v].mutation \in Nat
    BY CountsFit
  <2> QED
    BY <1>1, <2>1 DEF ClaimsFit
<1>4. \A u \in Tabs : tabs[u].pending # None => tabs[u].pending.id # tasks + 1
  <2>1. ASSUME NEW u \in Tabs, tabs[u].pending # None PROVE tabs[u].pending.id # tasks + 1
    <3>1. tabs[u].pending \in TaskType(1 .. tasks, 1 .. Version)
      BY <2>1 DEF TypeOK, TabType
    <3>2. tabs[u].pending.id \in 1 .. tasks
      BY <3>1 DEF TaskType
    <3> QED
      BY <1>1, <3>2
  <2> QED
    BY <2>1
<1> QED
  BY <1>2, <1>3, <1>4

\* A task with an id of its own begins to wait.
LEMMA WaitingFitsMade ==
    ASSUME TypeOK, TabsFit, Bookkeeping, ClaimsFit, WaitingFits, NEW t \in Tabs, OnlyRow(t),
           log' = log, Claims' \subseteq Claims, tabs'[t].pending.id = tasks + 1
    PROVE  WaitingFits'
<1>1. Version' = Version /\ tasks \in Nat
  BY Unchanged, CountsFit
<1>2. /\ \A a \in Claims : a.id # tasks + 1
      /\ \A v \in 1 .. Version : log[v].mutation # tasks + 1
      /\ \A u \in Tabs : tabs[u].pending # None => tabs[u].pending.id # tasks + 1
  BY FreshId
<1>3. ASSUME NEW u \in Tabs, tabs'[u].pending # None
      PROVE  /\ \A a \in Claims' : a.id # tabs'[u].pending.id
             /\ \A v \in 1 .. Version' : log'[v].mutation # tabs'[u].pending.id
             /\ \A w \in Tabs \ {u} : tabs'[w].pending # None =>
                    tabs'[w].pending.id # tabs'[u].pending.id
  <2>1. CASE u = t
    <3>1. \A w \in Tabs \ {u} : tabs'[w] = tabs[w]
      BY <2>1 DEF OnlyRow
    <3> QED
      BY <1>1, <1>2, <2>1, <3>1
  <2>2. CASE u # t
    <3>1. tabs'[u] = tabs[u] /\ \A w \in Tabs \ {t} : tabs'[w] = tabs[w]
      BY <2>2 DEF OnlyRow
    <3>2. /\ \A a \in Claims : a.id # tabs[u].pending.id
          /\ \A v \in 1 .. Version : log[v].mutation # tabs[u].pending.id
          /\ \A w \in Tabs \ {u} : tabs[w].pending # None =>
                    tabs[w].pending.id # tabs[u].pending.id
          /\ tabs[u].pending.id # tasks + 1
      BY <1>2, <1>3, <3>1 DEF WaitingFits
    <3>3. \A w \in Tabs \ {u} : tabs'[w].pending # None =>
                    tabs'[w].pending.id # tabs'[u].pending.id
      BY <3>1, <3>2
    <3> QED
      BY <1>1, <3>1, <3>2, <3>3
  <2> QED
    BY <2>1, <2>2
<1> QED
  BY <1>3 DEF WaitingFits

\* The tab is told the version its task made.
Told(t) ==
    LET task == tabs'[t].run.task
        answer == tabs'[t].run.answer
    IN  /\ answer.version = task.pinned + 1 /\ answer.version <= Version'
        /\ log'[answer.version].mutation = task.id /\ answer.text = task.text

\* Nobody else is told anything new.
LEMMA AnswersFitKept ==
    ASSUME AnswersFit, TypeOK, NEW t \in Tabs, OnlyRow(t),
           \A v \in 1 .. Version : log'[v] = log[v], Version' \in Nat, Version <= Version',
           tabs'[t].run # None /\ Good(tabs'[t].run.answer) => tabs'[t].run = tabs[t].run \/ Told(t)
    PROVE  AnswersFit'
<1>1. Version \in Nat
  BY CountsFit
<1>2. ASSUME NEW u \in Tabs, tabs'[u].run # None, Good(tabs'[u].run.answer),
             tabs'[u].run = tabs[u].run
      PROVE  Told(u)
  <2> DEFINE run == tabs[u].run
  <2>1. tabs'[u].run = run
    BY <1>2
  <2>2. /\ run.answer.version = run.task.pinned + 1 /\ run.answer.version <= Version
        /\ log[run.answer.version].mutation = run.task.id /\ run.answer.text = run.task.text
    BY <1>2, <2>1 DEF AnswersFit
  <2>3. run.task.pinned \in Nat
    <3>1. run \in RunType(1 .. tasks, 1 .. Version)
      BY <1>2, <2>1 DEF TypeOK, TabType
    <3>2. run.task \in TaskType(1 .. tasks, 1 .. Version)
      BY <3>1 DEF RunType
    <3>3. run.task.pinned \in (1 .. Version) \cup {0}
      BY <3>2 DEF TaskType
    <3> QED
      BY <1>1, <3>3
  <2> HIDE DEF run
  <2>4. run.answer.version \in 1 .. Version /\ run.answer.version <= Version'
    BY <1>1, <2>2, <2>3
  <2> QED
    BY <2>1, <2>2, <2>4 DEF Told
<1>3. ASSUME NEW u \in Tabs, tabs'[u].run # None, Good(tabs'[u].run.answer)
      PROVE  Told(u)
  BY <1>2, <1>3 DEF OnlyRow
<1> QED
  BY <1>3 DEF AnswersFit, Good, Told

-----------------------------------------------------------------------------
(***************************************************************************)
(* Who is behind.                                                          *)
(***************************************************************************)

\* The log is as it was, or has one version more, which is t's.
LogOf(t) ==
    /\ \A v \in 1 .. Version : log'[v] = log[v]
    /\ \/ Version' = Version
       \/ Version' = Version + 1 /\ log'[Version + 1].source = t

\* The same of the state after the step.
OvertakenThen(version, t) == \E v \in version + 1 .. Version' : log'[v].source # t
UpToDateThen(version, t)  == Version' = version \/ OvertakenThen(version, t)

LEMMA OvertakenKept ==
    ASSUME TypeOK, NEW t, LogOf(t), NEW u, NEW n \in Nat, Overtaken(n, u)
    PROVE  OvertakenThen(n, u)
<1>1. Version \in Nat
  BY CountsFit
<1>2. PICK v \in n + 1 .. Version : log[v].source # u
  BY DEF Overtaken
<1>3. v \in 1 .. Version /\ v \in n + 1 .. Version'
  BY <1>1, <1>2 DEF LogOf
<1>4. log'[v].source # u
  BY <1>2, <1>3 DEF LogOf
<1> QED
  BY <1>3, <1>4 DEF OvertakenThen

\* Everybody else is overtaken by a new version.
LEMMA UpToDateKept ==
    ASSUME TypeOK, NEW t, LogOf(t), NEW u, u # t, NEW n \in 0 .. Version, UpToDate(n, u)
    PROVE  UpToDateThen(n, u)
<1>1. Version \in Nat
  BY CountsFit
<1>2. CASE Overtaken(n, u)
  BY <1>1, <1>2, OvertakenKept DEF UpToDate, UpToDateThen
<1>3. CASE Version' = Version
  BY <1>2, <1>3 DEF UpToDate, UpToDateThen
<1>4. CASE Version' = Version + 1 /\ log'[Version + 1].source = t
  <2>1. Version + 1 \in n + 1 .. Version'
    BY <1>1, <1>4
  <2> QED
    BY <1>4, <2>1 DEF UpToDateThen, OvertakenThen
<1> QED
  BY <1>3, <1>4 DEF LogOf

\* The same as Behind, of the state after the step.
BehindThen(t, tab) ==
    /\ IF tab.order # None /\ Good(tab.order.answer)
       THEN UpToDateThen(tab.order.answer.version, t)
       ELSE \/ UpToDateThen(tab.known, t)
            \/ /\ HasTask(tab) /\ Version' = tab.known + 1
               /\ log'[Version'].mutation = Underway(tab).id
    /\ tab.run # None /\ tab.run.answer = Conflict => OvertakenThen(tab.known, t)
    /\ \A a \in Claims' : a.source = t =>
           a.expected < Version' \/ (HasTask(tab) /\ a.id = Underway(tab).id)

\* What one tab does leaves no other tab behind without a reason.
LEMMA BehindElsewhere ==
    ASSUME TypeOK, TabsFit, Bookkeeping, BehindFits, NEW t \in Tabs, LogOf(t),
           \A a \in Claims' : a \in Claims \/ a.source = t,
           NEW u \in Tabs \ {t}, tabs'[u] = tabs[u], Opened(tabs[u])
    PROVE  BehindThen(u, tabs'[u])
<1> DEFINE tab == tabs[u]
           good == tab.order # None /\ Good(tab.order.answer)
<1>1. /\ Version \in Nat /\ Version' \in Nat /\ Version <= Version'
  BY CountsFit DEF LogOf
<1>2. Behind(u, tab) /\ tab.known \in 1 .. Version /\ tab \in TabType(1 .. tasks, 1 .. Version)
  BY OpenTabFits DEF BehindFits
<1>3. ASSUME good PROVE UpToDateThen(tab.order.answer.version, u)
  <2>1. UpToDate(tab.order.answer.version, u)
    BY <1>2, <1>3 DEF Behind
  <2>2. tab.order \in OrderType(1 .. Version)
    BY <1>2, <1>3 DEF TabType
  <2>3. tab.order.answer \in AnswerType(1 .. Version)
    BY <1>3, <2>2 DEF OrderType, Good
  <2>4. tab.order.answer.version \in 0 .. Version
    BY <1>1, <2>3 DEF AnswerType
  <2> HIDE DEF tab
  <2> QED
    BY <2>1, <2>4, UpToDateKept
<1>4. ASSUME ~good
      PROVE  \/ UpToDateThen(tab.known, u)
             \/ /\ HasTask(tab) /\ Version' = tab.known + 1
                /\ log'[Version'].mutation = Underway(tab).id
  <2>1. \/ UpToDate(tab.known, u)
        \/ /\ HasTask(tab) /\ Version = tab.known + 1
           /\ log[Version].mutation = Underway(tab).id
    BY <1>2, <1>4 DEF Behind
  <2>2. CASE UpToDate(tab.known, u)
    <3>1. tab.known \in 0 .. Version
      BY <1>1, <1>2
    <3> HIDE DEF tab
    <3> QED
      BY <2>2, <3>1, UpToDateKept
  <2>3. CASE /\ HasTask(tab) /\ Version = tab.known + 1
             /\ log[Version].mutation = Underway(tab).id
    <3>1. CASE Version' = Version
      <4>1. log'[Version] = log[Version]
        BY <1>1, <1>2 DEF LogOf
      <4> QED
        BY <2>3, <3>1, <4>1
    <3>2. CASE Version' = Version + 1 /\ log'[Version + 1].source = t
      <4>1. Version + 1 \in tab.known + 1 .. Version' /\ t # u
        BY <1>1, <1>2, <3>2
      <4> HIDE DEF tab
      <4> QED
        BY <3>2, <4>1 DEF UpToDateThen, OvertakenThen
    <3> QED
      BY <3>1, <3>2 DEF LogOf
  <2> QED
    BY <2>1, <2>2, <2>3
<1>5. tab.run # None /\ tab.run.answer = Conflict => OvertakenThen(tab.known, u)
  <2>1. tab.known \in Nat
    BY <1>1, <1>2
  <2>2. tab.run # None /\ tab.run.answer = Conflict => Overtaken(tab.known, u)
    BY <1>2 DEF Behind
  <2> HIDE DEF tab
  <2> QED
    BY <2>1, <2>2, OvertakenKept
<1>6. ASSUME NEW a \in Claims', a.source = u
      PROVE  a.expected < Version' \/ (HasTask(tab) /\ a.id = Underway(tab).id)
  <2>1. a \in Claims
    BY <1>6
  <2>2. a.expected \in 1 .. Version
    BY <2>1, ClaimTyped
  <2>3. a.expected < Version \/ (HasTask(tab) /\ a.id = Underway(tab).id)
    BY <1>2, <1>6, <2>1 DEF Behind
  <2> QED
    BY <1>1, <2>2, <2>3
<1> QED
  BY <1>3, <1>4, <1>5, <1>6 DEF Behind, BehindThen

LEMMA BehindAfter ==
    ASSUME \A t \in Tabs : Opened(tabs'[t]) => BehindThen(t, tabs'[t])
    PROVE  BehindFits'
BY DEF BehindFits, Opened, Behind, BehindThen, UpToDate, UpToDateThen, Overtaken, OvertakenThen,
       Good, Conflict, Answer, HasTask, Underway

LEMMA BehindNext ==
    ASSUME TypeOK, TabsFit, Bookkeeping, BehindFits, NEW t \in Tabs, OnlyRow(t), LogOf(t),
           \A a \in Claims' : a \in Claims \/ a.source = t,
           Opened(tabs'[t]) => BehindThen(t, tabs'[t])
    PROVE  BehindFits'
<1>1. ASSUME NEW u \in Tabs, Opened(tabs'[u])
      PROVE  BehindThen(u, tabs'[u])
  <2>1. CASE u = t
    BY <1>1, <2>1
  <2>2. CASE u # t
    <3>1. tabs'[u] = tabs[u] /\ Opened(tabs[u])
      BY <1>1, <2>2 DEF OnlyRow, Opened
    <3> QED
      BY <2>2, <3>1, BehindElsewhere
  <2> QED
    BY <2>1, <2>2
<1> QED
  BY <1>1, BehindAfter

\* A step that leaves the log, what the tab knows and what it saves alone.
LEMMA BehindStays ==
    ASSUME TypeOK, BehindFits, NEW t \in Tabs, Opened(tabs[t]), log' = log,
           Claims' \subseteq Claims, tabs'[t].known = tabs[t].known,
           HasTask(tabs'[t]) <=> HasTask(tabs[t]),
           HasTask(tabs[t]) => Underway(tabs'[t]).id = Underway(tabs[t]).id,
           tabs'[t].order # None /\ Good(tabs'[t].order.answer) => tabs'[t].order = tabs[t].order,
           tabs[t].order # None /\ Good(tabs[t].order.answer) => tabs'[t].order = tabs[t].order,
           tabs'[t].run # None /\ tabs'[t].run.answer = Conflict =>
               tabs[t].run # None /\ tabs[t].run.answer = Conflict
    PROVE  BehindThen(t, tabs'[t])
<1> DEFINE old == tabs[t]
           new == tabs'[t]
           good(tab) == tab.order # None /\ Good(tab.order.answer)
<1>1. Version' = Version
  BY Unchanged
<1>2. Behind(t, old)
  BY DEF BehindFits
<1>3. \A n : UpToDateThen(n, t) <=> UpToDate(n, t)
  BY <1>1 DEF UpToDate, Overtaken, UpToDateThen, OvertakenThen
<1>4. \A n : OvertakenThen(n, t) <=> Overtaken(n, t)
  BY <1>1 DEF Overtaken, OvertakenThen
<1>5. ASSUME good(new) PROVE UpToDateThen(new.order.answer.version, t)
  <2>1. new.order = old.order /\ good(old)
    BY <1>5
  <2>2. UpToDate(old.order.answer.version, t)
    BY <1>2, <2>1 DEF Behind
  <2> QED
    BY <1>3, <2>1, <2>2
<1>6. ASSUME ~good(new)
      PROVE  \/ UpToDateThen(new.known, t)
             \/ /\ HasTask(new) /\ Version' = new.known + 1
                /\ log'[Version'].mutation = Underway(new).id
  <2>1. ~good(old)
    BY <1>6
  <2>2. \/ UpToDate(old.known, t)
        \/ /\ HasTask(old) /\ Version = old.known + 1
           /\ log[Version].mutation = Underway(old).id
    BY <1>2, <2>1 DEF Behind
  <2> QED
    BY <1>1, <1>3, <2>2
<1>7. new.run # None /\ new.run.answer = Conflict => OvertakenThen(new.known, t)
  BY <1>2, <1>4 DEF Behind
<1>8. ASSUME NEW a \in Claims', a.source = t
      PROVE  a.expected < Version' \/ (HasTask(new) /\ a.id = Underway(new).id)
  BY <1>1, <1>2, <1>8 DEF Behind
<1> QED
  BY <1>5, <1>6, <1>7, <1>8 DEF Behind, BehindThen

-----------------------------------------------------------------------------
(***************************************************************************)
(* Claims, waiting tasks, answers and who is behind, after each step.      *)
(***************************************************************************)
Ledger == ClaimsFit /\ WaitingFits /\ AnswersFit /\ BehindFits

\* Answers are no news: an answer that is there was there.
NoNews(t) ==
    /\ tabs'[t].run # None /\ Good(tabs'[t].run.answer) => tabs'[t].run = tabs[t].run
    /\ tabs'[t].run # None /\ tabs'[t].run.answer = Conflict =>
           tabs[t].run # None /\ tabs[t].run.answer = Conflict
    /\ tabs'[t].order # None /\ Good(tabs'[t].order.answer) => tabs'[t].order = tabs[t].order
    /\ tabs[t].order # None /\ Good(tabs[t].order.answer) => tabs'[t].order = tabs[t].order

LEMMA QuietLedger ==
    ASSUME Safety, NEW t \in Tabs, OnlyRow(t), Opened(tabs[t]), log' = log, tasks' = tasks,
           SentBy(tabs'[t]) \/ wire' = wire, tabs'[t].pending \in {None, tabs[t].pending},
           tabs'[t].known = tabs[t].known, HasTask(tabs'[t]) <=> HasTask(tabs[t]),
           HasTask(tabs[t]) => Underway(tabs'[t]) = Underway(tabs[t]), NoNews(t)
    PROVE  Ledger'
<1>1. Version' = Version /\ Version \in Nat /\ tasks \in Nat
  BY Unchanged, CountsFit DEF Safety
<1>2. Claims' \subseteq Claims
  BY ClaimsKept DEF SameTask
<1>3. ClaimsFit'
  BY <1>1, <1>2, ClaimsFitKept DEF Safety
<1>4. WaitingFits'
  BY <1>2, WaitingFitsKept DEF Safety
<1>5. AnswersFit'
  BY <1>1, AnswersFitKept DEF Safety, NoNews
<1>6. BehindThen(t, tabs'[t])
  BY <1>2, BehindStays DEF Safety, NoNews
<1>7. BehindFits'
  BY <1>1, <1>2, <1>6, BehindNext DEF Safety, LogOf
<1> QED
  BY <1>3, <1>4, <1>5, <1>7 DEF Ledger

LEMMA ConflictIs == Conflict # None
<1>1. 0 \in Texts
  BY SavingAssumption DEF Texts
<1>2. Conflict \in AnswerType({})
  BY <1>1 DEF Conflict, Answer, AnswerType
<1> QED
  BY <1>2, NotNone

LEMMA WorkIs ==
    ASSUME NEW new, NEW old, Work(new) = Work(old)
    PROVE  /\ new.known = old.known /\ new.pending = old.pending /\ new.run = old.run
           /\ new.retry = old.retry /\ new.source = old.source
           /\ HasTask(new) <=> HasTask(old)
           /\ Underway(new) = Underway(old)
BY DEF Work, HasTask, Underway

LEMMA RedrawnLedger ==
    ASSUME Safety, NEW t \in Tabs, Redrawn(t)
    PROVE  Ledger'
<1> DEFINE old == tabs[t]
           new == tabs'[t]
<1>1. /\ Opened(old) /\ OnlyRow(t) /\ Work(new) = Work(old)
      /\ UNCHANGED <<log, wire, tasks>>
  BY DEF Redrawn, OnlyRow, Elsewhere
<1>2. /\ new.known = old.known /\ new.pending = old.pending /\ new.run = old.run
      /\ HasTask(new) <=> HasTask(old)
      /\ Underway(new) = Underway(old)
  BY <1>1, WorkIs
<1>3. NoNews(t)
  <2>1. /\ new.order # None => new.order.answer = None
        /\ old.order # None => old.order.answer = Conflict
    BY DEF Redrawn
  <2> QED
    BY <1>2, <2>1 DEF NoNews, Good
<1> QED
  BY <1>1, <1>2, <1>3, QuietLedger

LEMMA EditedLedger ==
    ASSUME Safety, NEW t \in Tabs, Edited(t)
    PROVE  Ledger'
<1> DEFINE old == tabs[t]
           new == tabs'[t]
<1>1. /\ Opened(old) /\ OnlyRow(t) /\ Work(new) = Work(old)
      /\ UNCHANGED <<log, wire, tasks>> /\ old.order = None /\ new.order = None
  BY DEF Edited, OnlyRow, Elsewhere
<1>2. /\ new.known = old.known /\ new.pending = old.pending /\ new.run = old.run
      /\ HasTask(new) <=> HasTask(old)
      /\ Underway(new) = Underway(old)
  BY <1>1, WorkIs
<1>3. NoNews(t)
  BY <1>1, <1>2 DEF NoNews
<1> QED
  BY <1>1, <1>2, <1>3, QuietLedger

LEMMA OutdatedLedger ==
    ASSUME Safety, NEW t \in Tabs, Outdated(t)
    PROVE  Ledger'
<1> DEFINE old == tabs[t]
           new == tabs'[t]
<1>1. /\ Opened(old) /\ OnlyRow(t) /\ Work(new) = Work(old) /\ new.order = old.order
      /\ UNCHANGED <<log, wire, tasks>>
  BY DEF Outdated, SameRow, OnlyRow, Elsewhere, counters
<1>2. /\ new.known = old.known /\ new.pending = old.pending /\ new.run = old.run
      /\ HasTask(new) <=> HasTask(old)
      /\ Underway(new) = Underway(old)
  BY <1>1, WorkIs
<1>3. NoNews(t)
  BY <1>1, <1>2 DEF NoNews
<1> QED
  BY <1>1, <1>2, <1>3, QuietLedger

LEMMA ResumedLedger ==
    ASSUME Safety, NEW t \in Tabs, Resumed(t)
    PROVE  Ledger'
<1> DEFINE old == tabs[t]
           new == tabs'[t]
<1>1. /\ Opened(old) /\ OnlyRow(t) /\ new.order = old.order /\ new.known = old.known
      /\ new.pending = old.pending /\ SentBy(new) /\ log' = log /\ tasks' = tasks
      /\ old.run = None /\ old.retry # None
      /\ new.run # None /\ new.run.task = old.retry /\ new.run.answer = None
  BY DEF Resumed, SameRow, OnlyRow, Elsewhere, counters
<1>2. HasTask(new) /\ HasTask(old) /\ Underway(new) = Underway(old)
  BY <1>1 DEF HasTask, Underway
<1>3. NoNews(t)
  BY <1>1, ConflictIs DEF NoNews, Good
<1> QED
  BY <1>1, <1>2, <1>3, QuietLedger

LEMMA LostLedger ==
    ASSUME Safety, NEW t \in Tabs, Lost(t)
    PROVE  Ledger'
<1> DEFINE old == tabs[t]
           new == tabs'[t]
<1>1. /\ Opened(old) /\ OnlyRow(t) /\ new.order = old.order /\ new.known = old.known
      /\ new.pending = old.pending /\ wire' = wire /\ log' = log /\ tasks' = tasks
      /\ old.run # None /\ new.run = None /\ new.retry = old.run.task
  BY DEF Lost, SameRow, OnlyRow, Elsewhere
<1>2. new.retry # None
  <2>1. old.run \in RunType(1 .. tasks, 1 .. Version)
    BY <1>1 DEF Safety, TypeOK, TabType
  <2>2. old.run.task \in TaskType(1 .. tasks, 1 .. Version)
    BY <2>1 DEF RunType
  <2>3. 1 .. tasks \in SUBSET Nat /\ 1 .. Version \in SUBSET Nat
    BY CountsFit DEF Safety
  <2> QED
    BY <1>1, <2>2, <2>3, NotNone
<1>3. HasTask(new) /\ HasTask(old) /\ Underway(new) = Underway(old)
  BY <1>1, <1>2 DEF HasTask, Underway
<1>4. NoNews(t)
  BY <1>1 DEF NoNews
<1> QED
  BY <1>1, <1>3, <1>4, QuietLedger

LEMMA AdmittedLedger ==
    ASSUME Safety, NEW t \in Tabs, NEW task, Admitted(t, task)
    PROVE  Ledger'
<1> DEFINE old == tabs[t]
           new == tabs'[t]
<1>0. TypeOK /\ TabsFit /\ Bookkeeping /\ ClaimsFit /\ WaitingFits /\ AnswersFit /\ BehindFits
  BY DEF Safety
<1>1. /\ Opened(old) /\ OnlyRow(t) /\ old.order = None /\ new.order = None
      /\ new.known = old.known /\ log' = log /\ tasks' = tasks + 1
      /\ task.id = tasks + 1 /\ task.source = t /\ task.pinned = 0
      /\ new.run # None /\ new.retry = None
      /\ HasTask(old) => new.run.task = Underway(old) /\ new.pending = task
      /\ ~HasTask(old) => new.run.task = Fixed(old, task) /\ new.pending = None
      /\ (new.run = old.run /\ wire' = wire) \/ (new.run.answer = None /\ SentBy(new))
  BY DEF Admitted, SameRow, OnlyRow, Elsewhere
<1>2. Version' = Version /\ Version \in Nat /\ tasks \in Nat
  BY <1>0, <1>1, Unchanged, CountsFit
<1>3. /\ \A a \in Claims : a.id # tasks + 1
      /\ \A v \in 1 .. Version : log[v].mutation # tasks + 1
      /\ \A u \in Tabs : tabs[u].pending # None => tabs[u].pending.id # tasks + 1
  BY <1>0, FreshId
<1>4. HasTask(new) /\ Underway(new) = new.run.task
  BY <1>1 DEF HasTask, Underway
<1>5. NoNews(t)
  BY <1>1, ConflictIs DEF NoNews, Good
<1>6. SentBy(new) \/ wire' \subseteq wire
  BY <1>1
<1>7. AnswersFit'
  BY <1>0, <1>1, <1>2, <1>5, AnswersFitKept DEF NoNews
<1>8. LogOf(t)
  BY <1>1, <1>2 DEF LogOf
<1>9. CASE HasTask(old)
  <2>1. SameTask(t) /\ Underway(new) = Underway(old)
    BY <1>1, <1>4, <1>9 DEF SameTask
  <2>2. Claims' \subseteq Claims
    BY <1>1, <1>6, <2>1, ClaimsKept
  <2>3. ClaimsFit'
    BY <1>0, <1>1, <1>2, <2>2, ClaimsFitKept
  <2>4. WaitingFits'
    BY <1>0, <1>1, <1>9, <2>2, WaitingFitsMade
  <2>5. BehindThen(t, tabs'[t])
    BY <1>0, <1>1, <1>4, <1>5, <1>9, <2>1, <2>2, BehindStays DEF NoNews
  <2>6. BehindFits'
    BY <1>0, <1>1, <1>8, <2>2, <2>5, BehindNext
  <2> QED
    BY <1>7, <2>3, <2>4, <2>6 DEF Ledger
<1>10. CASE ~HasTask(old)
  <2> DEFINE c == OfTask(Fixed(old, task))
  <2>1. Underway(new) = Fixed(old, task)
    BY <1>1, <1>4, <1>10
  <2>2. OfTask(Underway(new)) = c
    BY <2>1
  <2>3. c.id = tasks + 1 /\ c.source = t
    <3>1. task \in TaskType(1 .. tasks', 1 .. Version)
      BY DEF Admitted
    <3> QED
      BY <1>1, <3>1 DEF OfTask, Claim, Fixed, TaskType
  <2> HIDE DEF c
  <2>4. \A a \in Claims' : a \in Claims \/ a = c
    BY <1>1, <1>6, <2>2, ClaimsNext
  <2>5. NewClaim(c)
    BY <1>3, <2>3 DEF NewClaim
  <2>6. ClaimsFit'
    BY <1>0, <1>1, <1>2, <2>4, <2>5, ClaimsFitKept
  <2>7. WaitingFits'
    <3>1. \A u \in Tabs \ {t} : tabs[u].pending # None => tabs[u].pending.id # c.id
      BY <1>3, <2>3
    <3> QED
      BY <1>0, <1>1, <1>10, <2>4, <3>1, WaitingFitsSent
  <2>8. BehindThen(t, tabs'[t])
    <3>1. Behind(t, old)
      BY <1>0, <1>1 DEF BehindFits
    <3>2. UpToDateThen(new.known, t)
      BY <1>1, <1>2, <1>10, <3>1
         DEF Behind, UpToDate, UpToDateThen, Overtaken, OvertakenThen
    <3>3. ~(new.run.answer = Conflict)
      BY <1>1, <1>10, ConflictIs DEF HasTask
    <3>4. ASSUME NEW a \in Claims', a.source = t
          PROVE  a.expected < Version' \/ (HasTask(new) /\ a.id = Underway(new).id)
      <4>1. CASE a \in Claims
        BY <1>2, <1>10, <3>1, <3>4, <4>1 DEF Behind
      <4>2. CASE a = c
        <5>1. c.id = Underway(new).id
          BY <2>2 DEF OfTask, Claim
        <5> QED
          BY <1>4, <4>2, <5>1
      <4> QED
        BY <2>4, <4>1, <4>2
    <3> QED
      BY <1>1, <3>2, <3>3, <3>4 DEF BehindThen
  <2>9. BehindFits'
    BY <1>0, <1>1, <1>8, <2>3, <2>4, <2>8, BehindNext
  <2> QED
    BY <1>7, <2>6, <2>7, <2>9 DEF Ledger
<1> QED
  BY <1>9, <1>10

LEMMA RefusedLedger ==
    ASSUME Safety, NEW t \in Tabs, Refused(t)
    PROVE  Ledger'
<1> DEFINE old == tabs[t]
           new == tabs'[t]
<1>0. TypeOK /\ TabsFit /\ Bookkeeping /\ ClaimsFit /\ WaitingFits /\ AnswersFit /\ BehindFits
  BY DEF Safety
<1>1. /\ Opened(old) /\ OnlyRow(t) /\ new.order = old.order /\ new.known = old.known
      /\ old.run # None /\ old.run.answer = Conflict
      /\ new.run = None /\ new.retry = old.retry /\ new.pending = None
      /\ log' = log /\ wire' = wire /\ tasks' = tasks
  BY DEF Refused, SameRow, OnlyRow, Elsewhere, counters
<1>2. Version' = Version /\ Version \in Nat /\ tasks \in Nat
  BY <1>0, <1>1, Unchanged, CountsFit
<1>3. /\ old.retry = None /\ old.order = None /\ HasTask(old)
      /\ old.run.task.pinned = old.known
  BY <1>0, <1>1 DEF TabsFit, Fits, Busy, HasTask
<1>4. ~HasTask(new)
  BY <1>1, <1>3 DEF HasTask
<1>5. Claims' \subseteq Claims
  BY <1>1, <1>4, ClaimsKept DEF SameTask
<1>6. ClaimsFit'
  BY <1>0, <1>1, <1>2, <1>5, ClaimsFitKept
<1>7. WaitingFits'
  BY <1>0, <1>1, <1>5, WaitingFitsKept
<1>8. AnswersFit'
  BY <1>0, <1>1, <1>2, AnswersFitKept
<1>9. BehindThen(t, tabs'[t])
  <2>1. Behind(t, old) /\ old.known \in 1 .. Version
    BY <1>0, <1>1, OpenTabFits DEF BehindFits
  <2>2. Overtaken(old.known, t)
    BY <1>1, <2>1 DEF Behind
  <2>3. UpToDateThen(new.known, t)
    BY <1>1, <1>2, <2>2 DEF UpToDateThen, Overtaken, OvertakenThen
  <2>4. old.known < Version
    BY <1>2, <2>1, <2>2 DEF Overtaken
  <2>5. ASSUME NEW a \in Claims', a.source = t
        PROVE  a.expected < Version'
    <3>1. a.expected < Version \/ a.id = Underway(old).id
      BY <1>5, <2>1, <2>5 DEF Behind
    <3>2. CASE a.id = Underway(old).id
      <4>1. OfTask(Underway(old)) \in Claims /\ OfTask(Underway(old)).id = Underway(old).id
        BY <1>3, ClaimsAre DEF OfTask, Claim
      <4>2. a = OfTask(Underway(old))
        BY <1>0, <1>5, <2>5, <3>2, <4>1 DEF ClaimsFit
      <4>3. a.expected = old.known
        BY <1>1, <1>3, <4>2 DEF OfTask, Claim, Underway
      <4> QED
        BY <1>2, <2>4, <4>3
    <3> QED
      BY <1>2, <3>1, <3>2
  <2> QED
    BY <1>1, <1>3, <2>3, <2>5 DEF BehindThen
<1>10. BehindFits'
  <2>1. LogOf(t)
    BY <1>1, <1>2 DEF LogOf
  <2> QED
    BY <1>0, <1>1, <1>5, <1>9, <2>1, BehindNext
<1> QED
  BY <1>6, <1>7, <1>8, <1>10 DEF Ledger

LEMMA OrderTakenLedger ==
    ASSUME Safety, NEW t \in Tabs, OrderTaken(t)
    PROVE  Ledger'
<1> DEFINE old == tabs[t]
           new == tabs'[t]
<1>0. TypeOK /\ TabsFit /\ Bookkeeping /\ ClaimsFit /\ WaitingFits /\ AnswersFit /\ BehindFits
  BY DEF Safety
<1>1. /\ Opened(old) /\ OnlyRow(t) /\ new.retry = old.retry /\ new.pending = old.pending
      /\ new.run = old.run
      /\ old.order # None /\ Good(old.order.answer) /\ new.order = None
      /\ new.known = old.order.answer.version
      /\ log' = log /\ wire' = wire /\ tasks' = tasks
  BY DEF OrderTaken, OnlyRow, Elsewhere, counters
<1>2. Version' = Version /\ Version \in Nat /\ tasks \in Nat
  BY <1>0, <1>1, Unchanged, CountsFit
<1>3. ~HasTask(old) /\ ~HasTask(new) /\ new.run = None
  BY <1>0, <1>1 DEF TabsFit, Fits, Busy, HasTask
<1>4. Claims' \subseteq Claims
  BY <1>1, <1>3, ClaimsKept DEF SameTask
<1>5. ClaimsFit'
  BY <1>0, <1>1, <1>2, <1>4, ClaimsFitKept
<1>6. WaitingFits'
  BY <1>0, <1>1, <1>4, WaitingFitsKept
<1>7. AnswersFit'
  BY <1>0, <1>1, <1>2, AnswersFitKept
<1>8. BehindThen(t, tabs'[t])
  <2>1. Behind(t, old)
    BY <1>0, <1>1 DEF BehindFits
  <2>2. UpToDateThen(new.known, t)
    BY <1>1, <1>2, <2>1 DEF Behind, UpToDate, Overtaken, UpToDateThen, OvertakenThen
  <2>3. \A a \in Claims' : a.source = t => a.expected < Version'
    BY <1>2, <1>3, <1>4, <2>1 DEF Behind
  <2> QED
    BY <1>1, <1>3, <2>2, <2>3 DEF BehindThen
<1>9. BehindFits'
  <2>1. LogOf(t)
    BY <1>1, <1>2 DEF LogOf
  <2> QED
    BY <1>0, <1>1, <1>4, <1>8, <2>1, BehindNext
<1> QED
  BY <1>5, <1>6, <1>7, <1>9 DEF Ledger

LEMMA OrderedLedger ==
    ASSUME Safety, NEW t \in Tabs, Ordered(t)
    PROVE  Ledger'
<1> DEFINE old == tabs[t]
           new == tabs'[t]
<1>0. TypeOK /\ TabsFit /\ Bookkeeping /\ ClaimsFit /\ WaitingFits /\ AnswersFit /\ BehindFits
  BY DEF Safety
<1>1. /\ Opened(old) /\ OnlyRow(t) /\ Work(new) = Work(old)
      /\ old.order # None /\ old.order.answer = None /\ new.order # None
      /\ wire' = wire /\ tasks' = tasks
      /\ \/ /\ log' = Append(log, Entry(Block.text, NoMutation, t, Version))
            /\ new.order.answer = Answer(Version + 1, Block.text)
         \/ log' = log /\ new.order.answer = Conflict
         \/ log' = log /\ new.order.answer = Answer(Version, Block.text)
  BY DEF Ordered, OnlyRow, Elsewhere, counters
<1>2. /\ new.known = old.known /\ new.pending = old.pending /\ new.run = old.run
      /\ HasTask(new) <=> HasTask(old)
  BY <1>1, WorkIs
<1>3. /\ Version \in Nat /\ Version' \in {Version, Version + 1} /\ tasks \in Nat
      /\ \A v \in 1 .. Version : log'[v] = log[v]
      /\ log' = log \/ (Version' = Version + 1 /\ log'[Version + 1] = Entry(Block.text, NoMutation, t, Version))
  BY <1>0, OrderedLog, CountsFit
<1>4. ~HasTask(old) /\ ~HasTask(new) /\ new.run = None
  BY <1>0, <1>1, <1>2 DEF TabsFit, Fits, Busy, HasTask
<1>5. Claims' \subseteq Claims
  BY <1>1, <1>4, ClaimsKept DEF SameTask
<1>6. \/ log' = log /\ Version' = Version
      \/ Grown(NoMutation, t, Block.text)
  <2>1. CASE log' = log
    BY <1>0, <2>1, Unchanged
  <2>2. CASE Version' = Version + 1 /\ log'[Version + 1] = Entry(Block.text, NoMutation, t, Version)
    BY <1>3, <2>2 DEF Grown, Entry
  <2> QED
    BY <1>3, <2>1, <2>2
<1>7. ClaimsFit'
  BY <1>0, <1>1, <1>3, <1>5, <1>6, ClaimsFitKept, ClaimsFitGrown
<1>8. WaitingFits'
  BY <1>0, <1>1, <1>2, <1>5, <1>6, WaitingFitsKept
<1>9. AnswersFit'
  BY <1>0, <1>1, <1>2, <1>3, AnswersFitKept
<1>10. BehindThen(t, tabs'[t])
  <2>1. Behind(t, old)
    BY <1>0, <1>1 DEF BehindFits
  <2>2. ASSUME Good(new.order.answer)
        PROVE  UpToDateThen(new.order.answer.version, t)
    <3>1. CASE log' = Append(log, Entry(Block.text, NoMutation, t, Version))
               /\ new.order.answer = Answer(Version + 1, Block.text)
      <4>1. Version' = Version + 1
        BY <1>0, <3>1 DEF Version, TypeOK
      <4> QED
        BY <3>1, <4>1 DEF UpToDateThen, Answer
    <3>2. CASE log' = log /\ new.order.answer = Answer(Version, Block.text)
      BY <1>0, <3>2, Unchanged DEF UpToDateThen, Answer
    <3> QED
      BY <1>1, <2>2, <3>1, <3>2 DEF Good
  <2>3. ASSUME ~Good(new.order.answer)
        PROVE  UpToDateThen(new.known, t)
    <3>1. log' = log
      <4>1. ASSUME new.order.answer = Answer(Version + 1, Block.text)
            PROVE  FALSE
        <5>1. Answer(Version + 1, Block.text) # Conflict
          BY <1>3 DEF Answer, Conflict
        <5>2. Answer(Version + 1, Block.text) # None
          <6>1. Block.text \in Texts
            BY <1>0, BlockTyped
          <6>2. Answer(Version + 1, Block.text) \in AnswerType({Version + 1})
            BY <6>1 DEF Answer, AnswerType
          <6>3. {Version + 1} \in SUBSET Nat
            BY <1>3
          <6>4. None \notin AnswerType({Version + 1})
            BY <6>3, NotNone
          <6> QED
            BY <6>2, <6>4
        <5> QED
          BY <2>3, <4>1, <5>1, <5>2 DEF Good
      <4> QED
        BY <1>1, <4>1
    <3>2. UpToDate(old.known, t)
      BY <1>1, <1>4, <2>1 DEF Behind, Good
    <3> QED
      BY <1>0, <1>2, <3>1, <3>2, Unchanged DEF UpToDate, Overtaken, UpToDateThen, OvertakenThen
  <2>4. ASSUME NEW a \in Claims', a.source = t
        PROVE  a.expected < Version'
    <3>1. a.expected < Version
      BY <1>4, <1>5, <2>1, <2>4 DEF Behind
    <3>2. a.expected \in 1 .. Version
      BY <1>0, <1>5, <2>4, ClaimTyped
    <3> QED
      BY <1>3, <3>1, <3>2
  <2> QED
    BY <1>1, <1>4, <2>2, <2>3, <2>4 DEF BehindThen
<1>11. BehindFits'
  <2>1. LogOf(t)
    BY <1>3, <1>6 DEF LogOf, Grown
  <2> QED
    BY <1>0, <1>1, <1>5, <1>10, <2>1, BehindNext
<1> QED
  BY <1>7, <1>8, <1>9, <1>11 DEF Ledger

LEMMA ClosedLedger ==
    ASSUME Safety, NEW t \in Tabs, Closed(t)
    PROVE  Ledger'
<1>0. TypeOK /\ TabsFit /\ Bookkeeping /\ ClaimsFit /\ WaitingFits /\ AnswersFit /\ BehindFits
  BY DEF Safety
<1>1. /\ OnlyRow(t) /\ tabs'[t] = ClosedTab /\ log' = log /\ wire' = wire /\ tasks' = tasks
  BY DEF Closed, OnlyRow, Elsewhere, counters
<1>2. Version' = Version /\ Version \in Nat /\ tasks \in Nat
  BY <1>0, <1>1, Unchanged, CountsFit
<1>3. ~HasTask(tabs'[t]) /\ ~Opened(tabs'[t]) /\ tabs'[t].pending = None /\ tabs'[t].run = None
  BY <1>1 DEF ClosedTab, HasTask, Opened
<1>4. Claims' \subseteq Claims
  BY <1>1, <1>3, ClaimsKept DEF SameTask
<1>5. ClaimsFit'
  BY <1>0, <1>1, <1>2, <1>4, ClaimsFitKept
<1>6. WaitingFits'
  BY <1>0, <1>1, <1>3, <1>4, WaitingFitsKept
<1>7. AnswersFit'
  BY <1>0, <1>1, <1>2, <1>3, AnswersFitKept
<1>8. BehindFits'
  <2>1. LogOf(t)
    BY <1>1, <1>2 DEF LogOf
  <2> QED
    BY <1>0, <1>1, <1>3, <1>4, <2>1, BehindNext
<1> QED
  BY <1>5, <1>6, <1>7, <1>8 DEF Ledger

LEMMA LoadedLedger ==
    ASSUME Safety, NEW t \in Tabs, Loaded(t)
    PROVE  Ledger'
<1> DEFINE new == tabs'[t]
<1>0. TypeOK /\ TabsFit /\ Bookkeeping /\ ClaimsFit /\ WaitingFits /\ AnswersFit /\ BehindFits
  BY DEF Safety
<1>1. /\ t = loads + 1 /\ OnlyRow(t) /\ new.known = Version /\ Idle(new)
      /\ log' = log /\ wire' = wire /\ tasks' = tasks
  BY DEF Loaded, OnlyRow, Elsewhere
<1>2. Version' = Version /\ Version \in Nat /\ tasks \in Nat /\ loads \in Nat
  BY <1>0, <1>1, Unchanged, CountsFit
<1>3. ~HasTask(new) /\ new.pending = None /\ new.run = None /\ new.order = None
  BY <1>1 DEF Idle, HasTask
<1>4. Claims' \subseteq Claims
  BY <1>1, <1>3, ClaimsKept DEF SameTask
<1>5. ClaimsFit'
  BY <1>0, <1>1, <1>2, <1>4, ClaimsFitKept
<1>6. WaitingFits'
  BY <1>0, <1>1, <1>3, <1>4, WaitingFitsKept
<1>7. AnswersFit'
  BY <1>0, <1>1, <1>2, <1>3, AnswersFitKept
<1>8. BehindThen(t, tabs'[t])
  <2>1. \A a \in Claims' : a.source # t
    <3>1. \A a \in Claims : a.source <= loads
      BY <1>0, ClaimTyped
    <3> QED
      BY <1>1, <1>2, <1>4, <3>1
  <2> QED
    BY <1>1, <1>2, <1>3, <2>1 DEF BehindThen, UpToDateThen
<1>9. BehindFits'
  <2>1. LogOf(t)
    BY <1>1, <1>2 DEF LogOf
  <2> QED
    BY <1>0, <1>1, <1>4, <1>8, <2>1, BehindNext
<1> QED
  BY <1>5, <1>6, <1>7, <1>9 DEF Ledger

\* A save that succeeded took the tab to the version after the one it knew.
LEMMA ReceivedIs ==
    ASSUME Safety, NEW t \in Tabs, Received(t)
    PROVE  LET old == tabs[t]
               new == tabs'[t] IN
           /\ new.known = old.known + 1 /\ old.known \in 1 .. Version /\ new.known <= Version
           /\ HasTask(old) /\ OfTask(Underway(old)) \in Claims
           /\ OfTask(Underway(old)).expected = old.known
           /\ OfTask(Underway(old)).source = t
           /\ log[new.known].source = t
           /\ log[new.known].mutation = OfTask(Underway(old)).id
           /\ log[new.known].text = OfTask(Underway(old)).text
<1> DEFINE old == tabs[t]
           new == tabs'[t]
           c == OfTask(Underway(old))
<1>0. TypeOK /\ TabsFit /\ Bookkeeping /\ ClaimsFit /\ AnswersFit
  BY DEF Safety
<1>1. Opened(old) /\ old.run # None /\ Good(old.run.answer) /\ new.known = old.run.answer.version
  BY DEF Received
<1>2. HasTask(old) /\ Underway(old) = old.run.task
  BY <1>1 DEF HasTask, Underway
<1>3. /\ Underway(old).source = t /\ Underway(old).pinned = old.known /\ old.known \in 1 .. Version
  BY <1>0, <1>2, UnderwayIs
<1>4. /\ c \in Claims /\ c.id = Underway(old).id /\ c.expected = Underway(old).pinned
      /\ c.source = Underway(old).source
  BY <1>2, ClaimsAre DEF OfTask, Claim
<1>5. /\ new.known = Underway(old).pinned + 1 /\ new.known <= Version
      /\ log[new.known].mutation = Underway(old).id
  BY <1>0, <1>1, <1>2 DEF AnswersFit
<1>6. new.known \in 1 .. Version
  <2>1. Version \in Nat
    BY <1>0, CountsFit
  <2> HIDE DEF new, old
  <2> QED
    BY <1>3, <1>5, <2>1
<1>7. log[new.known].text = c.text /\ log[new.known].source = c.source
  <2> HIDE DEF c
  <2> QED
    BY <1>0, <1>4, <1>5, <1>6 DEF ClaimsFit
<1> QED
  BY <1>2, <1>3, <1>4, <1>5, <1>7

LEMMA ReceivedLedger ==
    ASSUME Safety, NEW t \in Tabs, Received(t)
    PROVE  Ledger'
<1> DEFINE old == tabs[t]
           new == tabs'[t]
           was == OfTask(Underway(old))
<1>0. TypeOK /\ TabsFit /\ Bookkeeping /\ ClaimsFit /\ WaitingFits /\ AnswersFit /\ BehindFits
  BY DEF Safety
<1>1. /\ Opened(old) /\ OnlyRow(t) /\ old.run # None
      /\ new.order = old.order /\ new.retry = None /\ new.pending = None
      /\ \/ new.run = None /\ old.pending = None
         \/ /\ new.run # None /\ old.pending # None /\ new.run.answer = None
            /\ new.run.task = Fixed(new, old.pending)
      /\ SentBy(new) /\ log' = log /\ tasks' = tasks
  BY DEF Received, OnlyRow, counters
<1>2. Version' = Version /\ Version \in Nat /\ tasks \in Nat
  BY <1>0, <1>1, Unchanged, CountsFit
<1>3. /\ new.known = old.known + 1 /\ old.known \in 1 .. Version /\ new.known <= Version
      /\ HasTask(old) /\ was \in Claims /\ was.expected = old.known
      /\ log[new.known].source = t
  BY ReceivedIs
<1>4. new.order = None /\ old.order = None
  BY <1>0, <1>1 DEF TabsFit, Fits, Busy
<1>5. /\ new.run.answer # Conflict \/ new.run = None
      /\ new.run # None => ~Good(new.run.answer)
  BY <1>1, ConflictIs DEF Good
<1>6. AnswersFit'
  BY <1>0, <1>1, <1>2, <1>5, AnswersFitKept
<1>7. LogOf(t)
  BY <1>1, <1>2 DEF LogOf
<1>8. UpToDateThen(new.known, t) /\ \A a \in Claims : a.source = t => a.expected < Version
  <2>1. Behind(t, old)
    BY <1>0, <1>1 DEF BehindFits
  <2>2. \/ Version = old.known \/ Overtaken(old.known, t) \/ Version = old.known + 1
    BY <1>4, <2>1 DEF Behind, UpToDate
  <2>3. ASSUME Overtaken(old.known, t) PROVE UpToDateThen(new.known, t)
    <3>1. PICK v \in old.known + 1 .. Version : log[v].source # t
      BY <2>3 DEF Overtaken
    <3>2. v # new.known
      BY <1>3, <3>1
    <3>3. v \in new.known + 1 .. Version'
      BY <1>2, <1>3, <3>1, <3>2
    <3>4. log'[v].source # t
      BY <1>1, <3>1
    <3>5. OvertakenThen(new.known, t)
      <4> HIDE DEF new
      <4> QED
        BY <3>3, <3>4 DEF OvertakenThen
    <3> QED
      BY <3>5 DEF UpToDateThen
  <2>4. UpToDateThen(new.known, t)
    BY <1>2, <1>3, <2>2, <2>3 DEF UpToDateThen
  <2>5. ASSUME NEW a \in Claims, a.source = t PROVE a.expected < Version
    <3>1. a.expected < Version \/ a.id = Underway(old).id
      BY <2>1, <2>5 DEF Behind
    <3>2. CASE a.id = Underway(old).id
      <4>1. was.id = Underway(old).id
        BY DEF OfTask, Claim
      <4>2. a = was
        <5> HIDE DEF was
        <5> QED
          BY <1>0, <1>3, <2>5, <3>2, <4>1 DEF ClaimsFit
      <4> QED
        BY <1>2, <1>3, <4>2
    <3> QED
      BY <3>1, <3>2
  <2> QED
    BY <2>4, <2>5
<1>9. CASE new.run = None
  <2>1. ~HasTask(new)
    BY <1>1, <1>9 DEF HasTask
  <2>2. Claims' \subseteq Claims
    BY <1>1, <2>1, ClaimsKept DEF SameTask
  <2>3. ClaimsFit'
    BY <1>0, <1>1, <1>2, <2>2, ClaimsFitKept
  <2>4. WaitingFits'
    BY <1>0, <1>1, <2>2, WaitingFitsKept
  <2>5. BehindThen(t, tabs'[t])
    BY <1>2, <1>4, <1>8, <1>9, <2>2 DEF BehindThen
  <2>6. BehindFits'
    BY <1>0, <1>1, <1>7, <2>2, <2>5, BehindNext
  <2> QED
    BY <1>6, <2>3, <2>4, <2>6 DEF Ledger
<1>10. CASE new.run # None
  <2> DEFINE c == OfTask(Underway(new))
  <2>1. /\ HasTask(new) /\ Underway(new) = Fixed(new, old.pending) /\ old.pending # None
    BY <1>1, <1>10 DEF HasTask, Underway
  <2>2. /\ c.id = old.pending.id /\ c.source = t /\ c.id = Underway(new).id
    <3>1. old.pending \in TaskType(1 .. tasks, 1 .. Version)
      BY <1>0, <2>1 DEF TypeOK, TabType
    <3>2. old.pending.source = t
      BY <1>0, <1>1, <2>1 DEF TabsFit, Fits
    <3>3. Fixed(new, old.pending).id = old.pending.id /\ Fixed(new, old.pending).source = t
      BY <3>1, <3>2 DEF Fixed, TaskType
    <3> QED
      BY <2>1, <3>3 DEF OfTask, Claim
  <2> HIDE DEF c
  <2>3. \A a \in Claims' : a \in Claims \/ a = c
    BY <1>1, ClaimsNext DEF c
  <2>4. NewClaim(c)
    BY <1>0, <2>1, <2>2 DEF NewClaim, WaitingFits
  <2>5. ClaimsFit'
    BY <1>0, <1>1, <1>2, <2>3, <2>4, ClaimsFitKept
  <2>6. WaitingFits'
    <3>1. \A u \in Tabs \ {t} : tabs[u].pending # None => tabs[u].pending.id # c.id
      BY <1>0, <2>1, <2>2 DEF WaitingFits
    <3> QED
      BY <1>0, <1>1, <2>3, <3>1, WaitingFitsSent
  <2>7. BehindThen(t, tabs'[t])
    <3>1. \A a \in Claims' : a.source = t =>
              a.expected < Version' \/ (HasTask(new) /\ a.id = Underway(new).id)
      BY <1>2, <1>8, <2>1, <2>2, <2>3
    <3> QED
      BY <1>4, <1>5, <1>8, <3>1 DEF BehindThen
  <2>8. BehindFits'
    BY <1>0, <1>1, <1>7, <2>2, <2>3, <2>7, BehindNext
  <2> QED
    BY <1>6, <2>5, <2>6, <2>8 DEF Ledger
<1> QED
  BY <1>9, <1>10

LEMMA PatchedLedger ==
    ASSUME Safety, NEW request, Patched(request)
    PROVE  Ledger'
<1> DEFINE t == request.source
           old == tabs[t]
           new == tabs'[t]
           c == OfRequest(request)
<1>0. TypeOK /\ TabsFit /\ Bookkeeping /\ ClaimsFit /\ WaitingFits /\ AnswersFit /\ BehindFits
  BY DEF Safety
<1>1. /\ t \in Tabs /\ request \in wire /\ wire' \subseteq wire /\ OnlyRow(t) /\ tasks' = tasks
      /\ new.known = old.known /\ new.pending = old.pending /\ new.retry = old.retry
      /\ new.order = old.order /\ new.source = old.source
      /\ \/ new = old
         \/ /\ Awaits(old, request) /\ Opened(old) /\ new.run # None
            /\ new.run.task = old.run.task /\ new.run.answer = AnswerTo(request)
      /\ \/ /\ ~Replayed(request) /\ Accepted(request) /\ log' # log
            /\ AnswerTo(request) = Answer(Version + 1, request.text)
         \/ /\ Replayed(request) /\ log' = log
            /\ AnswerTo(request) = Answer(Version, Block.text)
         \/ ~Replayed(request) /\ ~Accepted(request) /\ log' = log /\ AnswerTo(request) = Conflict
  <2>1. /\ t \in Tabs /\ request \in wire /\ wire' \subseteq wire /\ OnlyRow(t) /\ tasks' = tasks
        /\ new.known = old.known /\ new.pending = old.pending /\ new.retry = old.retry
        /\ new.order = old.order /\ new.source = old.source
        /\ \/ new = old
           \/ /\ Awaits(old, request) /\ Opened(old) /\ new.run # None
              /\ new.run.task = old.run.task /\ new.run.answer = AnswerTo(request)
    BY DEF Patched, SameRow, OnlyRow, counters
  <2>2. Version' = Version + 1 => log' # log
    <3>1. Version \in Nat /\ (log' = log => Version' = Version)
      BY <1>0, Unchanged, CountsFit
    <3> QED
      BY <3>1
  <2>3. \/ /\ ~Replayed(request) /\ Accepted(request) /\ Version' = Version + 1
           /\ AnswerTo(request) = Answer(Version + 1, request.text)
        \/ /\ Replayed(request) /\ log' = log
           /\ AnswerTo(request) = Answer(Version, Block.text)
        \/ ~Replayed(request) /\ ~Accepted(request) /\ log' = log /\ AnswerTo(request) = Conflict
    BY DEF Patched
  <2> QED
    BY <2>1, <2>2, <2>3
<1>2. /\ Version \in Nat /\ Version' \in {Version, Version + 1} /\ tasks \in Nat
      /\ \A v \in 1 .. Version : log'[v] = log[v]
      /\ \/ log' = log /\ Version' = Version
         \/ /\ Version' = Version + 1 /\ Accepted(request)
            /\ log'[Version + 1].text = request.text
            /\ log'[Version + 1].mutation = request.id
            /\ log'[Version + 1].source = request.source
  BY <1>0, PatchedLog, CountsFit, Unchanged
<1>3. /\ c \in Claims /\ c.id = request.id /\ c.source = t /\ c.expected = request.expected
      /\ c.text = request.text
  BY <1>1, ClaimsAre DEF OfRequest, Claim
<1>4. /\ HasTask(new) <=> HasTask(old)
      /\ HasTask(old) => Underway(new) = Underway(old)
  BY <1>1 DEF HasTask, Underway, Awaits
<1>5. Claims' \subseteq Claims
  BY <1>1, <1>4, ClaimsKept DEF SameTask
<1>6. LogOf(t)
  BY <1>2 DEF LogOf
\* The tab that waits knew the version its request was based on.
<1>7. ASSUME Awaits(old, request)
      PROVE  /\ HasTask(old) /\ old.run # None /\ old.run.task.id = request.id
             /\ old.run.task.pinned = request.expected /\ old.run.task.text = request.text
             /\ old.known = request.expected /\ Underway(old) = old.run.task
  <2>1. old.run # None /\ old.run.task.id = request.id /\ HasTask(old)
    BY <1>7 DEF Awaits, HasTask
  <2>2. Underway(old) = old.run.task
    BY <2>1 DEF Underway
  <2>3. OfTask(old.run.task) \in Claims /\ OfTask(old.run.task).id = request.id
    BY <1>1, <2>1, <2>2, ClaimsAre DEF OfTask, Claim
  <2>4. OfTask(old.run.task) = c
    <3> HIDE DEF c, old
    <3> QED
      BY <1>0, <1>3, <2>3 DEF ClaimsFit
  <2>5. old.run.task.pinned = request.expected /\ old.run.task.text = request.text
    BY <2>4 DEF OfTask, OfRequest, Claim
  <2>6. old.known = old.run.task.pinned
    BY <1>0, <1>1, <2>1, <2>2, UnderwayIs
  <2> QED
    BY <2>1, <2>2, <2>5, <2>6
<1>8. log' = log \/ Grown(request.id, t, request.text)
  <2> HIDE DEF c
  <2> QED
    BY <1>2, <1>3 DEF Grown, Accepted
<1>9. ClaimsFit'
  BY <1>0, <1>1, <1>2, <1>5, <1>8, ClaimsFitKept, ClaimsFitGrown
<1>10. WaitingFits'
  BY <1>0, <1>1, <1>5, <1>8, WaitingFitsKept
<1>11. request.expected \in 1 .. Version /\ request.expected \in Nat
  <2>1. request.expected \in 1 .. Version
    BY <1>0, <1>3, ClaimTyped
  <2> QED
    BY <1>2, <2>1
<1>12. AnswersFit'
  <2>1. ASSUME new # old, Good(new.run.answer)
        PROVE  Told(t)
    <3>1. /\ Awaits(old, request) /\ new.run.task = old.run.task
          /\ new.run.answer = AnswerTo(request)
      BY <1>1, <2>1
    <3>2. /\ new.run.task.id = request.id /\ new.run.task.pinned = request.expected
          /\ new.run.task.text = request.text
      BY <1>7, <3>1
    <3>3. CASE ~Replayed(request) /\ Accepted(request) /\ log' # log
               /\ AnswerTo(request) = Answer(Version + 1, request.text)
      BY <1>2, <3>1, <3>2, <3>3 DEF Told, Answer, Accepted
    <3>4. CASE Replayed(request) /\ log' = log /\ AnswerTo(request) = Answer(Version, Block.text)
      <4>1. log[Version].mutation = request.id /\ Version \in 1 .. Version
        BY <1>0, <1>2, <3>4 DEF Replayed, Block, Bookkeeping
      <4>2. Version = request.expected + 1 /\ log[Version].text = request.text
        <5> HIDE DEF c
        <5> QED
          BY <1>0, <1>3, <4>1 DEF ClaimsFit
      <4> QED
        BY <1>2, <3>1, <3>2, <3>4, <4>1, <4>2 DEF Told, Answer, Block
    <3> QED
      BY <1>1, <2>1, <3>1, <3>3, <3>4 DEF Good
  <2> QED
    BY <1>0, <1>1, <1>2, <2>1, AnswersFitKept
<1>13. ASSUME Opened(new) PROVE BehindThen(t, tabs'[t])
  <2>1. Opened(old) /\ Behind(t, old) /\ old.known \in 1 .. Version
    BY <1>0, <1>1, <1>13, OpenTabFits DEF BehindFits, Opened
  <2>2. \A n \in Nat : Overtaken(n, t) => OvertakenThen(n, t)
    BY <1>0, <1>6, OvertakenKept
  <2>3. old.known \in Nat /\ Version \in Nat
    BY <1>2, <2>1
  <2>4. CASE log' = log /\ Version' = Version
    <3>1. \A n : UpToDate(n, t) => UpToDateThen(n, t)
      BY <2>4 DEF UpToDate, UpToDateThen, Overtaken, OvertakenThen
    <3>2. ASSUME new.run # None, new.run.answer = Conflict
          PROVE  OvertakenThen(new.known, t)
      <4>1. CASE new = old
        BY <1>1, <2>1, <2>2, <2>3, <3>2, <4>1 DEF Behind
      <4>2. CASE new # old
        <5>1. Awaits(old, request) /\ AnswerTo(request) = Conflict
          BY <1>1, <3>2, <4>2
        <5>2. ~Replayed(request) /\ ~Accepted(request)
          <6>1. Answer(Version, Block.text) # Conflict
            <7>1. Version # 0
              BY <1>0, <2>3 DEF Bookkeeping
            <7> QED
              BY <7>1 DEF Answer, Conflict
          <6> QED
            BY <1>1, <2>4, <5>1, <6>1
        <5>3. old.known # Version /\ log[Version].mutation # Underway(old).id
          BY SMTT(60), <1>7, <5>1, <5>2 DEF Accepted, Replayed, Block
        <5>4. old.order = None
          BY <1>0, <1>1, <1>7, <2>1, <5>1 DEF TabsFit, Fits, Busy
        <5>5. Overtaken(old.known, t)
          BY <2>1, <5>3, <5>4 DEF Behind, UpToDate
        <5> QED
          BY <1>1, <2>2, <2>3, <5>5
      <4> QED
        BY <4>1, <4>2
    <3>3. \A a \in Claims' : a.source = t =>
             a.expected < Version' \/ (HasTask(new) /\ a.id = Underway(new).id)
      BY <1>4, <1>5, <2>1, <2>4 DEF Behind
    <3>4. IF new.order # None /\ Good(new.order.answer)
          THEN UpToDateThen(new.order.answer.version, t)
          ELSE \/ UpToDateThen(new.known, t)
               \/ /\ HasTask(new) /\ Version' = new.known + 1
                  /\ log'[Version'].mutation = Underway(new).id
      BY <1>1, <1>4, <2>1, <2>4, <3>1 DEF Behind
    <3> QED
      BY <3>2, <3>3, <3>4 DEF BehindThen
  <2>5. CASE Version' = Version + 1 /\ Accepted(request) /\ log'[Version + 1].mutation = request.id
    <3>1. HasTask(old) /\ request.id = Underway(old).id
      <4>1. ~(c.expected < Version)
        BY <1>3, <2>3, <2>5 DEF Accepted
      <4>2. c.source = t => c.expected < Version \/ (HasTask(old) /\ c.id = Underway(old).id)
        <5> HIDE DEF c
        <5> QED
          BY <1>3, <2>1 DEF Behind
      <4> QED
        BY <1>3, <4>1, <4>2
    <3>2. old.known = Version
      <4>1. /\ OfTask(Underway(old)) \in Claims /\ OfTask(Underway(old)).id = request.id
            /\ OfTask(Underway(old)).expected = old.known
        BY <1>0, <1>1, <3>1, ClaimsAre, UnderwayIs DEF OfTask, Claim
      <4>2. OfTask(Underway(old)) = c
        <5> HIDE DEF c, old
        <5> QED
          BY <1>0, <1>3, <4>1 DEF ClaimsFit
      <4> QED
        BY <1>3, <2>5, <4>1, <4>2 DEF Accepted
    <3>3. new.order = None /\ HasTask(new) /\ Underway(new).id = request.id
      BY <1>0, <1>1, <1>4, <2>1, <3>1 DEF TabsFit, Fits, Busy, HasTask
    <3>4. ~(new.run # None /\ new.run.answer = Conflict) \/ OvertakenThen(new.known, t)
      <4>1. CASE new = old
        BY <1>1, <2>1, <2>2, <2>3, <4>1 DEF Behind
      <4>2. CASE new # old
        <5>1. new.run.answer = Answer(Version + 1, request.text)
          <6>1. log' # log
            BY <1>0, <2>3, <2>5, Unchanged
          <6> QED
            BY <1>1, <4>2, <6>1
        <5>2. Answer(Version + 1, request.text) # Conflict
          BY <2>3 DEF Answer, Conflict
        <5> QED
          BY <5>1, <5>2
      <4> QED
        BY <4>1, <4>2
    <3>5. \A a \in Claims' : a.expected < Version'
      <4>1. \A a \in Claims : a.expected \in 1 .. Version
        BY <1>0, ClaimTyped
      <4> QED
        BY <1>5, <2>3, <2>5, <4>1
    <3>6. Version' = new.known + 1 /\ log'[Version'].mutation = Underway(new).id
      BY <1>1, <2>5, <3>2, <3>3
    <3> QED
      BY <3>3, <3>4, <3>5, <3>6 DEF BehindThen
  <2> QED
    BY <1>2, <2>4, <2>5
<1>14. BehindFits'
  <2>1. \A a \in Claims' : a \in Claims \/ a.source = t
    BY <1>5
  <2> HIDE DEF t
  <2> QED
    BY <1>0, <1>1, <1>6, <1>13, <2>1, BehindNext
<1> QED
  BY <1>9, <1>10, <1>12, <1>14 DEF Ledger

-----------------------------------------------------------------------------
(***************************************************************************)
(* The invariant.                                                          *)
(***************************************************************************)
LEMMA StepSafe ==
    ASSUME Safety, Framed, NEW t \in Tabs, StepOf(t)
    PROVE  Safety'
<1>0. TypeOK /\ TabsFit /\ Bookkeeping /\ AnswersFit
  BY DEF Safety
<1>1. (TypeOK /\ TabsFit)'
  <2>1. CASE \E task : Admitted(t, task)
    BY <1>0, <2>1, AdmittedTyped
  <2> QED
    BY <1>0, <2>1, RedrawnTyped, EditedTyped, OutdatedTyped, ResumedTyped, RefusedTyped, LostTyped,
       ReceivedTyped, OrderedTyped, OrderTakenTyped, ClosedTyped, LoadedTyped DEF StepOf
<1>2. Bookkeeping'
  <2>1. CASE \E task : Admitted(t, task)
    BY <1>0, <1>1, <2>1, AdmittedBooks
  <2> QED
    BY <1>0, <1>1, <2>1, RedrawnBooks, EditedBooks, SavingBooks, OrderBooks, ReceivedBooks,
       LoadedBooks DEF StepOf
<1>3. Ledger'
  <2>1. CASE \E task : Admitted(t, task)
    BY <2>1, AdmittedLedger
  <2> QED
    BY <2>1, RedrawnLedger, EditedLedger, OutdatedLedger, ResumedLedger, RefusedLedger, LostLedger,
       ReceivedLedger, OrderedLedger, OrderTakenLedger, ClosedLedger, LoadedLedger DEF StepOf
<1> QED
  BY <1>1, <1>2, <1>3 DEF Safety, Ledger

LEMMA NextSafe ==
    ASSUME Safety, Next
    PROVE  Safety'
<1>1. TypeOK /\ TabsFit /\ Bookkeeping /\ AnswersFit
  BY DEF Safety
<1>2. Framed
  BY <1>1, FramedStep
<1>3. CASE \E t \in Tabs : StepOf(t)
  BY <1>2, <1>3, StepSafe
<1>4. ASSUME NEW request, Patched(request)
      PROVE  Safety'
  <2>1. (TypeOK /\ TabsFit)'
    BY <1>1, <1>2, <1>4, PatchedTyped
  <2>2. Bookkeeping'
    BY <1>1, <1>4, <2>1, PatchedBooks
  <2>3. Ledger'
    BY <1>4, PatchedLedger
  <2> QED
    BY <2>1, <2>2, <2>3 DEF Safety, Ledger
<1> QED
  BY <1>1, <1>3, <1>4, StepIs

LEMMA StutterSafe ==
    ASSUME Safety, UNCHANGED vars
    PROVE  Safety'
<1>0. UNCHANGED <<log, drafts, tabs, wire, edits, typedOver, tasks, loads, saves, failures, interruptions>>
  BY DEF vars, counters
<1>1. TypeOK /\ TabsFit /\ Bookkeeping /\ ClaimsFit /\ WaitingFits /\ AnswersFit /\ BehindFits
  BY DEF Safety
<1>2. Version' = Version /\ Revisions' = Revisions /\ Waiting' = Waiting
  BY <1>0 DEF Version, Revisions, Waiting
<1>3. Claims' = Claims
  BY <1>0 DEF Claims, HasTask, Underway, OfTask, OfRequest, Claim
<1>4. TypeOK'
  BY <1>0, <1>1, <1>2 DEF TypeOK
<1>5. TabsFit'
  BY <1>0, <1>1, <1>2 DEF TabsFit, Fits, Opened, Unresolved, Busy, HasTask, Good, Conflict, Answer
<1>6. Bookkeeping'
  BY <1>0, <1>1, <1>2 DEF Bookkeeping, Opened
<1>7. ClaimsFit' /\ WaitingFits' /\ AnswersFit'
  BY <1>0, <1>1, <1>2, <1>3 DEF ClaimsFit, WaitingFits, AnswersFit, Good, Conflict, Answer
<1>8. BehindFits'
  BY <1>0, <1>1, <1>2, <1>3
     DEF BehindFits, Behind, Opened, UpToDate, Overtaken, Good, Conflict, Answer, HasTask, Underway
<1> QED
  BY <1>4, <1>5, <1>6, <1>7, <1>8 DEF Safety

LEMMA InitSafe == Init => Safety
<1> SUFFICES ASSUME Init PROVE Safety
  OBVIOUS
<1>1. /\ MaxEdits \in Nat /\ MaxLoads \in Nat /\ MaxSaves \in Nat
      /\ MaxFailures \in Nat /\ MaxInterruptions \in Nat
  BY SavingAssumption
<1>2. /\ Len(log) = 1 /\ Version = 1 /\ log[1] = Entry(0, NoMutation, 0, 0)
  BY DEF Init, Version
<1>3. \A t \in Tabs : tabs[t] = ClosedTab
  BY DEF Init
<1>4. \A t \in Tabs : /\ ~Opened(tabs[t]) /\ ~HasTask(tabs[t]) /\ tabs[t].pending = None
                      /\ tabs[t].run = None /\ tabs[t].admitting = {}
  BY <1>3 DEF ClosedTab, Opened, HasTask
<1>5. wire = {} /\ tasks = 0 /\ saves = 0 /\ loads = 0 /\ edits = 0
      /\ \A s \in Sources : drafts[s] = None
  BY DEF Init
<1>6. Claims = {}
  BY <1>4, <1>5 DEF Claims
<1>7. TypeOK
  <2>1. log \in Seq([text : Texts, mutation : Nat, source : Nat, seen : Nat])
    <3>1. Entry(0, NoMutation, 0, 0) \in [text : Texts, mutation : Nat, source : Nat, seen : Nat]
      BY <1>1 DEF Entry, NoMutation, Texts
    <3> QED
      BY <3>1 DEF Init
  <2>2. tabs \in [Tabs -> TabType(1 .. tasks, 1 .. Version)]
    <3>1. ClosedTab \in TabType(1 .. tasks, 1 .. Version)
      BY ClosedTabTyped
    <3> QED
      BY <3>1 DEF Init
  <2>3. /\ drafts \in [Sources -> DraftType \cup {None}] /\ wire = {}
        /\ edits = 0 /\ typedOver = {} /\ tasks = 0 /\ loads = 0 /\ saves = 0 /\ failures = 0
        /\ interruptions = 0
    BY DEF Init
  <2>4. edits \in Texts
    BY <1>1, <2>3 DEF Texts
  <2> QED
    BY <1>1, <2>1, <2>2, <2>3, <2>4 DEF TypeOK
<1>8. TabsFit
  BY <1>4 DEF TabsFit
<1>9. Bookkeeping
  <2>1. Waiting = {}
    BY <1>4 DEF Waiting
  <2>2. IsFiniteSet(Waiting) /\ Cardinality(Waiting) = 0
    BY <2>1, FS_EmptySet
  <2>3. \A v \in 1 .. Version : log[v].source <= loads
    BY <1>2, <1>5 DEF Entry
  <2> QED
    BY <1>2, <1>3, <1>5, <2>2, <2>3 DEF Bookkeeping, Sources
<1>10. ClaimsFit
  BY <1>2, <1>5, <1>6 DEF ClaimsFit, Entry, NoMutation
<1>11. WaitingFits /\ AnswersFit /\ BehindFits
  BY <1>4 DEF WaitingFits, AnswersFit, BehindFits
<1> QED
  BY <1>7, <1>8, <1>9, <1>10, <1>11 DEF Safety

\* Whatever happens to the tabs, the requests and the answers, a mutation id
\* is one task, a task is based on the version its tab knows, and a tab is
\* behind the server only for a reason: the invariant of the editor's queue.
THEOREM SavingIsSafe == Spec => []Safety
<1>1. Safety /\ [Next]_vars => Safety'
  BY NextSafe, StutterSafe
<1> QED
  BY InitSafe, <1>1, PTL DEF Spec

\* Types and ranges; no version a tab, a draft or a request holds is one the
\* server has not given.
THEOREM TypesHold == Spec => []TypeOK
<1>1. Safety => TypeOK
  BY DEF Safety
<1> QED
  BY SavingIsSafe, <1>1, PTL

\* A conflict is reported only when somebody else changed the block: a tab
\* never takes its own save, answered late or twice, for somebody else's.
THEOREM ConflictsHold == Spec => ConflictsAreReal
<1> DEFINE Real == \A t \in Tabs : ReceiveConflict(t) =>
              \E v \in tabs[t].run.task.pinned + 1 .. Version : log[v].source # tabs[t].source
<1>1. ASSUME Safety, NEW t \in Tabs, ReceiveConflict(t)
      PROVE  \E v \in tabs[t].run.task.pinned + 1 .. Version : log[v].source # tabs[t].source
  <2>1. Opened(tabs[t]) /\ tabs[t].run # None /\ tabs[t].run.answer = Conflict
    BY <1>1 DEF ReceiveConflict, Answered
  <2>2. Overtaken(tabs[t].known, t)
    BY <1>1, <2>1 DEF Safety, BehindFits, Behind
  <2>3. tabs[t].run.task.pinned = tabs[t].known /\ tabs[t].source = t
    BY <1>1, <2>1 DEF Safety, TabsFit, Fits
  <2> QED
    BY <2>2, <2>3 DEF Overtaken
<1>2. Safety => Real
  BY <1>1
<1>3. Safety /\ [Next]_vars => [Real]_vars
  BY <1>2
<1> QED
  BY SavingIsSafe, <1>3, PTL DEF Spec, ConflictsAreReal, Real

-----------------------------------------------------------------------------
(***************************************************************************)
(* What is overwritten has been seen, when the page is reordered with      *)
(* lists that have the block.                                              *)
(***************************************************************************)

\* The same of the state after the step.
TextedThen(v) == v > 1 => log'[v].text # log'[v - 1].text
CoversThen(known, seen) == \A w \in 1 .. known : TextedThen(w) => w <= seen

LEMMA TextedKept ==
    ASSUME TypeOK, \A v \in 1 .. Version : log'[v] = log[v]
    PROVE  \A v \in 1 .. Version : TextedThen(v) <=> Texted(v)
<1>1. Version \in Nat
  BY CountsFit
<1>2. ASSUME NEW v \in 1 .. Version PROVE TextedThen(v) <=> Texted(v)
  <2>1. v > 1 => v - 1 \in 1 .. Version
    BY <1>1
  <2> QED
    BY <2>1 DEF Texted, TextedThen
<1> QED
  BY <1>2

LEMMA CoversKept ==
    ASSUME TypeOK, \A v \in 1 .. Version : log'[v] = log[v]
    PROVE  \A n \in 0 .. Version : \A s : CoversThen(n, s) <=> Covers(n, s)
<1>1. Version \in Nat
  BY CountsFit
<1>2. ASSUME NEW n \in 0 .. Version, NEW s PROVE CoversThen(n, s) <=> Covers(n, s)
  <2>1. \A w \in 1 .. n : w \in 1 .. Version
    BY <1>1
  <2> QED
    BY <2>1, TextedKept DEF Covers, CoversThen
<1> QED
  BY <1>2

\* What the answer to a reorder of t is said to be.
OrderSeen(t, tab) ==
    tab.order # None /\ Good(tab.order.answer) =>
        LET answer == tab.order.answer IN
        /\ \A v \in tab.known + 1 .. answer.version : ~TextedThen(v) /\ log'[v].source = t
        /\ answer.version \in 1 .. Version' /\ answer.text = log'[answer.version].text

\* What a step of one tab has to show.
SeenThen(t) ==
    LET new == tabs'[t]
    IN  /\ OnlyRow(t) /\ (SentBy(new) \/ wire' \subseteq wire)
        /\ Opened(new) => CoversThen(new.known, new.seen) \/ Unresolved(new)
        /\ SameTask(t) \/ CoversThen(Underway(new).pinned, Underway(new).seen)
        /\ OrderSeen(t, new)

LEMMA OrderSeenKept ==
    ASSUME Safety, SeenFits, NEW t \in Tabs, LogOf(t), NEW u \in Tabs,
           tabs'[u].order = tabs[u].order, tabs'[u].known = tabs[u].known
    PROVE  OrderSeen(u, tabs'[u])
<1> DEFINE tab == tabs[u]
           version == tab.order.answer.version
<1>1. /\ Version \in Nat /\ Version' \in Nat /\ Version <= Version'
      /\ \A v \in 1 .. Version : log'[v] = log[v]
  BY CountsFit DEF Safety, LogOf
<1> SUFFICES ASSUME tab.order # None, Good(tab.order.answer)
             PROVE  OrderSeen(u, tabs'[u])
  BY DEF OrderSeen
<1>2. /\ \A v \in tab.known + 1 .. version : ~Texted(v) /\ log[v].source = u
      /\ version \in 1 .. Version /\ tab.order.answer.text = log[version].text
  BY DEF SeenFits
<1>3. Opened(tab)
  BY DEF Safety, Bookkeeping, ClosedTab
<1>4. tab.known \in 1 .. Version
  BY <1>3, OpenTabFits DEF Safety
<1>5. \A v \in 1 .. Version : TextedThen(v) <=> Texted(v)
  BY <1>1, TextedKept DEF Safety
<1> HIDE DEF tab, version
<1>6. \A v \in tab.known + 1 .. version : v \in 1 .. Version
  BY <1>1, <1>2, <1>4
<1>7. \A v \in tab.known + 1 .. version : ~TextedThen(v) /\ log'[v].source = u
  BY <1>1, <1>2, <1>5, <1>6
<1>8. version \in 1 .. Version' /\ log'[version] = log[version]
  BY <1>1, <1>2
<1> QED
  BY <1>2, <1>7, <1>8 DEF OrderSeen, tab, version

LEMMA SeenNext ==
    ASSUME Safety, SeenFits, NEW t \in Tabs, LogOf(t), SeenThen(t)
    PROVE  SeenFits'
<1>0. TypeOK /\ TabsFit /\ Bookkeeping
  BY DEF Safety
<1>1. /\ Version \in Nat /\ Version' \in Nat /\ Version <= Version'
      /\ \A v \in 1 .. Version : log'[v] = log[v]
  BY <1>0, CountsFit DEF LogOf
<1>2. \A n \in 0 .. Version : \A s : CoversThen(n, s) <=> Covers(n, s)
  BY <1>0, <1>1, CoversKept
<1>3. OnlyRow(t) /\ (SentBy(tabs'[t]) \/ wire' \subseteq wire)
  BY DEF SeenThen
<1>4. ASSUME NEW u \in Tabs, Opened(tabs'[u])
      PROVE  CoversThen(tabs'[u].known, tabs'[u].seen) \/ Unresolved(tabs'[u])
  <2>1. CASE u = t
    BY <1>4, <2>1 DEF SeenThen
  <2>2. CASE u # t
    <3>1. tabs'[u] = tabs[u]
      BY <1>3, <2>2 DEF OnlyRow
    <3>2. Opened(tabs[u])
      BY <1>4, <3>1
    <3>3. tabs[u].known \in 0 .. Version
      <4>1. tabs[u].known \in 1 .. Version
        BY <1>0, <3>2, OpenTabFits
      <4> QED
        BY <1>1, <4>1
    <3>4. Covers(tabs[u].known, tabs[u].seen) \/ Unresolved(tabs[u])
      BY <3>2 DEF SeenFits
    <3> QED
      BY <1>2, <3>1, <3>3, <3>4
  <2> QED
    BY <2>1, <2>2
<1>5. ASSUME NEW a \in Claims' PROVE CoversThen(a.expected, a.seen)
  <2>1. CASE a \in Claims
    <3>1. a.expected \in 1 .. Version
      BY <1>0, <2>1, ClaimTyped
    <3>2. a.expected \in 0 .. Version
      BY <1>1, <3>1
    <3> QED
      BY <1>2, <2>1, <3>2 DEF SeenFits
  <2>2. CASE a \notin Claims
    <3>1. HasTask(tabs'[t]) /\ a = OfTask(Underway(tabs'[t]))
      BY <1>3, <2>2, ClaimsNext
    <3>2. ~SameTask(t)
      BY <2>2, <3>1, ClaimsAre DEF SameTask
    <3> QED
      BY <3>1, <3>2 DEF SeenThen, OfTask, Claim
  <2> QED
    BY <2>1, <2>2
<1>6. ASSUME NEW u \in Tabs PROVE OrderSeen(u, tabs'[u])
  <2>1. CASE u = t
    BY <2>1 DEF SeenThen
  <2>2. CASE u # t
    <3>1. tabs'[u] = tabs[u]
      BY <1>3, <2>2 DEF OnlyRow
    <3> QED
      BY <3>1, OrderSeenKept
  <2> QED
    BY <2>1, <2>2
<1> QED
  BY <1>4, <1>5, <1>6
     DEF SeenFits, OrderSeen, Opened, Unresolved, Covers, CoversThen, Texted, TextedThen, Good,
         Conflict, Answer

\* The log of a step of one tab.
LEMMA StepLog ==
    ASSUME TypeOK, Bookkeeping, NEW t \in Tabs, StepOf(t)
    PROVE  LogOf(t)
<1>1. CASE Ordered(t)
  <2>1. /\ Version \in Nat /\ \A v \in 1 .. Version : log'[v] = log[v]
        /\ \/ log' = log
           \/ /\ Version' = Version + 1
              /\ log'[Version + 1] = Entry(Block.text, NoMutation, t, Version)
    BY <1>1, OrderedLog
  <2> QED
    BY <2>1, Unchanged DEF LogOf, Entry
<1>2. CASE log' = log
  BY <1>2, Unchanged DEF LogOf
<1>3. CASE \E task : Admitted(t, task)
  BY <1>2, <1>3 DEF Admitted
<1>4. CASE ~(\E task : Admitted(t, task)) /\ ~Ordered(t)
  <2>1. log' = log
    BY <1>4 DEF StepOf, Redrawn, Edited, Outdated, Resumed, Refused, Lost, Received, OrderTaken,
                Closed, Loaded
  <2> QED
    BY SMTT(60), <1>2, <2>1
<1> QED
  BY <1>1, <1>3, <1>4

\* Steps that keep the row's origin and all that it is based on.
LEMMA SeenStays ==
    ASSUME Safety, SeenFits, NEW t \in Tabs, OnlyRow(t), SentBy(tabs'[t]) \/ wire' \subseteq wire,
           Opened(tabs'[t]) => Opened(tabs[t]), LogOf(t), SameTask(t),
           tabs'[t].known = tabs[t].known,
           \/ /\ tabs'[t].seen = tabs[t].seen
              /\ Unresolved(tabs[t]) => Unresolved(tabs'[t])
           \/ tabs'[t].seen = tabs[t].known,
           OrderSeen(t, tabs'[t])
    PROVE  SeenFits'
<1> DEFINE old == tabs[t]
           new == tabs'[t]
<1>0. TypeOK /\ TabsFit /\ Bookkeeping
  BY DEF Safety
<1>2. ASSUME Opened(new)
      PROVE  CoversThen(new.known, new.seen) \/ Unresolved(new)
  <2>0. Opened(old)
    BY <1>2
  <2>3. old.known \in 1 .. Version /\ Version \in Nat
    BY <1>0, <2>0, OpenTabFits, CountsFit
  <2>1. CASE new.seen = old.known
    <3>1. \A w \in 1 .. old.known : w <= old.known
      BY <2>3
    <3> QED
      BY <2>1, <3>1 DEF CoversThen
  <2>2. CASE new.seen = old.seen /\ (Unresolved(old) => Unresolved(new))
    <3>1. Covers(old.known, old.seen) \/ Unresolved(old)
      BY <2>0 DEF SeenFits
    <3>2. old.known \in 0 .. Version
      BY <2>3
    <3>3. CoversThen(old.known, old.seen) <=> Covers(old.known, old.seen)
      <4> HIDE DEF old
      <4> QED
        BY <1>0, <3>2, CoversKept DEF LogOf
    <3> QED
      BY <2>2, <3>1, <3>3
  <2> QED
    BY <2>1, <2>2
<1>3. SeenThen(t)
  BY <1>2 DEF SeenThen
<1> QED
  BY <1>3, SeenNext

LEMMA NoOrderSeen ==
    ASSUME NEW t \in Tabs, tabs'[t].order # None => ~Good(tabs'[t].order.answer)
    PROVE  OrderSeen(t, tabs'[t])
BY DEF OrderSeen

\* Rows built again, edited, asked about, or saved without a new task.
LEMMA RowSeen ==
    ASSUME Safety, SeenFits, NEW t \in Tabs,
           \/ Redrawn(t) \/ Edited(t) \/ Outdated(t) \/ Resumed(t) \/ Refused(t) \/ Lost(t)
    PROVE  SeenFits'
<1> DEFINE old == tabs[t]
           new == tabs'[t]
<1>0. TypeOK /\ TabsFit /\ Bookkeeping
  BY DEF Safety
<1>1. LogOf(t)
  BY <1>0, StepLog DEF StepOf
<1>2. CASE Redrawn(t)
  <2>1. /\ Opened(old) /\ OnlyRow(t) /\ Work(new) = Work(old) /\ wire' = wire
        /\ new.origin = old.origin
        /\ new.order # None => new.order.answer = None
        /\ \/ new.seen = old.seen
           \/ new.seen = old.known
    BY <1>2 DEF Redrawn, OnlyRow, Elsewhere
  <2>2. SameTask(t) /\ new.known = old.known
    BY <2>1, WorkIs DEF SameTask
  <2>3. OrderSeen(t, tabs'[t])
    BY <2>1, NoOrderSeen DEF Good
  <2> QED
    BY <1>1, <2>1, <2>2, <2>3, SeenStays DEF Unresolved
<1>3. CASE Edited(t)
  <2>1. /\ Opened(old) /\ OnlyRow(t) /\ Work(new) = Work(old) /\ wire' = wire /\ new.order = None
        /\ \/ new.seen = old.seen /\ new.origin = old.origin
           \/ new.seen = old.known
    BY <1>3 DEF Edited, OnlyRow, Elsewhere
  <2>2. SameTask(t) /\ new.known = old.known
    BY <2>1, WorkIs DEF SameTask
  <2> QED
    BY <1>1, <2>1, <2>2, NoOrderSeen, SeenStays DEF Unresolved
<1>4. CASE Outdated(t)
  <2>1. /\ Opened(old) /\ OnlyRow(t) /\ Work(new) = Work(old) /\ wire' = wire
        /\ new.order = old.order /\ new.seen = old.seen /\ new.origin = old.origin
    BY <1>4 DEF Outdated, SameRow, OnlyRow, Elsewhere
  <2>2. SameTask(t) /\ new.known = old.known
    BY <2>1, WorkIs DEF SameTask
  <2> QED
    BY <1>1, <2>1, <2>2, OrderSeenKept, SeenStays DEF Unresolved
<1>5. CASE Resumed(t)
  <2>1. /\ Opened(old) /\ OnlyRow(t) /\ SentBy(new) /\ new.known = old.known
        /\ new.order = old.order /\ new.seen = old.seen /\ new.origin = old.origin
        /\ old.run = None /\ old.retry # None /\ new.run # None /\ new.run.task = old.retry
    BY <1>5 DEF Resumed, SameRow, OnlyRow, Elsewhere
  <2>2. SameTask(t)
    BY <2>1 DEF SameTask, HasTask, Underway
  <2> QED
    BY <1>1, <2>1, <2>2, OrderSeenKept, SeenStays DEF Unresolved
<1>6. CASE Refused(t)
  <2>1. /\ Opened(old) /\ OnlyRow(t) /\ wire' = wire /\ new.known = old.known
        /\ new.order = old.order /\ new.seen = old.seen /\ new.origin = old.origin
        /\ old.run # None /\ new.run = None /\ new.retry = old.retry
    BY <1>6 DEF Refused, SameRow, OnlyRow, Elsewhere
  <2>2. SameTask(t)
    BY <1>0, <2>1 DEF SameTask, HasTask, TabsFit, Fits
  <2> QED
    BY <1>1, <2>1, <2>2, OrderSeenKept, SeenStays DEF Unresolved
<1>7. CASE Lost(t)
  <2>1. /\ Opened(old) /\ OnlyRow(t) /\ wire' = wire /\ new.known = old.known
        /\ new.order = old.order /\ new.seen = old.seen /\ new.origin = old.origin
        /\ old.run # None /\ new.run = None /\ new.retry = old.run.task
    BY <1>7 DEF Lost, SameRow, OnlyRow, Elsewhere
  <2>2. SameTask(t)
    BY <2>1 DEF SameTask, HasTask, Underway
  <2> QED
    BY <1>1, <2>1, <2>2, OrderSeenKept, SeenStays DEF Unresolved
<1> QED
  BY <1>2, <1>3, <1>4, <1>5, <1>6, <1>7

LEMMA AdmittedSeen ==
    ASSUME Safety, SeenFits, NEW t \in Tabs, NEW task, Admitted(t, task)
    PROVE  SeenFits'
<1> DEFINE old == tabs[t]
           new == tabs'[t]
<1>0. TypeOK /\ TabsFit /\ Bookkeeping
  BY DEF Safety
<1>1. /\ Opened(old) /\ OnlyRow(t) /\ new.known = old.known /\ new.seen = old.seen
      /\ new.order = old.order /\ new.origin = old.origin /\ ~old.conflict
      /\ new.run # None
      /\ HasTask(old) => new.run.task = Underway(old)
      /\ ~HasTask(old) => new.run.task = Fixed(old, task)
      /\ (new.run = old.run /\ wire' = wire) \/ SentBy(new)
      /\ log' = log
  BY DEF Admitted, SameRow, OnlyRow, Elsewhere
<1>2. LogOf(t)
  BY <1>0, <1>1, Unchanged DEF LogOf
<1>3. OrderSeen(t, tabs'[t])
  BY <1>1, <1>2, OrderSeenKept
<1>4. Underway(new) = new.run.task
  BY <1>1 DEF Underway
<1>5. CASE HasTask(old)
  <2>1. SameTask(t)
    BY <1>1, <1>4, <1>5 DEF SameTask
  <2> QED
    BY <1>1, <1>2, <1>3, <2>1, SeenStays DEF Unresolved
<1>6. CASE ~HasTask(old)
  <2>1. ~Unresolved(old)
    BY <1>0, <1>1 DEF TabsFit, Fits
  <2>2. Covers(old.known, old.seen)
    BY <1>1, <2>1 DEF SeenFits
  <2>3. old.known \in 0 .. Version
    <3>1. old.known \in 1 .. Version /\ Version \in Nat
      BY <1>0, <1>1, OpenTabFits, CountsFit
    <3> QED
      BY <3>1
  <2>4. CoversThen(old.known, old.seen)
    <3> HIDE DEF old
    <3> QED
      BY <1>0, <1>2, <2>2, <2>3, CoversKept DEF LogOf
  <2>5. Underway(new).pinned = old.known /\ Underway(new).seen = old.seen
    <3>1. task \in TaskType(1 .. tasks', 1 .. Version)
      BY DEF Admitted
    <3> QED
      BY <1>1, <1>4, <1>6, <3>1 DEF Fixed, TaskType
  <2>6. SeenThen(t)
    BY <1>1, <1>3, <2>4, <2>5 DEF SeenThen
  <2> QED
    BY <1>2, <2>6, SeenNext
<1> QED
  BY <1>5, <1>6

LEMMA ReceivedSeen ==
    ASSUME Safety, SeenFits, NEW t \in Tabs, Received(t)
    PROVE  SeenFits'
<1> DEFINE old == tabs[t]
           new == tabs'[t]
<1>0. TypeOK /\ TabsFit /\ Bookkeeping
  BY DEF Safety
<1>1. /\ Opened(old) /\ OnlyRow(t) /\ new.order = old.order /\ new.seen = new.known
      /\ old.run # None /\ SentBy(new) /\ log' = log /\ new.retry = None
      /\ \/ new.run = None
         \/ old.pending # None /\ new.run # None /\ new.run.task = Fixed(new, old.pending)
  BY DEF Received, OnlyRow
<1>2. LogOf(t)
  BY <1>0, <1>1, Unchanged DEF LogOf
<1>3. new.order = None
  BY <1>0, <1>1 DEF TabsFit, Fits, Busy
<1>4. CoversThen(new.known, new.known)
  <2>1. old.known \in 1 .. Version /\ Version \in Nat /\ new.known = old.known + 1
    BY <1>0, ReceivedIs, CountsFit
  <2>2. new.known \in Nat
    BY <2>1
  <2> HIDE DEF new
  <2> QED
    BY <2>2 DEF CoversThen
<1>5. SameTask(t) \/ (Underway(new).pinned = new.known /\ Underway(new).seen = new.known)
  <2>1. CASE new.run = None
    BY <1>1, <2>1 DEF SameTask, HasTask
  <2>2. CASE old.pending # None /\ new.run # None /\ new.run.task = Fixed(new, old.pending)
    <3>1. old.pending \in TaskType(1 .. tasks, 1 .. Version)
      BY <1>0, <2>2 DEF TypeOK, TabType
    <3> QED
      BY <1>1, <2>2, <3>1 DEF Underway, Fixed, TaskType
  <2> QED
    BY <1>1, <2>1, <2>2
<1>6. SeenThen(t)
  BY <1>1, <1>3, <1>4, <1>5 DEF SeenThen, OrderSeen
<1> QED
  BY <1>2, <1>6, SeenNext

LEMMA OrderTakenSeen ==
    ASSUME Safety, SeenFits, NEW t \in Tabs, OrderTaken(t)
    PROVE  SeenFits'
<1> DEFINE old == tabs[t]
           new == tabs'[t]
           version == old.order.answer.version
<1>0. TypeOK /\ TabsFit /\ Bookkeeping
  BY DEF Safety
<1>1. /\ Opened(old) /\ OnlyRow(t) /\ new.order = None /\ new.seen = old.seen
      /\ new.known = version /\ new.origin = old.origin
      /\ new.retry = old.retry /\ new.run = old.run /\ wire' = wire /\ log' = log
      /\ old.order # None /\ Good(old.order.answer)
  BY DEF OrderTaken, SameText, OnlyRow, Elsewhere
<1>2. LogOf(t)
  BY <1>0, <1>1, Unchanged DEF LogOf
<1>3. SameTask(t)
  BY <1>1 DEF SameTask, HasTask, Underway
<1>4. ASSUME ~Unresolved(old) PROVE CoversThen(version, old.seen)
  <2>1. Covers(old.known, old.seen)
    BY <1>1, <1>4 DEF SeenFits
  <2>2. /\ \A v \in old.known + 1 .. version : ~Texted(v)
        /\ version \in 1 .. Version
    BY <1>1 DEF SeenFits
  <2>3. old.known \in 1 .. Version /\ Version \in Nat
    BY <1>0, <1>1, OpenTabFits, CountsFit
  <2> HIDE DEF old, version
  <2>4. version \in 0 .. Version
    BY <2>2, <2>3
  <2>5. \A w \in 1 .. version : w \in 1 .. old.known \/ w \in old.known + 1 .. version
    BY <2>3, <2>4
  <2>6. Covers(version, old.seen)
    BY <2>1, <2>2, <2>5 DEF Covers
  <2> QED
    BY <1>0, <1>2, <2>4, <2>6, CoversKept DEF LogOf
<1>5. SeenThen(t)
  BY <1>1, <1>3, <1>4 DEF SeenThen, OrderSeen, Unresolved
<1> QED
  BY <1>2, <1>5, SeenNext

LEMMA OrderedSeen ==
    ASSUME Safety, SeenFits, NEW t \in Tabs, Ordered(t), OrderLists \subseteq {"own"}
    PROVE  SeenFits'
<1> DEFINE old == tabs[t]
           new == tabs'[t]
<1>0. TypeOK /\ TabsFit /\ Bookkeeping
  BY DEF Safety
<1>1. /\ Opened(old) /\ OnlyRow(t) /\ Work(new) = Work(old) /\ wire' = wire
      /\ new.seen = old.seen /\ new.origin = old.origin /\ old.order # None
      /\ \/ /\ log' = Append(log, Entry(Block.text, NoMutation, t, Version))
            /\ old.order.expected = Version
            /\ new.order.answer = Answer(Version + 1, Block.text)
         \/ log' = log /\ new.order.answer = Conflict
  BY DEF Ordered, SameText, OnlyRow, Elsewhere
<1>2. SameTask(t) /\ new.known = old.known
  BY <1>1, WorkIs DEF SameTask
<1>3. LogOf(t)
  BY <1>0, StepLog DEF StepOf
<1>4. OrderSeen(t, tabs'[t])
  <2>1. CASE new.order.answer = Conflict
    BY <2>1 DEF OrderSeen, Good
  <2>2. CASE /\ log' = Append(log, Entry(Block.text, NoMutation, t, Version))
             /\ old.order.expected = Version
             /\ new.order.answer = Answer(Version + 1, Block.text)
    <3>1. /\ Version \in Nat /\ Version \in 1 .. Version /\ Block.text \in Texts /\ t \in Nat
          /\ NoMutation \in Nat
      BY <1>0, BlockTyped DEF NoMutation, Tabs
    <3>2. /\ Version' = Version + 1 /\ log'[Version + 1].text = Block.text
          /\ log'[Version + 1].source = t /\ log'[Version] = log[Version]
      BY <1>0, <2>2, <3>1, LogGrows
    <3>3. new.known = Version
      BY <1>0, <1>1, <1>2, <2>2 DEF TabsFit, Fits
    <3>4. \A v \in Version + 1 .. Version + 1 : ~TextedThen(v) /\ log'[v].source = t
      <4>1. ~TextedThen(Version + 1)
        <5>1. Version + 1 > 1 /\ (Version + 1) - 1 = Version
          BY <3>1
        <5> QED
          BY <3>2, <5>1 DEF TextedThen, Block
      <4>2. \A v \in Version + 1 .. Version + 1 : v = Version + 1
        BY <3>1
      <4> QED
        BY <3>2, <4>1, <4>2
    <3>5. /\ new.order.answer.version = Version + 1 /\ new.order.answer.text = Block.text
          /\ Version + 1 \in 1 .. Version'
      BY <2>2, <3>1, <3>2 DEF Answer
    <3> HIDE DEF new
    <3> QED
      BY <3>2, <3>3, <3>4, <3>5 DEF OrderSeen, new
  <2> QED
    BY <1>1, <2>1, <2>2
<1> QED
  BY <1>1, <1>2, <1>3, <1>4, SeenStays DEF Unresolved

LEMMA ClosedSeen ==
    ASSUME Safety, SeenFits, NEW t \in Tabs, Closed(t)
    PROVE  SeenFits'
<1>1. /\ OnlyRow(t) /\ tabs'[t] = ClosedTab /\ log' = log /\ wire' = wire
  BY DEF Closed, OnlyRow, Elsewhere
<1>2. LogOf(t)
  BY <1>1, Unchanged DEF LogOf, Safety
<1>3. SeenThen(t)
  BY <1>1 DEF SeenThen, OrderSeen, SameTask, ClosedTab, HasTask, Opened
<1> QED
  BY <1>2, <1>3, SeenNext

LEMMA LoadedSeen ==
    ASSUME Safety, SeenFits, NEW t \in Tabs, Loaded(t)
    PROVE  SeenFits'
<1> DEFINE new == tabs'[t]
<1>1. /\ OnlyRow(t) /\ new.known = Version /\ Idle(new) /\ log' = log /\ wire' = wire
      /\ new.seen = Version \/ Unresolved(new)
  BY DEF Loaded, OnlyRow, Elsewhere, Unresolved
<1>2. LogOf(t) /\ Version \in Nat
  BY <1>1, Unchanged, CountsFit DEF LogOf, Safety
<1>3. CoversThen(Version, Version)
  BY <1>2 DEF CoversThen
<1>4. SeenThen(t)
  BY <1>1, <1>3 DEF SeenThen, OrderSeen, SameTask, Idle, HasTask
<1> QED
  BY <1>2, <1>4, SeenNext

LEMMA PatchedSeen ==
    ASSUME Safety, SeenFits, NEW request, Patched(request)
    PROVE  SeenFits'
<1> DEFINE t == request.source
           old == tabs[t]
           new == tabs'[t]
<1>0. TypeOK /\ TabsFit /\ Bookkeeping
  BY DEF Safety
<1>1. /\ t \in Tabs /\ wire' \subseteq wire /\ OnlyRow(t)
      /\ new.known = old.known /\ new.retry = old.retry /\ new.seen = old.seen
      /\ new.order = old.order /\ new.source = old.source /\ new.origin = old.origin
      /\ \/ new = old
         \/ old.run # None /\ new.run # None /\ new.run.task = old.run.task
  BY DEF Patched, SameRow, OnlyRow, Awaits
<1>2. SameTask(t)
  BY <1>1 DEF SameTask, HasTask, Underway
<1>3. LogOf(t)
  BY <1>0, PatchedLog, Unchanged DEF LogOf
<1>4. OrderSeen(t, tabs'[t])
  <2> HIDE DEF t
  <2> QED
    BY <1>1, <1>3, OrderSeenKept
<1> HIDE DEF t
<1> QED
  BY <1>1, <1>2, <1>3, <1>4, SeenStays DEF Unresolved, Opened

\* The log grows by requests and reorders only.
LEMMA NoBlindNext ==
    ASSUME Safety, SeenFits, NoBlindOverwrite,
           (\E t \in Tabs : StepOf(t)) \/ (\E request : Patched(request))
    PROVE  NoBlindOverwrite'
<1>0. TypeOK /\ TabsFit /\ Bookkeeping
  BY DEF Safety
<1>1. CASE log' = log
  BY <1>0, <1>1, Unchanged DEF NoBlindOverwrite, Texted
<1>2. ASSUME \A v \in 1 .. Version : log'[v] = log[v], Version' = Version + 1,
             TextedThen(Version + 1) => Covers(Version, log'[Version + 1].seen)
      PROVE  NoBlindOverwrite'
  <2>1. Version \in Nat
    BY <1>0, CountsFit
  <2>2. \A v \in 1 .. Version : TextedThen(v) <=> Texted(v)
    BY <1>0, <1>2, TextedKept
  <2>3. ASSUME NEW v \in 2 .. Version', TextedThen(v), NEW w \in 1 .. v - 1, TextedThen(w)
        PROVE  w <= log'[v].seen
    <3>1. w \in 1 .. Version /\ Texted(w)
      <4>1. w \in 1 .. Version
        BY <1>2, <2>1, <2>3
      <4> QED
        BY <2>2, <2>3, <4>1
    <3>2. CASE v = Version + 1
      BY <1>2, <2>3, <3>1, <3>2 DEF Covers
    <3>3. CASE v \in 2 .. Version
      <4>1. v \in 1 .. Version
        BY <2>1, <3>3
      <4>2. Texted(v) /\ log'[v] = log[v]
        BY <1>2, <2>2, <2>3, <4>1
      <4> QED
        BY <2>3, <3>1, <3>3, <4>2 DEF NoBlindOverwrite
    <3> QED
      BY <1>2, <2>1, <3>2, <3>3
  <2> QED
    BY <2>3 DEF NoBlindOverwrite, Texted, TextedThen
<1>3. ASSUME NEW t \in Tabs, StepOf(t)
      PROVE  NoBlindOverwrite'
  <2>1. CASE Ordered(t) /\ log' # log
    <3>1. log' = Append(log, Entry(Block.text, NoMutation, t, Version))
      BY <2>1 DEF Ordered
    <3>2. /\ Version \in Nat /\ Version \in 1 .. Version /\ Block.text \in Texts /\ t \in Nat
          /\ NoMutation \in Nat
      BY <1>0, BlockTyped DEF NoMutation, Tabs
    <3>3. /\ Version' = Version + 1 /\ \A v \in 1 .. Version : log'[v] = log[v]
          /\ log'[Version + 1].text = Block.text
      BY <1>0, <3>1, <3>2, LogGrows
    <3>4. ~TextedThen(Version + 1)
      <4>1. Version + 1 > 1 /\ (Version + 1) - 1 = Version
        BY <3>2
      <4> QED
        BY <3>2, <3>3, <4>1 DEF TextedThen, Block
    <3> QED
      BY <1>2, <3>3, <3>4
  <2>2. CASE ~Ordered(t)
    <3>1. log' = log
      BY ZenonT(60), <1>3, <2>2 DEF StepOf, Admitted, Redrawn, Edited, Outdated, Resumed, Refused, Lost,
                        Received, OrderTaken, Closed, Loaded
    <3> QED
      BY <1>1, <3>1
  <2> QED
    BY <1>1, <2>1, <2>2
<1>4. ASSUME NEW request, Patched(request)
      PROVE  NoBlindOverwrite'
  <2>1. /\ \A v \in 1 .. Version : log'[v] = log[v]
        /\ \/ log' = log
           \/ /\ Accepted(request) /\ Version' = Version + 1
              /\ log'[Version + 1].seen = request.seen
    BY <1>0, <1>4, PatchedLog
  <2>2. Covers(request.expected, request.seen)
    <3>1. request \in wire
      BY <1>4 DEF Patched
    <3>2. OfRequest(request) \in Claims
      BY <3>1, ClaimsAre
    <3> QED
      BY <3>2 DEF SeenFits, OfRequest, Claim
  <2> QED
    BY <1>1, <1>2, <2>1, <2>2 DEF Accepted
<1> QED
  BY <1>3, <1>4

LEMMA SeenStep ==
    ASSUME OrderLists \subseteq {"own"}, Safety, SeenFits, NoBlindOverwrite, Next
    PROVE  SeenFits' /\ NoBlindOverwrite'
<1>1. (\E t \in Tabs : StepOf(t)) \/ (\E request : Patched(request))
  BY StepIs DEF Safety
<1>2. NoBlindOverwrite'
  BY <1>1, NoBlindNext
<1>3. ASSUME NEW t \in Tabs, StepOf(t)
      PROVE  SeenFits'
  <2>1. CASE \E task : Admitted(t, task)
    BY <2>1, AdmittedSeen
  <2> QED
    BY <1>3, <2>1, RowSeen, ReceivedSeen, OrderedSeen, OrderTakenSeen, ClosedSeen, LoadedSeen
       DEF StepOf
<1> QED
  BY <1>1, <1>2, <1>3, PatchedSeen

LEMMA SeenStutter ==
    ASSUME SeenFits, NoBlindOverwrite, UNCHANGED vars
    PROVE  SeenFits' /\ NoBlindOverwrite'
<1>1. UNCHANGED <<log, tabs, wire>>
  BY DEF vars
<1>2. Version' = Version
  BY <1>1 DEF Version
<1>3. Claims' = Claims
  BY <1>1 DEF Claims, HasTask, Underway, OfTask, OfRequest, Claim
<1>4. SeenFits'
  BY <1>1, <1>2, <1>3
     DEF SeenFits, Covers, Texted, Opened, Unresolved, Good, Conflict, Answer
<1>5. NoBlindOverwrite'
  BY <1>1, <1>2 DEF NoBlindOverwrite, Texted
<1> QED
  BY <1>4, <1>5

LEMMA SeenInit == Init => SeenFits /\ NoBlindOverwrite
<1> SUFFICES ASSUME Init PROVE SeenFits /\ NoBlindOverwrite
  OBVIOUS
<1>1. \A t \in Tabs : ~Opened(tabs[t]) /\ ~HasTask(tabs[t]) /\ tabs[t].order = None
  BY DEF Init, ClosedTab, Opened, HasTask
<1>2. Claims = {}
  BY <1>1 DEF Init, Claims
<1>3. Version = 1
  BY DEF Init, Version
<1> QED
  BY <1>1, <1>2, <1>3 DEF SeenFits, NoBlindOverwrite

\* Where lists that are reordered have the block, no text is overwritten that
\* the author of the newer text had not seen, or agreed to overwrite; other
\* lists are the case the run saving_reorder refutes.
THEOREM NothingIsOverwrittenBlindly ==
    ASSUME OrderLists \subseteq {"own"}
    PROVE  Spec => []NoBlindOverwrite
<1> DEFINE Inv == Safety /\ SeenFits /\ NoBlindOverwrite
<1>1. Init => Inv
  BY InitSafe, SeenInit
<1>2. Inv /\ [Next]_vars => Inv'
  BY NextSafe, StutterSafe, SeenStep, SeenStutter
<1>3. Inv => NoBlindOverwrite
  OBVIOUS
<1> QED
  BY <1>1, <1>2, <1>3, PTL DEF Spec

-----------------------------------------------------------------------------
(***************************************************************************)
(* What the user typed is kept, when rows are not built again in the       *)
(* middle of a save.                                                       *)
(***************************************************************************)
LEMMA KeptGrows ==
    ASSUME TypeOK, NEW t, LogOf(t), typedOver \subseteq typedOver'
    PROVE  Kept \subseteq Kept' /\ Logged \subseteq Logged'
<1>1. Version \in Nat /\ Version' \in Nat /\ Version <= Version'
  BY CountsFit DEF LogOf
<1>2. \A v \in 1 .. Version : v \in 1 .. Version' /\ log'[v] = log[v]
  BY <1>1 DEF LogOf
<1>3. Logged \subseteq Logged'
  BY <1>2 DEF Logged
<1> QED
  BY <1>3 DEF Kept

LEMMA HoldsMore ==
    ASSUME NEW tab, NEW draft, NEW kept, NEW more, kept \subseteq more,
           HoldsEdits(tab, draft, kept)
    PROVE  HoldsEdits(tab, draft, more) /\ HoldsEdits(tab, None, more)
BY DEF HoldsEdits

\* The row shows the same text, and saves nothing new.
LEMMA HoldsStill ==
    ASSUME NEW old, NEW new, NEW draft, NEW kept, NEW more, kept \subseteq more,
           HoldsEdits(old, draft, kept), new.text = old.text, new.revision = old.revision,
           new.origin = old.origin, TasksOf(new) \subseteq TasksOf(old)
    PROVE  HoldsEdits(new, draft, more)
BY DEF HoldsEdits

LEMMA EditsNext ==
    ASSUME Safety, EditsFit, NEW t \in Tabs, Elsewhere(t), Kept \subseteq Kept',
           Opened(tabs'[t]) => HoldsEdits(tabs'[t], drafts'[t], Kept')
    PROVE  EditsFit'
<1>1. ASSUME NEW u \in Tabs, Opened(tabs'[u])
      PROVE  HoldsEdits(tabs'[u], drafts'[u], Kept')
  <2>1. CASE u = t
    BY <1>1, <2>1
  <2>2. CASE u # t
    <3>1. /\ tabs'[u] = tabs[u] /\ (drafts'[u] = drafts[u] \/ drafts'[u] = None)
          /\ Opened(tabs[u])
      BY <1>1, <2>2 DEF Elsewhere
    <3>2. HoldsEdits(tabs[u], drafts[u], Kept)
      BY <3>1 DEF EditsFit
    <3> QED
      BY <3>1, <3>2, HoldsMore
  <2> QED
    BY <2>1, <2>2
<1> QED
  BY <1>1 DEF EditsFit, Opened, HoldsEdits, TasksOf, HasTask, Underway

\* Tasks a tab keeps when its queue is as it was.
LEMMA SameTasks ==
    ASSUME NEW new, NEW old, new.pending = old.pending \/ new.pending = None,
           HasTask(new) => HasTask(old) /\ Underway(new) = Underway(old)
    PROVE  TasksOf(new) \subseteq TasksOf(old)
BY DEF TasksOf

LEMMA EditsStay ==
    ASSUME Safety, EditsFit, NEW t \in Tabs, Elsewhere(t), LogOf(t), Opened(tabs[t]),
           typedOver' = typedOver, drafts' = drafts, SameTask(t),
           tabs'[t].pending = tabs[t].pending \/ tabs'[t].pending = None,
           tabs'[t].text = tabs[t].text, tabs'[t].revision = tabs[t].revision,
           tabs'[t].origin = tabs[t].origin
    PROVE  EditsFit'
<1>1. Kept \subseteq Kept'
  BY KeptGrows DEF Safety
<1>2. TasksOf(tabs'[t]) \subseteq TasksOf(tabs[t])
  BY SameTasks DEF SameTask
<1>3. HoldsEdits(tabs[t], drafts[t], Kept)
  BY DEF EditsFit
<1>4. HoldsEdits(tabs'[t], drafts'[t], Kept')
  BY <1>1, <1>2, <1>3, HoldsStill
<1> QED
  BY <1>1, <1>4, EditsNext

LEMMA RedrawnEdits ==
    ASSUME Safety, EditsFit, ~RebuildsInFlight, NEW t \in Tabs, Redrawn(t)
    PROVE  EditsFit'
<1> DEFINE old == tabs[t]
           new == tabs'[t]
           draft == drafts[t]
<1>1. /\ Opened(old) /\ Elsewhere(t) /\ Work(new) = Work(old) /\ new.origin = old.origin
      /\ ~Busy(old) /\ drafts' = drafts /\ typedOver' = typedOver
      /\ draft # None => new.text = draft.text /\ new.revision = draft.revision
      /\ draft = None /\ old.origin # None => new.text = old.origin.text
  BY DEF Redrawn
<1>2. LogOf(t)
  BY StepLog DEF StepOf, Safety
<1>3. Kept \subseteq Kept'
  BY <1>1, <1>2, KeptGrows DEF Safety
<1>4. HoldsEdits(old, draft, Kept)
  BY <1>1 DEF EditsFit
<1>5. TasksOf(new) = {}
  BY <1>1, WorkIs DEF Busy, TasksOf, HasTask
<1>6. HoldsEdits(new, draft, Kept')
  <2>1. CASE draft # None
    <3>1. new.text = old.text /\ new.revision = old.revision
      BY <1>1, <1>4, <2>1 DEF HoldsEdits
    <3> QED
      BY <1>1, <1>3, <1>4, <1>5, <3>1, HoldsStill
  <2>2. CASE draft = None
    BY <1>1, <1>5, <2>2 DEF HoldsEdits
  <2> QED
    BY <2>1, <2>2
<1> QED
  BY <1>1, <1>3, <1>6, EditsNext

LEMMA EditedEdits ==
    ASSUME Safety, EditsFit, NEW t \in Tabs, Edited(t)
    PROVE  EditsFit'
<1> DEFINE old == tabs[t]
           new == tabs'[t]
<1>0. TypeOK /\ TabsFit /\ Bookkeeping
  BY DEF Safety
<1>1. /\ Opened(old) /\ Elsewhere(t) /\ Work(new) = Work(old) /\ old.revision <= new.revision
      /\ drafts' = [drafts EXCEPT ![t] = Draft(new.text, new.expected, new.revision)]
      /\ new.origin = old.origin \/ SameOrigin(new.origin, old.origin)
      /\ \/ new.text = edits + 1 /\ new.revision = old.revision + 1
            /\ typedOver' = typedOver \cup {old.text}
         \/ new.text = old.text /\ typedOver' = typedOver
      /\ RowTyped(new)
  BY DEF Edited
<1>2. LogOf(t)
  BY <1>0, StepLog DEF StepOf
<1>3. Kept \subseteq Kept'
  BY <1>0, <1>1, <1>2, KeptGrows
<1>4. HoldsEdits(old, drafts[t], Kept)
  BY <1>1 DEF EditsFit
<1>5. TasksOf(new) = TasksOf(old)
  BY <1>1, WorkIs DEF TasksOf
<1>6. drafts'[t] = Draft(new.text, new.expected, new.revision)
  BY <1>0, <1>1 DEF TypeOK, Sources
<1>7. old.revision \in Nat /\ new.revision \in Nat
  <2>1. RowTyped(old)
    BY <1>0 DEF TypeOK, RowTyped
  <2> QED
    BY <1>1, <2>1, SavingAssumption DEF RowTyped, TabType
<1>8. new.origin # None => old.origin # None /\ new.origin.text = old.origin.text
  BY <1>1 DEF SameOrigin
<1>9. new.text = old.text \/ old.text \in Kept'
  BY <1>1 DEF Kept
<1>10. ASSUME NEW task \in TasksOf(old)
       PROVE  /\ task.revision <= new.revision
              /\ task.revision = new.revision => task.text = new.text
              /\ task.origin # None => task.origin.text \in {task.text} \cup Kept'
  <2>1. task.revision \in Nat
    <3>1. \/ task = old.pending /\ old.pending # None
          \/ HasTask(old) /\ task = Underway(old)
      BY <1>10 DEF TasksOf
    <3>2. task \in TaskType(1 .. tasks, 1 .. Version)
      BY <1>0, <3>1, UnderwayIs DEF TypeOK, TabType
    <3> QED
      BY <3>2 DEF TaskType
  <2>2. /\ task.revision <= old.revision
        /\ task.revision = old.revision => task.text = old.text
        /\ task.origin # None => task.origin.text \in {task.text} \cup Kept
    BY <1>4, <1>10 DEF HoldsEdits
  <2> HIDE DEF old, new
  <2> QED
    BY <1>1, <1>3, <1>7, <2>1, <2>2
<1>11. new.origin # None => new.origin.text \in {new.text} \cup Kept'
  <2>1. new.origin # None => new.origin.text \in {old.text} \cup Kept
    BY <1>4, <1>8 DEF HoldsEdits
  <2> QED
    BY <1>3, <1>9, <2>1
<1>12. HoldsEdits(tabs'[t], drafts'[t], Kept')
  BY <1>5, <1>6, <1>10, <1>11 DEF HoldsEdits, Draft
<1> QED
  BY <1>1, <1>3, <1>12, EditsNext

LEMMA AdmittedEdits ==
    ASSUME Safety, EditsFit, NEW t \in Tabs, NEW task, Admitted(t, task)
    PROVE  EditsFit'
<1> DEFINE old == tabs[t]
           new == tabs'[t]
<1>0. TypeOK /\ TabsFit /\ Bookkeeping
  BY DEF Safety
<1>1. /\ Opened(old) /\ Elsewhere(t) /\ SameRow(new, old) /\ log' = log
      /\ drafts' = drafts /\ typedOver' = typedOver
      /\ task \in TaskType(1 .. tasks', 1 .. Version)
      /\ task.text = old.text /\ task.revision = old.revision /\ task.origin = old.origin
      /\ new.run # None
      /\ HasTask(old) => new.run.task = Underway(old) /\ new.pending = task
      /\ ~HasTask(old) => new.run.task = Fixed(old, task) /\ new.pending = None
  BY DEF Admitted
<1>2. LogOf(t)
  BY <1>0, <1>1, Unchanged DEF LogOf
<1>3. Kept \subseteq Kept'
  BY <1>0, <1>1, <1>2, KeptGrows
<1>4. HoldsEdits(old, drafts[t], Kept)
  BY <1>1 DEF EditsFit
<1>5. /\ new.text = old.text /\ new.revision = old.revision /\ new.origin = old.origin
  BY <1>1 DEF SameRow
<1>6. old.revision \in Nat
  BY <1>0, SavingAssumption DEF TypeOK, TabType
<1>7. /\ Fixed(old, task).text = old.text /\ Fixed(old, task).revision = old.revision
      /\ Fixed(old, task).origin = old.origin
  BY <1>1 DEF Fixed, TaskType
<1>8. ASSUME NEW some, some.text = old.text, some.revision = old.revision,
             some.origin = old.origin
      PROVE  /\ some.revision <= new.revision
             /\ some.revision = new.revision => some.text = new.text
             /\ some.origin # None => some.origin.text \in {some.text} \cup Kept'
  <2>1. old.origin # None => old.origin.text \in {old.text} \cup Kept
    BY <1>4 DEF HoldsEdits
  <2> HIDE DEF old, new
  <2> QED
    BY <1>3, <1>5, <1>6, <1>8, <2>1
<1>9. ASSUME NEW some \in TasksOf(old)
      PROVE  /\ some.revision <= new.revision
             /\ some.revision = new.revision => some.text = new.text
             /\ some.origin # None => some.origin.text \in {some.text} \cup Kept'
  <2>1. /\ some.revision <= old.revision
        /\ some.revision = old.revision => some.text = old.text
        /\ some.origin # None => some.origin.text \in {some.text} \cup Kept
    BY <1>4, <1>9 DEF HoldsEdits
  <2> HIDE DEF old, new
  <2> QED
    BY <1>3, <1>5, <2>1
<1>10. ASSUME NEW some \in TasksOf(new)
       PROVE  some \in TasksOf(old) \/ some = task \/ some = Fixed(old, task)
  <2>1. some = new.pending \/ some = new.run.task
    BY <1>1, <1>10 DEF TasksOf, HasTask, Underway
  <2>2. CASE HasTask(old) /\ some = Underway(old)
    <3>1. Underway(old) # None
      BY <1>10, <2>2 DEF TasksOf
    <3> QED
      BY <2>2, <3>1 DEF TasksOf
  <2>3. some # None
    BY <1>10 DEF TasksOf
  <2> QED
    BY <1>1, <2>1, <2>2, <2>3
<1>11. \A some \in TasksOf(new) :
          /\ some.revision <= new.revision
          /\ some.revision = new.revision => some.text = new.text
          /\ some.origin # None => some.origin.text \in {some.text} \cup Kept'
  BY <1>1, <1>7, <1>8, <1>9, <1>10
<1>12. HoldsEdits(tabs'[t], drafts'[t], Kept')
  <2>1. /\ drafts[t] # None => drafts[t].text = new.text /\ drafts[t].revision = new.revision
        /\ new.origin # None => new.origin.text \in {new.text} \cup Kept'
    BY <1>3, <1>4, <1>5 DEF HoldsEdits
  <2> QED
    BY <1>1, <1>11, <2>1 DEF HoldsEdits
<1> QED
  BY <1>1, <1>3, <1>12, EditsNext

LEMMA QueueEdits ==
    ASSUME Safety, EditsFit, NEW t \in Tabs,
           \/ Outdated(t) \/ Resumed(t) \/ Refused(t) \/ Lost(t) \/ Ordered(t) \/ OrderTaken(t)
    PROVE  EditsFit'
<1> DEFINE old == tabs[t]
           new == tabs'[t]
<1>0. TypeOK /\ TabsFit /\ Bookkeeping
  BY DEF Safety
<1>1. LogOf(t)
  BY <1>0, StepLog DEF StepOf
<1>2. /\ Opened(old) /\ Elsewhere(t) /\ typedOver' = typedOver /\ drafts' = drafts
      /\ new.text = old.text /\ new.revision = old.revision /\ new.origin = old.origin
  BY DEF Outdated, Resumed, Refused, Lost, Ordered, OrderTaken, SameRow, SameText
<1>3. new.pending = old.pending \/ new.pending = None
  <2>1. CASE Work(new) = Work(old)
    BY <2>1, WorkIs
  <2> QED
    BY <2>1 DEF Outdated, Resumed, Refused, Lost, Ordered, OrderTaken
<1>4. SameTask(t)
  <2>1. CASE Work(new) = Work(old)
    BY <2>1, WorkIs DEF SameTask
  <2>2. CASE Resumed(t)
    BY <2>2 DEF Resumed, SameTask, HasTask, Underway
  <2>3. CASE Refused(t)
    <3>1. old.retry = None
      BY <1>0, <1>2, <2>3 DEF Refused, TabsFit, Fits
    <3> QED
      BY <2>3, <3>1 DEF Refused, SameTask, HasTask
  <2>4. CASE Lost(t)
    BY <2>4 DEF Lost, SameTask, HasTask, Underway
  <2>5. CASE OrderTaken(t)
    BY <2>5 DEF OrderTaken, SameTask, HasTask, Underway
  <2> QED
    BY <2>1, <2>2, <2>3, <2>4, <2>5 DEF Outdated, Ordered
<1> QED
  BY <1>1, <1>2, <1>3, <1>4, EditsStay

LEMMA ReceivedEdits ==
    ASSUME Safety, EditsFit, NEW t \in Tabs, Received(t)
    PROVE  EditsFit'
<1> DEFINE old == tabs[t]
           new == tabs'[t]
           task == old.run.task
<1>0. TypeOK /\ TabsFit /\ Bookkeeping
  BY DEF Safety
<1>1. /\ Opened(old) /\ log' = log /\ typedOver' = typedOver /\ old.run # None
      /\ \A u \in Tabs \ {t} : tabs'[u] = tabs[u]
      /\ SettledBy(t, task, old.run.answer.version)
      /\ new.text = old.text /\ new.revision = old.revision
      /\ new.origin = None \/ new.origin = old.origin
      /\ new.retry = None /\ new.pending = None
      /\ \/ new.run = None
         \/ new.run # None /\ old.pending # None /\ new.run.task = Fixed(new, old.pending)
  BY DEF Received
<1>2. LogOf(t)
  BY <1>0, <1>1, Unchanged DEF LogOf
<1>3. Kept \subseteq Kept'
  BY <1>0, <1>1, <1>2, KeptGrows
<1>4. HoldsEdits(old, drafts[t], Kept)
  BY <1>1 DEF EditsFit
<1>5. Elsewhere(t)
  BY <1>1 DEF Elsewhere, SettledBy, Sources
<1>6. drafts'[t] # None =>
          drafts'[t].text = new.text /\ drafts'[t].revision = new.revision
  <2>1. \/ drafts'[t] = drafts[t] \/ drafts'[t] = None
        \/ /\ drafts[t] # None /\ drafts'[t].text = drafts[t].text
           /\ drafts'[t].revision = drafts[t].revision
    BY <1>1 DEF SettledBy, Sources
  <2> QED
    BY <1>1, <1>4, <2>1 DEF HoldsEdits
<1>7. ASSUME NEW some \in TasksOf(new)
      PROVE  /\ some.revision <= new.revision
             /\ some.revision = new.revision => some.text = new.text
             /\ some.origin # None => some.origin.text \in {some.text} \cup Kept'
  <2>1. some = Fixed(new, old.pending) /\ old.pending # None
    BY <1>1, <1>7 DEF TasksOf, HasTask, Underway
  <2>2. old.pending \in TaskType(1 .. tasks, 1 .. Version)
    BY <1>0, <2>1 DEF TypeOK, TabType
  <2>3. /\ some.revision = old.pending.revision /\ some.text = old.pending.text
        /\ some.origin = old.pending.origin
    BY <2>1, <2>2 DEF Fixed, TaskType
  <2>4. old.pending \in TasksOf(old)
    BY <2>1 DEF TasksOf
  <2> QED
    BY <1>1, <1>3, <1>4, <2>3, <2>4 DEF HoldsEdits
<1>8. new.origin # None => new.origin.text \in {new.text} \cup Kept'
  BY <1>1, <1>3, <1>4 DEF HoldsEdits
<1>9. HoldsEdits(tabs'[t], drafts'[t], Kept')
  BY <1>6, <1>7, <1>8 DEF HoldsEdits
<1> QED
  BY <1>3, <1>5, <1>9, EditsNext

LEMMA ClosedEdits ==
    ASSUME Safety, EditsFit, NEW t \in Tabs, Closed(t)
    PROVE  EditsFit'
<1>1. /\ Elsewhere(t) /\ ~Opened(tabs'[t]) /\ typedOver' = typedOver
  BY DEF Closed, ClosedTab, Opened
<1>2. LogOf(t)
  BY StepLog DEF StepOf, Safety
<1>3. Kept \subseteq Kept'
  BY <1>1, <1>2, KeptGrows DEF Safety
<1> QED
  BY <1>1, <1>3, EditsNext

LEMMA LoadedEdits ==
    ASSUME Safety, EditsFit, NEW t \in Tabs, Loaded(t)
    PROVE  EditsFit'
<1> DEFINE new == tabs'[t]
<1>1. /\ Elsewhere(t) /\ Idle(new) /\ typedOver' = typedOver
      /\ \/ new.origin = None /\ drafts'[t] = None
         \/ /\ new.origin # None /\ new.origin.text = new.text
            /\ drafts'[t] = Draft(new.text, new.expected, new.revision)
  BY DEF Loaded
<1>2. LogOf(t)
  BY StepLog DEF StepOf, Safety
<1>3. Kept \subseteq Kept'
  BY <1>1, <1>2, KeptGrows DEF Safety
<1>4. TasksOf(new) = {}
  BY <1>1 DEF Idle, TasksOf, HasTask
<1>5. HoldsEdits(tabs'[t], drafts'[t], Kept')
  BY <1>1, <1>4 DEF HoldsEdits, Draft
<1> QED
  BY <1>1, <1>3, <1>5, EditsNext

LEMMA PatchedEdits ==
    ASSUME Safety, EditsFit, NEW request, Patched(request)
    PROVE  EditsFit'
<1> DEFINE t == request.source
           old == tabs[t]
           new == tabs'[t]
<1>0. TypeOK /\ TabsFit /\ Bookkeeping
  BY DEF Safety
<1>1. /\ t \in Tabs /\ \A u \in Tabs \ {t} : tabs'[u] = tabs[u]
      /\ typedOver' = typedOver /\ drafts' = drafts
      /\ new.text = old.text /\ new.revision = old.revision /\ new.origin = old.origin
      /\ new.retry = old.retry /\ new.pending = old.pending /\ new.source = old.source
      /\ \/ new = old
         \/ old.run # None /\ new.run # None /\ new.run.task = old.run.task
  BY DEF Patched, SameRow, Awaits
<1>2. LogOf(t)
  BY <1>0, PatchedLog, Unchanged DEF LogOf
<1>3. Elsewhere(t) /\ SameTask(t)
  BY <1>1 DEF Elsewhere, SameTask, HasTask, Underway
<1> HIDE DEF t
<1>4. CASE Opened(old)
  BY <1>1, <1>2, <1>3, <1>4, EditsStay
<1>5. CASE ~Opened(old)
  <2>1. Kept \subseteq Kept'
    BY <1>0, <1>1, <1>2, KeptGrows
  <2> QED
    BY <1>1, <1>3, <1>5, <2>1, EditsNext DEF Opened
<1> QED
  BY <1>4, <1>5

LEMMA KeptNext ==
    ASSUME EditsKept, Kept \subseteq Kept',
           \A n \in 1 .. edits' : n \in 1 .. edits \/ n \in InJournal',
           \A s \in Sources : drafts[s] # None => drafts[s].text \in Kept' \cup InJournal'
    PROVE  EditsKept'
<1>1. \A text \in InJournal : text \in Kept' \cup InJournal'
  BY DEF InJournal
<1> QED
  BY <1>1 DEF EditsKept, Kept

LEMMA DraftStays ==
    ASSUME NEW s \in Sources, drafts[s] # None, drafts'[s] # None, drafts'[s].text = drafts[s].text
    PROVE  drafts[s].text \in InJournal'
BY DEF InJournal

LEMMA QuietKept ==
    ASSUME EditsKept, Kept \subseteq Kept', edits' = edits, drafts' = drafts
    PROVE  EditsKept'
<1>1. \A s \in Sources : drafts[s] # None => drafts[s].text \in InJournal'
  BY DraftStays
<1> QED
  BY <1>1, KeptNext

LEMMA EditedKept ==
    ASSUME Safety, EditsFit, EditsKept, NEW t \in Tabs, Edited(t)
    PROVE  EditsKept'
<1> DEFINE old == tabs[t]
           new == tabs'[t]
<1>0. TypeOK /\ TabsFit /\ Bookkeeping
  BY DEF Safety
<1>1. /\ Opened(old)
      /\ drafts' = [drafts EXCEPT ![t] = Draft(new.text, new.expected, new.revision)]
      /\ \/ new.text = edits + 1 /\ edits' = edits + 1 /\ typedOver' = typedOver \cup {old.text}
         \/ new.text = old.text /\ edits' = edits /\ typedOver' = typedOver
  BY DEF Edited
<1>2. Kept \subseteq Kept'
  <2>1. LogOf(t)
    BY <1>0, StepLog DEF StepOf
  <2> QED
    BY <1>0, <1>1, <2>1, KeptGrows
<1>3. t \in Sources /\ edits \in Nat
  BY <1>0, CountsFit DEF Sources
<1>4. drafts'[t] = Draft(new.text, new.expected, new.revision)
  BY <1>0, <1>1, <1>3 DEF TypeOK
<1>5. new.text \in InJournal'
  <2>1. RowTyped(new)
    BY DEF Edited
  <2>2. /\ new.text \in Texts /\ new.expected \in (1 .. Version) \cup {0}
        /\ new.revision \in 0 .. MaxEdits + MaxSaves
    BY <2>1 DEF RowTyped, TabType
  <2>3. Version \in Nat
    BY <1>0, CountsFit
  <2>4. new.expected \in Nat /\ new.revision \in Nat
    BY <2>2, <2>3, SavingAssumption
  <2>5. drafts'[t] \in DraftType
    BY <1>4, <2>2, <2>4 DEF Draft, DraftType
  <2>6. drafts'[t] # None /\ drafts'[t].text = new.text
    BY <1>4, <2>5, NoneAssumption DEF Draft
  <2> QED
    BY <1>3, <2>6 DEF InJournal
<1>6. ASSUME NEW s \in Sources, drafts[s] # None
      PROVE  drafts[s].text \in Kept' \cup InJournal'
  <2>1. CASE s = t
    <3>1. drafts[t].text = old.text
      BY <1>1, <1>6, <2>1 DEF EditsFit, HoldsEdits
    <3>2. old.text \in Kept' \/ old.text = new.text
      BY <1>1 DEF Kept
    <3> QED
      BY <1>5, <2>1, <3>1, <3>2
  <2>2. CASE s # t
    <3>1. drafts'[s] = drafts[s]
      BY <1>1, <2>2
    <3> QED
      BY <1>6, <3>1, DraftStays
  <2> QED
    BY <2>1, <2>2
<1>7. \A n \in 1 .. edits' : n \in 1 .. edits \/ n \in InJournal'
  BY <1>1, <1>3, <1>5
<1> QED
  BY <1>2, <1>6, <1>7, KeptNext

LEMMA ReceivedKept ==
    ASSUME Safety, EditsFit, EditsKept, NEW t \in Tabs, Received(t)
    PROVE  EditsKept'
<1> DEFINE old == tabs[t]
           task == old.run.task
<1>0. TypeOK /\ TabsFit /\ Bookkeeping
  BY DEF Safety
<1>1. /\ Opened(old) /\ log' = log /\ typedOver' = typedOver /\ edits' = edits
      /\ old.run # None /\ SettledBy(t, task, old.run.answer.version)
  BY DEF Received, counters
<1>2. Kept \subseteq Kept'
  <2>1. LogOf(t)
    BY <1>0, StepLog DEF StepOf
  <2> QED
    BY <1>0, <1>1, <2>1, KeptGrows
<1>3. HasTask(old) /\ Underway(old) = task
  BY <1>1 DEF HasTask, Underway
<1>4. task.text \in Kept
  <2>1. /\ tabs'[t].known = old.known + 1 /\ old.known \in 1 .. Version
        /\ tabs'[t].known <= Version /\ log[tabs'[t].known].text = OfTask(Underway(old)).text
    BY ReceivedIs
  <2>2. Version \in Nat
    BY <1>0, CountsFit
  <2>3. tabs'[t].known \in 1 .. Version
    BY <2>1, <2>2
  <2>4. log[tabs'[t].known].text = task.text
    BY <1>3, <2>1 DEF OfTask, Claim
  <2> QED
    BY <2>3, <2>4 DEF Kept, Logged
<1>5. task \in TasksOf(old) /\ task \in TaskType(1 .. tasks, 1 .. Version)
  <2>1. Underway(old) \in TaskType(1 .. tasks, 1 .. Version)
    BY <1>0, <1>3, UnderwayIs
  <2>2. 1 .. tasks \in SUBSET Nat /\ 1 .. Version \in SUBSET Nat
    BY <1>0, CountsFit
  <2>3. Underway(old) # None
    BY <2>1, <2>2, NotNone
  <2> QED
    BY <1>3, <2>1, <2>3 DEF TasksOf
<1>6. /\ task.revision <= old.revision
      /\ task.revision = old.revision => task.text = old.text
      /\ task.origin # None => task.origin.text \in {task.text} \cup Kept
      /\ drafts[t] # None => drafts[t].text = old.text /\ drafts[t].revision = old.revision
  BY <1>1, <1>5 DEF EditsFit, HoldsEdits
<1>7. task.revision \in Nat /\ old.revision \in Nat
  BY <1>0, <1>5, SavingAssumption DEF TypeOK, TabType, TaskType
<1>8. ASSUME NEW s \in Sources, drafts[s] # None
      PROVE  drafts[s].text \in Kept' \cup InJournal'
  <2>1. \/ drafts'[s] = drafts[s]
        \/ s = t /\ drafts[s].revision <= task.revision
        \/ task.origin # None /\ drafts[s].text = task.origin.text
        \/ drafts'[s] # None /\ drafts'[s].text = drafts[s].text
    BY <1>1, <1>8 DEF SettledBy
  <2>2. CASE s = t /\ drafts[s].revision <= task.revision
    <3>1. task.revision = old.revision
      BY <1>6, <1>7, <1>8, <2>2
    <3>2. drafts[s].text = task.text
      BY <1>6, <1>8, <2>2, <3>1
    <3> QED
      BY <1>2, <1>4, <3>2
  <2>3. CASE task.origin # None /\ drafts[s].text = task.origin.text
    BY <1>2, <1>4, <1>6, <2>3
  <2> QED
    BY <1>8, <2>1, <2>2, <2>3, DraftStays
<1> QED
  BY <1>1, <1>2, <1>8, KeptNext

LEMMA LoadedKept ==
    ASSUME Safety, EditsFit, EditsKept, NEW t \in Tabs, Loaded(t)
    PROVE  EditsKept'
<1>0. TypeOK /\ TabsFit /\ Bookkeeping
  BY DEF Safety
<1>1. /\ t = loads + 1 /\ log' = log /\ typedOver' = typedOver /\ edits' = edits
      /\ \A s \in Tabs \ {t} : drafts'[s] = drafts[s] \/ drafts[s].text = Block.text
  BY DEF Loaded
<1>2. Kept \subseteq Kept'
  <2>1. LogOf(t)
    BY <1>0, StepLog DEF StepOf
  <2> QED
    BY <1>0, <1>1, <2>1, KeptGrows
<1>3. Block.text \in Kept
  BY <1>0, BlockTyped DEF Kept, Logged, Block
<1>4. drafts[t] = None
  BY <1>0, <1>1, CountsFit DEF Bookkeeping, Sources
<1>5. ASSUME NEW s \in Sources, drafts[s] # None
      PROVE  drafts[s].text \in Kept' \cup InJournal'
  <2>1. s \in Tabs \ {t}
    BY <1>4, <1>5 DEF Sources
  <2> QED
    BY <1>1, <1>2, <1>3, <1>5, <2>1, DraftStays
<1> QED
  BY <1>1, <1>2, <1>5, KeptNext

LEMMA EditsStep ==
    ASSUME ~RebuildsInFlight, Safety, EditsFit, EditsKept, Next
    PROVE  EditsFit' /\ EditsKept'
<1>0. TypeOK /\ TabsFit /\ Bookkeeping
  BY DEF Safety
<1>1. ASSUME NEW t, LogOf(t), typedOver' = typedOver, edits' = edits, drafts' = drafts
      PROVE  EditsKept'
  BY <1>0, <1>1, KeptGrows, QuietKept
<1>2. ASSUME NEW t \in Tabs, StepOf(t)
      PROVE  EditsFit'
  <2>1. CASE \E task : Admitted(t, task)
    BY <2>1, AdmittedEdits
  <2> QED
    BY <1>2, <2>1, RedrawnEdits, EditedEdits, QueueEdits, ReceivedEdits, ClosedEdits, LoadedEdits
       DEF StepOf
<1>3. ASSUME NEW t \in Tabs, StepOf(t)
      PROVE  EditsKept'
  <2>1. LogOf(t)
    BY <1>0, <1>3, StepLog
  <2>2. CASE typedOver' = typedOver /\ edits' = edits /\ drafts' = drafts
    BY <1>1, <2>1, <2>2
  <2>3. CASE Edited(t) \/ Received(t) \/ Loaded(t)
    BY <2>3, EditedKept, ReceivedKept, LoadedKept
  <2>4. CASE \E task : Admitted(t, task)
    BY <2>2, <2>4 DEF Admitted
  <2>5. CASE \/ Redrawn(t) \/ Outdated(t) \/ Resumed(t) \/ Refused(t) \/ Lost(t)
             \/ Ordered(t) \/ OrderTaken(t) \/ Closed(t)
    <3>1. typedOver' = typedOver /\ edits' = edits /\ drafts' = drafts
      BY <2>5 DEF Redrawn, Outdated, Resumed, Refused, Lost, Ordered, OrderTaken, Closed
    <3> QED
      BY <2>2, <3>1
  <2> QED
    BY <1>3, <2>3, <2>4, <2>5 DEF StepOf
<1>4. ASSUME NEW request, Patched(request)
      PROVE  EditsFit' /\ EditsKept'
  <2>1. EditsFit'
    BY <1>4, PatchedEdits
  <2>2. LogOf(request.source)
    BY <1>0, <1>4, PatchedLog, Unchanged DEF LogOf
  <2>3. typedOver' = typedOver /\ edits' = edits /\ drafts' = drafts
    BY <1>4 DEF Patched
  <2> QED
    BY <1>1, <2>1, <2>2, <2>3
<1>5. (\E t \in Tabs : StepOf(t)) \/ (\E request : Patched(request))
  BY StepIs DEF Safety
<1> QED
  BY <1>2, <1>3, <1>4, <1>5

LEMMA EditsStutter ==
    ASSUME EditsFit, EditsKept, UNCHANGED vars
    PROVE  EditsFit' /\ EditsKept'
<1>1. UNCHANGED <<log, drafts, tabs, edits, typedOver>>
  BY DEF vars
<1>2. Logged' = Logged /\ InJournal' = InJournal
  BY <1>1 DEF Logged, InJournal, Version
<1>3. Kept' = Kept
  BY <1>1, <1>2 DEF Kept
<1>4. EditsFit'
  BY <1>1, <1>3 DEF EditsFit, Opened, HoldsEdits, TasksOf, HasTask, Underway
<1> QED
  BY <1>1, <1>2, <1>4 DEF EditsKept

LEMMA EditsInit == Init => EditsFit /\ EditsKept
<1> SUFFICES ASSUME Init PROVE EditsFit /\ EditsKept
  OBVIOUS
<1>1. \A t \in Tabs : ~Opened(tabs[t])
  BY DEF Init, ClosedTab, Opened
<1>2. edits = 0
  BY DEF Init
<1> QED
  BY <1>1, <1>2 DEF EditsFit, EditsKept

\* Whatever the user typed and did not replace is in the journal of the
\* browser or on the server, through lost answers, conflicts, closed tabs and
\* recoveries, as long as rows are not built again in the middle of a save.
THEOREM NoEditIsLost ==
    ASSUME ~RebuildsInFlight
    PROVE  Spec => []EditsKept
<1> DEFINE Inv == Safety /\ EditsFit /\ EditsKept
<1>1. Init => Inv
  BY InitSafe, EditsInit
<1>2. Inv /\ [Next]_vars => Inv'
  BY NextSafe, StutterSafe, EditsStep, EditsStutter
<1>3. Inv => EditsKept
  OBVIOUS
<1> QED
  BY <1>1, <1>2, <1>3, PTL DEF Spec

-----------------------------------------------------------------------------
(***************************************************************************)
(* A page never puts an older text of its own over a newer one.            *)
(***************************************************************************)
LEMMA ChangedKept ==
    ASSUME TypeOK, \A v \in 1 .. Version : log'[v] = log[v]
    PROVE  \A v \in 1 .. Version : Changed(log', v) <=> Changed(log, v)
<1>1. Version \in Nat
  BY CountsFit
<1>2. ASSUME NEW v \in 1 .. Version PROVE Changed(log', v) <=> Changed(log, v)
  <2>1. v > 1 => v - 1 \in 1 .. Version
    BY <1>1
  <2> QED
    BY <2>1 DEF Changed
<1> QED
  BY <1>2

LEMMA OwnKept ==
    ASSUME TypeOK, \A v \in 1 .. Version : log'[v] = log[v]
    PROVE  \A n \in 0 .. Version : \A u, text : OwnUpTo(log', u, n, text) <=> OwnUpTo(log, u, n, text)
<1>1. Version \in Nat
  BY CountsFit
<1>2. ASSUME NEW n \in 0 .. Version, NEW u, NEW text
      PROVE  OwnUpTo(log', u, n, text) <=> OwnUpTo(log, u, n, text)
  <2>1. \A w \in 1 .. n : w \in 1 .. Version
    BY <1>1
  <2> QED
    BY <2>1, ChangedKept DEF OwnUpTo
<1> QED
  BY <1>2

\* Fewer entries, or a newer text, or one that was not changed.
LEMMA OwnUpToLess ==
    ASSUME NEW entries, NEW t, NEW n \in Nat, NEW m \in Nat, NEW text,
           m <= n, OwnUpTo(entries, t, n, text)
    PROVE  OwnUpTo(entries, t, m, text)
<1>1. \A v \in 1 .. m : v \in 1 .. n
  OBVIOUS
<1> QED
  BY <1>1 DEF OwnUpTo

LEMMA OwnUpToNewer ==
    ASSUME TypeOK, NEW t, NEW n \in 0 .. Version, NEW text \in Int, NEW newer \in Int,
           text <= newer, OwnUpTo(log, t, n, text)
    PROVE  OwnUpTo(log, t, n, newer)
<1>1. ASSUME NEW v \in 1 .. n, Changed(log, v), log[v].source = t
      PROVE  log[v].text <= newer
  <2>1. v \in 1 .. Version
    BY CountsFit
  <2>2. log[v].text \in Nat
    BY <2>1, CountsFit, SavingAssumption DEF Texts
  <2>3. log[v].text <= text
    BY <1>1 DEF OwnUpTo
  <2> QED
    BY <2>2, <2>3
<1> QED
  BY <1>1 DEF OwnUpTo

\* One entry more, which did not change the text, is another's, or is not newer.
LEMMA OwnUpToMore ==
    ASSUME NEW entries, NEW t, NEW n \in Nat, NEW text, OwnUpTo(entries, t, n, text),
           \/ ~Changed(entries, n + 1) \/ entries[n + 1].source # t
           \/ entries[n + 1].text <= text
    PROVE  OwnUpTo(entries, t, n + 1, text)
<1>1. \A v \in 1 .. n + 1 : v \in 1 .. n \/ v = n + 1
  OBVIOUS
<1> QED
  BY <1>1 DEF OwnUpTo

\* Who was overtaken still is.
LEMMA OverKept ==
    ASSUME TypeOK, NEW t, LogOf(t), NEW u, NEW n \in Nat, Over(log, n, u)
    PROVE  Over(log', n, u)
<1>1. Overtaken(n, u)
  BY DEF Over, Overtaken, Version
<1>2. OvertakenThen(n, u)
  BY <1>1, OvertakenKept
<1> QED
  BY <1>2 DEF Over, OvertakenThen, Version

\* Everybody but its author is overtaken by a new version.
LEMMA OverElse ==
    ASSUME TypeOK, NEW t, Version' = Version + 1, log'[Version + 1].source = t,
           NEW u, u # t, NEW n \in 0 .. Version
    PROVE  Over(log', n, u)
<1>1. Version \in Nat
  BY CountsFit
<1>2. Version + 1 \in n + 1 .. Version'
  BY <1>1
<1>3. Version + 1 \in n + 1 .. Len(log')
  BY <1>2 DEF Version
<1> QED
  BY <1>3 DEF Over

\* Its own versions do not overtake a tab.
LEMMA OverPast ==
    ASSUME TypeOK, NEW t, NEW n \in Nat, NEW m \in Nat, n <= m,
           \A v \in n + 1 .. m : log[v].source = t, Over(log, n, t)
    PROVE  Over(log, m, t)
<1>1. Len(log) \in Nat
  BY CountsFit DEF Version
<1>2. PICK v \in n + 1 .. Len(log) : log[v].source # t
  BY DEF Over
<1>3. v \in n + 1 .. m \/ v \in m + 1 .. Len(log)
  BY <1>1
<1> QED
  BY <1>2, <1>3 DEF Over

\* What a step leaves to a tab whose row and queue are no newer than before.
LEMMA NewestStill ==
    ASSUME NEW entries, NEW t, NEW old, NEW new, HoldsNewest(entries, t, old),
           new.known = old.known, new.text = old.text, new.content = old.content,
           new.origin = old.origin, new.order = old.order, TasksOf(new) \subseteq TasksOf(old),
           HasTask(new) /\ new.pending # None =>
               HasTask(old) /\ new.pending = old.pending /\ Underway(new) = Underway(old),
           Busy(new) => Busy(old) /\ (new.conflict => old.conflict)
    PROVE  HoldsNewest(entries, t, new)
BY DEF HoldsNewest

LEMMA NewestElse ==
    ASSUME TypeOK, TabsFit, Bookkeeping, NEW t \in Tabs, LogOf(t), NEW u \in Tabs \ {t},
           Opened(tabs[u]), HoldsNewest(log, u, tabs[u])
    PROVE  HoldsNewest(log', u, tabs[u])
<1> DEFINE tab == tabs[u]
           known == tabs[u].known
<1>1. Version \in Nat /\ \A v \in 1 .. Version : log'[v] = log[v]
  BY CountsFit DEF LogOf
<1>2. known \in 1 .. Version /\ known \in 0 .. Version
  <2>1. known \in 1 .. Version
    BY OpenTabFits
  <2> QED
    BY <1>1, <2>1
<1>3. CASE Version' = Version
  <2>1. Len(log') = Len(log)
    BY <1>3 DEF Version
  <2>2. Over(log, known, u) => Over(log', known, u)
    <3> HIDE DEF known
    <3> QED
      BY <1>1, <1>2, OverKept
  <2>3. \A text : /\ OwnUpTo(log', u, known, text) <=> OwnUpTo(log, u, known, text)
                  /\ OwnUpTo(log', u, Len(log), text) <=> OwnUpTo(log, u, Len(log), text)
    <3>1. Len(log) \in 0 .. Version
      BY <1>1 DEF Version
    <3> HIDE DEF known
    <3> QED
      BY <1>1, <1>2, <3>1, OwnKept
  <2>4. log'[known] = log[known]
    BY <1>1, <1>2
  <2>5. \A v \in 1 .. known : log'[v] = log[v] /\ (Changed(log', v) <=> Changed(log, v))
    <3>1. \A v \in 1 .. known : v \in 1 .. Version
      BY <1>1, <1>2
    <3> QED
      BY <1>1, <3>1, ChangedKept
  <2> QED
    BY <2>1, <2>2, <2>3, <2>4, <2>5 DEF HoldsNewest
<1>4. CASE Version' = Version + 1 /\ log'[Version + 1].source = t
  <2>1. Over(log', known, u)
    <3> HIDE DEF known
    <3> QED
      BY <1>2, <1>4, OverElse
  <2>2. \A text : OwnUpTo(log', u, known, text) <=> OwnUpTo(log, u, known, text)
    <3> HIDE DEF known
    <3> QED
      BY <1>1, <1>2, OwnKept
  <2>3. log'[known] = log[known]
    BY <1>1, <1>2
  <2> QED
    BY <2>1, <2>2, <2>3 DEF HoldsNewest
<1> QED
  BY <1>3, <1>4 DEF LogOf

\* What a step of one tab has to show.
NewestThen(t) ==
    LET new == tabs'[t]
    IN  /\ OnlyRow(t) /\ (SentBy(new) \/ wire' \subseteq wire)
        /\ Opened(new) => HoldsNewest(log', t, new)
        /\ \/ SameTask(t)
           \/ /\ Opened(new) /\ Underway(new) # None /\ Underway(new).pinned = new.known
              /\ Underway(new).source = t

LEMMA NewestAfter ==
    ASSUME \A u \in Tabs : Opened(tabs'[u]) => HoldsNewest(log', u, tabs'[u]),
           \A a \in Claims' : a.expected = Version' => OwnUpTo(log', a.source, Version', a.text)
    PROVE  NewestFits'
BY DEF NewestFits, Opened, HoldsNewest, Over, OwnUpTo, Changed, TasksOf, HasTask, Underway, Busy,
       Good, Conflict, Answer, Version

LEMMA NewestNext ==
    ASSUME Safety, NewestFits, NEW t \in Tabs, LogOf(t), NewestThen(t)
    PROVE  NewestFits'
<1>0. TypeOK /\ TabsFit /\ Bookkeeping
  BY DEF Safety
<1>1. /\ Version \in Nat /\ Version' \in Nat /\ Version <= Version'
      /\ \A v \in 1 .. Version : log'[v] = log[v]
  BY <1>0, CountsFit DEF LogOf
<1>2. OnlyRow(t) /\ (SentBy(tabs'[t]) \/ wire' \subseteq wire)
  BY DEF NewestThen
<1>3. ASSUME NEW u \in Tabs, Opened(tabs'[u])
      PROVE  HoldsNewest(log', u, tabs'[u])
  <2>1. CASE u = t
    BY <1>3, <2>1 DEF NewestThen
  <2>2. CASE u # t
    <3>1. tabs'[u] = tabs[u]
      BY <1>2, <2>2 DEF OnlyRow
    <3>2. Opened(tabs[u]) /\ HoldsNewest(log, u, tabs[u])
      BY <1>3, <3>1 DEF NewestFits
    <3> QED
      BY <1>0, <2>2, <3>1, <3>2, NewestElse
  <2> QED
    BY <2>1, <2>2
<1>4. ASSUME NEW a \in Claims', a.expected = Version'
      PROVE  OwnUpTo(log', a.source, Version', a.text)
  <2>1. CASE a \in Claims
    <3>1. a.expected \in 1 .. Version
      BY <1>0, <2>1, ClaimTyped
    <3>2. a.expected = Version /\ Version' = Version
      BY <1>1, <1>4, <3>1
    <3>3. OwnUpTo(log, a.source, Version, a.text)
      BY <2>1, <3>2 DEF NewestFits
    <3> QED
      BY <1>0, <1>1, <3>2, <3>3, OwnKept
  <2>2. CASE a \notin Claims
    <3> DEFINE new == tabs'[t]
               task == Underway(new)
    <3>1. HasTask(new) /\ a = OfTask(task)
      BY <1>2, <2>2, ClaimsNext
    <3>2. ~SameTask(t)
      BY <2>2, <3>1, ClaimsAre DEF SameTask
    <3>3. /\ Opened(new) /\ task # None /\ task.pinned = new.known /\ task.source = t
          /\ HoldsNewest(log', t, new)
      BY <3>2 DEF NewestThen
    <3>4. task \in TasksOf(new)
      BY <3>1, <3>3 DEF TasksOf
    <3>5. a.source = t /\ a.text = task.text /\ new.known = Version'
      BY <1>4, <3>1, <3>3 DEF OfTask, Claim
    <3>6. Version' = Len(log')
      BY DEF Version
    <3>7. Over(log', new.known, t) \/ OwnUpTo(log', t, Len(log'), task.text)
      <4> HIDE DEF task, new
      <4> QED
        BY <3>3, <3>4 DEF HoldsNewest
    <3>8. ~Over(log', new.known, t)
      <4>1. ~(\E v \in Version' + 1 .. Version' : TRUE)
        BY <1>1
      <4> QED
        BY <3>5, <3>6, <4>1 DEF Over
    <3> QED
      BY <3>5, <3>6, <3>7, <3>8
  <2> QED
    BY <2>1, <2>2
<1> QED
  BY <1>3, <1>4, NewestAfter

\* The log stays as it is.
LEMMA NewestQuiet ==
    ASSUME Safety, NewestFits, NEW t \in Tabs, log' = log,
           OnlyRow(t), SentBy(tabs'[t]) \/ wire' \subseteq wire,
           Opened(tabs'[t]) => HoldsNewest(log, t, tabs'[t]),
           \/ SameTask(t)
           \/ /\ Opened(tabs'[t]) /\ Underway(tabs'[t]) # None
              /\ Underway(tabs'[t]).pinned = tabs'[t].known /\ Underway(tabs'[t]).source = t
    PROVE  NewestFits'
<1>1. LogOf(t)
  BY Unchanged DEF LogOf, Safety
<1>2. NewestThen(t)
  BY DEF NewestThen
<1> QED
  BY <1>1, <1>2, NewestNext

LEMMA QueueNewest ==
    ASSUME Safety, NewestFits, NEW t \in Tabs,
           Outdated(t) \/ Resumed(t) \/ Refused(t) \/ Lost(t)
    PROVE  NewestFits'
<1> DEFINE old == tabs[t]
           new == tabs'[t]
<1>0. TypeOK /\ TabsFit /\ Bookkeeping
  BY DEF Safety
<1>1. /\ Opened(old) /\ SameRow(new, old) /\ log' = log /\ OnlyRow(t)
      /\ SentBy(new) \/ wire' \subseteq wire
  BY DEF Outdated, Resumed, Refused, Lost, OnlyRow, Elsewhere
<1>2. HoldsNewest(log, t, old)
  BY <1>1 DEF NewestFits
<1>3. old.run # None => old.retry = None
  BY <1>0, <1>1 DEF TabsFit, Fits
<1>4. /\ HasTask(new) => HasTask(old) /\ Underway(new) = Underway(old)
      /\ new.pending = old.pending \/ new.pending = None
      /\ Busy(new) => Busy(old) /\ (new.conflict => old.conflict)
  <2>1. CASE Outdated(t)
    <3>1. Work(new) = Work(old) /\ (new.conflict <=> old.conflict)
      BY <2>1 DEF Outdated
    <3> HIDE DEF old, new
    <3> QED
      BY <3>1, WorkIs DEF Busy
  <2>2. CASE Resumed(t)
    <3>1. /\ old.run = None /\ old.retry # None /\ (new.conflict <=> old.conflict)
          /\ new.run # None /\ new.run.task = old.retry /\ new.pending = old.pending
      BY <2>2 DEF Resumed
    <3> HIDE DEF old, new
    <3> QED
      BY <3>1 DEF HasTask, Underway, Busy
  <2>3. CASE Refused(t)
    <3>1. old.run # None /\ new.run = None /\ new.retry = old.retry /\ new.pending = None
      BY <2>3 DEF Refused
    <3> HIDE DEF old, new
    <3> QED
      BY <1>3, <3>1 DEF HasTask, Underway, Busy
  <2>4. CASE Lost(t)
    <3>1. /\ old.run # None /\ new.run = None /\ new.retry = old.run.task
          /\ new.pending = old.pending /\ (new.conflict <=> old.conflict)
      BY <2>4 DEF Lost
    <3> HIDE DEF old, new
    <3> QED
      BY <3>1 DEF HasTask, Underway, Busy
  <2> QED
    BY <2>1, <2>2, <2>3, <2>4
<1>5. HoldsNewest(log, t, new)
  <2>1. TasksOf(new) \subseteq TasksOf(old)
    BY <1>4, SameTasks
  <2>2. /\ new.known = old.known /\ new.text = old.text /\ new.content = old.content
        /\ new.origin = old.origin /\ new.order = old.order
    BY <1>1 DEF SameRow
  <2> HIDE DEF old, new
  <2> QED
    BY <1>2, <1>4, <2>1, <2>2, NewestStill
<1>6. SameTask(t)
  BY <1>4 DEF SameTask
<1> QED
  BY <1>1, <1>5, <1>6, NewestQuiet

\* The conjuncts of HoldsNewest, of a log and a tab.
LEMMA NewestIs ==
    ASSUME NEW entries, NEW t, NEW tab, NEW over \in BOOLEAN, over <=> Over(entries, tab.known, t),
           over \/ OwnUpTo(entries, t, Len(entries), tab.text),
           over \/ OwnUpTo(entries, t, tab.known, tab.content),
           \/ over \/ tab.origin = None
           \/ \A v \in 1 .. tab.known : entries[v].source = t => ~Changed(entries, v),
           OwnUpTo(entries, t, tab.known, entries[tab.known].text),
           \A task \in TasksOf(tab) :
               /\ task.text <= tab.text
               /\ over \/ OwnUpTo(entries, t, Len(entries), task.text)
               /\ task.origin = tab.origin \/ tab.origin = None,
           HasTask(tab) /\ tab.pending # None => Underway(tab).text <= tab.pending.text,
           Busy(tab) => ~tab.conflict,
           tab.order # None /\ Good(tab.order.answer) => tab.order.answer.version = tab.known + 1
    PROVE  HoldsNewest(entries, t, tab)
BY DEF HoldsNewest

LEMMA RedrawnNewest ==
    ASSUME Safety, EditsFit, NewestFits, ~RebuildsInFlight, NEW t \in Tabs, Redrawn(t)
    PROVE  NewestFits'
<1> DEFINE old == tabs[t]
           new == tabs'[t]
           draft == drafts[t]
           over == Over(log, old.known, t)
<1>0. TypeOK /\ TabsFit /\ Bookkeeping
  BY DEF Safety
<1>1. /\ Opened(old) /\ OnlyRow(t) /\ Work(new) = Work(old) /\ new.origin = old.origin
      /\ ~Busy(old) /\ log' = log /\ wire' = wire
      /\ new.order # None => new.order.answer = None
      /\ old.order # None => ~Good(old.order.answer)
      /\ new.content = old.text \/ new.content = old.content
      /\ draft # None => new.text = draft.text
      /\ draft = None /\ old.origin # None => new.text = old.origin.text
      /\ draft = None /\ old.origin = None => new.text = new.content
  BY DEF Redrawn, OnlyRow, Elsewhere, Good
<1>2. HoldsNewest(log, t, old) /\ Behind(t, old) /\ HoldsEdits(old, draft, Kept)
  BY <1>0, <1>1 DEF NewestFits, BehindFits, Safety, EditsFit
<1>3. old.known \in 1 .. Version /\ Version \in Nat /\ Version = Len(log)
  BY <1>0, <1>1, OpenTabFits, CountsFit DEF Version
<1>4. ~HasTask(old) /\ ~HasTask(new) /\ ~Busy(new) /\ TasksOf(new) = {} /\ new.known = old.known
  BY <1>1, WorkIs DEF Busy, HasTask, TasksOf
<1>5. Version = old.known \/ over
  <2>1. UpToDate(old.known, t)
    BY <1>1, <1>2, <1>4 DEF Behind
  <2> QED
    BY <2>1 DEF UpToDate, Overtaken, Over, Version
<1>6. /\ over \/ OwnUpTo(log, t, Len(log), old.text)
      /\ over \/ OwnUpTo(log, t, old.known, old.content)
      /\ \/ over \/ old.origin = None
         \/ \A v \in 1 .. old.known : log[v].source = t => ~Changed(log, v)
      /\ OwnUpTo(log, t, old.known, log[old.known].text)
  BY <1>2 DEF HoldsNewest
<1>7. over \/ OwnUpTo(log, t, Len(log), new.text)
  <2>1. CASE draft # None
    BY <1>1, <1>2, <1>6, <2>1 DEF HoldsEdits
  <2>2. CASE draft = None /\ old.origin # None
    <3>1. over \/ \A v \in 1 .. Len(log) : log[v].source = t => ~Changed(log, v)
      BY <1>3, <1>5, <1>6, <2>2
    <3> QED
      BY <3>1 DEF OwnUpTo
  <2>3. CASE draft = None /\ old.origin = None
    BY <1>1, <1>3, <1>5, <1>6, <2>3
  <2> QED
    BY <2>1, <2>2, <2>3
<1>8. over \/ OwnUpTo(log, t, old.known, new.content)
  <2>1. old.known \in Nat /\ Len(log) \in Nat /\ old.known <= Len(log)
    BY <1>3
  <2>2. over \/ OwnUpTo(log, t, old.known, old.text)
    <3> HIDE DEF old, over
    <3> QED
      BY <1>6, <2>1, OwnUpToLess
  <2> QED
    BY <1>1, <1>6, <2>2
<1>9. new.order # None => ~Good(new.order.answer)
  BY <1>1 DEF Good
<1>10. HoldsNewest(log, t, new)
  <2> HIDE DEF old, new, draft
  <2> QED
    BY <1>1, <1>4, <1>6, <1>7, <1>8, <1>9 DEF HoldsNewest
<1> QED
  BY <1>1, <1>4, <1>10, NewestQuiet DEF SameTask

\* A confirmed recovery is the one the tasks of the tab were made for.
LEMMA SameOriginIs ==
    ASSUME NEW a \in OriginType, NEW b \in OriginType, SameOrigin(a, b), a.resolved, b.resolved,
           a # None
    PROVE  a = b
<1>1. a.resolved = b.resolved
  BY DEF OriginType
<1> QED
  BY <1>1 DEF SameOrigin, OriginType

LEMMA EditedNewest ==
    ASSUME Safety, Typed, NewestFits, NEW t \in Tabs, Edited(t)
    PROVE  NewestFits'
<1> DEFINE old == tabs[t]
           new == tabs'[t]
           over == Over(log, old.known, t)
<1>0. TypeOK /\ TabsFit /\ Bookkeeping
  BY DEF Safety
<1>1. /\ Opened(old) /\ OnlyRow(t) /\ Work(new) = Work(old) /\ log' = log /\ wire' = wire
      /\ RowTyped(new) /\ new.order = None /\ new.content = old.content
      /\ \/ new.origin = old.origin /\ (new.conflict <=> old.conflict)
         \/ SameOrigin(new.origin, old.origin) /\ ~Unresolved(new) /\ ~new.conflict
      /\ new.text = edits + 1 \/ new.text = old.text
  BY DEF Edited, OnlyRow, Elsewhere
<1>2. HoldsNewest(log, t, old)
  BY <1>1 DEF NewestFits
<1>3. /\ Version \in Nat /\ Version = Len(log) /\ edits \in Nat /\ old.text \in Nat
      /\ Len(log) \in 0 .. Version /\ Len(log) \in Nat
  <2>1. old.text \in Texts
    BY <1>0 DEF TypeOK, TabType
  <2> QED
    BY <1>0, <2>1, CountsFit DEF Texts, Version
<1>4. /\ HasTask(new) <=> HasTask(old)
      /\ TasksOf(new) = TasksOf(old) /\ (Busy(new) <=> Busy(old))
      /\ new.known = old.known /\ new.pending = old.pending /\ Underway(new) = Underway(old)
  BY <1>1, WorkIs DEF Busy, TasksOf
<1>5. old.text <= new.text /\ (over \/ OwnUpTo(log, t, Len(log), new.text))
  <2>1. CASE new.text = old.text
    BY <1>2, <1>3, <2>1 DEF HoldsNewest
  <2>2. CASE new.text = edits + 1
    <3>1. old.text <= edits
      BY DEF Typed, Numbered
    <3>2. ASSUME NEW v \in 1 .. Version PROVE log[v].text <= edits + 1
      <4>1. log[v].text \in Texts /\ log[v].text <= edits
        BY <1>0, CountsFit DEF Typed
      <4> QED
        BY <1>3, <4>1 DEF Texts
    <3> QED
      BY <1>3, <2>2, <3>1, <3>2 DEF OwnUpTo
  <2> QED
    BY <1>1, <2>1, <2>2
<1>6. new.origin = None <=> old.origin = None
  BY <1>1 DEF SameOrigin
<1>7. ASSUME NEW task \in TasksOf(old)
      PROVE  /\ task.text <= new.text /\ (over \/ OwnUpTo(log, t, Len(log), task.text))
             /\ task.origin = new.origin \/ new.origin = None
  <2>1. /\ task.text <= old.text /\ (over \/ OwnUpTo(log, t, Len(log), task.text))
        /\ task.origin = old.origin \/ old.origin = None
    BY <1>2, <1>7 DEF HoldsNewest
  <2>2. /\ task \in TaskType(1 .. tasks, 1 .. Version) /\ Busy(old)
    <3>1. \/ task = old.pending /\ old.pending # None
          \/ HasTask(old) /\ task = Underway(old)
      BY <1>7 DEF TasksOf
    <3> QED
      BY <1>0, <3>1, UnderwayIs DEF TypeOK, TabType, Busy, HasTask
  <2>3. task.text \in Nat /\ new.text \in Nat
    BY <1>1, <1>3, <2>2 DEF TaskType, Texts
  <2>4. new.origin = old.origin \/ new.origin = None
    <3>1. CASE SameOrigin(new.origin, old.origin) /\ ~Unresolved(new) /\ new.origin # None
      <4>1. ~Unresolved(old)
        BY <1>0, <1>1, <2>2 DEF TabsFit, Fits
      <4>2. new.origin.resolved /\ old.origin.resolved /\ old.origin # None
        BY <1>6, <3>1, <4>1 DEF Unresolved
      <4>3. new.origin \in OriginType /\ old.origin \in OriginType
        BY <1>0, <1>1, <3>1, <4>2 DEF TypeOK, RowTyped, TabType
      <4> HIDE DEF new, old
      <4> QED
        BY <3>1, <4>2, <4>3, SameOriginIs
    <3> QED
      BY <1>1, <3>1
  <2> HIDE DEF old, new, over
  <2> QED
    BY <1>3, <1>5, <2>1, <2>3, <2>4
<1>8. Busy(new) => ~new.conflict
  <2>1. Busy(old) => ~old.conflict
    BY <1>2 DEF HoldsNewest
  <2> QED
    BY <1>1, <1>4, <2>1
<1>9. HoldsNewest(log, t, new)
  <2>1. /\ over \/ OwnUpTo(log, t, old.known, old.content)
        /\ \/ over \/ old.origin = None
           \/ \A v \in 1 .. old.known : log[v].source = t => ~Changed(log, v)
        /\ OwnUpTo(log, t, old.known, log[old.known].text)
        /\ HasTask(old) /\ old.pending # None => Underway(old).text <= old.pending.text
    BY <1>2 DEF HoldsNewest
  <2> HIDE DEF old, new
  <2> QED
    BY <1>1, <1>4, <1>5, <1>6, <1>7, <1>8, <2>1 DEF HoldsNewest
<1> QED
  BY <1>1, <1>4, <1>9, NewestQuiet DEF SameTask

LEMMA AdmittedNewest ==
    ASSUME Safety, NewestFits, NEW t \in Tabs, NEW task, Admitted(t, task)
    PROVE  NewestFits'
<1> DEFINE old == tabs[t]
           new == tabs'[t]
           over == Over(log, old.known, t)
           sent == Fixed(old, task)
<1>0. TypeOK /\ TabsFit /\ Bookkeeping
  BY DEF Safety
<1>1. /\ Opened(old) /\ OnlyRow(t) /\ SameRow(new, old) /\ log' = log
      /\ ~new.conflict /\ old.order = None
      /\ task \in TaskType(1 .. tasks', 1 .. Version) /\ task.source = t
      /\ task.text = old.text /\ task.origin = old.origin
      /\ new.run # None
      /\ HasTask(old) => new.run.task = Underway(old) /\ new.pending = task
      /\ ~HasTask(old) => new.run.task = sent /\ new.pending = None
      /\ SentBy(new) \/ wire' \subseteq wire
      /\ tasks' = tasks + 1
  BY DEF Admitted, OnlyRow, Elsewhere
<1>2. HoldsNewest(log, t, old)
  BY <1>1 DEF NewestFits
<1>3. /\ new.text = old.text /\ new.origin = old.origin /\ new.known = old.known
      /\ new.content = old.content /\ new.order = None
  BY <1>1 DEF SameRow
<1>4. old.text \in Nat
  <2>1. old.text \in Texts
    BY <1>0 DEF TypeOK, TabType
  <2> QED
    BY <2>1 DEF Texts
<1>5. sent.text = old.text /\ sent.origin = old.origin /\ sent.pinned = old.known /\ sent.source = t
  BY <1>1 DEF Fixed, TaskType
<1>6. HasTask(new) /\ Underway(new) = new.run.task
  BY <1>1 DEF HasTask, Underway
<1>7. over \/ OwnUpTo(log, t, Len(log), old.text)
  BY <1>2 DEF HoldsNewest
<1>8. ASSUME NEW some \in TasksOf(new)
      PROVE  /\ some.text <= new.text /\ (over \/ OwnUpTo(log, t, Len(log), some.text))
             /\ some.origin = new.origin \/ new.origin = None
  <2>1. some = new.pending \/ some = new.run.task
    BY <1>6, <1>8 DEF TasksOf
  <2>2. CASE some.text = old.text /\ some.origin = old.origin
    <3> HIDE DEF old, new, over
    <3> QED
      BY <1>3, <1>4, <1>7, <2>2
  <2>3. CASE HasTask(old) /\ some = Underway(old)
    <3>1. some # None
      BY <1>8 DEF TasksOf
    <3>2. some \in TasksOf(old)
      BY <2>3, <3>1 DEF TasksOf
    <3>3. /\ some.text <= old.text /\ (over \/ OwnUpTo(log, t, Len(log), some.text))
          /\ some.origin = old.origin \/ old.origin = None
      BY <1>2, <3>2 DEF HoldsNewest
    <3> QED
      BY <1>3, <3>3
  <2>4. some = task \/ some = sent \/ (HasTask(old) /\ some = Underway(old))
    <3>1. some # None
      BY <1>8 DEF TasksOf
    <3> QED
      BY <1>1, <2>1, <3>1
  <2> QED
    BY <1>1, <1>5, <2>2, <2>3, <2>4
<1>9. new.pending # None => Underway(new).text <= new.pending.text
  <2>1. ASSUME HasTask(old) PROVE Underway(old).text <= old.text
    <3>1. Underway(old) # None
      <4>1. Underway(old) \in TaskType(1 .. tasks, 1 .. Version)
        BY <1>0, <2>1, UnderwayIs
      <4>2. 1 .. tasks \in SUBSET Nat /\ 1 .. Version \in SUBSET Nat
        BY <1>0, CountsFit
      <4> QED
        BY <4>1, <4>2, NotNone
    <3>2. Underway(old) \in TasksOf(old)
      BY <2>1, <3>1 DEF TasksOf
    <3> QED
      BY <1>2, <3>2 DEF HoldsNewest
  <2> QED
    BY <1>1, <1>6, <2>1
<1>10. HoldsNewest(log, t, new)
  <2>1. /\ over \/ OwnUpTo(log, t, old.known, old.content)
        /\ \/ over \/ old.origin = None
           \/ \A v \in 1 .. old.known : log[v].source = t => ~Changed(log, v)
        /\ OwnUpTo(log, t, old.known, log[old.known].text)
    BY <1>2 DEF HoldsNewest
  <2> HIDE DEF old, new
  <2> QED
    BY <1>1, <1>3, <1>7, <1>8, <1>9, <2>1 DEF HoldsNewest
<1>11. \/ SameTask(t)
       \/ /\ Opened(new) /\ Underway(new) # None
          /\ Underway(new).pinned = new.known /\ Underway(new).source = t
  <2>1. CASE HasTask(old)
    BY <1>1, <1>6, <2>1 DEF SameTask
  <2>2. CASE ~HasTask(old)
    <3>1. Opened(new)
      BY <1>1 DEF SameRow, Opened
    <3>2. sent # None
      <4>1. new.run \in RunType(1 .. tasks', 1 .. Version)
        <5>1. new \in TabType(1 .. tasks', 1 .. Version)
          BY DEF Admitted
        <5> QED
          BY <1>1, <5>1 DEF TabType
      <4>2. sent \in TaskType(1 .. tasks', 1 .. Version)
        BY <1>1, <2>2, <4>1 DEF RunType
      <4>3. 1 .. tasks' \in SUBSET Nat /\ 1 .. Version \in SUBSET Nat
        BY <1>0, <1>1, CountsFit
      <4> HIDE DEF sent
      <4> QED
        BY <4>2, <4>3, NotNone
    <3> QED
      BY <1>1, <1>3, <1>5, <1>6, <2>2, <3>1, <3>2
  <2> QED
    BY <2>1, <2>2
<1> QED
  BY <1>1, <1>10, <1>11, NewestQuiet

LEMMA ReceivedNewest ==
    ASSUME Safety, EditsFit, NewestFits, NewestWins, NEW t \in Tabs, Received(t)
    PROVE  NewestFits'
<1> DEFINE old == tabs[t]
           new == tabs'[t]
           task == old.run.task
           answer == old.run.answer
           known == old.known
           over == Over(log, known, t)
           then == Over(log, known + 1, t)
<1>0. TypeOK /\ TabsFit /\ Bookkeeping
  BY DEF Safety
<1>1. /\ Opened(old) /\ OnlyRow(t) /\ SentBy(new) /\ log' = log /\ old.run # None
      /\ Good(answer) /\ new.text = old.text /\ new.order = old.order
      /\ new.source = old.source
      /\ (new.conflict <=> old.conflict)
      /\ \/ new.origin = None
         \/ new.origin = old.origin /\ old.origin # task.origin
      /\ \/ new.content \in {old.text, answer.text}
         \/ drafts[t] # None /\ new.content = drafts[t].text
      /\ new.retry = None /\ new.pending = None
      /\ \/ new.run = None
         \/ old.pending # None /\ new.run # None /\ new.run.task = Fixed(new, old.pending)
  BY DEF Received, OnlyRow
<1>2. /\ HoldsNewest(log, t, old)
      /\ drafts[t] # None => drafts[t].text = old.text
  BY <1>1 DEF NewestFits, EditsFit, HoldsEdits
<1>3. HasTask(old) /\ Busy(old) /\ Underway(old) = task
  BY <1>1 DEF HasTask, Busy, Underway
<1>4. /\ new.known = known + 1 /\ known \in 1 .. Version /\ known + 1 <= Version
      /\ log[known + 1].source = t /\ log[known + 1].text = task.text
  BY <1>3, ReceivedIs DEF OfTask, Claim
<1>5. /\ Version \in Nat /\ Version = Len(log) /\ Len(log) \in Nat /\ known \in Nat
      /\ known + 1 \in 1 .. Version /\ known + 1 \in Nat
      /\ known <= Len(log) /\ known + 1 <= Len(log)
  <2>1. Version \in Nat /\ Version = Len(log)
    BY <1>0, CountsFit DEF Version
  <2> HIDE DEF known
  <2> QED
    BY <1>4, <2>1
<1>6. task \in TasksOf(old) /\ task \in TaskType(1 .. tasks, 1 .. Version)
  <2>1. Underway(old) \in TaskType(1 .. tasks, 1 .. Version)
    BY <1>0, <1>3, UnderwayIs
  <2>2. 1 .. tasks \in SUBSET Nat /\ 1 .. Version \in SUBSET Nat
    BY <1>0, CountsFit
  <2>3. Underway(old) # None
    BY <2>1, <2>2, NotNone
  <2> QED
    BY <1>3, <2>1, <2>3 DEF TasksOf
<1>7. /\ over \/ OwnUpTo(log, t, Len(log), old.text)
      /\ OwnUpTo(log, t, known, log[known].text)
      /\ \A some \in TasksOf(old) :
            /\ some.text <= old.text
            /\ over \/ OwnUpTo(log, t, Len(log), some.text)
            /\ some.origin = old.origin \/ old.origin = None
      /\ ~old.conflict
  BY <1>2, <1>3 DEF HoldsNewest
<1>8. over => then
  <2>1. known <= known + 1 /\ \A v \in known + 1 .. known + 1 : log[v].source = t
    BY <1>4, <1>5
  <2> HIDE DEF known
  <2> QED
    BY <1>0, <1>5, <2>1, OverPast
<1>9. new.origin = None
  BY <1>1, <1>6, <1>7
<1>10. new.order = None
  BY <1>0, <1>1, <1>3 DEF TabsFit, Fits
<1>11. then \/ OwnUpTo(log, t, known + 1, new.content)
  <2>1. new.content = old.text \/ new.content = task.text
    <3>1. answer.text = task.text
      BY <1>0, <1>1 DEF Safety, AnswersFit
    <3> QED
      BY <1>1, <1>2, <3>1
  <2>2. over \/ OwnUpTo(log, t, Len(log), new.content)
    BY <1>6, <1>7, <2>1
  <2> HIDE DEF known, new
  <2> QED
    BY <1>5, <1>8, <2>2, OwnUpToLess
<1>12. OwnUpTo(log, t, known + 1, log[known + 1].text)
  <2>1. \A v \in 1 .. Version : log[v].text \in Nat
    BY <1>0, CountsFit DEF Texts
  <2>2. CASE Changed(log, known + 1)
    <3>1. ASSUME NEW v \in 1 .. known + 1, Changed(log, v), log[v].source = t
          PROVE  log[v].text <= log[known + 1].text
      <4>1. v \in 1 .. Version /\ (v < known + 1 \/ v = known + 1)
        BY <1>5
      <4>2. CASE v = known + 1
        BY <1>5, <2>1, <4>2
      <4>3. CASE v < known + 1
        <5>1. Texted(v) /\ Texted(known + 1)
          BY <2>2, <3>1 DEF Texted, Changed
        <5> HIDE DEF known
        <5> QED
          BY <1>4, <1>5, <3>1, <4>1, <4>3, <5>1 DEF NewestWins
      <4> QED
        BY <4>1, <4>2, <4>3
    <3> QED
      BY <3>1 DEF OwnUpTo
  <2>3. CASE ~Changed(log, known + 1)
    <3>1. log[known + 1].text = log[known].text
      <4>1. known + 1 > 1 /\ (known + 1) - 1 = known
        BY <1>4, <1>5
      <4> HIDE DEF known
      <4> QED
        BY <2>3, <4>1 DEF Changed
    <3> HIDE DEF known
    <3> QED
      BY <1>5, <1>7, <2>3, <3>1, OwnUpToMore
  <2> QED
    BY <2>2, <2>3
<1>13. TasksOf(new) \subseteq {Fixed(new, old.pending)} /\ (HasTask(new) => new.run # None)
  BY <1>1 DEF TasksOf, HasTask, Underway
<1>14. ASSUME old.pending # None
       PROVE  /\ Fixed(new, old.pending).text = old.pending.text
              /\ Fixed(new, old.pending).pinned = known + 1
              /\ Fixed(new, old.pending).source = t
              /\ old.pending \in TasksOf(old)
  <2>1. old.pending \in TaskType(1 .. tasks, 1 .. Version)
    BY <1>0, <1>14 DEF TypeOK, TabType
  <2>2. old.pending.source = t
    BY <1>0, <1>1, <1>14 DEF TabsFit, Fits
  <2> QED
    BY <1>4, <1>14, <2>1, <2>2 DEF Fixed, TaskType, TasksOf
<1>15. ASSUME NEW some \in TasksOf(new)
       PROVE  some.text <= new.text /\ (over \/ OwnUpTo(log, t, Len(log), some.text))
  <2>1. old.pending # None /\ some = Fixed(new, old.pending)
    BY <1>1, <1>13, <1>15 DEF TasksOf, HasTask
  <2>2. some.text = old.pending.text /\ old.pending \in TasksOf(old)
    BY <1>14, <2>1
  <2> QED
    BY <1>1, <1>7, <2>2
<1>16. HoldsNewest(log, t, new)
  <2> HIDE DEF known, old, new
  <2> QED
    BY <1>1, <1>4, <1>7, <1>8, <1>9, <1>10, <1>11, <1>12, <1>15 DEF HoldsNewest
<1>17. \/ SameTask(t)
       \/ /\ Opened(new) /\ Underway(new) # None
          /\ Underway(new).pinned = new.known /\ Underway(new).source = t
  <2>1. CASE new.run = None
    BY <1>13, <2>1 DEF SameTask
  <2>2. CASE new.run # None
    <3>1. Underway(new) = Fixed(new, old.pending) /\ old.pending # None
      BY <1>1, <2>2 DEF Underway
    <3>2. Opened(new)
      BY <1>1 DEF Opened
    <3>3. Underway(new) # None
      <4>1. new.run \in RunType(1 .. tasks, 1 .. Version)
        BY <2>2 DEF Received, RowTyped, TabType
      <4>2. Underway(new) \in TaskType(1 .. tasks, 1 .. Version)
        BY <2>2, <4>1 DEF Underway, RunType
      <4>3. 1 .. tasks \in SUBSET Nat /\ 1 .. Version \in SUBSET Nat
        BY <1>0, CountsFit
      <4> QED
        BY <4>2, <4>3, NotNone
    <3> QED
      BY <1>4, <1>14, <3>1, <3>2, <3>3
  <2> QED
    BY <2>1, <2>2
<1> QED
  BY <1>1, <1>16, <1>17, NewestQuiet

\* What a tab that waits for an order is known to hold.
LEMMA OrderedNewest ==
    ASSUME Safety, NewestFits, NEW t \in Tabs, Ordered(t), OrderLists \subseteq {"own"}
    PROVE  NewestFits'
<1> DEFINE old == tabs[t]
           new == tabs'[t]
           known == old.known
           over == Over(log, known, t)
<1>0. TypeOK /\ TabsFit /\ Bookkeeping
  BY DEF Safety
<1>1. /\ Opened(old) /\ OnlyRow(t) /\ Work(new) = Work(old) /\ wire' = wire
      /\ new.text = old.text /\ new.content = old.content /\ new.origin = old.origin
      /\ old.order # None
      /\ \/ /\ log' = Append(log, Entry(Block.text, NoMutation, t, Version))
            /\ old.order.expected = Version
            /\ new.order.answer = Answer(Version + 1, Block.text)
         \/ log' = log /\ new.order.answer = Conflict
  BY DEF Ordered, SameText, OnlyRow, Elsewhere
<1>2. HoldsNewest(log, t, old)
  BY <1>1 DEF NewestFits
<1>3. ~Busy(old) /\ old.order.expected = known
  BY <1>0, <1>1 DEF TabsFit, Fits
<1>4. ~HasTask(old) /\ ~HasTask(new) /\ ~Busy(new) /\ TasksOf(new) = {} /\ new.known = known
  BY <1>1, <1>3, WorkIs DEF Busy, HasTask, TasksOf
<1>5. /\ over \/ OwnUpTo(log, t, Len(log), old.text)
      /\ over \/ OwnUpTo(log, t, known, old.content)
      /\ \/ over \/ old.origin = None
         \/ \A v \in 1 .. known : log[v].source = t => ~Changed(log, v)
      /\ OwnUpTo(log, t, known, log[known].text)
  BY <1>2 DEF HoldsNewest
<1>6. CASE log' = log /\ new.order.answer = Conflict
  <2>1. HoldsNewest(log, t, new)
    <3> HIDE DEF old, new
    <3> QED
      BY <1>1, <1>4, <1>5, <1>6 DEF HoldsNewest, Good
  <2> QED
    BY <1>1, <1>4, <1>6, <2>1, NewestQuiet DEF SameTask
<1>7. CASE /\ log' = Append(log, Entry(Block.text, NoMutation, t, Version))
           /\ old.order.expected = Version
           /\ new.order.answer = Answer(Version + 1, Block.text)
  <2>1. /\ Version \in Nat /\ Version \in 1 .. Version /\ Block.text \in Texts /\ t \in Nat
        /\ NoMutation \in Nat /\ known = Version
    BY <1>0, <1>3, <1>7, BlockTyped DEF NoMutation, Tabs
  <2>2. /\ Version' = Version + 1 /\ log'[Version + 1].text = Block.text
        /\ log'[Version + 1].source = t /\ \A v \in 1 .. Version : log'[v] = log[v]
    BY <1>0, <1>7, <2>1, LogGrows
  <2>3. Len(log) = Version /\ Len(log') = Version + 1
    BY <2>2 DEF Version
  <2>4. ~over
    <3>1. ~(\E v \in Version + 1 .. Version : TRUE)
      BY <2>1
    <3> QED
      BY <2>1, <2>3, <3>1 DEF Over
  <2>5. ~Changed(log', Version + 1)
    <3>1. Version + 1 > 1 /\ (Version + 1) - 1 = Version
      BY <2>1
    <3> QED
      BY <2>1, <2>2, <3>1 DEF Changed, Block
  <2>6. \A text : OwnUpTo(log, t, Version, text) => OwnUpTo(log', t, Version, text)
    <3>1. Version \in 0 .. Version
      BY <2>1
    <3> QED
      BY <1>0, <2>2, <3>1, OwnKept
  <2>7. OwnUpTo(log', t, Version + 1, old.text)
    <3>1. OwnUpTo(log', t, Version, old.text)
      BY <1>5, <2>3, <2>4, <2>6
    <3> QED
      BY <2>1, <2>5, <3>1, OwnUpToMore
  <2>8. /\ OwnUpTo(log', t, Version, old.content)
        /\ old.origin = None
           \/ \A v \in 1 .. Version : log'[v].source = t => ~Changed(log', v)
        /\ OwnUpTo(log', t, Version, log'[Version].text)
    BY <1>0, <1>5, <2>1, <2>2, <2>4, <2>6, ChangedKept
  <2>9. new.order.answer.version = Version + 1
    BY <1>7 DEF Answer
  <2>10. HoldsNewest(log', t, new)
    <3> HIDE DEF old, new, known
    <3> QED
      BY <1>1, <1>4, <2>1, <2>3, <2>7, <2>8, <2>9 DEF HoldsNewest
  <2>11. LogOf(t)
    BY <2>2 DEF LogOf
  <2>12. NewestThen(t)
    BY <1>1, <1>4, <2>10 DEF NewestThen, SameTask
  <2> QED
    BY <2>11, <2>12, NewestNext
<1> QED
  BY <1>1, <1>6, <1>7

LEMMA OrderTakenNewest ==
    ASSUME Safety, SeenFits, NewestFits, NEW t \in Tabs, OrderTaken(t)
    PROVE  NewestFits'
<1> DEFINE old == tabs[t]
           new == tabs'[t]
           known == old.known
           over == Over(log, known, t)
           then == Over(log, known + 1, t)
<1>0. TypeOK /\ TabsFit /\ Bookkeeping
  BY DEF Safety
<1>1. /\ Opened(old) /\ OnlyRow(t) /\ new.order = None /\ log' = log /\ wire' = wire
      /\ new.text = old.text /\ new.origin = old.origin
      /\ new.known = old.order.answer.version /\ new.content = old.order.answer.text
      /\ new.retry = old.retry /\ new.run = old.run /\ new.pending = old.pending
      /\ old.order # None /\ Good(old.order.answer)
  BY DEF OrderTaken, SameText, OnlyRow, Elsewhere
<1>2. HoldsNewest(log, t, old)
  BY <1>1 DEF NewestFits
<1>3. new.known = known + 1
  BY <1>1, <1>2 DEF HoldsNewest
<1>4. /\ ~Texted(known + 1) /\ log[known + 1].source = t /\ known + 1 \in 1 .. Version
      /\ new.content = log[known + 1].text /\ known \in 1 .. Version /\ Version \in Nat
  <2>1. /\ \A v \in known + 1 .. known + 1 : ~Texted(v) /\ log[v].source = t
        /\ known + 1 \in 1 .. Version /\ new.content = log[known + 1].text
    <3> DEFINE version == old.order.answer.version
    <3>1. /\ \A v \in known + 1 .. version : ~Texted(v) /\ log[v].source = t
          /\ version \in 1 .. Version /\ new.content = log[version].text
      BY <1>1 DEF SeenFits
    <3>2. version = known + 1
      BY <1>1, <1>3
    <3> HIDE DEF version, known, new
    <3> QED
      BY <3>1, <3>2
  <2>2. known \in 1 .. Version /\ Version \in Nat
    BY <1>0, <1>1, OpenTabFits, CountsFit
  <2>3. known + 1 \in known + 1 .. known + 1
    BY <2>2
  <2> QED
    BY <2>1, <2>2, <2>3
<1>5. ~Busy(new) /\ ~HasTask(new) /\ TasksOf(new) = {}
  <2>1. ~Busy(old)
    BY <1>0, <1>1 DEF TabsFit, Fits
  <2> QED
    BY <1>1, <2>1 DEF Busy, HasTask, TasksOf
<1>6. /\ over \/ OwnUpTo(log, t, Len(log), old.text)
      /\ \/ over \/ old.origin = None
         \/ \A v \in 1 .. known : log[v].source = t => ~Changed(log, v)
      /\ OwnUpTo(log, t, known, log[known].text)
  BY <1>2 DEF HoldsNewest
<1>7. known \in Nat /\ known + 1 \in Nat
  BY <1>4
<1>8. over => then
  <2>1. known <= known + 1 /\ \A v \in known + 1 .. known + 1 : log[v].source = t
    BY <1>4, <1>7
  <2> HIDE DEF known
  <2> QED
    BY <1>0, <1>7, <2>1, OverPast
<1>9. ~Changed(log, known + 1) /\ log[known + 1].text = log[known].text
  <2>1. known + 1 > 1 /\ (known + 1) - 1 = known
    BY <1>4, <1>7
  <2> HIDE DEF known
  <2> QED
    BY <1>4, <2>1 DEF Texted, Changed
<1>10. OwnUpTo(log, t, known + 1, log[known + 1].text)
  <2> HIDE DEF known
  <2> QED
    BY <1>6, <1>7, <1>9, OwnUpToMore
<1>11. \/ then \/ old.origin = None
       \/ \A v \in 1 .. known + 1 : log[v].source = t => ~Changed(log, v)
  <2>1. \A v \in 1 .. known + 1 : v \in 1 .. known \/ v = known + 1
    BY <1>7
  <2> HIDE DEF known
  <2> QED
    BY <1>6, <1>8, <1>9, <2>1
<1>12. HoldsNewest(log, t, new)
  <2> HIDE DEF old, new, known
  <2> QED
    BY <1>1, <1>3, <1>4, <1>5, <1>6, <1>8, <1>10, <1>11 DEF HoldsNewest
<1> QED
  BY <1>1, <1>5, <1>12, NewestQuiet DEF SameTask

LEMMA ClosedNewest ==
    ASSUME Safety, NewestFits, NEW t \in Tabs, Closed(t)
    PROVE  NewestFits'
<1>1. /\ OnlyRow(t) /\ tabs'[t] = ClosedTab /\ log' = log /\ wire' = wire
  BY DEF Closed, OnlyRow, Elsewhere
<1>2. ~Opened(tabs'[t]) /\ SameTask(t)
  BY <1>1 DEF ClosedTab, Opened, SameTask, HasTask
<1> QED
  BY <1>1, <1>2, NewestQuiet

\* A page load is a source of its own, and has saved nothing yet.
LEMMA LoadedNewest ==
    ASSUME Safety, NewestFits, NEW t \in Tabs, Loaded(t)
    PROVE  NewestFits'
<1> DEFINE new == tabs'[t]
<1>0. TypeOK /\ TabsFit /\ Bookkeeping
  BY DEF Safety
<1>1. /\ OnlyRow(t) /\ t = loads + 1 /\ new.known = Version /\ Idle(new) /\ log' = log
      /\ wire' = wire
  BY DEF Loaded, OnlyRow, Elsewhere
<1>2. Len(log) = Version /\ Version \in Nat /\ loads \in Nat
  BY <1>0, CountsFit DEF Version
<1>3. \A v \in 1 .. Version : log[v].source # t
  <2>1. \A v \in 1 .. Version : log[v].source \in Nat /\ log[v].source <= loads
    BY <1>0, CountsFit DEF Bookkeeping
  <2> QED
    BY <1>1, <1>2, <2>1
<1>4. \A text : OwnUpTo(log, t, Version, text)
  BY <1>3 DEF OwnUpTo
<1>5. /\ TasksOf(new) = {} /\ ~HasTask(new) /\ ~Busy(new) /\ new.order = None
  BY <1>1 DEF Idle, TasksOf, HasTask, Busy
<1>6. HoldsNewest(log, t, new)
  <2> HIDE DEF new
  <2> QED
    BY <1>1, <1>2, <1>3, <1>4, <1>5 DEF HoldsNewest
<1> QED
  BY <1>1, <1>5, <1>6, NewestQuiet DEF SameTask

\* The request of a tab, and the version it may make.
LEMMA PatchedNewest ==
    ASSUME Safety, NewestFits, NEW request, Patched(request)
    PROVE  NewestFits'
<1> DEFINE t == request.source
           old == tabs[t]
           new == tabs'[t]
           known == old.known
           over == Over(log, known, t)
           c == OfRequest(request)
<1>0. TypeOK /\ TabsFit /\ Bookkeeping /\ ClaimsFit /\ BehindFits
  BY DEF Safety
<1>1. /\ t \in Tabs /\ request \in wire /\ wire' \subseteq wire /\ OnlyRow(t)
      /\ \/ new = old
         \/ /\ SameRow(new, old) /\ (new.conflict <=> old.conflict) /\ old.run # None
            /\ new.retry = old.retry /\ new.pending = old.pending
            /\ new.run # None /\ new.run.task = old.run.task
  BY DEF Patched, OnlyRow, Awaits
<1>2. /\ new.known = old.known /\ new.text = old.text /\ new.content = old.content
      /\ new.origin = old.origin /\ new.order = old.order /\ new.pending = old.pending
      /\ (new.conflict <=> old.conflict) /\ new.source = old.source
      /\ (HasTask(new) <=> HasTask(old)) /\ (HasTask(old) => Underway(new) = Underway(old))
      /\ (Busy(new) <=> Busy(old))
  BY <1>1 DEF SameRow, HasTask, Underway, Busy
<1>3. TasksOf(new) = TasksOf(old) /\ SameTask(t)
  BY <1>2 DEF TasksOf, SameTask
<1>4. /\ Version \in Nat /\ \A v \in 1 .. Version : log'[v] = log[v]
      /\ \/ log' = log
         \/ /\ Version' = Version + 1 /\ Accepted(request)
            /\ log'[Version + 1].text = request.text
            /\ log'[Version + 1].source = t
  BY <1>0, PatchedLog
<1>5. CASE log' = log
  <2>1. Opened(new) => HoldsNewest(log, t, new)
    <3>1. Opened(new) => HoldsNewest(log, t, old)
      BY <1>1, <1>2 DEF NewestFits, Opened
    <3> HIDE DEF t, old, new
    <3> QED
      BY <1>2, <1>3, <3>1, NewestStill
  <2> HIDE DEF t
  <2> QED
    BY <1>1, <1>3, <1>5, <2>1, NewestQuiet
<1>6. CASE /\ Version' = Version + 1 /\ Accepted(request)
           /\ log'[Version + 1].text = request.text
           /\ log'[Version + 1].source = t
  <2>1. LogOf(t)
    BY <1>4, <1>6 DEF LogOf
  <2>2. ASSUME Opened(new)
        PROVE  HoldsNewest(log', t, new)
    <3>1. Opened(old) /\ HoldsNewest(log, t, old) /\ Behind(t, old)
      BY <1>0, <1>1, <1>2, <2>2 DEF Opened, NewestFits, BehindFits
    <3>2. /\ c \in Claims /\ c.id = request.id /\ c.source = t /\ c.expected = Version
          /\ c.text = request.text
      BY <1>1, <1>6, ClaimsAre DEF OfRequest, Claim, Accepted
    <3>3. HasTask(old) /\ request.id = Underway(old).id
      <4>1. ~(c.expected < Version)
        BY <1>4, <3>2
      <4>2. c.expected < Version \/ (HasTask(old) /\ c.id = Underway(old).id)
        <5> HIDE DEF c, t, old
        <5> QED
          BY <3>1, <3>2 DEF Behind
      <4> QED
        BY <3>2, <4>1, <4>2
    <3>4. OfTask(Underway(old)) = c /\ Underway(old).pinned = known
      <4>1. /\ OfTask(Underway(old)) \in Claims /\ OfTask(Underway(old)).id = request.id
            /\ Underway(old).pinned = known
        BY <1>0, <1>1, <3>3, ClaimsAre, UnderwayIs DEF OfTask, Claim
      <4> HIDE DEF c, old, known
      <4> QED
        BY <1>0, <3>2, <4>1 DEF ClaimsFit
    <3>5. known = Version /\ request.text = Underway(old).text
      BY <3>2, <3>4 DEF OfTask, Claim, OfRequest
    <3>6. Underway(old) \in TasksOf(old)
      <4>1. Underway(old) \in TaskType(1 .. tasks, 1 .. Version)
        BY <1>0, <1>1, <3>3, UnderwayIs
      <4>2. 1 .. tasks \in SUBSET Nat /\ 1 .. Version \in SUBSET Nat
        BY <1>0, CountsFit
      <4>3. Underway(old) # None
        BY <4>1, <4>2, NotNone
      <4> QED
        BY <3>3, <4>3 DEF TasksOf
    <3>7. Len(log) = Version /\ Len(log') = Version + 1
      BY <1>6 DEF Version
    <3>8. ~over
      <4>1. ~(\E v \in Version + 1 .. Version : TRUE)
        BY <1>4
      <4> QED
        BY <3>5, <3>7, <4>1 DEF Over
    <3>9. /\ OwnUpTo(log, t, Version, old.text)
          /\ OwnUpTo(log, t, Version, old.content)
          /\ old.origin = None \/ \A v \in 1 .. Version : log[v].source = t => ~Changed(log, v)
          /\ OwnUpTo(log, t, Version, log[Version].text)
          /\ \A task \in TasksOf(old) :
                /\ task.text <= old.text /\ OwnUpTo(log, t, Version, task.text)
                /\ task.origin = old.origin \/ old.origin = None
          /\ old.pending # None => Underway(old).text <= old.pending.text
          /\ Busy(old) => ~old.conflict
          /\ old.order # None /\ Good(old.order.answer) => old.order.answer.version = Version + 1
      BY <3>1, <3>3, <3>5, <3>7, <3>8 DEF HoldsNewest
    <3>10. \A text : OwnUpTo(log, t, Version, text) => OwnUpTo(log', t, Version, text)
      <4>1. Version \in 0 .. Version
        BY <1>4
      <4> HIDE DEF t
      <4> QED
        BY <1>0, <1>4, <4>1, OwnKept
    <3>11. \A text : OwnUpTo(log, t, Version, text) /\ request.text <= text
                     => OwnUpTo(log', t, Version + 1, text)
      <4> HIDE DEF t
      <4> QED
        BY <1>4, <1>6, <3>10, OwnUpToMore
    <3>12. OwnUpTo(log', t, Version + 1, old.text)
      BY <3>5, <3>6, <3>9, <3>11
    <3>13. ASSUME NEW task \in TasksOf(old)
           PROVE  OwnUpTo(log', t, Version + 1, task.text)
      <4>1. request.text <= task.text
        <5>1. CASE task = Underway(old)
          <6>1. request.text \in Nat
            <7>1. c.text \in Texts
              <8> HIDE DEF c
              <8> QED
                BY <1>0, <3>2, ClaimTyped
            <7> QED
              BY <3>2, <7>1 DEF Texts
          <6> QED
            BY <3>5, <5>1, <6>1
        <5>2. CASE task = old.pending /\ old.pending # None
          BY <3>5, <3>9, <5>2
        <5> QED
          BY <3>13, <5>1, <5>2 DEF TasksOf
      <4> QED
        BY <3>9, <3>11, <3>13, <4>1
    <3>14. /\ OwnUpTo(log', t, Version, old.content)
           /\ old.origin = None \/ \A v \in 1 .. Version : log'[v].source = t => ~Changed(log', v)
           /\ OwnUpTo(log', t, Version, log'[Version].text)
      <4>1. \A v \in 1 .. Version : Changed(log', v) <=> Changed(log, v)
        BY <1>0, <1>4, ChangedKept
      <4>2. Version \in 1 .. Version
        BY <1>0, <1>4 DEF Bookkeeping
      <4> HIDE DEF t, old
      <4> QED
        BY <1>4, <3>9, <3>10, <4>1, <4>2
    <3>15. HasTask(new) /\ new.pending # None => Underway(new).text <= new.pending.text
      BY <1>2, <3>9
    <3> HIDE DEF t, old, new, known
    <3>16. new.known = Version
      BY <1>2, <3>5 DEF known
    <3> QED
      BY <1>2, <1>3, <3>7, <3>9, <3>12, <3>13, <3>14, <3>15, <3>16 DEF HoldsNewest
  <2>3. NewestThen(t)
    BY <1>1, <1>3, <2>2 DEF NewestThen
  <2> HIDE DEF t
  <2> QED
    BY <1>1, <2>1, <2>3, NewestNext
<1> QED
  BY <1>4, <1>5, <1>6

-----------------------------------------------------------------------------
(***************************************************************************)
(* Texts are numbered in the order they are typed.                         *)
(***************************************************************************)
LEMMA NumberedMore ==
    ASSUME NEW I, NEW V, NEW tab \in TabType(I, V), NEW n \in Nat, NEW m \in Nat, n <= m,
           I \in SUBSET Nat, V \in SUBSET Nat, Numbered(tab, n)
    PROVE  Numbered(tab, m)
<1>1. tab.text \in Nat /\ tab.content \in Nat
  BY DEF TabType, Texts
<1>2. tab.origin # None => tab.origin.text \in Nat
  BY DEF TabType, OriginType, Texts
<1>3. tab.pending # None => tab.pending.text \in Nat
  <2>1. tab.pending # None => tab.pending \in TaskType(I, V)
    BY DEF TabType
  <2> QED
    BY <2>1 DEF TaskType, Texts
<1> QED
  BY <1>1, <1>2, <1>3 DEF Numbered

\* The same of the state after the step.
TypedThen ==
    /\ \A v \in 1 .. Version' : log'[v].text <= edits'
    /\ \A s \in Sources : drafts'[s] # None => drafts'[s].text <= edits'

LEMMA TypedAfter ==
    ASSUME TypedThen, \A u \in Tabs : Numbered(tabs'[u], edits'), \A a \in Claims' : a.text <= edits'
    PROVE  Typed'
BY DEF Typed, TypedThen, Numbered

LEMMA TypedStep ==
    ASSUME Safety, Typed, NEW t \in Tabs, OnlyRow(t), SentBy(tabs'[t]) \/ wire' \subseteq wire,
           edits' \in Nat, edits <= edits', TypedThen, Numbered(tabs'[t], edits'),
           SameTask(t) \/ Underway(tabs'[t]).text <= edits'
    PROVE  Typed'
<1>0. TypeOK /\ TabsFit /\ Bookkeeping
  BY DEF Safety
<1>1. edits \in Nat /\ 1 .. tasks \in SUBSET Nat /\ 1 .. Version \in SUBSET Nat
  BY <1>0, CountsFit
<1>2. ASSUME NEW u \in Tabs PROVE Numbered(tabs'[u], edits')
  <2>1. CASE u = t
    BY <2>1
  <2>2. CASE u # t
    <3>1. tabs'[u] = tabs[u] /\ Numbered(tabs[u], edits)
      BY <2>2 DEF OnlyRow, Typed
    <3>2. tabs[u] \in TabType(1 .. tasks, 1 .. Version)
      BY <1>0 DEF TypeOK
    <3> QED
      BY <1>1, <3>1, <3>2, NumberedMore
  <2> QED
    BY <2>1, <2>2
<1>3. ASSUME NEW a \in Claims' PROVE a.text <= edits'
  <2>1. CASE a \in Claims
    <3>1. a.text \in Texts /\ a.text <= edits
      BY <1>0, <2>1, ClaimTyped DEF Typed
    <3> QED
      BY <1>1, <3>1 DEF Texts
  <2>2. CASE a \notin Claims
    <3>1. HasTask(tabs'[t]) /\ a = OfTask(Underway(tabs'[t]))
      BY <2>2, ClaimsNext
    <3>2. ~SameTask(t)
      BY <2>2, <3>1, ClaimsAre DEF SameTask
    <3> QED
      BY <3>1, <3>2 DEF OfTask, Claim
  <2> QED
    BY <2>1, <2>2
<1> QED
  BY <1>2, <1>3, TypedAfter

LEMMA TypedStill ==
    ASSUME TypeOK, Typed, log' = log, drafts' = drafts, edits' = edits
    PROVE  TypedThen /\ edits' \in Nat /\ edits <= edits'
<1>1. Version' = Version /\ edits \in Nat
  BY Unchanged, CountsFit
<1> QED
  BY <1>1 DEF Typed, TypedThen

LEMMA RowTypedTexts ==
    ASSUME Safety, Typed, NEW t \in Tabs,
           Redrawn(t) \/ Outdated(t) \/ Resumed(t) \/ Refused(t) \/ Lost(t)
    PROVE  Typed'
<1> DEFINE old == tabs[t]
           new == tabs'[t]
<1>0. TypeOK /\ TabsFit /\ Bookkeeping
  BY DEF Safety
<1>1. /\ Opened(old) /\ OnlyRow(t) /\ log' = log /\ drafts' = drafts /\ edits' = edits
      /\ SentBy(new) \/ wire' \subseteq wire
  BY DEF Redrawn, Outdated, Resumed, Refused, Lost, OnlyRow, Elsewhere
<1>2. Numbered(old, edits) /\ (drafts[t] # None => drafts[t].text <= edits)
  BY DEF Typed, Sources
<1>3. SameTask(t)
  <2>1. CASE Work(new) = Work(old)
    BY <2>1, WorkIs DEF SameTask
  <2>2. CASE Resumed(t)
    BY <2>2 DEF Resumed, SameTask, HasTask, Underway
  <2>3. CASE Refused(t)
    <3>1. old.run # None => old.retry = None
      BY <1>0, <1>1 DEF TabsFit, Fits
    <3> QED
      BY <2>3, <3>1 DEF Refused, SameTask, HasTask
  <2>4. CASE Lost(t)
    BY <2>4 DEF Lost, SameTask, HasTask, Underway
  <2> QED
    BY <2>1, <2>2, <2>3, <2>4 DEF Redrawn, Outdated
<1>4. Numbered(new, edits)
  <2>1. CASE Redrawn(t)
    <3>1. new.pending = old.pending /\ new.origin = old.origin
      BY <2>1, WorkIs DEF Redrawn
    <3>2. /\ new.content = old.text \/ new.content = old.content
          /\ drafts[t] # None => new.text = drafts[t].text
          /\ drafts[t] = None /\ old.origin # None => new.text = old.origin.text
          /\ drafts[t] = None /\ old.origin = None => new.text = new.content
      BY <2>1 DEF Redrawn
    <3> HIDE DEF old, new
    <3> QED
      BY <1>2, <3>1, <3>2 DEF Numbered
  <2>2. CASE Outdated(t) \/ Resumed(t) \/ Refused(t) \/ Lost(t)
    <3>1. SameRow(new, old)
      BY <2>2 DEF Outdated, Resumed, Refused, Lost
    <3>2. new.pending = old.pending \/ new.pending = None
      BY <2>2, WorkIs DEF Outdated, Resumed, Refused, Lost
    <3> HIDE DEF old, new
    <3> QED
      BY <1>2, <3>1, <3>2 DEF Numbered, SameRow
  <2> QED
    BY <2>1, <2>2
<1> QED
  BY <1>0, <1>1, <1>3, <1>4, TypedStill, TypedStep

LEMMA EditedTexts ==
    ASSUME Safety, Typed, NEW t \in Tabs, Edited(t)
    PROVE  Typed'
<1> DEFINE old == tabs[t]
           new == tabs'[t]
<1>0. TypeOK /\ TabsFit /\ Bookkeeping
  BY DEF Safety
<1>1. /\ Opened(old) /\ OnlyRow(t) /\ Work(new) = Work(old) /\ log' = log /\ wire' = wire
      /\ new.content = old.content
      /\ drafts' = [drafts EXCEPT ![t] = Draft(new.text, new.expected, new.revision)]
      /\ new.origin = old.origin \/ SameOrigin(new.origin, old.origin)
      /\ \/ new.text = edits + 1 /\ edits' = edits + 1
         \/ new.text = old.text /\ edits' = edits
  BY DEF Edited, OnlyRow, Elsewhere
<1>2. edits \in Nat /\ edits' \in Nat /\ edits <= edits' /\ Version' = Version
  BY <1>0, <1>1, CountsFit, Unchanged
<1>3. Numbered(old, edits')
  <2>1. Numbered(old, edits) /\ old \in TabType(1 .. tasks, 1 .. Version)
    BY <1>0 DEF Typed, TypeOK
  <2>2. 1 .. tasks \in SUBSET Nat /\ 1 .. Version \in SUBSET Nat
    BY <1>0, CountsFit
  <2> HIDE DEF old
  <2> QED
    BY <1>2, <2>1, <2>2, NumberedMore
<1>4. new.pending = old.pending /\ SameTask(t)
  BY <1>1, WorkIs DEF SameTask
<1>5. new.text <= edits'
  BY <1>1, <1>2, <1>3 DEF Numbered
<1>6. Numbered(new, edits')
  <2>1. new.origin # None => old.origin # None /\ new.origin.text = old.origin.text
    BY <1>1 DEF SameOrigin
  <2> HIDE DEF old, new
  <2> QED
    BY <1>1, <1>3, <1>4, <1>5, <2>1 DEF Numbered
<1>7. TypedThen
  <2>1. ASSUME NEW v \in 1 .. Version' PROVE log'[v].text <= edits'
    <3>1. log[v].text \in Texts /\ log[v].text <= edits
      BY <1>0, <1>2, CountsFit DEF Typed
    <3> QED
      BY <1>1, <1>2, <3>1 DEF Texts
  <2>2. ASSUME NEW s \in Sources, drafts'[s] # None PROVE drafts'[s].text <= edits'
    <3>1. CASE s = t
      <4>1. drafts'[t] = Draft(new.text, new.expected, new.revision)
        BY <1>0, <1>1 DEF TypeOK, Sources
      <4> QED
        BY <1>5, <3>1, <4>1 DEF Draft
    <3>2. CASE s # t
      <4>1. drafts'[s] = drafts[s]
        BY <1>1, <3>2
      <4>2. drafts[s].text \in Texts /\ drafts[s].text <= edits
        BY <1>0, <2>2, <4>1, DraftsFit DEF Typed
      <4> QED
        BY <1>2, <4>1, <4>2 DEF Texts
    <3> QED
      BY <3>1, <3>2
  <2> QED
    BY <2>1, <2>2 DEF TypedThen
<1> QED
  BY <1>1, <1>2, <1>4, <1>6, <1>7, TypedStep

LEMMA AdmittedTexts ==
    ASSUME Safety, Typed, NEW t \in Tabs, NEW task, Admitted(t, task)
    PROVE  Typed'
<1> DEFINE old == tabs[t]
           new == tabs'[t]
<1>0. TypeOK /\ TabsFit /\ Bookkeeping
  BY DEF Safety
<1>1. /\ OnlyRow(t) /\ SameRow(new, old) /\ log' = log /\ drafts' = drafts /\ edits' = edits
      /\ task \in TaskType(1 .. tasks', 1 .. Version) /\ task.text = old.text
      /\ new.run # None
      /\ HasTask(old) => new.run.task = Underway(old) /\ new.pending = task
      /\ ~HasTask(old) => new.run.task = Fixed(old, task) /\ new.pending = None
      /\ SentBy(new) \/ wire' \subseteq wire
  BY DEF Admitted, OnlyRow, Elsewhere
<1>2. Numbered(old, edits)
  BY DEF Typed
<1>3. Numbered(new, edits)
  <2> HIDE DEF old, new
  <2> QED
    BY <1>1, <1>2 DEF Numbered, SameRow
<1>4. SameTask(t) \/ Underway(new).text <= edits
  <2>1. HasTask(new) /\ Underway(new) = new.run.task
    BY <1>1 DEF HasTask, Underway
  <2>2. Fixed(old, task).text = old.text
    BY <1>1 DEF Fixed, TaskType
  <2> QED
    BY <1>1, <1>2, <2>1, <2>2 DEF SameTask, Numbered
<1> QED
  BY <1>0, <1>1, <1>3, <1>4, TypedStill, TypedStep

LEMMA ReceivedTexts ==
    ASSUME Safety, Typed, NEW t \in Tabs, Received(t)
    PROVE  Typed'
<1> DEFINE old == tabs[t]
           new == tabs'[t]
           task == old.run.task
           answer == old.run.answer
<1>0. TypeOK /\ TabsFit /\ Bookkeeping
  BY DEF Safety
<1>1. /\ OnlyRow(t) /\ SentBy(new) /\ log' = log /\ edits' = edits /\ old.run # None
      /\ Good(answer) /\ new.text = old.text
      /\ new.origin = None \/ new.origin = old.origin
      /\ \/ new.content \in {old.text, answer.text}
         \/ drafts[t] # None /\ new.content = drafts[t].text
      /\ new.retry = None /\ new.pending = None
      /\ \/ new.run = None
         \/ old.pending # None /\ new.run # None /\ new.run.task = Fixed(new, old.pending)
      /\ \A s \in Sources :
            \/ drafts'[s] = drafts[s] \/ drafts'[s] = None
            \/ drafts[s] # None /\ drafts'[s].text = drafts[s].text
  BY DEF Received, OnlyRow, SettledBy
<1>2. Numbered(old, edits) /\ (drafts[t] # None => drafts[t].text <= edits)
  BY DEF Typed, Sources
<1>3. Version' = Version /\ edits \in Nat
  BY <1>0, <1>1, Unchanged, CountsFit
<1>4. answer.text <= edits
  <2>1. answer.text = task.text
    BY <1>0, <1>1 DEF Safety, AnswersFit
  <2>2. HasTask(old) /\ Underway(old) = task
    BY <1>1 DEF HasTask, Underway
  <2>3. OfTask(task) \in Claims /\ OfTask(task).text = task.text
    BY <2>2, ClaimsAre DEF OfTask, Claim
  <2> QED
    BY <2>1, <2>3 DEF Typed
<1>5. Numbered(new, edits)
  <2> HIDE DEF old, new, answer
  <2> QED
    BY <1>1, <1>2, <1>4 DEF Numbered
<1>6. TypedThen
  BY <1>1, <1>3 DEF TypedThen, Typed
<1>7. SameTask(t) \/ Underway(new).text <= edits
  <2>1. CASE new.run = None
    BY <1>1, <2>1 DEF SameTask, HasTask
  <2>2. CASE new.run # None
    <3>1. old.pending # None /\ Underway(new) = Fixed(new, old.pending)
      BY <1>1, <2>2 DEF Underway
    <3>2. old.pending \in TaskType(1 .. tasks, 1 .. Version)
      BY <1>0, <3>1 DEF TypeOK, TabType
    <3>3. Fixed(new, old.pending).text = old.pending.text
      BY <3>2 DEF Fixed, TaskType
    <3> QED
      BY <1>2, <3>1, <3>3 DEF Numbered
  <2> QED
    BY <2>1, <2>2
<1> QED
  BY <1>1, <1>3, <1>5, <1>6, <1>7, TypedStep

\* A version made by a reordering repeats the text of the one before it.
LEMMA OrderedText ==
    ASSUME TypeOK, Bookkeeping, NEW t \in Tabs, Ordered(t)
    PROVE  /\ Version \in Nat /\ Version' \in {Version, Version + 1}
           /\ \A v \in 1 .. Version : log'[v] = log[v]
           /\ log' = log \/ log'[Version + 1].text = Block.text
<1>1. /\ Version \in Nat /\ Version' \in {Version, Version + 1}
      /\ \A v \in 1 .. Version : log'[v] = log[v]
      /\ log' = log \/ log'[Version + 1] = Entry(Block.text, NoMutation, t, Version)
  BY OrderedLog
<1>2. Entry(Block.text, NoMutation, t, Version).text = Block.text
  BY DEF Entry
<1> QED
  BY <1>1, <1>2

LEMMA OrderTexts ==
    ASSUME Safety, SeenFits, Typed, NEW t \in Tabs, Ordered(t) \/ OrderTaken(t)
    PROVE  Typed'
<1> DEFINE old == tabs[t]
           new == tabs'[t]
<1>0. TypeOK /\ TabsFit /\ Bookkeeping
  BY DEF Safety
<1>1. /\ OnlyRow(t) /\ wire' = wire /\ drafts' = drafts /\ edits' = edits
      /\ new.text = old.text /\ new.origin = old.origin
  BY DEF Ordered, OrderTaken, SameText, OnlyRow, Elsewhere
<1>2. Numbered(old, edits) /\ edits \in Nat
  BY <1>0, CountsFit DEF Typed
<1>3. SameTask(t) /\ new.pending = old.pending
  <2>1. CASE Work(new) = Work(old)
    BY <2>1, WorkIs DEF SameTask
  <2> QED
    BY <2>1 DEF Ordered, OrderTaken, SameTask, HasTask, Underway
<1>4. CASE Ordered(t)
  <2>1. new.content = old.content
    BY <1>4 DEF Ordered
  <2>2. Numbered(new, edits)
    <3> HIDE DEF old, new
    <3> QED
      BY <1>1, <1>2, <1>3, <2>1 DEF Numbered
  <2>3. /\ Version \in Nat /\ Version' \in {Version, Version + 1}
        /\ \A v \in 1 .. Version : log'[v] = log[v]
        /\ log' = log \/ log'[Version + 1].text = Block.text
    BY <1>0, <1>4, OrderedText
  <2>4. Block.text <= edits
    <3>1. Version \in 1 .. Version
      BY <1>0, <2>3 DEF Bookkeeping
    <3> QED
      BY <3>1 DEF Typed, Block
  <2>5. ASSUME NEW v \in 1 .. Version' PROVE log'[v].text <= edits
    <3>1. v \in 1 .. Version \/ (v = Version + 1 /\ Version' # Version)
      BY <2>3
    <3>2. CASE v \in 1 .. Version
      BY <2>3, <3>2 DEF Typed
    <3>3. CASE v = Version + 1 /\ Version' # Version
      BY <1>0, <2>3, <2>4, <3>3, Unchanged
    <3> QED
      BY <3>1, <3>2, <3>3
  <2>6. TypedThen
    BY <1>1, <2>5 DEF TypedThen, Typed
  <2> QED
    BY <1>1, <1>2, <1>3, <2>2, <2>6, TypedStep
<1>5. CASE OrderTaken(t)
  <2>1. /\ log' = log /\ new.content = old.order.answer.text
        /\ old.order # None /\ Good(old.order.answer)
    BY <1>5 DEF OrderTaken
  <2>2. /\ old.order.answer.version \in 1 .. Version
        /\ new.content = log[old.order.answer.version].text
    BY <2>1 DEF SeenFits
  <2>3. new.content <= edits
    BY <2>2 DEF Typed
  <2>4. Numbered(new, edits)
    <3> HIDE DEF old, new
    <3> QED
      BY <1>1, <1>2, <1>3, <2>3 DEF Numbered
  <2> QED
    BY <1>0, <1>1, <1>3, <2>1, <2>4, TypedStill, TypedStep
<1> QED
  BY <1>4, <1>5

LEMMA PageTexts ==
    ASSUME Safety, Typed, NEW t \in Tabs, Closed(t) \/ Loaded(t)
    PROVE  Typed'
<1> DEFINE new == tabs'[t]
<1>0. TypeOK /\ TabsFit /\ Bookkeeping
  BY DEF Safety
<1>1. /\ OnlyRow(t) /\ wire' = wire /\ log' = log /\ edits' = edits
  BY DEF Closed, Loaded, OnlyRow, Elsewhere
<1>2. Version' = Version /\ edits \in Nat
  BY <1>0, <1>1, Unchanged, CountsFit
<1>3. CASE Closed(t)
  <2>1. new = ClosedTab /\ drafts' = drafts
    BY <1>3 DEF Closed
  <2>2. Numbered(new, edits) /\ SameTask(t)
    BY SMTT(60), <1>2, <2>1 DEF Numbered, ClosedTab, SameTask, HasTask
  <2> QED
    BY <1>0, <1>1, <2>1, <2>2, TypedStill, TypedStep
<1>4. CASE Loaded(t)
  <2>1. Block.text <= edits
    <3>1. Version \in 1 .. Version
      BY <1>0, BlockTyped
    <3> QED
      BY <3>1 DEF Typed, Block
  <2>2. /\ Idle(new) /\ \A u \in Tabs \ {t} : drafts'[u] = drafts[u] \/ drafts'[u] = None
    BY <1>4 DEF Loaded, Elsewhere
  <2>3. CASE /\ new.text = Block.text /\ new.content = Block.text /\ new.origin = None
             /\ drafts'[t] = None
    <3>1. Numbered(new, edits) /\ SameTask(t)
      <4> HIDE DEF new
      <4>1. Numbered(new, edits) /\ ~HasTask(new)
        BY <2>1, <2>2, <2>3 DEF Numbered, Idle, HasTask
      <4> QED
        BY <4>1 DEF SameTask, new
    <3>2. TypedThen
      BY <1>1, <1>2, <2>2, <2>3 DEF TypedThen, Typed, Sources
    <3> QED
      BY <1>1, <1>2, <3>1, <3>2, TypedStep
  <2>4. ASSUME NEW from \in Sources, drafts[from] # None, new.text = drafts[from].text,
               new.content = drafts[from].text, new.origin.text = drafts[from].text,
               drafts'[t] = Draft(new.text, new.expected, new.revision)
        PROVE  Typed'
    <3>1. drafts[from].text <= edits
      BY <2>4 DEF Typed
    <3>2. Numbered(new, edits) /\ SameTask(t)
      <4> HIDE DEF new
      <4>1. Numbered(new, edits) /\ ~HasTask(new)
        BY <2>2, <2>4, <3>1 DEF Numbered, Idle, HasTask
      <4> QED
        BY <4>1 DEF SameTask, new
    <3>3. drafts'[t].text <= edits
      BY <2>4, <3>1 DEF Draft
    <3>4. TypedThen
      BY <1>1, <1>2, <2>2, <3>3 DEF TypedThen, Typed, Sources
    <3> QED
      BY <1>1, <1>2, <3>2, <3>4, TypedStep
  <2> QED
    BY <1>4, <2>3, <2>4 DEF Loaded
<1> QED
  BY <1>3, <1>4

LEMMA PatchedTexts ==
    ASSUME Safety, Typed, NEW request, Patched(request)
    PROVE  Typed'
<1> DEFINE t == request.source
           old == tabs[t]
           new == tabs'[t]
<1>0. TypeOK /\ TabsFit /\ Bookkeeping
  BY DEF Safety
<1>1. /\ t \in Tabs /\ request \in wire /\ wire' \subseteq wire /\ OnlyRow(t)
      /\ drafts' = drafts /\ edits' = edits
      /\ \/ new = old
         \/ /\ SameRow(new, old) /\ old.run # None
            /\ new.retry = old.retry /\ new.pending = old.pending
            /\ new.run # None /\ new.run.task = old.run.task
  BY DEF Patched, OnlyRow, Awaits
<1>2. Numbered(old, edits) /\ edits \in Nat
  BY <1>0, <1>1, CountsFit DEF Typed
<1>3. Numbered(new, edits) /\ SameTask(t)
  <2>1. /\ new.text = old.text /\ new.content = old.content /\ new.origin = old.origin
        /\ new.pending = old.pending
    BY <1>1 DEF SameRow
  <2>2. Numbered(new, edits)
    <3> HIDE DEF t, old, new
    <3> QED
      BY <1>2, <2>1 DEF Numbered
  <2> QED
    BY <1>1, <2>2 DEF SameTask, HasTask, Underway
<1>4. /\ Version \in Nat /\ Version' \in {Version, Version + 1}
      /\ \A v \in 1 .. Version : log'[v] = log[v]
      /\ log' = log \/ log'[Version + 1].text = request.text
  BY <1>0, PatchedLog
<1>5. request.text <= edits
  <2>1. OfRequest(request) \in Claims /\ OfRequest(request).text = request.text
    BY <1>1, ClaimsAre DEF OfRequest, Claim
  <2> QED
    BY <2>1 DEF Typed
<1>6. ASSUME NEW v \in 1 .. Version' PROVE log'[v].text <= edits
  <2>1. v \in 1 .. Version \/ (v = Version + 1 /\ Version' # Version)
    BY <1>4
  <2>2. CASE v \in 1 .. Version
    BY <1>4, <2>2 DEF Typed
  <2>3. CASE v = Version + 1 /\ Version' # Version
    BY <1>0, <1>4, <1>5, <2>3, Unchanged
  <2> QED
    BY <2>1, <2>2, <2>3
<1>7. TypedThen
  BY <1>1, <1>6 DEF TypedThen, Typed
<1> HIDE DEF t
<1> QED
  BY <1>1, <1>2, <1>3, <1>7, TypedStep

\* The version that is new is not older than what its page saved before.
LEMMA NewestWinsNext ==
    ASSUME Safety, NewestFits, NewestWins,
           (\E t \in Tabs : StepOf(t)) \/ (\E request : Patched(request))
    PROVE  NewestWins'
<1>0. TypeOK /\ Bookkeeping /\ Version \in Nat
  BY CountsFit DEF Safety
<1>1. ASSUME Version' \in {Version, Version + 1}, \A v \in 1 .. Version : log'[v] = log[v],
             \/ Version' = Version \/ ~Changed(log', Version + 1)
             \/ OwnUpTo(log, log'[Version + 1].source, Version, log'[Version + 1].text)
      PROVE  NewestWins'
  <2>1. \A v \in 1 .. Version : Changed(log', v) <=> Changed(log, v)
    BY <1>0, <1>1, ChangedKept
  <2>2. ASSUME NEW v \in 1 .. Version', NEW w \in 1 .. Version', v < w,
               Changed(log', v), Changed(log', w), log'[v].source = log'[w].source
        PROVE  log'[v].text <= log'[w].text
    <3>1. v \in 1 .. Version /\ (w \in 1 .. Version \/ (w = Version + 1 /\ Version' # Version))
      BY <1>0, <1>1, <2>2
    <3>2. CASE w \in 1 .. Version
      <4>1. Texted(v) /\ Texted(w)
        BY <2>1, <2>2, <3>1, <3>2 DEF Texted, Changed
      <4> QED
        BY <1>1, <2>2, <3>1, <3>2, <4>1 DEF NewestWins
    <3>3. CASE w = Version + 1 /\ Version' # Version
      <4>1. OwnUpTo(log, log'[w].source, Version, log'[w].text)
        BY <1>1, <2>2, <3>3
      <4>2. Changed(log, v) /\ log[v].source = log'[w].source
        BY <1>1, <2>1, <2>2, <3>1
      <4> QED
        BY <1>1, <3>1, <4>1, <4>2 DEF OwnUpTo
    <3> QED
      BY <3>1, <3>2, <3>3
  <2> QED
    BY <2>2 DEF NewestWins, Texted, Changed
<1>2. ASSUME NEW request, Patched(request)
      PROVE  NewestWins'
  <2>1. /\ request \in wire /\ Version' \in {Version, Version + 1}
        /\ \A v \in 1 .. Version : log'[v] = log[v]
        /\ \/ log' = log
           \/ /\ Accepted(request)
              /\ log'[Version + 1].text = request.text
              /\ log'[Version + 1].source = request.source
    BY ZenonT(60), <1>0, <1>2, PatchedLog DEF Patched
  <2>2. CASE log' = log
    BY <1>0, <1>1, <2>1, <2>2, Unchanged
  <2>3. CASE /\ Accepted(request) /\ log'[Version + 1].text = request.text
             /\ log'[Version + 1].source = request.source
    <3> DEFINE c == OfRequest(request)
    <3>1. /\ c \in Claims /\ c.expected = Version /\ c.source = request.source
          /\ c.text = request.text
      BY <2>1, <2>3, ClaimsAre DEF OfRequest, Claim, Accepted
    <3>2. OwnUpTo(log, c.source, Version, c.text)
      <4> HIDE DEF c
      <4> QED
        BY <3>1 DEF NewestFits
    <3> QED
      BY <1>1, <2>1, <2>3, <3>1, <3>2
  <2> QED
    BY <2>1, <2>2, <2>3
<1>3. ASSUME NEW t \in Tabs, StepOf(t)
      PROVE  NewestWins'
  <2>1. CASE Ordered(t)
    <3>1. /\ Version' \in {Version, Version + 1} /\ \A v \in 1 .. Version : log'[v] = log[v]
          /\ log' = log \/ log'[Version + 1].text = Block.text
      BY <1>0, <2>1, OrderedText
    <3>2. CASE log' = log
      BY <1>0, <1>1, <3>1, <3>2, Unchanged
    <3>3. CASE log'[Version + 1].text = Block.text
      <4>1. Version + 1 > 1 /\ (Version + 1) - 1 = Version /\ Version \in 1 .. Version
        BY <1>0, BlockTyped
      <4>2. ~Changed(log', Version + 1)
        BY <3>1, <3>3, <4>1 DEF Changed, Block
      <4> QED
        BY <1>1, <3>1, <4>2
    <3> QED
      BY <3>1, <3>2, <3>3
  <2>2. CASE ~Ordered(t)
    <3>1. log' = log
      <4>1. CASE \E task : Admitted(t, task)
        BY <4>1 DEF Admitted
      <4> QED
        BY ZenonT(60), <1>3, <2>2, <4>1 DEF StepOf, Redrawn, Edited, Outdated, Resumed, Refused, Lost,
                                Received, OrderTaken, Closed, Loaded
    <3> QED
      BY <1>0, <1>1, <3>1, Unchanged
  <2> QED
    BY <2>1, <2>2
<1> QED
  BY <1>2, <1>3

LEMMA NewestStep ==
    ASSUME OrderLists \subseteq {"own"}, ~RebuildsInFlight, Next,
           Safety, SeenFits, EditsFit, Typed, NewestFits, NewestWins
    PROVE  Typed' /\ NewestFits' /\ NewestWins'
<1>1. (\E t \in Tabs : StepOf(t)) \/ (\E request : Patched(request))
  BY StepIs DEF Safety
<1>2. NewestWins'
  BY <1>1, NewestWinsNext
<1>3. ASSUME NEW t \in Tabs, StepOf(t)
      PROVE  Typed' /\ NewestFits'
  <2>1. CASE \E task : Admitted(t, task)
    BY <2>1, AdmittedTexts, AdmittedNewest
  <2>2. CASE Edited(t)
    BY <2>2, EditedTexts, EditedNewest
  <2>3. CASE Redrawn(t)
    BY <2>3, RowTypedTexts, RedrawnNewest
  <2>4. CASE Outdated(t) \/ Resumed(t) \/ Refused(t) \/ Lost(t)
    BY <2>4, RowTypedTexts, QueueNewest
  <2>5. CASE Received(t)
    BY <2>5, ReceivedTexts, ReceivedNewest
  <2>6. CASE Ordered(t) \/ OrderTaken(t)
    BY <2>6, OrderTexts, OrderedNewest, OrderTakenNewest
  <2>7. CASE Closed(t) \/ Loaded(t)
    BY <2>7, PageTexts, ClosedNewest, LoadedNewest
  <2> QED
    BY <1>3, <2>1, <2>2, <2>3, <2>4, <2>5, <2>6, <2>7 DEF StepOf
<1> QED
  BY <1>1, <1>2, <1>3, PatchedTexts, PatchedNewest

LEMMA NewestStutter ==
    ASSUME Typed, NewestFits, NewestWins, UNCHANGED vars
    PROVE  Typed' /\ NewestFits' /\ NewestWins'
<1>1. UNCHANGED <<log, drafts, tabs, wire, edits>>
  BY DEF vars
<1>2. Version' = Version
  BY <1>1 DEF Version
<1>3. Claims' = Claims
  BY <1>1 DEF Claims, HasTask, Underway, OfTask, OfRequest, Claim
<1>4. Typed'
  BY <1>1, <1>2, <1>3 DEF Typed, Numbered
<1>5. NewestFits'
  BY <1>1, <1>2, <1>3, NewestAfter DEF NewestFits, Opened
<1>6. NewestWins'
  BY <1>1, <1>2 DEF NewestWins, Texted
<1> QED
  BY <1>4, <1>5, <1>6

LEMMA NewestInit == Init => Typed /\ NewestFits /\ NewestWins
<1> SUFFICES ASSUME Init PROVE Typed /\ NewestFits /\ NewestWins
  OBVIOUS
<1>1. /\ \A t \in Tabs : ~Opened(tabs[t]) /\ ~HasTask(tabs[t]) /\ Numbered(tabs[t], 0)
      /\ edits = 0 /\ wire = {} /\ \A s \in Sources : drafts[s] = None
  BY DEF Init, ClosedTab, Opened, HasTask, Numbered
<1>2. Claims = {}
  BY <1>1 DEF Claims
<1>3. Version = 1 /\ log[1].text = 0
  BY DEF Init, Version, Entry
<1>4. Typed
  BY <1>1, <1>2, <1>3 DEF Typed
<1>5. NewestFits
  BY <1>1, <1>2 DEF NewestFits
<1>6. NewestWins
  BY <1>3 DEF NewestWins
<1> QED
  BY <1>4, <1>5, <1>6

\* Of two texts that one page has saved the later version holds the one typed
\* later, whatever was lost, retried or recovered, as long as rows are not
\* built again in the middle of a save and lists that are reordered have the
\* block.  Of lists without the block the run saving_reorder shows the
\* contrary.
THEOREM TheNewestTextWins ==
    ASSUME OrderLists \subseteq {"own"}, ~RebuildsInFlight
    PROVE  Spec => []NewestWins
<1> DEFINE Inv == /\ Safety /\ SeenFits /\ NoBlindOverwrite /\ EditsFit /\ EditsKept
                  /\ Typed /\ NewestFits /\ NewestWins
<1>1. Init => Inv
  BY InitSafe, SeenInit, EditsInit, NewestInit
<1>2. Inv /\ [Next]_vars => Inv'
  BY NextSafe, StutterSafe, SeenStep, SeenStutter, EditsStep, EditsStutter, NewestStep,
     NewestStutter
<1>3. Inv => NewestWins
  OBVIOUS
<1> QED
  BY <1>1, <1>2, <1>3, PTL DEF Spec

-----------------------------------------------------------------------------
(***************************************************************************)
(* The versions are those of a register.                                   *)
(***************************************************************************)
Row(entry) == [text |-> entry.text, source |-> entry.source, seen |-> entry.seen]

LEMMA SameSequence ==
    ASSUME NEW S, NEW a \in Seq(S), NEW b \in Seq(S), Len(a) = Len(b),
           \A i \in 1 .. Len(a) : a[i] = b[i]
    PROVE  a = b
OBVIOUS

LEMMA SequenceIs ==
    ASSUME NEW S, NEW s \in Seq(S)
    PROVE  Len(s) \in Nat /\ s \in [1 .. Len(s) -> S]
OBVIOUS

LEMMA IsSequence ==
    ASSUME NEW S, NEW n \in Nat, NEW s \in [1 .. n -> S]
    PROVE  s \in Seq(S) /\ Len(s) = n
OBVIOUS

LEMMA VersionsAre ==
    ASSUME TypeOK
    PROVE  /\ Versions \in Seq([text : Texts, source : Nat, seen : Nat])
           /\ Version \in Nat /\ Len(Versions) = Version
           /\ \A v \in 1 .. Version :
                 /\ Versions[v] = Row(log[v]) /\ Versions[v].text = log[v].text
                 /\ Versions[v].source = log[v].source
<1>1. Version \in Nat
  BY CountsFit
<1>2. ASSUME NEW v \in 1 .. Version
      PROVE  /\ Row(log[v]) \in [text : Texts, source : Nat, seen : Nat]
             /\ Row(log[v]).text = log[v].text /\ Row(log[v]).source = log[v].source
  <2>1. log[v] \in [text : Texts, mutation : Nat, source : Nat, seen : Nat]
    BY CountsFit
  <2>2. log[v].text \in Texts /\ log[v].source \in Nat /\ log[v].seen \in Nat
    BY <2>1
  <2> QED
    BY <2>2 DEF Row
<1>3. Versions = [v \in 1 .. Version |-> Row(log[v])]
  BY DEF Versions, Row
<1> QED
  BY <1>1, <1>2, <1>3

\* A new entry of the log is a new version of the register.
LEMMA VersionAdded ==
    ASSUME TypeOK, TypeOK', NEW entry, log' = Append(log, entry)
    PROVE  Versions' = Append(Versions, Row(entry))
<1>1. /\ Version \in Nat /\ Len(Versions) = Version
      /\ Versions \in Seq([text : Texts, source : Nat, seen : Nat])
  BY VersionsAre
<1>2. /\ Version' = Version + 1 /\ log'[Version + 1] = entry
      /\ \A v \in 1 .. Version : log'[v] = log[v]
  BY DEF TypeOK, Version
<1>3. /\ Version' \in Nat /\ Len(Versions') = Version' /\ Row(entry) = Versions'[Version + 1]
      /\ Versions' \in Seq([text : Texts, source : Nat, seen : Nat])
      /\ Versions' \in [1 .. Version' -> [text : Texts, source : Nat, seen : Nat]]
      /\ \A v \in 1 .. Version' : Versions'[v] = Row(log'[v])
  <2>1. /\ Version' \in Nat
        /\ log' \in [1 .. Version' -> [text : Texts, mutation : Nat, source : Nat, seen : Nat]]
    <3>1. log' \in Seq([text : Texts, mutation : Nat, source : Nat, seen : Nat])
      BY DEF TypeOK
    <3>2. Version' = Len(log')
      BY DEF Version
    <3> QED
      BY <3>1, <3>2, SequenceIs
  <2>2. Versions' = [v \in 1 .. Version' |-> Row(log'[v])]
    BY DEF Versions, Row
  <2>3. ASSUME NEW v \in 1 .. Version'
        PROVE  Row(log'[v]) \in [text : Texts, source : Nat, seen : Nat]
    <3>1. log'[v] \in [text : Texts, mutation : Nat, source : Nat, seen : Nat]
      BY <2>1
    <3>2. log'[v].text \in Texts /\ log'[v].source \in Nat /\ log'[v].seen \in Nat
      BY <3>1
    <3> QED
      BY <3>2 DEF Row
  <2>4. Versions' \in [1 .. Version' -> [text : Texts, source : Nat, seen : Nat]]
    BY <2>2, <2>3
  <2>5. \A v \in 1 .. Version' : Versions'[v] = Row(log'[v])
    BY <2>2
  <2>6. Version + 1 \in 1 .. Version'
    BY <1>1, <1>2
  <2>7. Versions' \in Seq([text : Texts, source : Nat, seen : Nat]) /\ Len(Versions') = Version'
    BY <2>1, <2>4, IsSequence
  <2>8. Row(entry) = Versions'[Version + 1]
    BY <1>2, <2>5, <2>6
  <2> QED
    BY <2>1, <2>4, <2>5, <2>7, <2>8
<1>4. ASSUME NEW v \in 1 .. Version
      PROVE  Versions'[v] = Versions[v]
  <2>1. v \in 1 .. Version'
    BY <1>1, <1>2
  <2>2. Versions[v] = Row(log[v]) /\ log'[v] = log[v]
    BY <1>2, VersionsAre
  <2> QED
    BY <1>3, <2>1, <2>2
<1>5. Row(entry) \in [text : Texts, source : Nat, seen : Nat]
  <2>1. Version + 1 \in 1 .. Version'
    BY <1>1, <1>2, <1>3
  <2>2. Versions'[Version + 1] \in [text : Texts, source : Nat, seen : Nat]
    BY <1>3, <2>1
  <2> QED
    BY <1>3, <2>2
<1>6. /\ Append(Versions, Row(entry)) \in Seq([text : Texts, source : Nat, seen : Nat])
      /\ Len(Append(Versions, Row(entry))) = Version + 1
      /\ \A v \in 1 .. Version : Append(Versions, Row(entry))[v] = Versions[v]
      /\ Append(Versions, Row(entry))[Version + 1] = Row(entry)
  BY <1>1, <1>5
<1>7. \A v \in 1 .. Version + 1 : Versions'[v] = Append(Versions, Row(entry))[v]
  BY <1>1, <1>3, <1>4, <1>6
<1> QED
  BY <1>2, <1>3, <1>6, <1>7, SameSequence

\* What the register sees of the log.
LEMMA RegisterSees ==
    ASSUME TypeOK, Version >= 1
    PROVE  /\ Len(Versions) = Version /\ Register!Newest = Block.text
           /\ \A v \in 1 .. Version : Register!Changed(v) <=> Changed(log, v)
           /\ \A v \in 1 .. Version : Register!Changed(v) <=> Texted(v)
<1>1. /\ Version \in Nat /\ Len(Versions) = Version
      /\ \A v \in 1 .. Version : Versions[v].text = log[v].text
  BY VersionsAre
<1>2. Register!Newest = Block.text
  BY <1>1 DEF Register!Newest, Block
<1>3. ASSUME NEW v \in 1 .. Version
      PROVE  (Register!Changed(v) <=> Changed(log, v)) /\ (Register!Changed(v) <=> Texted(v))
  <2>1. v > 1 => v - 1 \in 1 .. Version
    BY <1>1
  <2> QED
    BY <1>1, <2>1 DEF Register!Changed, Changed, Texted
<1> QED
  BY <1>1, <1>2, <1>3

LEMMA RegisterTouched ==
    ASSUME TypeOK, TypeOK', Version >= 1, NEW t \in Tabs, NEW id, NEW seen \in 0 .. Version,
           log' = Append(log, Entry(Block.text, id, t, seen))
    PROVE  Register!Next
<1>1. Row(Entry(Block.text, id, t, seen)) = [text |-> Block.text, source |-> t, seen |-> seen]
  BY DEF Row, Entry
<1>2. Versions' = Append(Versions, [text |-> Block.text, source |-> t, seen |-> seen])
  BY <1>1, VersionAdded
<1>3. Register!Touch(t, seen)
  BY <1>2, RegisterSees DEF Register!Touch
<1> QED
  BY <1>3, RegisterSees DEF Register!Next

LEMMA RegisterWritten ==
    ASSUME TypeOK, TypeOK', Version >= 1, NEW t \in Tabs, NEW id, NEW seen \in 0 .. Version,
           NEW text \in Texts, text # Block.text,
           Covers(Version, seen), OwnUpTo(log, t, Version, text),
           log' = Append(log, Entry(text, id, t, seen))
    PROVE  Register!Next
<1>1. Row(Entry(text, id, t, seen)) = [text |-> text, source |-> t, seen |-> seen]
  BY DEF Row, Entry
<1>2. Versions' = Append(Versions, [text |-> text, source |-> t, seen |-> seen])
  BY <1>1, VersionAdded
<1>3. \A v \in 1 .. Version : Register!Changed(v) => v <= seen
  BY RegisterSees DEF Covers
<1>4. ASSUME NEW v \in 1 .. Version, Register!Changed(v), Versions[v].source = t
      PROVE  Versions[v].text <= text
  <2>1. Versions[v].text = log[v].text /\ Versions[v].source = log[v].source
    BY VersionsAre
  <2>2. Changed(log, v)
    BY <1>4, RegisterSees
  <2> QED
    BY <1>4, <2>1, <2>2 DEF OwnUpTo
<1>5. Register!Write(t, text, seen)
  BY <1>2, <1>3, <1>4, RegisterSees DEF Register!Write
<1> QED
  BY <1>5, RegisterSees DEF Register!Next

\* A step adds a version with what it has seen, or none.
LEMMA RegisterStep ==
    ASSUME Safety, Safety', SeenFits, NewestFits, Next
    PROVE  Register!Next \/ Versions' = Versions
<1>0. TypeOK /\ TypeOK' /\ Bookkeeping /\ Version \in Nat /\ Version >= 1
  BY CountsFit DEF Safety, Bookkeeping
<1>1. ASSUME log' = log
      PROVE  Versions' = Versions
  BY <1>1 DEF Versions, Version
<1>2. ASSUME NEW t \in Tabs, StepOf(t)
      PROVE  Register!Next \/ Versions' = Versions
  <2>1. CASE Ordered(t)
    <3>1. log' = log \/ log' = Append(log, Entry(Block.text, NoMutation, t, Version))
      BY <2>1 DEF Ordered
    <3> QED
      BY <1>0, <1>1, <3>1, RegisterTouched
  <2>2. CASE ~Ordered(t)
    <3>1. log' = log
      <4>1. CASE \E task : Admitted(t, task)
        BY <4>1 DEF Admitted
      <4> QED
        BY ZenonT(60), <1>2, <2>2, <4>1 DEF StepOf, Redrawn, Edited, Outdated, Resumed, Refused,
                                        Lost, Received, OrderTaken, Closed, Loaded
    <3> QED
      BY <1>1, <3>1
  <2> QED
    BY <2>1, <2>2
<1>3. ASSUME NEW request, Patched(request)
      PROVE  Register!Next \/ Versions' = Versions
  <2>1. \/ log' = log
        \/ /\ Accepted(request)
           /\ log' = Append(log, Entry(request.text, request.id, request.source, request.seen))
    BY <1>3 DEF Patched
  <2>2. /\ request \in wire /\ request \in RequestType(1 .. tasks, 1 .. Version)
        /\ request.source \in Tabs
    BY <1>0, <1>3, PatchedLog DEF Patched
  <2>3. request.text \in Texts /\ request.seen \in 0 .. Version
    BY <1>0, <2>2 DEF RequestType
  <2>4. CASE /\ Accepted(request)
             /\ log' = Append(log, Entry(request.text, request.id, request.source, request.seen))
    <3> DEFINE c == OfRequest(request)
    <3>1. /\ c \in Claims /\ c.expected = Version /\ c.source = request.source
          /\ c.text = request.text /\ c.seen = request.seen
      BY <2>2, <2>4, ClaimsAre DEF OfRequest, Claim, Accepted
    <3>2. Covers(Version, request.seen)
      <4> HIDE DEF c
      <4> QED
        BY <3>1 DEF SeenFits
    <3>3. OwnUpTo(log, request.source, Version, request.text)
      <4> HIDE DEF c
      <4> QED
        BY <3>1 DEF NewestFits
    <3>4. CASE request.text = Block.text
      BY <1>0, <2>2, <2>3, <2>4, <3>4, RegisterTouched
    <3>5. CASE request.text # Block.text
      BY <1>0, <2>2, <2>3, <2>4, <3>2, <3>3, <3>5, RegisterWritten
    <3> QED
      BY <3>4, <3>5
  <2> QED
    BY <1>1, <2>1, <2>4
<1> QED
  BY <1>2, <1>3, StepIs DEF Safety

LEMMA RegisterInit == Init => Register!Init
<1> SUFFICES ASSUME Init PROVE Register!Init
  OBVIOUS
<1>1. Version = 1 /\ log[1] = Entry(0, NoMutation, 0, 0)
  BY DEF Init, Version
<1>2. Row(log[1]) = [text |-> 0, source |-> 0, seen |-> 0]
  BY <1>1 DEF Row, Entry
<1>3. Versions = [v \in 1 .. 1 |-> Row(log[v])]
  BY <1>1 DEF Versions, Row
<1>4. Versions = [v \in 1 .. 1 |-> [text |-> 0, source |-> 0, seen |-> 0]]
  BY <1>2, <1>3
<1> QED
  BY <1>4 DEF Register!Init

\* The versions of the block are those of a register whose writers know what
\* they replace and do not go back behind a text of their own, for any tabs,
\* retries, reloads and recoveries, under the conditions of the two invariants.
THEOREM SavesAreWrites ==
    ASSUME OrderLists \subseteq {"own"}, ~RebuildsInFlight
    PROVE  Spec => ImplementsRegister
<1> DEFINE Inv == /\ Safety /\ SeenFits /\ NoBlindOverwrite /\ EditsFit /\ EditsKept
                  /\ Typed /\ NewestFits /\ NewestWins
<1>1. Init => Inv
  BY InitSafe, SeenInit, EditsInit, NewestInit
<1>2. Inv /\ [Next]_vars => Inv'
  BY NextSafe, StutterSafe, SeenStep, SeenStutter, EditsStep, EditsStutter, NewestStep,
     NewestStutter
<1>3. Inv /\ Inv' /\ [Next]_vars => [Register!Next]_Versions
  <2> SUFFICES ASSUME Inv, Inv', [Next]_vars
               PROVE  Register!Next \/ Versions' = Versions
    OBVIOUS
  <2>1. CASE Next
    BY <2>1, RegisterStep
  <2>2. CASE UNCHANGED vars
    BY <2>2 DEF vars, Versions, Version
  <2> QED
    BY <2>1, <2>2
<1>4. Init => Register!Init
  BY RegisterInit
<1> QED
  BY <1>1, <1>2, <1>3, <1>4, PTL DEF Spec, ImplementsRegister, Register!Spec
====
