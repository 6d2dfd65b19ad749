--------------------------- MODULE WorkerPoolProofs ---------------------------
(***************************************************************************)
(* Proofs about WorkerPool, for any requests, sizes and limits.  The       *)
(* difficulty is dispatch(), which an exception makes call itself: the     *)
(* outer call then goes on with what it knew before.                       *)
(***************************************************************************)
EXTENDS WorkerPool, FiniteSetTheorems, WellFoundedInduction, TLAPS

\* The shape of the state.
Typed ==
    /\ queue \in Seq(Requests) /\ calls \in Seq(Frames)
    /\ \E n \in WorkerCounts : slots \in [1 .. n -> Requests \cup {None}]
    /\ accounts \in [total : 0 .. MaxBytes, tasks : [Principals -> 0 .. 1],
                     bytes : [Principals -> Nat]]
    /\ pending \subseteq Requests /\ closed \in BOOLEAN
    /\ Cardinality(Active) + Len(queue) <= MaxTasks

\* A call that knows what f knows does not hand out task r.
Blocked(busy, f, r) ==
    IF r \in Validations THEN r \in Expensive /\ 2 \in DOMAIN busy /\ f.expensive
                         ELSE f.history

\* It hands out none of them.
Shut(q, busy, f) == \A i \in DOMAIN q : Blocked(busy, f, q[i])

\* No idle slot could take a task.
Quiet(q, busy) ==
    (\E s \in DOMAIN busy : busy[s] = None) => Shut(q, busy, Dispatch(busy))

\* After one of them, none of the others may run beside it.
Alike(q) ==
    \/ Len(q) <= 1
    \/ \A i \in DOMAIN q : q[i] \notin Validations
    \/ \A i \in DOMAIN q : q[i] \in Expensive

\* What the call knows of the running tasks is so.
Knows(busy, f) ==
    f.history = HistoryActive(busy) /\ f.expensive = ExpensiveActive(busy)

\* A call that no other one has interrupted: it knows what runs, and has left
\* no slot idle behind it that could take a task.
Fresh(q, busy, f) ==
    /\ Knows(busy, f)
    /\ \A s \in DOMAIN busy : s < f.slot /\ busy[s] = None => Shut(q, busy, f)
    /\ f.slot = 1 /\ 2 \in DOMAIN busy /\ busy[1] = None /\ busy[2] = None => Alike(q)

\* A call that was interrupted: it will hand out nothing.
Spent(q, busy, f) ==
    /\ f.slot >= 2
    /\ f.slot \in DOMAIN busy /\ busy[f.slot] = None => Shut(q, busy, f)

\* Of the calls only the last, the one that runs, may hand anything out.
Stack(q, busy, stack) ==
    /\ stack = <<>> => Quiet(q, busy)
    /\ stack # <<>> => \/ Fresh(q, busy, stack[Len(stack)])
                       \/ Quiet(q, busy) /\ Spent(q, busy, stack[Len(stack)])
    /\ \A i \in 1 .. Len(stack) - 1 : Spent(q, busy, stack[i])

\* Two tasks that run together are not both histories, nor both expensive.
Reserved(busy) ==
    2 \in DOMAIN busy
        => \/ busy[1] = None \/ busy[2] = None
           \/ /\ {busy[1], busy[2]} \cap Validations # {}
              /\ ~({busy[1], busy[2]} \subseteq Expensive)

\* The inductive invariant.
IInv == Typed /\ HeldOnce /\ Reserved(slots) /\ Stack(queue, slots, calls)
-----------------------------------------------------------------------------
(***************************************************************************)
(* Sequences                                                               *)
(***************************************************************************)

\* A set of numbers has a least one, so Oldest finds it.
LEMMA OldestIsAmong ==
  ASSUME NEW places \in SUBSET Nat, places # {}
  PROVE  Oldest(places) \in places
<1>1. \E i \in places : \A j \in places : ~ (<<j, i>> \in OpToRel(<, Nat))
  BY NatLessThanWellFounded, WFMin
<1>2. ASSUME NEW i \in places, NEW j \in places, i > j
      PROVE  <<j, i>> \in OpToRel(<, Nat)
  <2>1. <<j, i>> \in Nat \X Nat /\ <<j, i>>[1] < <<j, i>>[2]
    BY <1>2
  <2> QED
    BY <2>1 DEF OpToRel
<1>3. \E i \in places : \A j \in places : ~ (i > j)
  BY <1>1, <1>2
<1>4. \E i \in places : \A j \in places : i <= j
  BY <1>3
<1> QED
  BY <1>4 DEF Oldest

\* What is left of the queue when its i-th task is taken.
LEMMA Removal ==
  ASSUME NEW i \in DOMAIN queue, queue \in Seq(Requests)
  PROVE  /\ Without(i) \in Seq(Requests)
         /\ Len(Without(i)) = Len(queue) - 1
         /\ \A k \in DOMAIN Without(i) :
                Without(i)[k] = IF k < i THEN queue[k] ELSE queue[k + 1]
<1>1. /\ SubSeq(queue, 1, i - 1) \in Seq(Requests) /\ Len(SubSeq(queue, 1, i - 1)) = i - 1
      /\ \A k \in 1 .. i - 1 : SubSeq(queue, 1, i - 1)[k] = queue[k]
  OBVIOUS
<1>2. /\ SubSeq(queue, i + 1, Len(queue)) \in Seq(Requests)
      /\ Len(SubSeq(queue, i + 1, Len(queue))) = Len(queue) - i
      /\ \A k \in 1 .. Len(queue) - i : SubSeq(queue, i + 1, Len(queue))[k] = queue[i + k]
  OBVIOUS
<1> DEFINE before == SubSeq(queue, 1, i - 1)
           after  == SubSeq(queue, i + 1, Len(queue))
<1>3. before \in Seq(Requests) /\ after \in Seq(Requests)
  BY <1>1, <1>2
<1>4. Len(before) = i - 1 /\ Len(after) = Len(queue) - i
  BY <1>1, <1>2
<1>5. i \in 1 .. Len(queue) /\ Len(queue) \in Nat
  OBVIOUS
<1>6. Without(i) = before \o after
  BY DEF Without
<1> HIDE DEF before, after
<1>7. /\ before \o after \in Seq(Requests)
      /\ Len(before \o after) = Len(queue) - 1
  BY <1>3, <1>4, <1>5
<1>8. ASSUME NEW k \in 1 .. Len(queue) - 1
      PROVE  (before \o after)[k] = IF k < i THEN queue[k] ELSE queue[k + 1]
  <2>1. CASE k < i
    <3>1. (before \o after)[k] = before[k]
      BY <1>3, <1>4, <1>5, <2>1
    <3>2. k \in 1 .. i - 1
      BY <1>5, <2>1
    <3> QED
      BY <3>1, <3>2, <2>1, <1>1 DEF before
  <2>2. CASE ~ (k < i)
    <3>1. (before \o after)[k] = after[k - (i - 1)]
      BY <1>3, <1>4, <1>5, <2>2
    <3>2. k - (i - 1) \in 1 .. Len(queue) - i /\ i + (k - (i - 1)) = k + 1
      BY <1>5, <2>2
    <3> QED
      BY <3>1, <3>2, <2>2, <1>2 DEF after
  <2> QED
    BY <2>1, <2>2
<1>9. DOMAIN (before \o after) = 1 .. Len(queue) - 1
  BY <1>5, <1>7
<1> QED
  BY <1>6, <1>7, <1>8, <1>9

\* The tasks that are left are the others.
LEMMA RemovalKeepsOthers ==
  ASSUME NEW i \in DOMAIN queue, queue \in Seq(Requests),
         \A j, k \in DOMAIN queue : queue[j] = queue[k] => j = k
  PROVE  /\ {Without(i)[k] : k \in DOMAIN Without(i)} = Queued \ {queue[i]}
         /\ \A j, k \in DOMAIN Without(i) : Without(i)[j] = Without(i)[k] => j = k
<1> DEFINE q == Without(i)
<1>1. /\ q \in Seq(Requests) /\ Len(q) = Len(queue) - 1
      /\ \A k \in DOMAIN q : q[k] = IF k < i THEN queue[k] ELSE queue[k + 1]
  BY Removal
<1> HIDE DEF q
<1>2. /\ DOMAIN q = 1 .. Len(queue) - 1 /\ DOMAIN queue = 1 .. Len(queue)
      /\ Len(queue) \in Nat /\ i \in 1 .. Len(queue)
  BY <1>1
<1>3. \A j, k \in DOMAIN q : q[j] = q[k] => j = k
  BY <1>1, <1>2
<1>4. ASSUME NEW k \in DOMAIN q PROVE q[k] \in Queued \ {queue[i]}
  BY <1>1, <1>2 DEF Queued
<1>5. ASSUME NEW k \in DOMAIN queue, k # i PROVE \E j \in DOMAIN q : q[j] = queue[k]
  <2>1. CASE k < i
    BY <1>1, <1>2, <2>1
  <2>2. CASE k > i
    <3>1. k - 1 \in DOMAIN q /\ q[k - 1] = queue[k]
      BY <1>1, <1>2, <2>2
    <3> QED
      BY <3>1
  <2> QED
    BY <1>2, <1>5, <2>1, <2>2
<1>6. {q[k] : k \in DOMAIN q} = Queued \ {queue[i]}
  BY <1>4, <1>5 DEF Queued
<1> QED
  BY <1>3, <1>6 DEF q

\* The stack without its last call, and with another one in its place.
LEMMA CallersOfCall ==
  ASSUME calls \in Seq(Frames), calls # <<>>
  PROVE  /\ Call \in Frames
         /\ Callers \in Seq(Frames) /\ Len(Callers) = Len(calls) - 1
         /\ \A k \in 1 .. Len(calls) - 1 : Callers[k] = calls[k]
<1>1. Len(calls) \in Nat \ {0} /\ DOMAIN calls = 1 .. Len(calls)
  OBVIOUS
<1> QED
  BY <1>1 DEF Call, Callers
-----------------------------------------------------------------------------
(***************************************************************************)
(* dispatch, one slot at a time                                            *)
(***************************************************************************)
\* What one or two slots hold.
Slots == UNION {[1 .. n -> Requests \cup {None}] : n \in {1, 2}}

\* A task is handed out exactly when a call does not hold it to be blocked.
LEMMA TaskIsNotBlocked ==
  ASSUME queue \in Seq(Requests), slots \in Slots, NEW f \in Frames
  PROVE  /\ Candidates(f) = {} <=> Shut(queue, slots, f)
         /\ Candidates(f) # {} =>
              /\ Oldest(Candidates(f)) \in DOMAIN queue
              /\ ~Blocked(slots, f, queue[Oldest(Candidates(f))])
<1>1. PICK n \in {1, 2} : slots \in [1 .. n -> Requests \cup {None}]
  BY DEF Slots
<1>2. WorkerCount = n /\ (WorkerCount > 1 <=> 2 \in DOMAIN slots)
  <2>1. Cardinality(1 .. n) = IF 1 > n THEN 0 ELSE n - 1 + 1
    BY FS_Interval
  <2> QED
    BY <1>1, <2>1 DEF WorkerCount
<1>3. \A i \in DOMAIN queue :
        ~Blocked(slots, f, queue[i]) <=> i \in Runnable(f) \cup Histories(f)
  BY <1>2 DEF Blocked, Runnable, Histories, Frames
<1>4. Candidates(f) \subseteq Runnable(f) \cup Histories(f)
  BY DEF Candidates
<1>5. Runnable(f) \cup Histories(f) \subseteq DOMAIN queue /\ DOMAIN queue \subseteq Nat
  BY DEF Runnable, Histories
<1>6. Candidates(f) = {} <=> Runnable(f) \cup Histories(f) = {}
  BY DEF Candidates
<1>7. Candidates(f) = {} <=> Shut(queue, slots, f)
  BY <1>3, <1>5, <1>6 DEF Shut
<1>8. Candidates(f) # {} => Oldest(Candidates(f)) \in Candidates(f)
  BY <1>4, <1>5, OldestIsAmong
<1> QED
  BY <1>3, <1>4, <1>5, <1>7, <1>8

\* A new call, when a task has left slot s.
LEMMA CallAfterTask ==
  ASSUME NEW q \in Seq(Requests), NEW busy \in Slots, NEW s \in DOMAIN busy, Quiet(q, busy)
  PROVE  LET now == [busy EXCEPT ![s] = None] IN
         now \in Slots /\ Dispatch(now) \in Frames /\ Fresh(q, now, Dispatch(now))
<1> DEFINE now == [busy EXCEPT ![s] = None]
<1>1. PICK n \in {1, 2} : busy \in [1 .. n -> Requests \cup {None}]
  BY DEF Slots
<1>2. now \in [1 .. n -> Requests \cup {None}] /\ s \in 1 .. n
  BY <1>1
<1>3. now \in Slots
  BY <1>2 DEF Slots
<1>4. Dispatch(now) \in Frames /\ Knows(now, Dispatch(now)) /\ Dispatch(now).slot = 1
  BY DEF Dispatch, Frames, Knows, HistoryActive, ExpensiveActive
<1>5. ASSUME 2 \in DOMAIN now, now[1] = None, now[2] = None PROVE Alike(q)
  <2>1. n = 2
    BY <1>2, <1>5
  <2>2. PICK o \in {1, 2} : o # s /\ busy[o] = None /\ o \in DOMAIN busy
    BY <1>1, <1>2, <1>5, <2>1
  <2>3. Shut(q, busy, Dispatch(busy))
    BY <2>2 DEF Quiet
  <2>4. /\ HistoryActive(busy) => busy[s] \in Requests \ Validations
        /\ ExpensiveActive(busy) => busy[s] \in Expensive
    BY <1>1, <1>2, <2>1, <2>2, PoolAssumption DEF HistoryActive, ExpensiveActive
  <2>5. ~(HistoryActive(busy) /\ ExpensiveActive(busy))
    BY <2>4, PoolAssumption
  <2>6. \A i \in DOMAIN q : IF q[i] \in Validations THEN q[i] \in Expensive /\ ExpensiveActive(busy)
                                                   ELSE HistoryActive(busy)
    BY <2>3 DEF Shut, Blocked, Dispatch
  <2> QED
    BY <2>5, <2>6, PoolAssumption DEF Alike
<1>6. \A x \in DOMAIN now : ~(x < 1)
  BY <1>2
<1> QED
  BY <1>3, <1>4, <1>5, <1>6 DEF Fresh

\* A new call, when a request has come.
LEMMA CallAfterRequest ==
  ASSUME NEW q \in Seq(Requests), NEW busy \in Slots, NEW r \in Requests, Quiet(q, busy)
  PROVE  Dispatch(busy) \in Frames /\ Fresh(Append(q, r), busy, Dispatch(busy))
<1>1. PICK n \in {1, 2} : busy \in [1 .. n -> Requests \cup {None}]
  BY DEF Slots
<1>2. /\ Dispatch(busy) \in Frames /\ Knows(busy, Dispatch(busy)) /\ Dispatch(busy).slot = 1
  BY DEF Dispatch, Frames, Knows, HistoryActive, ExpensiveActive
<1>3. ASSUME 2 \in DOMAIN busy, busy[1] = None, busy[2] = None PROVE Alike(Append(q, r))
  <2>1. ~HistoryActive(busy) /\ ~ExpensiveActive(busy)
    BY <1>1, <1>3, PoolAssumption DEF HistoryActive, ExpensiveActive
  <2>2. Shut(q, busy, Dispatch(busy))
    BY <1>1, <1>3 DEF Quiet
  <2>3. DOMAIN q = {}
    BY <2>1, <2>2 DEF Shut, Blocked, Dispatch
  <2>4. Len(Append(q, r)) = 1
    BY <2>3
  <2> QED
    BY <2>4 DEF Alike
<1>4. \A x \in DOMAIN busy : ~(x < 1)
  BY <1>1
<1> QED
  BY <1>2, <1>3, <1>4 DEF Fresh

\* What a queue without one of its tasks has of the queue.
Fewer(less, q) == \A k \in DOMAIN less : \E j \in DOMAIN q : less[k] = q[j]

\* What a call knows when it has handed out t in its slot, or tried to.
LEMMA CallGoesOn ==
  ASSUME NEW f \in Frames, f.slot \in {1, 2}, NEW t
  PROVE  LET next == [Knowing(f, t) EXCEPT !.slot = @ + 1]
         IN  /\ next \in Frames /\ next.slot = f.slot + 1
             /\ next.history <=> (f.history \/ t \notin Validations)
             /\ next.expensive <=> (f.expensive \/ t \in Expensive)
<1> DEFINE history == f.history \/ t \notin Validations
           expensive == f.expensive \/ t \in Expensive
           next == [Knowing(f, t) EXCEPT !.slot = @ + 1]
<1>1. history \in BOOLEAN /\ expensive \in BOOLEAN
  OBVIOUS
<1>2. Knowing(f, t) = [f EXCEPT !.history = history, !.expensive = expensive]
  BY DEF Knowing
<1> HIDE DEF history, expensive
<1>3. next = [slot |-> f.slot + 1, history |-> history, expensive |-> expensive]
  <2>1. PICK h, e : f = [slot |-> f.slot, history |-> h, expensive |-> e]
    BY DEF Frames
  <2>2. Knowing(f, t) = [slot |-> f.slot, history |-> history, expensive |-> expensive]
    BY <1>2, <2>1
  <2> QED
    BY <2>2
<1>4. next \in Frames /\ next.slot = f.slot + 1
  BY <1>1, <1>3 DEF Frames
<1>5. next.history = history /\ next.expensive = expensive
  BY <1>3
<1> QED
  BY <1>4, <1>5 DEF history, expensive

\* A slot is filled: the call knows it, and those under it still hand out nothing.
LEMMA AfterAssign ==
  ASSUME NEW q, NEW less, Fewer(less, q),
         NEW busy \in Slots, NEW f \in Frames, Fresh(q, busy, f), Reserved(busy),
         f.slot \in DOMAIN busy, busy[f.slot] = None,
         NEW i \in DOMAIN q, q[i] \in Requests, ~Blocked(busy, f, q[i])
  PROVE  LET now == [busy EXCEPT ![f.slot] = q[i]]
             next == [Knowing(f, q[i]) EXCEPT !.slot = @ + 1]
         IN  /\ now \in Slots /\ next \in Frames
             /\ Fresh(less, now, next) /\ Reserved(now)
             /\ \A g \in Frames : Spent(q, busy, g) => Spent(less, now, g)
<1> DEFINE t == q[i]
           now == [busy EXCEPT ![f.slot] = t]
           next == [Knowing(f, t) EXCEPT !.slot = @ + 1]
<1>1. PICK n \in {1, 2} : busy \in [1 .. n -> Requests \cup {None}]
  BY DEF Slots
<1>2. now \in [1 .. n -> Requests \cup {None}] /\ f.slot \in 1 .. n /\ now[f.slot] = t
  BY <1>1
<1>3. now \in Slots
  BY <1>2 DEF Slots
<1>4. /\ next \in Frames /\ next.slot = f.slot + 1
      /\ next.history <=> (f.history \/ t \notin Validations)
      /\ next.expensive <=> (f.expensive \/ t \in Expensive)
  BY <1>2, CallGoesOn
<1>5. /\ HistoryActive(now) <=> HistoryActive(busy) \/ t \notin Validations
      /\ ExpensiveActive(now) <=> ExpensiveActive(busy) \/ t \in Expensive
  BY <1>1, <1>2, PoolAssumption DEF HistoryActive, ExpensiveActive
<1>6. Knows(now, next)
  BY <1>4, <1>5 DEF Fresh, Knows, HistoryActive, ExpensiveActive, Frames
<1>7. ASSUME NEW s \in DOMAIN now, s < next.slot, now[s] = None PROVE FALSE
  <2>1. s \in DOMAIN busy /\ s < f.slot /\ busy[s] = None
    BY <1>1, <1>2, <1>4, <1>7, PoolAssumption
  <2>2. Shut(q, busy, f)
    BY <2>1 DEF Fresh
  <2> QED
    BY <2>2 DEF Shut
<1>8. Fresh(less, now, next)
  <2>1. next.slot # 1
    BY <1>2, <1>4
  <2> QED
    BY <1>6, <1>7, <2>1 DEF Fresh
<1>9. Reserved(now)
  <2> SUFFICES ASSUME 2 \in DOMAIN now, now[1] # None, now[2] # None
               PROVE  /\ {now[1], now[2]} \cap Validations # {}
                      /\ ~({now[1], now[2]} \subseteq Expensive)
    BY DEF Reserved
  <2>1. n = 2
    BY <1>2
  <2>2. PICK o \in {1, 2} : o # f.slot
    OBVIOUS
  <2>3. {now[1], now[2]} = {t, busy[o]} /\ busy[o] \in Requests /\ o \in DOMAIN busy
    BY <1>1, <1>2, <2>1, <2>2
  <2>4. t \notin Validations => busy[o] \in Validations
    BY <2>3 DEF Blocked, Fresh, Knows, HistoryActive
  <2>5. t \in Expensive => busy[o] \notin Expensive
    BY <1>1, <2>1, <2>3, PoolAssumption DEF Blocked, Fresh, Knows, ExpensiveActive
  <2> QED
    BY <2>3, <2>4, <2>5
<1>10. ASSUME NEW g \in Frames, Spent(q, busy, g) PROVE Spent(less, now, g)
  <2> SUFFICES ASSUME g.slot \in DOMAIN now, now[g.slot] = None PROVE Shut(less, now, g)
    BY <1>10 DEF Spent
  <2>1. g.slot \in DOMAIN busy /\ busy[g.slot] = None
    BY <1>1, <1>2, PoolAssumption
  <2>2. Shut(q, busy, g)
    BY <1>10, <2>1 DEF Spent
  <2> QED
    BY <1>1, <1>2, <2>2 DEF Shut, Blocked, Fewer
<1> QED
  BY <1>3, <1>4, <1>8, <1>9, <1>10

\* Handing out a task fails: the new call is fresh, the interrupted one is spent.
LEMMA AfterException ==
  ASSUME NEW q \in Seq(Requests), NEW less \in Seq(Requests), Fewer(less, q),
         Len(less) = Len(q) - 1,
         NEW busy \in Slots, NEW f \in Frames, Fresh(q, busy, f),
         f.slot \in DOMAIN busy, busy[f.slot] = None,
         NEW i \in DOMAIN q, ~Blocked(busy, f, q[i])
  PROVE  LET next == [Knowing(f, q[i]) EXCEPT !.slot = @ + 1]
         IN  /\ next \in Frames /\ Spent(less, busy, next)
             /\ Dispatch(busy) \in Frames /\ Fresh(less, busy, Dispatch(busy))
             /\ \A g \in Frames : Spent(q, busy, g) => Spent(less, busy, g)
<1> DEFINE t == q[i]
           next == [Knowing(f, t) EXCEPT !.slot = @ + 1]
<1>1. PICK n \in {1, 2} : busy \in [1 .. n -> Requests \cup {None}]
  BY DEF Slots
<1>2. /\ next \in Frames /\ next.slot = f.slot + 1 /\ f.slot \in 1 .. n
      /\ next.history <=> (f.history \/ t \notin Validations)
      /\ next.expensive <=> (f.expensive \/ t \in Expensive)
  BY <1>1, CallGoesOn
<1>3. Dispatch(busy) \in Frames /\ Knows(busy, Dispatch(busy)) /\ Dispatch(busy).slot = 1
  BY DEF Dispatch, Frames, Knows, HistoryActive, ExpensiveActive
<1>4. f.slot = 2 => busy[1] # None
  <2>1. f.slot = 2 /\ busy[1] = None => Shut(q, busy, f)
    BY <1>1, <1>2 DEF Fresh
  <2> QED
    BY <2>1 DEF Shut
<1>5. Len(q) \in Nat /\ DOMAIN q = 1 .. Len(q) /\ DOMAIN less = 1 .. Len(q) - 1
  OBVIOUS
<1>6. Alike(q) => Alike(less)
  BY <1>5 DEF Alike, Fewer
<1>7. ASSUME 2 \in DOMAIN busy, busy[1] = None, busy[2] = None
      PROVE  Alike(q) /\ Alike(less) /\ f.slot = 1
  BY <1>1, <1>2, <1>4, <1>6, <1>7 DEF Fresh
<1>8. Fresh(less, busy, Dispatch(busy))
  <2>1. \A x \in DOMAIN busy : ~(x < 1)
    BY <1>1
  <2> QED
    BY <1>3, <1>7, <2>1 DEF Fresh
<1>9. Spent(less, busy, next)
  <2> SUFFICES ASSUME next.slot \in DOMAIN busy, busy[next.slot] = None
               PROVE  Shut(less, busy, next)
    BY <1>2 DEF Spent
  <2>1. n = 2 /\ f.slot = 1 /\ next.slot = 2
    BY <1>1, <1>2
  <2>2. Alike(q)
    BY <1>1, <1>7, <2>1
  <2>3. CASE Len(q) <= 1
    BY <1>5, <2>3 DEF Shut
  <2>4. CASE \A j \in DOMAIN q : q[j] \notin Validations
    BY <1>2, <2>4 DEF Shut, Blocked, Fewer
  <2>5. CASE \A j \in DOMAIN q : q[j] \in Expensive
    BY <1>1, <1>2, <2>1, <2>5, PoolAssumption DEF Shut, Blocked, Fewer
  <2> QED
    BY <2>2, <2>3, <2>4, <2>5 DEF Alike
<1>10. \A g \in Frames : Spent(q, busy, g) => Spent(less, busy, g)
  BY DEF Spent, Shut, Blocked, Fewer
<1> QED
  BY <1>2, <1>3, <1>8, <1>9, <1>10

\* A slot is passed: it is busy, or nothing may run in it.
LEMMA AfterPass ==
  ASSUME NEW q, NEW busy \in Slots, NEW f \in Frames,
         Fresh(q, busy, f) \/ (Quiet(q, busy) /\ Spent(q, busy, f)),
         f.slot \in DOMAIN busy, busy[f.slot] # None \/ Shut(q, busy, f)
  PROVE  LET next == [f EXCEPT !.slot = @ + 1]
         IN  /\ next \in Frames
             /\ Fresh(q, busy, next) \/ (Quiet(q, busy) /\ Spent(q, busy, next))
<1> DEFINE next == [f EXCEPT !.slot = @ + 1]
<1>1. PICK n \in {1, 2} : busy \in [1 .. n -> Requests \cup {None}]
  BY DEF Slots
<1>2. /\ next \in Frames /\ next.slot = f.slot + 1 /\ f.slot \in 1 .. n
      /\ next.history = f.history /\ next.expensive = f.expensive
  BY <1>1 DEF Frames
<1>3. CASE Fresh(q, busy, f)
  <2>1. Knows(busy, next)
    BY <1>2, <1>3 DEF Fresh, Knows, HistoryActive, ExpensiveActive
  <2>2. \A s \in DOMAIN busy : s < next.slot /\ busy[s] = None => Shut(q, busy, f)
    BY <1>1, <1>2, <1>3 DEF Fresh
  <2>3. Shut(q, busy, f) => Shut(q, busy, next)
    BY <1>2 DEF Shut, Blocked
  <2> QED
    BY <1>2, <2>1, <2>2, <2>3 DEF Fresh
<1>4. CASE Quiet(q, busy) /\ Spent(q, busy, f)
  <2>1. next.slot = 3 /\ 3 \notin DOMAIN busy
    BY <1>1, <1>2, <1>4 DEF Spent
  <2> QED
    BY <1>2, <1>4, <2>1 DEF Spent
<1> QED
  BY <1>3, <1>4

\* The call under one that returns.
LEMMA AfterReturn ==
  ASSUME NEW q, NEW busy \in Slots, NEW f \in Frames, f.slot \notin DOMAIN busy,
         Fresh(q, busy, f) \/ (Quiet(q, busy) /\ Spent(q, busy, f))
  PROVE  Quiet(q, busy)
<1>1. PICK n \in {1, 2} : busy \in [1 .. n -> Requests \cup {None}]
  BY DEF Slots
<1>2. \A s \in DOMAIN busy : s < f.slot
  BY <1>1 DEF Frames
<1>3. ASSUME Fresh(q, busy, f) PROVE Quiet(q, busy)
  <2>1. (\E s \in DOMAIN busy : busy[s] = None) => Shut(q, busy, f)
    BY <1>2, <1>3 DEF Fresh
  <2>2. Shut(q, busy, f) => Shut(q, busy, Dispatch(busy))
    BY <1>3 DEF Fresh, Knows, Shut, Blocked, Dispatch
  <2> QED
    BY <2>1, <2>2 DEF Quiet
<1> QED
  BY <1>3
-----------------------------------------------------------------------------
(***************************************************************************)
(* Steps                                                                   *)
(***************************************************************************)

\* An empty pool satisfies the invariant.
LEMMA Initially == Init => IInv
<1> SUFFICES ASSUME Init PROVE IInv
  OBVIOUS
<1>1. PICK n \in WorkerCounts : slots = [s \in 1 .. n |-> None]
  BY DEF Init
<1>2. n \in {1, 2} /\ slots \in [1 .. n -> Requests \cup {None}]
  BY <1>1, PoolAssumption
<1>3. Active = {}
  BY <1>1 DEF Active
<1>4. Cardinality(Active) + Len(queue) <= MaxTasks
  BY <1>3, FS_EmptySet, PoolAssumption DEF Init
<1>5. accounts \in [total : 0 .. MaxBytes, tasks : [Principals -> 0 .. 1],
                    bytes : [Principals -> Nat]]
  BY PoolAssumption DEF Init, NothingPending
<1>6. Typed
  <2>1. queue \in Seq(Requests) /\ calls \in Seq(Frames) /\ pending \subseteq Requests /\ closed \in BOOLEAN
    <3>1. \A S : <<>> \in Seq(S)
      OBVIOUS
    <3> QED
      BY <3>1 DEF Init
  <2>2. \E m \in WorkerCounts : slots \in [1 .. m -> Requests \cup {None}]
    BY <1>2
  <2> QED
    BY <2>1, <2>2, <1>4, <1>5 DEF Typed
<1>7. HeldOnce
  BY <1>1, <1>3 DEF Init, HeldOnce, Queued
<1>8. Reserved(slots)
  BY <1>1 DEF Reserved
<1>9. Stack(queue, slots, calls)
  BY DEF Init, Stack, Quiet, Shut
<1> QED
  BY <1>6, <1>7, <1>8, <1>9 DEF IInv

\* The slots are as the lemmas about dispatch() want them.
LEMMA SlotsTyped ==
  ASSUME Typed
  PROVE  slots \in Slots /\ WorkerCount \in {1, 2} /\ DOMAIN slots = 1 .. WorkerCount
<1>1. PICK n \in {1, 2} : slots \in [1 .. n -> Requests \cup {None}]
  BY PoolAssumption DEF Typed
<1>2. Cardinality(1 .. n) = IF 1 > n THEN 0 ELSE n - 1 + 1
  BY FS_Interval
<1> QED
  BY <1>1, <1>2 DEF Slots, WorkerCount

\* There are no more tasks on workers than tasks put there.
LEMMA ActiveIsFinite ==
  ASSUME NEW busy \in Slots
  PROVE  IsFiniteSet({busy[s] : s \in DOMAIN busy} \ {None})
<1>1. PICK n \in {1, 2} : busy \in [1 .. n -> Requests \cup {None}]
  BY DEF Slots
<1>2. {busy[s] : s \in DOMAIN busy} \ {None} \in SUBSET {busy[1], busy[2]}
  BY <1>1
<1>3. IsFiniteSet({busy[1], busy[2]})
  <2>1. IsFiniteSet({busy[1]})
    BY FS_Singleton
  <2>2. IsFiniteSet({busy[1]} \cup {busy[2]})
    BY <2>1, FS_AddElement
  <2>3. {busy[1]} \cup {busy[2]} = {busy[1], busy[2]}
    OBVIOUS
  <2> QED
    BY <2>2, <2>3
<1> QED
  BY <1>2, <1>3, FS_Subset

\* A request comes.
LEMMA SubmitKeeps ==
  ASSUME IInv, NEW r \in Requests, Submit(r)
  PROVE  IInv'
<1> USE DEF IInv
<1>1. slots \in Slots
  BY SlotsTyped
<1>2. queue \in Seq(Requests) /\ queue' = Append(queue, r) /\ queue' \in Seq(Requests)
  BY DEF Submit, Typed
<1>3. Queued' = Queued \cup {r} /\ Len(queue') = Len(queue) + 1 /\ Active' = Active
  BY <1>2 DEF Submit, Queued, Active
<1>4. Dispatch(slots) \in Frames /\ Fresh(queue', slots, Dispatch(slots))
  BY <1>1, <1>2, CallAfterRequest DEF Submit, Ready, Stack
<1>5. Typed'
  <2>1. Principal[r] \in Principals /\ Bytes[r] \in Nat
    BY PoolAssumption DEF Principals
  <2>2. accounts.total + Bytes[r] \in 0 .. MaxBytes
    BY <2>1, PoolAssumption DEF Typed, Submit, Admitted
  <2>3. accounts' \in [total : 0 .. MaxBytes, tasks : [Principals -> 0 .. 1],
                       bytes : [Principals -> Nat]]
    <3>1. accounts.tasks[Principal[r]] = 0
      BY <2>1 DEF Typed, Submit, Admitted
    <3>2. /\ [accounts.tasks EXCEPT ![Principal[r]] = @ + 1] \in [Principals -> 0 .. 1]
          /\ [accounts.bytes EXCEPT ![Principal[r]] = @ + Bytes[r]] \in [Principals -> Nat]
      BY <2>1, <3>1 DEF Typed
    <3> QED
      BY <2>2, <3>2 DEF Submit, Charged
  <2>4. Cardinality(Active') + Len(queue') <= MaxTasks
    <3>1. Cardinality(Active) \in Nat
      BY <1>1, ActiveIsFinite, FS_CardinalityType DEF Active
    <3> QED
      BY <1>2, <1>3, <3>1, PoolAssumption DEF Submit, Admitted
  <2> QED
    BY <1>2, <1>4, <2>3, <2>4 DEF Typed, Submit
<1>6. HeldOnce'
  <2>1. r \notin Queued /\ r \notin Active
    BY DEF Submit, HeldOnce
  <2>2. \A i, j \in DOMAIN queue' : queue'[i] = queue'[j] => i = j
    BY <1>2, <2>1 DEF HeldOnce, Queued
  <2> QED
    BY <1>3, <2>1, <2>2 DEF HeldOnce, Submit
<1>7. Stack(queue, slots, calls)'
  BY <1>4 DEF Stack, Submit
<1> QED
  BY <1>5, <1>6, <1>7 DEF Submit

\* What a step that changes nothing but the stack keeps.
LEMMA OnlyCallsChange ==
  ASSUME Typed, HeldOnce, calls' \in Seq(Frames),
         UNCHANGED <<queue, slots, work, accounts, pending, closed>>
  PROVE  Typed' /\ HeldOnce'
<1>1. Active' = Active /\ Queued' = Queued
  BY DEF Active, Queued
<1>2. Typed'
  BY <1>1 DEF Typed
<1>3. HeldOnce'
  BY <1>1 DEF HeldOnce
<1> QED
  BY <1>2, <1>3

\* A call passes a slot.
LEMMA PassKeeps ==
  ASSUME IInv, Pass
  PROVE  IInv'
<1> USE DEF IInv
<1> DEFINE next == [Call EXCEPT !.slot = @ + 1]
<1>1. slots \in Slots /\ Call.slot <= WorkerCount /\ DOMAIN slots = 1 .. WorkerCount
  BY SlotsTyped DEF Pass
<1>2. /\ Call \in Frames /\ Callers \in Seq(Frames) /\ Len(Callers) = Len(calls) - 1
      /\ \A k \in 1 .. Len(calls) - 1 : Callers[k] = calls[k]
      /\ Len(calls) \in Nat \ {0}
  BY CallersOfCall DEF Typed, Pass
<1>3. Call.slot \in DOMAIN slots
  BY <1>1, <1>2 DEF Frames
<1>4. slots[Call.slot] # None \/ Shut(queue, slots, Call)
  BY <1>1, <1>2, TaskIsNotBlocked DEF Pass, Typed
<1>5. /\ next \in Frames
      /\ Fresh(queue, slots, next) \/ (Quiet(queue, slots) /\ Spent(queue, slots, next))
  BY <1>1, <1>2, <1>3, <1>4, AfterPass DEF Stack, Pass, Call
<1>6. calls' = Append(Callers, next)
  BY DEF Pass, Onwards
<1> HIDE DEF next
<1>7. /\ calls' \in Seq(Frames) /\ Len(calls') = Len(calls) /\ calls'[Len(calls)] = next
      /\ \A k \in 1 .. Len(calls) - 1 : calls'[k] = calls[k]
  BY <1>2, <1>5, <1>6
<1>8. Stack(queue, slots, calls')
  BY <1>2, <1>5, <1>7 DEF Stack
<1>9. UNCHANGED <<queue, slots, work, accounts, pending, closed>>
  BY DEF Pass
<1>10. Typed' /\ HeldOnce'
  BY <1>7, <1>9, OnlyCallsChange
<1> QED
  BY <1>8, <1>9, <1>10

\* A call returns.
LEMMA ReturnKeeps ==
  ASSUME IInv, Return
  PROVE  IInv'
<1> USE DEF IInv
<1>1. slots \in Slots /\ DOMAIN slots = 1 .. WorkerCount /\ WorkerCount \in {1, 2}
  BY SlotsTyped
<1>2. /\ Call \in Frames /\ Callers \in Seq(Frames) /\ Len(Callers) = Len(calls) - 1
      /\ \A k \in 1 .. Len(calls) - 1 : Callers[k] = calls[k]
      /\ Len(calls) \in Nat \ {0}
  BY CallersOfCall DEF Typed, Return
<1>3. Call.slot \notin DOMAIN slots
  BY <1>1, <1>2 DEF Return, Frames
<1>4. Quiet(queue, slots)
  BY <1>1, <1>2, <1>3, AfterReturn DEF Stack, Return, Call
<1>5. calls' = Callers
  BY DEF Return
<1>6. Stack(queue, slots, calls')
  <2>1. \A k \in 1 .. Len(calls') : Spent(queue, slots, calls'[k])
    BY <1>2, <1>5 DEF Stack
  <2>2. calls' # <<>> => Len(calls') \in 1 .. Len(calls')
    BY <1>2, <1>5
  <2>3. Len(calls') \in Nat
    BY <1>2, <1>5
  <2> QED
    BY <1>4, <2>1, <2>2, <2>3 DEF Stack
<1>7. UNCHANGED <<queue, slots, work, accounts, pending, closed>>
  BY DEF Return
<1>8. Typed' /\ HeldOnce'
  BY <1>2, <1>5, <1>7, OnlyCallsChange
<1> QED
  BY <1>6, <1>7, <1>8

\* The task a call takes out of the queue, and what is left of it.
LEMMA TaskOfCall ==
  ASSUME IInv, calls # <<>>, Call.slot <= WorkerCount, slots[Call.slot] = None,
         Candidates(Call) # {}
  PROVE  LET i == Oldest(Candidates(Call)) IN
         /\ Call \in Frames /\ Call.slot \in DOMAIN slots
         /\ i \in DOMAIN queue /\ queue[i] \in Requests
         /\ ~Blocked(slots, Call, queue[i]) /\ Fresh(queue, slots, Call)
         /\ Without(i) \in Seq(Requests) /\ Len(Without(i)) = Len(queue) - 1
         /\ Fewer(Without(i), queue)
         /\ {Without(i)[k] : k \in DOMAIN Without(i)} = Queued \ {queue[i]}
         /\ \A j, k \in DOMAIN Without(i) : Without(i)[j] = Without(i)[k] => j = k
         /\ queue[i] \in pending /\ queue[i] \notin Active
<1> USE DEF IInv
<1> DEFINE i == Oldest(Candidates(Call))
<1>1. slots \in Slots /\ DOMAIN slots = 1 .. WorkerCount /\ WorkerCount \in {1, 2}
  BY SlotsTyped
<1>2. Call \in Frames
  BY CallersOfCall DEF Typed
<1>3. Call.slot \in DOMAIN slots
  BY <1>1, <1>2 DEF Frames
<1>4. /\ i \in DOMAIN queue /\ ~Blocked(slots, Call, queue[i])
      /\ ~Shut(queue, slots, Call)
  BY <1>1, <1>2, TaskIsNotBlocked DEF Typed
<1>5. Fresh(queue, slots, Call)
  BY <1>3, <1>4 DEF Stack, Spent, Call
<1> HIDE DEF i
<1>6. Without(i) \in Seq(Requests) /\ Len(Without(i)) = Len(queue) - 1
  BY <1>4, Removal DEF Typed
<1>7. /\ {Without(i)[k] : k \in DOMAIN Without(i)} = Queued \ {queue[i]}
      /\ \A j, k \in DOMAIN Without(i) : Without(i)[j] = Without(i)[k] => j = k
  BY <1>4, RemovalKeepsOthers DEF Typed, HeldOnce
<1>8. Fewer(Without(i), queue)
  BY <1>7 DEF Fewer, Queued
<1>9. queue[i] \in Requests /\ queue[i] \in Queued
  BY <1>4 DEF Typed, Queued
<1> QED
  BY <1>2, <1>3, <1>4, <1>5, <1>6, <1>7, <1>8, <1>9 DEF i, HeldOnce

\* A call hands out a task.
LEMMA AssignKeeps ==
  ASSUME IInv, Assign
  PROVE  IInv'
<1> USE DEF IInv
<1> DEFINE i == Oldest(Candidates(Call))
           next == [Knowing(Call, queue[i]) EXCEPT !.slot = @ + 1]
<1>1. slots \in Slots
  BY SlotsTyped
<1>2. /\ Call \in Frames /\ Call.slot \in DOMAIN slots
      /\ i \in DOMAIN queue /\ queue[i] \in Requests
      /\ ~Blocked(slots, Call, queue[i]) /\ Fresh(queue, slots, Call)
      /\ Without(i) \in Seq(Requests) /\ Len(Without(i)) = Len(queue) - 1
      /\ Fewer(Without(i), queue)
      /\ {Without(i)[k] : k \in DOMAIN Without(i)} = Queued \ {queue[i]}
      /\ \A j, k \in DOMAIN Without(i) : Without(i)[j] = Without(i)[k] => j = k
      /\ queue[i] \in pending /\ queue[i] \notin Active
  BY TaskOfCall DEF Assign
<1>3. /\ queue' = Without(i) /\ slots' = [slots EXCEPT ![Call.slot] = queue[i]]
      /\ work' = [work EXCEPT ![Call.slot] = queue[i]]
      /\ calls' = Append(Callers, next) /\ slots[Call.slot] = None
  BY DEF Assign, Onwards
<1>4. /\ Callers \in Seq(Frames) /\ Len(Callers) = Len(calls) - 1
      /\ \A k \in 1 .. Len(calls) - 1 : Callers[k] = calls[k]
      /\ Len(calls) \in Nat \ {0} /\ calls \in Seq(Frames)
  BY CallersOfCall DEF Typed, Assign
<1>5. /\ slots' \in Slots /\ next \in Frames
      /\ Fresh(queue', slots', next) /\ Reserved(slots')
      /\ \A g \in Frames : Spent(queue, slots, g) => Spent(queue', slots', g)
  BY <1>1, <1>2, <1>3, AfterAssign
<1> HIDE DEF i, next
<1>6. /\ calls' \in Seq(Frames) /\ Len(calls') = Len(calls) /\ calls'[Len(calls)] = next
      /\ \A k \in 1 .. Len(calls) - 1 : calls'[k] = calls[k] /\ calls[k] \in Frames
  BY <1>3, <1>4, <1>5
<1>7. Stack(queue', slots', calls')
  BY <1>4, <1>5, <1>6 DEF Stack
<1>8. Queued' = Queued \ {queue[i]} /\ Active' = Active \cup {queue[i]}
  <2>1. None \notin Requests
    BY PoolAssumption
  <2>2. slots'[Call.slot] = queue[i] /\ DOMAIN slots' = DOMAIN slots
        /\ \A s \in DOMAIN slots : s # Call.slot => slots'[s] = slots[s]
    BY <1>2, <1>3 DEF Typed
  <2>3. Active' = Active \cup {queue[i]}
    BY <1>2, <1>3, <2>1, <2>2 DEF Active
  <2> QED
    BY <1>2, <1>3, <2>3 DEF Queued
<1>9. HeldOnce'
  <2>1. slots' = work'
    BY <1>3 DEF HeldOnce
  <2>2. \A s \in DOMAIN slots : slots[s] # queue[i]
    BY <1>2, PoolAssumption DEF Active
  <2>3. \A s, t \in DOMAIN slots' : slots'[s] = slots'[t] => s = t \/ slots'[s] = None
    BY <1>2, <1>3, <2>2 DEF HeldOnce
  <2>4. pending' = Queued' \cup Active' /\ Queued' \cap Active' = {}
    <3>1. pending' = pending
      BY DEF Assign
    <3>2. pending = Queued \cup Active /\ Queued \cap Active = {}
      BY DEF HeldOnce
    <3> QED
      BY <1>2, <1>8, <3>1, <3>2
  <2> QED
    BY <1>2, <1>3, <2>1, <2>3, <2>4 DEF HeldOnce
<1>10. Typed'
  <2>1. IsFiniteSet(Active)
    BY <1>1, ActiveIsFinite DEF Active
  <2>2. Cardinality(Active) \in Nat /\ Cardinality(Active \cup {queue[i]}) = Cardinality(Active) + 1
    BY <1>2, <2>1, FS_AddElement, FS_CardinalityType
  <2>3. Cardinality(Active') + Len(queue') <= MaxTasks
    BY <1>2, <1>3, <1>8, <2>2, PoolAssumption DEF Typed
  <2>4. \E n \in WorkerCounts : slots' \in [1 .. n -> Requests \cup {None}]
    BY <1>2, <1>3 DEF Typed
  <2> QED
    BY <1>2, <1>3, <1>6, <2>3, <2>4 DEF Typed, Assign
<1> QED
  BY <1>5, <1>7, <1>9, <1>10

\* What is given back never leaves the limits.
LEMMA ReleasedTyped ==
  ASSUME Typed, NEW r \in Requests
  PROVE  Released(r) \in [total : 0 .. MaxBytes, tasks : [Principals -> 0 .. 1],
                          bytes : [Principals -> Nat]]
<1>1. Principal[r] \in Principals /\ Bytes[r] \in Nat /\ MaxBytes \in Nat
  BY PoolAssumption DEF Principals
<1>2. AtLeast0(accounts.total - Bytes[r]) \in 0 .. MaxBytes
  BY <1>1 DEF Typed, AtLeast0
<1>3. \A n \in 0 .. 1 : AtLeast0(n - 1) \in 0 .. 1
  BY DEF AtLeast0
<1>4. [accounts.tasks EXCEPT ![Principal[r]] = AtLeast0(@ - 1)] \in [Principals -> 0 .. 1]
  BY <1>1, <1>3 DEF Typed
<1>5. \A n \in Nat : AtLeast0(n - Bytes[r]) \in Nat
  BY <1>1 DEF AtLeast0
<1>6. [accounts.bytes EXCEPT ![Principal[r]] = AtLeast0(@ - Bytes[r])] \in [Principals -> Nat]
  BY <1>1, <1>5 DEF Typed
<1> QED
  BY <1>2, <1>4, <1>6 DEF Released

\* Handing out a task throws, and a second call begins on top of the first.
LEMMA PostFailsKeeps ==
  ASSUME IInv, PostFails
  PROVE  IInv'
<1> USE DEF IInv
<1> DEFINE i == Oldest(Candidates(Call))
           next == [Knowing(Call, queue[i]) EXCEPT !.slot = @ + 1]
<1>1. slots \in Slots
  BY SlotsTyped
<1>2. /\ Call \in Frames /\ Call.slot \in DOMAIN slots
      /\ i \in DOMAIN queue /\ queue[i] \in Requests
      /\ ~Blocked(slots, Call, queue[i]) /\ Fresh(queue, slots, Call)
      /\ Without(i) \in Seq(Requests) /\ Len(Without(i)) = Len(queue) - 1
      /\ Fewer(Without(i), queue)
      /\ {Without(i)[k] : k \in DOMAIN Without(i)} = Queued \ {queue[i]}
      /\ \A j, k \in DOMAIN Without(i) : Without(i)[j] = Without(i)[k] => j = k
      /\ queue[i] \in pending /\ queue[i] \notin Active
  BY TaskOfCall DEF PostFails
<1>3. /\ queue' = Without(i) /\ slots' = slots /\ work' = work /\ closed' = closed
      /\ accounts' = Released(queue[i]) /\ pending' = pending \ {queue[i]}
      /\ calls' = Append(Append(Callers, next), Dispatch(slots)) /\ slots[Call.slot] = None
  BY DEF PostFails, Onwards
<1>4. /\ Callers \in Seq(Frames) /\ Len(Callers) = Len(calls) - 1
      /\ \A k \in 1 .. Len(calls) - 1 : Callers[k] = calls[k]
      /\ Len(calls) \in Nat \ {0} /\ calls \in Seq(Frames)
  BY CallersOfCall DEF Typed, PostFails
<1>5. queue \in Seq(Requests)
  BY DEF Typed
<1>6. /\ next \in Frames /\ Spent(queue', slots, next)
      /\ Dispatch(slots) \in Frames /\ Fresh(queue', slots, Dispatch(slots))
      /\ \A g \in Frames : Spent(queue, slots, g) => Spent(queue', slots, g)
  BY <1>1, <1>2, <1>3, <1>5, AfterException
<1> HIDE DEF i, next
<1>7. /\ calls' \in Seq(Frames) /\ Len(calls') = Len(calls) + 1
      /\ calls'[Len(calls)] = next /\ calls'[Len(calls) + 1] = Dispatch(slots)
      /\ \A k \in 1 .. Len(calls) - 1 : calls'[k] = calls[k] /\ calls[k] \in Frames
  BY <1>3, <1>4, <1>6
<1>8. Stack(queue', slots', calls')
  BY <1>3, <1>4, <1>6, <1>7 DEF Stack
<1>9. Queued' = Queued \ {queue[i]} /\ Active' = Active
  <2>1. Queued' = Queued \ {queue[i]}
    BY <1>2, <1>3 DEF Queued
  <2>2. Active' = Active
    BY <1>2, <1>3 DEF Active
  <2> QED
    BY <2>1, <2>2
<1>10. HeldOnce'
  <2>1. pending = Queued \cup Active /\ Queued \cap Active = {}
    BY DEF HeldOnce
  <2>2. pending' = Queued' \cup Active' /\ Queued' \cap Active' = {}
    BY <1>2, <1>3, <1>9, <2>1
  <2> QED
    BY <1>2, <1>3, <2>2 DEF HeldOnce
<1>11. Typed'
  <2>1. Cardinality(Active) \in Nat
    BY <1>1, ActiveIsFinite, FS_CardinalityType DEF Active
  <2>2. Cardinality(Active') + Len(queue') <= MaxTasks
    BY <1>2, <1>3, <1>5, <1>9, <2>1, PoolAssumption DEF Typed
  <2> QED
    BY <1>2, <1>3, <1>7, <2>2, ReleasedTyped DEF Typed
<1> QED
  BY <1>3, <1>8, <1>10, <1>11

\* A slot is failed, or its task answered, which does the same to the pool.
LEMMA FailKeeps ==
  ASSUME IInv, Ready, NEW s \in DOMAIN slots, Fail(s)
  PROVE  IInv'
<1> USE DEF IInv
<1> DEFINE now == [slots EXCEPT ![s] = None]
<1>1. slots \in Slots /\ slots[s] \in Requests \cup {None} /\ queue \in Seq(Requests)
  BY SlotsTyped DEF Typed
<1>2. /\ slots' = now /\ work' = now /\ queue' = queue /\ closed' = closed
      /\ calls' = <<Dispatch(now)>>
  BY DEF Fail, Redispatched, HeldOnce
<1>3. now \in Slots /\ Dispatch(now) \in Frames /\ Fresh(queue, now, Dispatch(now))
  BY <1>1, CallAfterTask DEF Ready, Stack
<1>4. Stack(queue', slots', calls')
  BY <1>2, <1>3 DEF Stack
<1>5. Queued' = Queued /\ Active' = Active \ {slots[s]}
  <2>1. \A t \in DOMAIN slots : t # s => now[t] = slots[t] /\ (slots[t] = slots[s] => slots[t] = None)
    BY DEF HeldOnce
  <2>2. now[s] = None /\ DOMAIN now = DOMAIN slots
    BY DEF Typed
  <2> QED
    BY <1>2, <2>1, <2>2 DEF Queued, Active
<1>6. /\ pending' = pending \ {slots[s]}
      /\ accounts' \in [total : 0 .. MaxBytes, tasks : [Principals -> 0 .. 1],
                        bytes : [Principals -> Nat]]
  <2>1. CASE slots[s] = None
    BY <2>1, PoolAssumption DEF Fail, Typed
  <2>2. CASE slots[s] # None
    BY <1>1, <2>2, ReleasedTyped DEF Fail, Settled
  <2> QED
    BY <2>1, <2>2
<1>7. HeldOnce'
  <2>1. pending = Queued \cup Active /\ Queued \cap Active = {}
    BY DEF HeldOnce
  <2>2. slots[s] \notin Queued
    <3>1. slots[s] # None => slots[s] \in Active
      BY DEF Active
    <3>2. None \notin Queued
      BY <1>1, PoolAssumption DEF Queued
    <3> QED
      BY <2>1, <3>1, <3>2
  <2>3. pending' = Queued' \cup Active' /\ Queued' \cap Active' = {}
    BY <1>5, <1>6, <2>1, <2>2
  <2>4. \A t, u \in DOMAIN now : now[t] = now[u] => t = u \/ now[t] = None
    BY DEF HeldOnce
  <2> QED
    BY <1>2, <2>3, <2>4 DEF HeldOnce
<1>8. Typed'
  <2>1. IsFiniteSet(Active)
    BY <1>1, ActiveIsFinite DEF Active
  <2>2. Cardinality(Active \ {slots[s]}) <= Cardinality(Active)
        /\ Cardinality(Active) \in Nat /\ Cardinality(Active \ {slots[s]}) \in Nat
    BY <2>1, FS_RemoveElement, FS_CardinalityType, FS_Subset
  <2>3. Cardinality(Active') + Len(queue') <= MaxTasks
    BY <1>1, <1>2, <1>5, <2>2, PoolAssumption DEF Typed
  <2>4. \E n \in WorkerCounts : slots' \in [1 .. n -> Requests \cup {None}]
    BY <1>2 DEF Typed
  <2>5. calls' \in Seq(Frames) /\ pending' \subseteq Requests
    BY <1>2, <1>3, <1>6 DEF Typed
  <2> QED
    BY <1>2, <1>6, <2>3, <2>4, <2>5 DEF Typed
<1>9. Reserved(slots')
  BY <1>2 DEF Reserved, Typed
<1> QED
  BY <1>4, <1>7, <1>8, <1>9

\* The pool is closed.
LEMMA CloseKeeps ==
  ASSUME IInv, Close
  PROVE  IInv'
<1> USE DEF IInv
<1>1. /\ queue' = <<>> /\ slots' = [s \in DOMAIN slots |-> None] /\ work' = slots'
      /\ accounts' = NothingPending /\ pending' = {} /\ closed' = TRUE
      /\ calls' = calls /\ calls = <<>>
  BY DEF Close, Ready
<1>2. Queued' = {} /\ Active' = {}
  BY <1>1 DEF Queued, Active
<1>3. Typed'
  <2>1. accounts' \in [total : 0 .. MaxBytes, tasks : [Principals -> 0 .. 1],
                       bytes : [Principals -> Nat]]
    BY <1>1, PoolAssumption DEF NothingPending
  <2>2. Cardinality(Active') + Len(queue') <= MaxTasks
    BY <1>1, <1>2, FS_EmptySet, PoolAssumption
  <2>3. \E n \in WorkerCounts : slots' \in [1 .. n -> Requests \cup {None}]
    BY <1>1 DEF Typed
  <2>4. queue' \in Seq(Requests)
    BY <1>1
  <2> QED
    BY <1>1, <2>1, <2>2, <2>3, <2>4 DEF Typed
<1>4. HeldOnce'
  BY <1>1, <1>2 DEF HeldOnce
<1>5. Reserved(slots')
  BY <1>1 DEF Reserved
<1>6. Stack(queue', slots', calls')
  BY <1>1 DEF Stack, Quiet, Shut
<1> QED
  BY <1>3, <1>4, <1>5, <1>6
-----------------------------------------------------------------------------
(***************************************************************************)
(* The accounts                                                            *)
(***************************************************************************)

\* The bytes of some requests, one by one.
EachByteOf(requests) == UNION {{r} \X (1 .. Bytes[r]) : r \in requests}

\* The requests of a principal among them.
Own(requests, p) == {r \in requests : Principal[r] = p}

\* The accounts are those of some requests.
AccountsOf(requests) ==
    /\ IsFiniteSet(requests) /\ IsFiniteSet(EachByteOf(requests))
    /\ accounts.total = BytesOf(requests)
    /\ \A p \in Principals : /\ accounts.tasks[p] = Cardinality(Own(requests, p))
                             /\ accounts.bytes[p] = BytesOf(Own(requests, p))

\* One more request adds its own bytes to those of the others.
LEMMA OneMore ==
  ASSUME NEW S \in SUBSET Requests, IsFiniteSet(S), IsFiniteSet(EachByteOf(S)),
         NEW r \in Requests \ S
  PROVE  /\ IsFiniteSet(S \cup {r}) /\ Cardinality(S \cup {r}) = Cardinality(S) + 1
         /\ IsFiniteSet(EachByteOf(S \cup {r}))
         /\ BytesOf(S \cup {r}) = BytesOf(S) + Bytes[r]
<1> DEFINE piece == {r} \X (1 .. Bytes[r])
<1>1. Bytes[r] \in Nat
  BY PoolAssumption
<1>2. IsFiniteSet(1 .. Bytes[r]) /\ Cardinality(1 .. Bytes[r]) = Bytes[r]
  <2>1. /\ IsFiniteSet(1 .. Bytes[r])
        /\ Cardinality(1 .. Bytes[r]) = IF 1 > Bytes[r] THEN 0 ELSE Bytes[r] - 1 + 1
    BY <1>1, FS_Interval
  <2> QED
    BY <1>1, <2>1
<1>3. IsFiniteSet(piece) /\ Cardinality(piece) = Bytes[r]
  <2>1. IsFiniteSet({r}) /\ Cardinality({r}) = 1
    BY FS_Singleton
  <2>2. /\ IsFiniteSet(piece)
        /\ Cardinality(piece) = Cardinality({r}) * Cardinality(1 .. Bytes[r])
    BY <1>2, <2>1, FS_Product
  <2> QED
    BY <1>1, <1>2, <2>1, <2>2
<1>4. EachByteOf(S \cup {r}) = EachByteOf(S) \cup piece
  BY DEF EachByteOf
<1>5. EachByteOf(S) \cap piece = {}
  BY DEF EachByteOf
<1> HIDE DEF piece
<1>6. /\ IsFiniteSet(EachByteOf(S) \cup piece)
      /\ Cardinality(EachByteOf(S) \cup piece)
            = Cardinality(EachByteOf(S)) + Cardinality(piece) - Cardinality(EachByteOf(S) \cap piece)
  BY <1>3, FS_Union
<1>7. Cardinality(EachByteOf(S)) \in Nat /\ Cardinality({}) = 0
  BY FS_CardinalityType, FS_EmptySet
<1>8. Cardinality(EachByteOf(S) \cup piece) = Cardinality(EachByteOf(S)) + Bytes[r]
  <2>1. Cardinality(EachByteOf(S) \cap piece) = 0
    BY <1>5, <1>7
  <2> QED
    BY <1>1, <1>3, <1>6, <1>7, <2>1
<1>9. \A T : BytesOf(T) = Cardinality(EachByteOf(T))
  BY DEF BytesOf, EachByteOf
<1>10. IsFiniteSet(S \cup {r}) /\ Cardinality(S \cup {r}) = Cardinality(S) + 1
  BY FS_AddElement
<1> QED
  BY <1>4, <1>6, <1>8, <1>9, <1>10

\* Fewer requests are finite too, and they have natural sums.
LEMMA SomeOfThem ==
  ASSUME NEW S, IsFiniteSet(S), IsFiniteSet(EachByteOf(S)), NEW T \in SUBSET S
  PROVE  /\ IsFiniteSet(T) /\ IsFiniteSet(EachByteOf(T))
         /\ Cardinality(T) \in Nat /\ BytesOf(T) \in Nat
<1>1. IsFiniteSet(T)
  BY FS_Subset
<1>2. EachByteOf(T) \in SUBSET EachByteOf(S)
  BY DEF EachByteOf
<1>3. IsFiniteSet(EachByteOf(T))
  BY <1>2, FS_Subset
<1>4. Cardinality(T) \in Nat /\ Cardinality(EachByteOf(T)) \in Nat
  BY <1>1, <1>3, FS_CardinalityType
<1> QED
  BY <1>1, <1>3, <1>4 DEF BytesOf, EachByteOf

\* What a request is charged makes the accounts those of one request more.
LEMMA ChargeAddsOne ==
  ASSUME Typed, NEW S \in SUBSET Requests, AccountsOf(S), NEW r \in Requests \ S,
         accounts' = Charged(r)
  PROVE  AccountsOf(S \cup {r})'
<1>1. Principal[r] \in Principals /\ Bytes[r] \in Nat
  BY PoolAssumption DEF Principals
<1>2. IsFiniteSet(S) /\ IsFiniteSet(EachByteOf(S))
  BY DEF AccountsOf
<1>3. /\ IsFiniteSet(S \cup {r}) /\ IsFiniteSet(EachByteOf(S \cup {r}))
      /\ BytesOf(S \cup {r}) = BytesOf(S) + Bytes[r]
  BY <1>2, OneMore
<1>4. accounts'.total = BytesOf(S \cup {r})
  BY <1>3 DEF AccountsOf, Charged
<1>5. ASSUME NEW p \in Principals
      PROVE  /\ accounts'.tasks[p] = Cardinality(Own(S \cup {r}, p))
             /\ accounts'.bytes[p] = BytesOf(Own(S \cup {r}, p))
  <2>1. /\ Own(S, p) \in SUBSET S /\ r \notin Own(S, p)
        /\ IsFiniteSet(Own(S, p)) /\ IsFiniteSet(EachByteOf(Own(S, p)))
    BY <1>2, SomeOfThem DEF Own
  <2>2. accounts.tasks[p] = Cardinality(Own(S, p)) /\ accounts.bytes[p] = BytesOf(Own(S, p))
    BY DEF AccountsOf
  <2>3. CASE p = Principal[r]
    <3>1. Own(S \cup {r}, p) = Own(S, p) \cup {r}
      BY <2>3 DEF Own
    <3>2. /\ Cardinality(Own(S, p) \cup {r}) = Cardinality(Own(S, p)) + 1
          /\ BytesOf(Own(S, p) \cup {r}) = BytesOf(Own(S, p)) + Bytes[r]
      BY <2>1, OneMore
    <3>3. accounts'.tasks[p] = accounts.tasks[p] + 1 /\ accounts'.bytes[p] = accounts.bytes[p] + Bytes[r]
      BY <1>1, <2>3 DEF Charged, Typed
    <3> QED
      BY <2>2, <3>1, <3>2, <3>3
  <2>4. CASE p # Principal[r]
    <3>1. Own(S \cup {r}, p) = Own(S, p)
      BY <2>4 DEF Own
    <3>2. accounts'.tasks[p] = accounts.tasks[p] /\ accounts'.bytes[p] = accounts.bytes[p]
      BY <1>1, <2>4 DEF Charged, Typed
    <3> QED
      BY <2>2, <3>1, <3>2
  <2> QED
    BY <2>3, <2>4
<1> QED
  BY <1>3, <1>4, <1>5 DEF AccountsOf

\* What a request gives back makes them those of one request less: there is
\* always enough to take it from, so that nothing is cut off at 0.
LEMMA ReleaseTakesOne ==
  ASSUME Typed, NEW S \in SUBSET Requests, AccountsOf(S), NEW r \in S,
         accounts' = Released(r)
  PROVE  AccountsOf(S \ {r})'
<1>1. Principal[r] \in Principals /\ Bytes[r] \in Nat /\ r \in Requests
  BY PoolAssumption DEF Principals
<1>2. IsFiniteSet(S) /\ IsFiniteSet(EachByteOf(S))
  BY DEF AccountsOf
<1>3. ASSUME NEW T \in SUBSET S, r \in T
      PROVE  /\ Cardinality(T) = Cardinality(T \ {r}) + 1
             /\ BytesOf(T) = BytesOf(T \ {r}) + Bytes[r]
             /\ Cardinality(T \ {r}) \in Nat /\ BytesOf(T \ {r}) \in Nat
  <2>1. /\ IsFiniteSet(T \ {r}) /\ IsFiniteSet(EachByteOf(T \ {r}))
        /\ Cardinality(T \ {r}) \in Nat /\ BytesOf(T \ {r}) \in Nat
    BY <1>2, SomeOfThem
  <2>2. (T \ {r}) \cup {r} = T
    BY <1>3
  <2>3. T \ {r} \in SUBSET Requests /\ r \in Requests \ (T \ {r})
    BY <1>1
  <2>4. /\ Cardinality((T \ {r}) \cup {r}) = Cardinality(T \ {r}) + 1
        /\ BytesOf((T \ {r}) \cup {r}) = BytesOf(T \ {r}) + Bytes[r]
    BY <2>1, <2>3, OneMore
  <2> QED
    BY <2>1, <2>2, <2>4
<1>4. IsFiniteSet(S \ {r}) /\ IsFiniteSet(EachByteOf(S \ {r}))
  BY <1>2, SomeOfThem
<1>5. \A n \in Nat : AtLeast0(n) = n
  BY DEF AtLeast0
<1>6. accounts'.total = BytesOf(S \ {r})
  <2>1. BytesOf(S) = BytesOf(S \ {r}) + Bytes[r] /\ BytesOf(S \ {r}) \in Nat
    BY <1>3
  <2>2. accounts'.total = AtLeast0(accounts.total - Bytes[r]) /\ accounts.total = BytesOf(S)
    BY DEF Released, AccountsOf
  <2>3. accounts.total - Bytes[r] = BytesOf(S \ {r})
    BY <1>1, <2>1, <2>2
  <2> QED
    BY <1>5, <2>1, <2>2, <2>3
<1>7. ASSUME NEW p \in Principals
      PROVE  /\ accounts'.tasks[p] = Cardinality(Own(S \ {r}, p))
             /\ accounts'.bytes[p] = BytesOf(Own(S \ {r}, p))
  <2>1. accounts.tasks[p] = Cardinality(Own(S, p)) /\ accounts.bytes[p] = BytesOf(Own(S, p))
    BY DEF AccountsOf
  <2>2. CASE p = Principal[r]
    <3>1. Own(S, p) \in SUBSET S /\ r \in Own(S, p) /\ Own(S \ {r}, p) = Own(S, p) \ {r}
      BY <2>2 DEF Own
    <3>2. /\ Cardinality(Own(S, p)) = Cardinality(Own(S, p) \ {r}) + 1
          /\ BytesOf(Own(S, p)) = BytesOf(Own(S, p) \ {r}) + Bytes[r]
          /\ Cardinality(Own(S, p) \ {r}) \in Nat /\ BytesOf(Own(S, p) \ {r}) \in Nat
      BY <1>3, <3>1
    <3>3. /\ accounts'.tasks[p] = AtLeast0(accounts.tasks[p] - 1)
          /\ accounts'.bytes[p] = AtLeast0(accounts.bytes[p] - Bytes[r])
      BY <1>1, <2>2 DEF Released, Typed
    <3>4. /\ accounts.bytes[p] - Bytes[r] = BytesOf(Own(S, p) \ {r})
          /\ accounts.tasks[p] - 1 = Cardinality(Own(S, p) \ {r})
      BY <1>1, <2>1, <3>2
    <3>5. /\ accounts'.bytes[p] = BytesOf(Own(S, p) \ {r})
          /\ accounts'.tasks[p] = Cardinality(Own(S, p) \ {r})
      BY <1>5, <3>2, <3>3, <3>4
    <3> QED
      BY <3>1, <3>5
  <2>3. CASE p # Principal[r]
    <3>1. Own(S \ {r}, p) = Own(S, p)
      BY <2>3 DEF Own
    <3>2. accounts'.tasks[p] = accounts.tasks[p] /\ accounts'.bytes[p] = accounts.bytes[p]
      BY <1>1, <2>3 DEF Released, Typed
    <3> QED
      BY <2>1, <3>1, <3>2
  <2> QED
    BY <2>2, <2>3
<1> QED
  BY <1>4, <1>6, <1>7 DEF AccountsOf

\* An empty pool has empty accounts.
LEMMA NothingIsOwed ==
  ASSUME accounts = NothingPending
  PROVE  AccountsOf({})
<1>1. IsFiniteSet({}) /\ Cardinality({}) = 0
  BY FS_EmptySet
<1>2. EachByteOf({}) = {} /\ \A p : Own({}, p) = {}
  BY DEF EachByteOf, Own
<1>3. BytesOf({}) = 0
  BY <1>1, <1>2 DEF BytesOf, EachByteOf
<1> QED
  BY <1>1, <1>2, <1>3 DEF AccountsOf, NothingPending

\* Every step keeps the accounts those of the requests without an answer.
LEMMA StepAccounts ==
  ASSUME IInv, AccountsOf(pending), [Next]_vars
  PROVE  AccountsOf(pending)'
<1> USE DEF IInv
<1>1. Typed /\ pending \in SUBSET Requests
  BY DEF Typed
<1>2. ASSUME NEW r \in Requests, Submit(r) PROVE AccountsOf(pending)'
  BY <1>1, <1>2, ChargeAddsOne DEF Submit
<1>3. ASSUME UNCHANGED <<accounts, pending>> PROVE AccountsOf(pending)'
  BY <1>3 DEF AccountsOf
<1>4. CASE PostFails
  <2> DEFINE i == Oldest(Candidates(Call))
  <2>1. queue[i] \in pending
    BY <1>4, TaskOfCall DEF PostFails
  <2>2. accounts' = Released(queue[i]) /\ pending' = pending \ {queue[i]}
    BY <1>4 DEF PostFails
  <2> QED
    BY <1>1, <2>1, <2>2, ReleaseTakesOne
<1>5. ASSUME NEW s \in DOMAIN slots, Fail(s) PROVE AccountsOf(pending)'
  <2>1. CASE slots[s] = None
    BY <1>3, <1>5, <2>1 DEF Fail
  <2>2. CASE slots[s] # None
    <3>1. slots[s] \in pending
      BY <2>2 DEF HeldOnce, Active
    <3>2. accounts' = Released(slots[s]) /\ pending' = pending \ {slots[s]}
      BY <1>5, <2>2 DEF Fail, Settled
    <3> QED
      BY <1>1, <3>1, <3>2, ReleaseTakesOne
  <2> QED
    BY <2>1, <2>2
<1>6. ASSUME NEW s \in DOMAIN slots, Ends(s) \/ WorkerDies(s) PROVE AccountsOf(pending)'
  <2>1. ASSUME HandleMessage(s) PROVE Fail(s)
    BY <2>1 DEF HandleMessage, Fail
  <2> QED
    BY <1>5, <1>6, <2>1 DEF Ends, Timeout, WorkerDies
<1>7. CASE Close
  <2>1. pending' = {} /\ accounts' = NothingPending
    BY <1>7 DEF Close
  <2>2. IsFiniteSet({}) /\ Cardinality({}) = 0
    BY FS_EmptySet
  <2>3. EachByteOf({}) = {} /\ \A p : Own({}, p) = {}
    BY DEF EachByteOf, Own
  <2>4. BytesOf({}) = 0
    BY <2>2, <2>3 DEF BytesOf, EachByteOf
  <2> QED
    BY <2>1, <2>2, <2>3, <2>4 DEF AccountsOf, NothingPending
<1>8. CASE Loop
  BY <1>3, <1>4, <1>8 DEF Loop, Return, Pass, Assign
<1>9. CASE UNCHANGED vars
  BY <1>3, <1>9 DEF vars
<1> QED
  BY <1>2, <1>6, <1>7, <1>8, <1>9 DEF Next
-----------------------------------------------------------------------------
(***************************************************************************)
(* Theorems                                                                *)
(***************************************************************************)

\* Every step of the pool keeps the invariant.
LEMMA StepKeeps == IInv /\ [Next]_vars => IInv'
<1> SUFFICES ASSUME IInv, [Next]_vars PROVE IInv'
  OBVIOUS
<1>1. ASSUME NEW r \in Requests, Submit(r) PROVE IInv'
  BY <1>1, SubmitKeeps
<1>2. CASE Loop
  BY <1>2, ReturnKeeps, PassKeeps, AssignKeeps, PostFailsKeeps DEF Loop
<1>3. ASSUME NEW s \in DOMAIN slots, Ends(s) \/ WorkerDies(s) PROVE IInv'
  <2>1. ASSUME HandleMessage(s) PROVE Ready /\ Fail(s)
    BY <2>1 DEF HandleMessage, Fail
  <2> QED
    BY <1>3, <2>1, FailKeeps DEF Ends, Timeout, WorkerDies
<1>4. CASE Close
  BY <1>4, CloseKeeps
<1>5. CASE UNCHANGED vars
  <2>1. UNCHANGED <<queue, slots, work, accounts, pending, calls, closed>>
    BY <1>5 DEF vars
  <2>2. Typed' /\ HeldOnce'
    BY <2>1, OnlyCallsChange DEF IInv, Typed
  <2> QED
    BY <2>1, <2>2 DEF IInv
<1> QED
  BY <1>1, <1>2, <1>3, <1>4, <1>5 DEF Next

\* The invariant holds in every state of the pool (collaboration-update-worker-pool.ts).
THEOREM PoolInvariance == Spec => []IInv
<1>1. Init => IInv
  BY Initially
<1>2. IInv /\ [Next]_vars => IInv'
  BY StepKeeps
<1> QED
  BY <1>1, <1>2, PTL DEF Spec

\* Types are kept, and admitTask's limits on tasks and bytes are never exceeded.
THEOREM PoolTypeCorrect == Spec => []TypeOK
<1>1. IInv => TypeOK
  <2> SUFFICES ASSUME IInv PROVE TypeOK
    OBVIOUS
  <2>1. PICK n \in WorkerCounts : slots \in [1 .. n -> Requests \cup {None}]
    BY DEF IInv, Typed
  <2>2. DOMAIN slots \in {1 .. m : m \in WorkerCounts}
    BY <2>1
  <2>3. \A s \in DOMAIN slots : {slots[s], work[s]} \subseteq Requests \cup {None}
    BY <2>1 DEF IInv, HeldOnce
  <2>4. accounts.total \in 0 .. MaxBytes /\ \A p \in Principals : accounts.tasks[p] \in 0 .. 1
    BY DEF IInv, Typed
  <2> QED
    BY <2>2, <2>3, <2>4 DEF IInv, Typed, TypeOK
<1> QED
  BY <1>1, PoolInvariance, PTL

\* A request without an answer waits or runs, once, and a worker computes what
\* its slot has: whatever answers late, times out, dies or throws.
THEOREM TasksAreHeldOnce == Spec => []HeldOnce
<1>1. IInv => HeldOnce
  BY DEF IInv
<1> QED
  BY <1>1, PoolInvariance, PTL

\* The second worker is left for small validations, also when dispatch() is
\* called in the middle of itself.
THEOREM SecondWorkerIsReserved == Spec => []OneOfAKind
<1>1. IInv => OneOfAKind
  BY SlotsTyped DEF IInv, Reserved, OneOfAKind
<1> QED
  BY <1>1, PoolInvariance, PTL

\* When the pool rests, no slot is idle that could take a waiting task.
THEOREM NoSlotIdles ==
  Spec => [](Ready /\ (\E s \in DOMAIN slots : slots[s] = None)
                => Candidates(Dispatch(slots)) = {})
<1>1. IInv => (Ready /\ (\E s \in DOMAIN slots : slots[s] = None)
                => Candidates(Dispatch(slots)) = {})
  <2> SUFFICES ASSUME IInv, Ready, \E s \in DOMAIN slots : slots[s] = None
               PROVE  Candidates(Dispatch(slots)) = {}
    OBVIOUS
  <2>1. Shut(queue, slots, Dispatch(slots))
    BY DEF IInv, Ready, Stack, Quiet
  <2>2. slots \in Slots /\ queue \in Seq(Requests) /\ Dispatch(slots) \in Frames
    BY SlotsTyped DEF IInv, Typed, Dispatch, Frames, HistoryActive, ExpensiveActive
  <2> QED
    BY <2>1, <2>2, TaskIsNotBlocked
<1> QED
  BY <1>1, PoolInvariance, PTL
\* The accounts of the pool and of every principal are the tasks they stand
\* for, so no path of a task gives back what it has not taken, or takes twice.
THEOREM AccountsAreTasks == Spec => []AccountsMatch
<1>1. Init => AccountsOf(pending)
  BY NothingIsOwed DEF Init
<1>2. IInv /\ AccountsOf(pending) /\ [Next]_vars => AccountsOf(pending)'
  BY StepAccounts
<1>3. IInv /\ AccountsOf(pending) => AccountsMatch
  BY DEF IInv, HeldOnce, Held, AccountsOf, AccountsMatch, Own
<1> QED
  BY <1>1, <1>2, <1>3, PoolInvariance, PTL DEF Spec
=============================================================================
