------------------------------ MODULE WorkerPool ------------------------------
(***************************************************************************)
(* CollaborationValidationPool: one or two worker threads that validate    *)
(* updates and replay histories for the collaboration hub.  Requests are   *)
(* counted against limits when they come, wait in one queue, and run on a  *)
(* worker until it answers, dies, or has taken too long.                   *)
(*                                                                         *)
(* The pool runs on one thread, so a call of its methods is not            *)
(* interrupted.  dispatch() is taken apart nevertheless, one slot a step:  *)
(* handing a task to a worker can throw, and the handler of that exception *)
(* calls dispatch() again while the outer call is in the middle of its     *)
(* loop.  The variable calls is the stack of these calls, and nothing else *)
(* happens while there is one.                                             *)
(*                                                                         *)
(* Definitions whose comment says "Fault" are not part of the model: each  *)
(* is a mistake this code could contain, kept next to the definition it    *)
(* would replace, to show that a property would notice it.                 *)
(***************************************************************************)
EXTENDS Integers, Sequences, FiniteSets

CONSTANTS
    None,
    Requests,               \* requests; each may be made again when it is settled
    Principal, Bytes,       \* for whom a request is made, and its size
    Validations,            \* the others replay or materialize a history
    Expensive,              \* validations against a large document
    WorkerCounts,           \* how many workers a pool may have
    MaxTasks, MaxBytes,     \* limits of the pool
    ValidationBytes, HistoryBytes   \* limits of a principal

ASSUME PoolAssumption ==
    /\ None \notin Requests
    /\ Expensive \subseteq Validations /\ Validations \subseteq Requests
    /\ DOMAIN Principal = Requests /\ Bytes \in [Requests -> Nat]
    /\ WorkerCounts \subseteq {1, 2}
    /\ {MaxTasks, MaxBytes, ValidationBytes, HistoryBytes} \subseteq Nat

Principals == {Principal[r] : r \in Requests}

VARIABLES
    queue,                  \* tasks that wait
    slots,                  \* the activeTask of each slot
    work,                   \* what the worker of each slot has been handed
    accounts,               \* bytes in all; tasks and bytes of each principal
    pending,                \* requests whose promise is not settled
    calls,                  \* calls of dispatch() that have not returned
    closed

vars == <<queue, slots, work, accounts, pending, calls, closed>>

NothingPending == [total |-> 0, tasks |-> [p \in Principals |-> 0], bytes |-> [p \in Principals |-> 0]]

Init ==
    /\ \E n \in WorkerCounts : slots = [s \in 1 .. n |-> None]
    /\ work = slots
    /\ queue = <<>> /\ calls = <<>>
    /\ accounts = NothingPending /\ pending = {}
    /\ closed = FALSE

WorkerCount == Cardinality(DOMAIN slots)
Ready == calls = <<>> /\ ~closed
Queued == {queue[i] : i \in DOMAIN queue}
Active == {slots[s] : s \in DOMAIN slots} \ {None}

\* Fault: the other slots are not looked at.
HistoryUnseen(busy) == FALSE

\* What dispatch() finds when it is called.
HistoryActive(busy)   == \E s \in DOMAIN busy : busy[s] \in Requests \ Validations
ExpensiveActive(busy) == \E s \in DOMAIN busy : busy[s] \in Expensive

Dispatch(busy) ==
    [slot |-> 1, history |-> HistoryActive(busy), expensive |-> ExpensiveActive(busy)]
-----------------------------------------------------------------------------
(***************************************************************************)
(* Admission and accounting                                                *)
(***************************************************************************)
ByteLimit(r) == IF r \in Validations THEN ValidationBytes ELSE HistoryBytes

\* Fault: the tasks of a principal are not counted.
AdmittedByBytes(r) ==
    /\ Cardinality(Active) + Len(queue) < MaxTasks
    /\ Bytes[r] <= MaxBytes - accounts.total

Admitted(r) ==
    /\ Cardinality(Active) + Len(queue) < MaxTasks
    /\ Bytes[r] <= MaxBytes - accounts.total
    /\ accounts.tasks[Principal[r]] < 1
    /\ Bytes[r] <= ByteLimit(r) - accounts.bytes[Principal[r]]

Charged(r) ==
    [total |-> accounts.total + Bytes[r],
     tasks |-> [accounts.tasks EXCEPT ![Principal[r]] = @ + 1],
     bytes |-> [accounts.bytes EXCEPT ![Principal[r]] = @ + Bytes[r]]]

AtLeast0(n) == IF n > 0 THEN n ELSE 0

\* Fault: the bytes of the pool are forgotten.
ReleasedForPrincipal(r) ==
    [accounts EXCEPT !.tasks[Principal[r]] = AtLeast0(@ - 1),
                     !.bytes[Principal[r]] = AtLeast0(@ - Bytes[r])]

Released(r) ==
    [total |-> AtLeast0(accounts.total - Bytes[r]),
     tasks |-> [accounts.tasks EXCEPT ![Principal[r]] = AtLeast0(@ - 1)],
     bytes |-> [accounts.bytes EXCEPT ![Principal[r]] = AtLeast0(@ - Bytes[r])]]

\* A request that is not admitted is refused at once and leaves no trace.
Submit(r) ==
    /\ Ready /\ r \notin pending /\ Admitted(r)
    /\ accounts' = Charged(r)
    /\ queue' = Append(queue, r)
    /\ pending' = pending \cup {r}
    /\ calls' = <<Dispatch(slots)>>
    /\ UNCHANGED <<slots, work, closed>>
-----------------------------------------------------------------------------
(***************************************************************************)
(* dispatch                                                                *)
(***************************************************************************)
Call == calls[Len(calls)]

Callers == SubSeq(calls, 1, Len(calls) - 1)

\* The call goes on with its next slot and with what it knows of the others.
Onwards(call) == Append(Callers, [call EXCEPT !.slot = @ + 1])

\* takeNextTask: the oldest validation that may run now, or else a history.
Runnable(call) ==
    {i \in DOMAIN queue :
        /\ queue[i] \in Validations
        /\ queue[i] \in Expensive /\ WorkerCount > 1 => ~call.expensive}

Histories(call) ==
    {i \in DOMAIN queue : queue[i] \notin Validations /\ ~call.history}

Candidates(call) == IF Runnable(call) # {} THEN Runnable(call) ELSE Histories(call)

\* Fault: the last in is the first out.
Newest(places) == CHOOSE i \in places : \A j \in places : i >= j

Oldest(places) == CHOOSE i \in places : \A j \in places : i <= j

Without(i) == SubSeq(queue, 1, i - 1) \o SubSeq(queue, i + 1, Len(queue))

Knowing(call, task) ==
    [call EXCEPT !.history = @ \/ task \notin Validations, !.expensive = @ \/ task \in Expensive]

Return ==
    /\ calls # <<>> /\ Call.slot > WorkerCount
    /\ calls' = Callers
    /\ UNCHANGED <<queue, slots, work, accounts, pending, closed>>

Pass ==
    /\ calls # <<>> /\ Call.slot <= WorkerCount
    /\ slots[Call.slot] # None \/ Candidates(Call) = {}
    /\ calls' = Onwards(Call)
    /\ UNCHANGED <<queue, slots, work, accounts, pending, closed>>

Assign ==
    /\ calls # <<>> /\ Call.slot <= WorkerCount
    /\ slots[Call.slot] = None /\ Candidates(Call) # {}
    /\ LET i == Oldest(Candidates(Call)) IN
        /\ queue' = Without(i)
        /\ slots' = [slots EXCEPT ![Call.slot] = queue[i]]
        /\ work' = [work EXCEPT ![Call.slot] = queue[i]]
        /\ calls' = Onwards(Knowing(Call, queue[i]))
    /\ UNCHANGED <<accounts, pending, closed>>

\* postMessage throws.  The task is rejected, the worker replaced, and
\* failWorkerSlot calls dispatch() from within dispatch().
PostFails ==
    /\ calls # <<>> /\ Call.slot <= WorkerCount
    /\ slots[Call.slot] = None /\ Candidates(Call) # {}
    /\ LET i == Oldest(Candidates(Call)) IN
        /\ queue' = Without(i)
        /\ accounts' = Released(queue[i])
        /\ pending' = pending \ {queue[i]}
        /\ calls' = Append(Onwards(Knowing(Call, queue[i])), Dispatch(slots))
    /\ UNCHANGED <<slots, work, closed>>
-----------------------------------------------------------------------------
(***************************************************************************)
(* How a task ends                                                         *)
(***************************************************************************)

\* Fault: whoever waits in the queue is not looked at.
Quietly(s) == <<>>

Redispatched(s) == <<Dispatch([slots EXCEPT ![s] = None])>>

Settled(s) ==
    /\ accounts' = Released(slots[s])
    /\ pending' = pending \ {slots[s]}

\* Fault: the task is rejected, but its worker stays.
FailTaskOnly(s) ==
    /\ IF slots[s] = None THEN UNCHANGED <<accounts, pending>> ELSE Settled(s)
    /\ slots' = [slots EXCEPT ![s] = None]
    /\ calls' = Redispatched(s)
    /\ UNCHANGED <<work, queue, closed>>

\* failWorkerSlot: the task is rejected; a new worker takes the slot, and
\* nobody listens to the old one any more.
Fail(s) ==
    /\ IF slots[s] = None THEN UNCHANGED <<accounts, pending>> ELSE Settled(s)
    /\ slots' = [slots EXCEPT ![s] = None]
    /\ work' = [work EXCEPT ![s] = None]
    /\ calls' = Redispatched(s)
    /\ UNCHANGED <<queue, closed>>

\* The worker answers what it was handed last.
HandleMessage(s) ==
    /\ Ready /\ work[s] # None
    /\ IF slots[s] = work[s]
       THEN /\ Settled(s)
            /\ slots' = [slots EXCEPT ![s] = None]
            /\ work' = [work EXCEPT ![s] = None]
            /\ calls' = Redispatched(s)
            /\ UNCHANGED <<queue, closed>>
       ELSE Fail(s)

\* The timer of the task fires, perhaps when the answer is under way.
Timeout(s) == Ready /\ slots[s] # None /\ Fail(s)

\* An error or the end of the thread, with or without a task.
WorkerDies(s) == Ready /\ Fail(s)

Close ==
    /\ Ready
    /\ closed' = TRUE
    /\ queue' = <<>>
    /\ slots' = [s \in DOMAIN slots |-> None] /\ work' = slots'
    /\ accounts' = NothingPending /\ pending' = {}
    /\ UNCHANGED calls
-----------------------------------------------------------------------------
Ends(s) == HandleMessage(s) \/ Timeout(s)

Loop == Return \/ Pass \/ Assign \/ PostFails

Next ==
    \/ \E r \in Requests : Submit(r)
    \/ Loop
    \/ \E s \in DOMAIN slots : Ends(s) \/ WorkerDies(s)
    \/ Close

\* A call returns.  A task on a worker ends: its timer is served whatever else
\* the process has to do, though not in the middle of a call.
Fairness == WF_vars(Loop) /\ \A s \in 1 .. 2 : SF_vars(s \in DOMAIN slots /\ Ends(s))

Spec == Init /\ [][Next]_vars /\ Fairness
-----------------------------------------------------------------------------
Frames == [slot : 1 .. 3, history : BOOLEAN, expensive : BOOLEAN]

\* Every variable keeps its type, and no limit of the pool or of a principal
\* is exceeded.
TypeOK ==
    /\ queue \in Seq(Requests) /\ calls \in Seq(Frames)
    /\ DOMAIN slots \in {1 .. n : n \in WorkerCounts}
    /\ \A s \in DOMAIN slots : {slots[s], work[s]} \subseteq Requests \cup {None}
    /\ accounts.total \in 0 .. MaxBytes
    /\ \A p \in Principals : accounts.tasks[p] \in 0 .. 1
    /\ pending \subseteq Requests
    /\ closed \in BOOLEAN
    /\ Cardinality(Active) + Len(queue) <= MaxTasks

Held == Queued \cup Active

\* The sum of the sizes of some requests: how many bytes they have, when each byte
\* is told from the others by its request and its place.
BytesOf(requests) == Cardinality(UNION {{r} \X (1 .. Bytes[r]) : r \in requests})

\* The accounts are the tasks: what every path of a task adds it takes away
\* again, once.
AccountsMatch ==
    /\ accounts.total = BytesOf(Held)
    /\ \A p \in Principals :
        LET own == {r \in Held : Principal[r] = p} IN
        accounts.tasks[p] = Cardinality(own) /\ accounts.bytes[p] = BytesOf(own)

\* A request that has no answer yet is in the queue or on one worker, once: it
\* is neither forgotten nor run twice, and an answered one is nowhere.  A worker
\* computes what its slot has, so a late answer is never taken for another's.
HeldOnce ==
    /\ pending = Queued \cup Active
    /\ Queued \cap Active = {}
    /\ \A i, j \in DOMAIN queue : queue[i] = queue[j] => i = j
    /\ \A s, t \in DOMAIN slots : slots[s] = slots[t] => s = t \/ slots[s] = None
    /\ work = slots

\* Of two workers one is left for small validations: at most one history and
\* one expensive validation run at a time.  This does not follow from what a
\* call of dispatch() knows: after an exception the outer call goes on with what
\* the slots were before the inner one filled them.
OneOfAKind ==
    WorkerCount = 2
        => \/ slots[1] = None \/ slots[2] = None
           \/ /\ {slots[1], slots[2]} \cap Validations # {}
              /\ ~({slots[1], slots[2]} \subseteq Expensive)

\* Every validation is answered, however many others are asked for all the time.
ValidationsServed == \A r \in Validations : r \in pending ~> r \notin pending

NoValidationWaits == Ready => Queued \cap Validations = {}

\* A history is answered if it is not overtaken for ever: from some time on
\* the pool never rests with a validation in its queue.
HistoriesServed ==
    <>[]NoValidationWaits
        => \A r \in Requests \ Validations : r \in pending ~> r \notin pending
=============================================================================
