------------------------------ MODULE TaskFutures ------------------------------
(***************************************************************************)
(* Tasks of the thread executor and the futures that collect them.  An     *)
(* application call makes tasks (ThreadExecutor.__call__), collects them   *)
(* in a Futures and returns it; each task that ends is counted by          *)
(* Futures._collect, on the thread that ended it, and the last one calls   *)
(* the application's callback, which may make another task in turn.        *)
(* Meanwhile the main thread may shut the executor down: shutdown keeps    *)
(* the executor's lock until every running task and its callbacks are      *)
(* over, and runs the callbacks of the tasks it cancels itself.            *)
(*                                                                         *)
(* `self._responded += 1` and the comparison behind it are steps of their  *)
(* own: CPython 3.6 to 3.9, which setup.py lists, may switch threads       *)
(* between them.                                                           *)
(***************************************************************************)
EXTENDS Integers, Sequences, FiniteSets

CONSTANTS
    MaxReq,     \* bound: application calls that return a future
    MaxTasks,   \* bound: tasks of a call, those of its callbacks included
    Sizes,      \* how many tasks each call may collect
    Workers,    \* threads of the pool
    Cancels,    \* TRUE: Python 3.9 and later, cancel_futures
    Filters,    \* TRUE: a filter may raise
    Closing     \* TRUE: the executor may be shut down

ASSUME TaskFuturesAssumption ==
    /\ MaxReq \in Nat /\ MaxTasks \in Nat /\ Workers \in Nat \ {0}
    /\ Sizes \in [1..MaxReq -> SUBSET (1..MaxTasks)]
    /\ Cancels \in BOOLEAN /\ Filters \in BOOLEAN /\ Closing \in BOOLEAN

Calls == 1..MaxReq
Tasks == Calls \X (1..MaxTasks)

VARIABLES
    call,       \* the request thread: pc, its call, the task it is at
    begun,      \* calls begun
    size,       \* len (_reqs) of each call's Futures
    made,       \* tasks each call has made
    task,       \* each task
    work,       \* the pool's queue
    listed,     \* self.futures
    executor,   \* self.executor: None, up, or shut down
    noMore,     \* no_more_request
    locked,     \* shutdown holds self.lock
    closer,     \* the thread in shutdown
    cb,         \* each task's done callback
    by,         \* the thread that runs it
    loaded,     \* _responded as it has read it
    responded,  \* _responded of each call's Futures
    fulfilled,  \* how often its callback was called
    spent,      \* _fulfilled is None again
    overlap     \* history: two of its tasks were counted at the same time

callVars == <<call, begun, size>>
poolVars == <<made, task, work, executor>>
lockVars == <<listed, noMore, locked, closer>>
countVars == <<loaded, responded, overlap>>
futureVars == <<cb, by, countVars, fulfilled, spent>>
tvars == <<callVars, poolVars, lockVars, futureVars>>

NoCall == [pc |-> "idle", of |-> 0, at |-> 0]
Live == {"pending", "running"}
\* The states of a callback that some thread is in.
Active == {"due", "store", "compare", "fulfil", "callback", "admit", "create", "list", "failed"}

TInit ==
    /\ call = NoCall /\ begun = 0
    /\ size = [c \in Calls |-> 0]
    /\ made = [c \in Calls |-> 0]
    /\ task = [t \in Tasks |-> "none"]
    /\ work = <<>> /\ listed = {}
    /\ executor = "up" /\ noMore = FALSE /\ locked = FALSE /\ closer = "idle"
    /\ cb = [t \in Tasks |-> "none"] /\ by = [t \in Tasks |-> "pool"]
    /\ loaded = [t \in Tasks |-> 0]
    /\ responded = [c \in Calls |-> 0]
    /\ fulfilled = [c \in Calls |-> 0]
    /\ spent = [c \in Calls |-> FALSE]
    /\ overlap = [c \in Calls |-> FALSE]

-----------------------------------------------------------------------------
(* ThreadExecutor.                                                         *)

\* maintern drops the tasks that have ended.
Maintained == {t \in listed : task[t] \in Live}

\* __call__ holds the lock while it looks, and from time to time maintains.
Admitted ==
    /\ ~locked /\ ~noMore
    /\ executor' = IF executor = "none" THEN "up" ELSE executor
    /\ listed' \in {listed, Maintained}
\* It returns None, and the application fails on it ...
NotAdmitted == ~locked /\ noMore
\* ... or submit fails: self.executor is None or shut down meanwhile.
NotCreated == executor # "up"
SubmitAnyway(c) ==
    /\ made' = [made EXCEPT ![c] = @ + 1]
    /\ task' = [task EXCEPT ![<<c, made[c] + 1>>] = "pending"]
    /\ work' = Append(work, <<c, made[c] + 1>>)
Submit(c) ==
    /\ executor = "up"
    /\ made' = [made EXCEPT ![c] = @ + 1]
    /\ task' = [task EXCEPT ![<<c, made[c] + 1>>] = "pending"]
    /\ work' = Append(work, <<c, made[c] + 1>>)
List(c) == ~locked /\ listed' = listed \cup {<<c, made[c]>>}

\* The pool's threads: a thread is busy with a task, then with its callback.
Busy == {t \in Tasks : task[t] = "running" \/ (by[t] = "pool" /\ cb[t] \in Active)}

Start ==
    /\ work # <<>> /\ Cardinality(Busy) < Workers
    /\ task' = [task EXCEPT ![Head(work)] = "running"]
    /\ work' = Tail(work)
    /\ UNCHANGED <<callVars, made, executor, lockVars, futureVars>>

\* The task returns or raises, either of which is a result; a result its
\* filter cannot take makes _settle raise instead.
End(t) ==
    /\ task[t] = "running"
    /\ \/ task' = [task EXCEPT ![t] = "ended"]
       \/ Filters /\ task' = [task EXCEPT ![t] = "unfit"]
    /\ cb' = [cb EXCEPT ![t] = IF @ = "set" THEN "due" ELSE @]
    /\ UNCHANGED <<callVars, made, work, executor, lockVars, by, countVars, fulfilled, spent>>

-----------------------------------------------------------------------------
(* shutdown, on the main thread or an application's.                       *)

Shutdown ==
    /\ Closing /\ closer = "idle" /\ ~locked
    /\ noMore' = TRUE
    /\ IF executor = "none" THEN closer' = "closed" /\ UNCHANGED <<executor, listed, locked>>
       ELSE /\ listed' = Maintained
            /\ executor' = "shut" /\ locked' = TRUE
            /\ closer' = IF Cancels THEN "drain" ELSE "wait"
    /\ UNCHANGED <<callVars, made, task, work, futureVars>>

Canceling == \E t \in Tasks : by[t] = "closer" /\ cb[t] \in Active

\* cancel_futures: each task still in the queue is cancelled, its callback
\* runs here, with the lock held.
Cancel ==
    /\ closer = "drain" /\ ~Canceling /\ work # <<>>
    /\ LET t == Head(work) IN
       /\ task' = [task EXCEPT ![t] = "cancelled"]
       /\ cb' = [cb EXCEPT ![t] = IF @ = "set" THEN "due" ELSE @]
       /\ by' = [by EXCEPT ![t] = IF cb[t] = "set" THEN "closer" ELSE @]
    /\ work' = Tail(work)
    /\ UNCHANGED <<callVars, made, executor, lockVars, countVars, fulfilled, spent>>

Drained ==
    /\ closer = "drain" /\ ~Canceling /\ work = <<>>
    /\ closer' = "wait"
    /\ UNCHANGED <<callVars, poolVars, listed, noMore, locked, futureVars>>

ClosedUnlisted ==
    /\ closer = "wait" /\ Busy = {} /\ work = <<>> /\ listed = {}
    /\ executor' = "none" /\ listed' = {} /\ locked' = FALSE /\ closer' = "closed"
    /\ UNCHANGED <<callVars, made, task, work, noMore, futureVars>>
\* The pool's threads have ended.
Closed ==
    /\ closer = "wait" /\ Busy = {} /\ work = <<>>
    /\ executor' = "none" /\ listed' = {} /\ locked' = FALSE /\ closer' = "closed"
    /\ UNCHANGED <<callVars, made, task, work, noMore, futureVars>>

-----------------------------------------------------------------------------
(* The request thread: it makes the tasks, then Futures.then.              *)

Begin ==
    /\ call.pc = "idle" /\ begun < MaxReq
    /\ begun' = begun + 1
    /\ \E n \in Sizes[begun + 1] : size' = [size EXCEPT ![begun + 1] = n]
    /\ call' = [pc |-> "admit", of |-> begun + 1, at |-> 0]
    /\ UNCHANGED <<poolVars, lockVars, futureVars>>

AdmitTask ==
    /\ call.pc = "admit" /\ Admitted
    /\ call' = [call EXCEPT !.pc = "create"]
    /\ UNCHANGED <<begun, size, made, task, work, noMore, locked, closer, futureVars>>
CreateTask ==
    /\ call.pc = "create" /\ Submit(call.of)
    /\ call' = [call EXCEPT !.pc = "list"]
    /\ UNCHANGED <<begun, size, executor, lockVars, futureVars>>
ListTask ==
    /\ call.pc = "list" /\ List(call.of)
    /\ call' = [call EXCEPT !.pc = IF made[call.of] < size[call.of] THEN "admit" ELSE "then"]
    /\ UNCHANGED <<begun, size, poolVars, noMore, locked, closer, futureVars>>
\* The application fails and answers 502 (or 500).
FailCall ==
    /\ \/ call.pc = "admit" /\ NotAdmitted
       \/ call.pc = "create" /\ NotCreated
    /\ call' = NoCall
    /\ UNCHANGED <<begun, size, poolVars, lockVars, futureVars>>
NoContext ==
    /\ call.pc = "then"
    /\ call' = NoCall
    /\ UNCHANGED <<begun, size, poolVars, lockVars, futureVars>>

\* Futures.then has its context and sets the callbacks.
Then ==
    /\ call.pc = "then"
    /\ call' = [call EXCEPT !.pc = "attach", !.at = 1]
    /\ UNCHANGED <<begun, size, poolVars, lockVars, futureVars>>

\* add_done_callback: the callback of a task that has ended runs at once.
SetCallback(t, thread) ==
    /\ cb' = [cb EXCEPT ![t] = IF task[t] \in Live THEN "set" ELSE "due"]
    /\ by' = [by EXCEPT ![t] = IF task[t] \in Live THEN "pool" ELSE thread]
Attach ==
    /\ call.pc = "attach"
    /\ SetCallback(<<call.of, call.at>>, "call")
    /\ call' = [call EXCEPT !.pc = "attached"]
    /\ UNCHANGED <<begun, size, poolVars, lockVars, countVars, fulfilled, spent>>
Attached ==
    /\ call.pc = "attached"
    /\ ~ \E t \in Tasks : by[t] = "call" /\ cb[t] \in Active
    /\ call' = IF call.at = size[call.of] THEN NoCall
               ELSE [call EXCEPT !.pc = "attach", !.at = @ + 1]
    /\ UNCHANGED <<begun, size, poolVars, lockVars, futureVars>>

-----------------------------------------------------------------------------
(* The callback of a task, on the thread by[t].                            *)

callbackRest == <<callVars, by>>

\* A Task of its own calls its callback itself: a call with one task, or the
\* task of a callback.
Single(t) == size[t[1]] = 1 \/ t[2] > size[t[1]]
Counting(t) == cb[t] \in {"store", "compare"}

Settle(t) ==
    /\ cb[t] = "due"
    /\ \/ /\ task[t] = "unfit"
          /\ cb' = [cb EXCEPT ![t] = "over"]
          /\ UNCHANGED countVars
       \/ /\ task[t] # "unfit" /\ Single(t)
          /\ cb' = [cb EXCEPT ![t] = "fulfil"]
          /\ UNCHANGED countVars
       \/ /\ task[t] # "unfit" /\ ~Single(t)
          /\ loaded' = [loaded EXCEPT ![t] = responded[t[1]]]
          /\ overlap' = [overlap EXCEPT ![t[1]] = @ \/ \E u \in Tasks : u[1] = t[1] /\ Counting(u)]
          /\ cb' = [cb EXCEPT ![t] = "store"]
          /\ UNCHANGED responded
    /\ UNCHANGED <<callbackRest, poolVars, lockVars, fulfilled, spent>>

StoreOne(t) ==
    /\ cb[t] = "store"
    /\ responded' = [responded EXCEPT ![t[1]] = 1]
    /\ cb' = [cb EXCEPT ![t] = "compare"]
    /\ UNCHANGED <<callbackRest, poolVars, lockVars, loaded, overlap, fulfilled, spent>>
\* self._responded += 1
Store(t) ==
    /\ cb[t] = "store"
    /\ responded' = [responded EXCEPT ![t[1]] = loaded[t] + 1]
    /\ cb' = [cb EXCEPT ![t] = "compare"]
    /\ UNCHANGED <<callbackRest, poolVars, lockVars, loaded, overlap, fulfilled, spent>>

AnyResponded(c) == responded[c] > 0
AllResponded(c) == responded[c] = size[c]
Compare(t) ==
    /\ cb[t] = "compare"
    /\ cb' = [cb EXCEPT ![t] = IF AllResponded(t[1]) THEN "fulfil" ELSE "over"]
    /\ UNCHANGED <<callbackRest, poolVars, lockVars, countVars, fulfilled, spent>>

\* _late_respond calls the callback; a Futures whose callback has been called
\* already answers 205 instead.
Fulfil(t) ==
    /\ cb[t] = "fulfil"
    /\ cb' = [cb EXCEPT ![t] = IF ~Single(t) /\ spent[t[1]] THEN "over" ELSE "callback"]
    /\ fulfilled' = [fulfilled EXCEPT ![t[1]] = IF t[2] <= size[t[1]] THEN @ + 1 ELSE @]
    /\ UNCHANGED <<callbackRest, poolVars, lockVars, countVars, spent>>

\* The callback gives content, or raises, which makes it an error page ...
Raise(t) ==
    /\ cb[t] = "callback"
    /\ cb' = [cb EXCEPT ![t] = "failed"]
    /\ UNCHANGED <<callbackRest, poolVars, lockVars, countVars, fulfilled, spent>>
Return(t) ==
    /\ cb[t] \in {"callback", "failed"}
    /\ cb' = [cb EXCEPT ![t] = "over"]
    /\ spent' = [spent EXCEPT ![t[1]] = @ \/ cb[t] = "callback"]
    /\ UNCHANGED <<callbackRest, poolVars, lockVars, countVars, fulfilled>>

\* ... or makes another task, with its own context, and returns its future.
Chain(t) ==
    /\ cb[t] = "callback" /\ made[t[1]] < MaxTasks
    /\ \A u \in Tasks : u[1] = t[1] => cb[u] \notin {"admit", "create", "list"}
    /\ cb' = [cb EXCEPT ![t] = "admit"]
    /\ UNCHANGED <<callbackRest, poolVars, lockVars, countVars, fulfilled, spent>>
ChainAdmit(t) ==
    /\ cb[t] = "admit" /\ Admitted
    /\ cb' = [cb EXCEPT ![t] = "create"]
    /\ UNCHANGED <<callbackRest, made, task, work, noMore, locked, closer, countVars, fulfilled, spent>>
ChainCreate(t) ==
    /\ cb[t] = "create" /\ Submit(t[1])
    /\ cb' = [cb EXCEPT ![t] = "list"]
    /\ UNCHANGED <<callbackRest, executor, lockVars, countVars, fulfilled, spent>>
ChainThen(t) ==
    /\ cb[t] = "list" /\ List(t[1])
    /\ LET u == <<t[1], made[t[1]]>> IN
       /\ cb' = [cb EXCEPT ![t] = "over", ![u] = IF task[u] \in Live THEN "set" ELSE "due"]
       /\ by' = [by EXCEPT ![u] = IF task[u] \in Live THEN "pool" ELSE by[t]]
    /\ spent' = [spent EXCEPT ![t[1]] = TRUE]
    /\ UNCHANGED <<callVars, poolVars, noMore, locked, closer, countVars, fulfilled>>
FailChain(t) ==
    /\ \/ cb[t] = "admit" /\ NotAdmitted
       \/ cb[t] = "create" /\ NotCreated
    /\ cb' = [cb EXCEPT ![t] = "failed"]
    /\ UNCHANGED <<callbackRest, poolVars, lockVars, countVars, fulfilled, spent>>

-----------------------------------------------------------------------------
CallStep == Begin \/ AdmitTask \/ CreateTask \/ ListTask \/ FailCall
            \/ Then \/ Attach \/ Attached
CallbackStep(t) ==
    \/ Settle(t) \/ Store(t) \/ Compare(t) \/ Fulfil(t) \/ Raise(t) \/ Return(t)
    \/ Chain(t) \/ ChainAdmit(t) \/ ChainCreate(t) \/ ChainThen(t) \/ FailChain(t)
CloserStep == Cancel \/ Drained \/ Closed

TNext == \/ CallStep \/ Start \/ Shutdown \/ CloserStep
         \/ \E t \in Tasks : End(t) \/ CallbackStep(t)

\* The threads run, tasks and callbacks come to an end.
TFairness ==
    /\ WF_tvars(CallStep) /\ WF_tvars(Start) /\ WF_tvars(CloserStep)
    /\ \A t \in Tasks : WF_tvars(End(t)) /\ WF_tvars(CallbackStep(t))

TSpec == TInit /\ [][TNext]_tvars /\ TFairness

-----------------------------------------------------------------------------
(* Properties.                                                             *)

TTypeOK ==
    /\ call \in [pc : {"idle", "admit", "create", "list", "then", "attach", "attached"},
                 of : 0..MaxReq, at : 0..MaxTasks]
    /\ begun \in 0..MaxReq
    /\ size \in [Calls -> 0..MaxTasks] /\ made \in [Calls -> 0..MaxTasks]
    /\ task \in [Tasks -> Live \cup {"none", "ended", "unfit", "cancelled"}]
    /\ work \in Seq(Tasks) /\ listed \subseteq Tasks
    /\ executor \in {"none", "up", "shut"}
    /\ noMore \in BOOLEAN /\ locked \in BOOLEAN
    /\ closer \in {"idle", "drain", "wait", "closed"}
    /\ cb \in [Tasks -> Active \cup {"none", "set", "over"}]
    /\ by \in [Tasks -> {"pool", "closer", "call"}]
    /\ loaded \in [Tasks -> 0..MaxTasks] /\ responded \in [Calls -> 0..MaxTasks]
    /\ fulfilled \in [Calls -> 0..MaxTasks]
    /\ spent \in [Calls -> BOOLEAN] /\ overlap \in [Calls -> BOOLEAN]

\* A Futures calls its callback when the last of its tasks has ended, never
\* before, and calls it once, unless two of its tasks were counted at the same
\* time: _responded has no lock.
FulfilledOnce ==
    \A c \in Calls :
        /\ fulfilled[c] > 0 => \A i \in 1..size[c] : task[<<c, i>>] \in {"ended", "cancelled"}
        /\ fulfilled[c] > 1 => overlap[c]

\* Every task the pool still has is one the executor knows, but for the one its
\* maker is about to list; and when shutdown has returned there is none.
BeingListed(t) ==
    \/ call.pc = "list" /\ t = <<call.of, made[call.of]>>
    \/ \E u \in Tasks : cb[u] = "list" /\ t = <<u[1], made[u[1]]>>
TasksAccountedFor ==
    \A t \in Tasks : task[t] \in Live =>
        /\ t \in listed \/ BeingListed(t)
        /\ closer # "closed"

\* shutdown waits for a callback that waits for the lock shutdown holds.
LocksItselfOut ==
    locked /\ \E t \in Tasks : cb[t] \in {"admit", "list"} /\ by[t] \in {"pool", "closer"}

\* shutdown returns, whatever calls and callbacks are doing, unless a callback
\* makes a task meanwhile.
ShutdownReturns == (closer # "idle") ~> (closer = "closed" \/ LocksItselfOut)

\* The callback of every future a call returns is called in the end, also when
\* tasks are cancelled, unless two tasks were counted at the same time, a filter
\* raised, or shutdown locked itself out.
Returned(c) == /\ size[c] > 0 /\ call.of # c
               /\ \A i \in 1..size[c] : cb[<<c, i>>] # "none"
Unfit(c) == \E i \in 1..size[c] : task[<<c, i>>] = "unfit"
FuturesFulfilled ==
    \A c \in Calls :
        Returned(c) ~> (fulfilled[c] > 0 \/ overlap[c] \/ Unfit(c) \/ LocksItselfOut)
=============================================================================
