---------------------------- MODULE AsyncExecutor ----------------------------
(***************************************************************************)
(* tasks/executors.AsyncExecutor: request threads hand coroutines to the   *)
(* event loop.  put appends an item to the queue and then blocks in get    *)
(* until the executor's own thread, run, has launched the coroutine and    *)
(* published its task under the request's id.  run holds back while more   *)
(* than max_task pooled coroutines are going; the callback of a finished   *)
(* coroutine calls done, which gives the slot back.                        *)
(*                                                                         *)
(* There are two condition variables: lock, where only run waits, and cv,  *)
(* where the callers wait; each notify wakes the waiter that has waited    *)
(* longest, whatever it waits for.                                         *)
(***************************************************************************)
EXTENDS Integers, Sequences, FiniteSets

CONSTANTS
    Callers,    \* request threads that call add_async_task
    MaxTask,    \* AsyncExecutor.max_task (--tasks)
    MaxPuts,    \* bound: calls per thread
    Pooling,    \* values of the argument pooling
    Callbacks,  \* "default" calls done, "custom" (response_callback) does not
    Closing,    \* TRUE: the server may shut down (cleanup)
    None

ASSUME AsyncExecutorAssumption ==
    /\ MaxTask \in Nat \ {0} /\ MaxPuts \in Nat
    /\ Pooling \subseteq BOOLEAN
    /\ Callbacks \subseteq {"default", "custom"}
    /\ Closing \in BOOLEAN
    /\ None \notin Callers \X (1..MaxPuts)
    /\ IsFiniteSet(Callers)

VARIABLES
    caller,     \* per thread: "idle", or in get: "look", "sleep"
    puts,       \* calls made per thread
    queue,      \* AsyncExecutor.queue
    current,    \* current_tasks
    futures,    \* keys of AsyncExecutor.futures
    waiters,    \* threads waiting on cv, the one that waits longest first
    runner,     \* where run is, and the item it took
    task,       \* the coroutines
    closed      \* cleanup was called

vars == <<caller, puts, queue, current, futures, waiters, runner, task, closed>>

Tasks == Callers \X (1..MaxPuts)
\* The task a thread waits for.
Mine(c) == <<c, puts[c]>>

RunnerPc == {"check", "sleep", "launch", "count", "publish", "stopped"}
New == [state |-> "none", pooled |-> FALSE, reports |-> FALSE]

Init ==
    /\ caller = [c \in Callers |-> "idle"]
    /\ puts = [c \in Callers |-> 0]
    /\ queue = <<>> /\ current = 0
    /\ futures = {} /\ waiters = <<>>
    /\ runner = [pc |-> "check", item |-> None]
    /\ task = [t \in Tasks |-> New]
    /\ closed = FALSE

\* lock.notify: run is the only one that waits there.
NotifyRunner == runner' = IF runner.pc = "sleep" THEN [runner EXCEPT !.pc = "check"] ELSE runner

-----------------------------------------------------------------------------
(* A request thread in put.                                                *)

Put(c) ==
    /\ caller[c] = "idle" /\ puts[c] < MaxPuts
    /\ puts' = [puts EXCEPT ![c] = @ + 1]
    /\ queue' = Append(queue, <<c, puts[c] + 1>>)
    /\ NotifyRunner
    /\ \E pooled \in Pooling, callback \in Callbacks :
         task' = [task EXCEPT ![<<c, puts[c] + 1>>] =
                    [state |-> "queued", pooled |-> pooled, reports |-> callback = "default"]]
    /\ caller' = [caller EXCEPT ![c] = "look"]
    /\ UNCHANGED <<current, futures, waiters, closed>>

\* get: take the task, or wait on cv.
Get(c) ==
    /\ caller[c] = "look"
    /\ \/ /\ Mine(c) \in futures
          /\ futures' = futures \ {Mine(c)}
          /\ caller' = [caller EXCEPT ![c] = "idle"]
          /\ UNCHANGED waiters
       \/ /\ Mine(c) \notin futures
          /\ waiters' = Append(waiters, c)
          /\ caller' = [caller EXCEPT ![c] = "sleep"]
          /\ UNCHANGED futures
    /\ UNCHANGED <<puts, queue, current, runner, task, closed>>

\* cleanup, when the server closes.
CleanUp ==
    /\ Closing /\ ~closed
    /\ closed' = TRUE
    /\ queue' = Append(queue, None)
    /\ NotifyRunner
    /\ UNCHANGED <<caller, puts, current, futures, waiters, task>>

-----------------------------------------------------------------------------
(* The thread of the executor.                                             *)

NoSlotFree == current > MaxTask

Check ==
    /\ runner.pc = "check"
    /\ IF queue = <<>> \/ NoSlotFree
       THEN /\ runner' = [runner EXCEPT !.pc = "sleep"]
            /\ UNCHANGED queue
       ELSE /\ runner' = IF Head(queue) = None THEN [pc |-> "stopped", item |-> None]
                         ELSE [pc |-> "launch", item |-> Head(queue)]
            /\ queue' = Tail(queue)
    /\ UNCHANGED <<caller, puts, current, futures, waiters, task, closed>>

\* run_coroutine_threadsafe; from here on the coroutine may end at any time.
Launch ==
    /\ runner.pc = "launch"
    /\ task' = [task EXCEPT ![runner.item].state = "running"]
    /\ runner' = [runner EXCEPT !.pc = "count"]
    /\ UNCHANGED <<caller, puts, queue, current, futures, waiters, closed>>

CountNothing ==
    /\ runner.pc = "count"
    /\ runner' = [runner EXCEPT !.pc = "publish"]
    /\ UNCHANGED <<caller, puts, queue, current, futures, waiters, task, closed>>

Count ==
    /\ runner.pc = "count"
    /\ current' = IF task[runner.item].pooled THEN current + 1 ELSE current
    /\ runner' = [runner EXCEPT !.pc = "publish"]
    /\ UNCHANGED <<caller, puts, queue, futures, waiters, task, closed>>

WakeNobody == UNCHANGED <<caller, waiters>>

\* cv.notify.
WakeOne ==
    IF waiters = <<>> THEN UNCHANGED <<caller, waiters>>
    ELSE /\ caller' = [caller EXCEPT ![Head(waiters)] = "look"]
         /\ waiters' = Tail(waiters)

Publish ==
    /\ runner.pc = "publish"
    /\ futures' = futures \cup {runner.item}
    /\ WakeOne
    /\ runner' = [pc |-> "check", item |-> None]
    /\ UNCHANGED <<puts, queue, current, task, closed>>

-----------------------------------------------------------------------------
\* A coroutine ends and its callback runs: _respond_async, whose last act is
\* done, or a response_callback of the caller's.
LastCallbackKeepsSleeping(t) ==
    /\ task[t].state = "running" /\ runner.pc # "stopped"
    /\ task' = [task EXCEPT ![t].state = "ended"]
    /\ current' = IF task[t].reports THEN current - 1 ELSE current
    /\ UNCHANGED <<caller, puts, queue, futures, waiters, runner, closed>>

Done(t) ==
    /\ task[t].state = "running" /\ runner.pc # "stopped"
    /\ task' = [task EXCEPT ![t].state = "ended"]
    /\ IF task[t].reports
       THEN current' = current - 1 /\ NotifyRunner
       ELSE UNCHANGED <<current, runner>>
    /\ UNCHANGED <<caller, puts, queue, futures, waiters, closed>>

-----------------------------------------------------------------------------
Run == Check \/ Launch \/ Count \/ Publish
Next == \/ \E c \in Callers : Put(c) \/ Get(c)
        \/ CleanUp \/ Run
        \/ \E t \in Tasks : Done(t)

Spec == Init /\ [][Next]_vars

\* Threads that can go on do, and every coroutine ends.
Fairness == /\ WF_vars(Run)
            /\ \A c \in Callers : WF_vars(Get(c))
            /\ \A t \in Tasks : WF_vars(Done(t))

FairSpec == Spec /\ Fairness
-----------------------------------------------------------------------------
(* Properties.                                                             *)

TypeOK ==
    /\ caller \in [Callers -> {"idle", "look", "sleep"}]
    /\ puts \in [Callers -> 0..MaxPuts]
    /\ queue \in Seq(Tasks \cup {None})
    /\ current \in Int
    /\ futures \subseteq Tasks
    /\ waiters \in Seq(Callers)
    /\ runner \in [pc : RunnerPc, item : Tasks \cup {None}]
    /\ task \in [Tasks -> [state : {"none", "queued", "running", "ended"},
                           pooled : BOOLEAN, reports : BOOLEAN]]
    /\ closed \in BOOLEAN

Running == {t \in Tasks : task[t].state = "running" /\ task[t].pooled}
\* Coroutines that gave back a slot they had never taken: run counts the pooled
\* ones alone, and done counts out every one.
Unpaid == {t \in Tasks : task[t].state = "ended" /\ ~task[t].pooled /\ task[t].reports}

\* Pooled coroutines at work at one time, whatever the interleaving of run with
\* the callbacks: the count is compared with > and so lets in one more than the
\* "number of concurrent async tasks" the option --tasks names, and one more for
\* good with every slot that was given back without having been taken.
AtMostOneMore == Cardinality(Running) <= MaxTask + 1 + Cardinality(Unpaid)

\* While run sleeps it has nothing to do: no queued coroutine waits beside a
\* free slot because the notify went unheard.
SleepsWithReason == runner.pc = "sleep" => queue = <<>> \/ NoSlotFree

\* A thread whose task is still to be published gets it, if meanwhile nobody else
\* waits for one (and hears the notify in its place), there is a slot and the
\* server does not shut down.
Alone(c) == \A d \in Callers \ {c} : caller[d] = "idle"
EveryPutReturns ==
    \A c \in Callers :
        caller[c] # "idle" /\ Mine(c) \notin futures
            ~> caller[c] = "idle" \/ ~Alone(c) \/ NoSlotFree \/ closed
=============================================================================
