------------------------ MODULE AsyncExecutorProofs ------------------------
(***************************************************************************)
(* Proofs about AsyncExecutor for any number of threads, any limit and any *)
(* number of calls, with coroutines that are pooled and coroutines that    *)
(* are not: the pooled ones at work are at most max_task + 1, and one more *)
(* for each slot given back that was never taken; and run never sleeps     *)
(* without reason.                                                         *)
(***************************************************************************)
EXTENDS AsyncExecutor, SequenceTheorems, FiniteSetTheorems, TLAPS

\* A pooled coroutine that run has launched and not counted yet.
Uncounted == IF runner.pc = "count" /\ task[runner.item].pooled THEN 1 ELSE 0

\* current_tasks is never less than what it counts (a callback that does not
\* call done leaves it higher), but for the slots given back unpaid; and run
\* goes on only below the limit.
CountCovers ==
    /\ Cardinality(Running) <= current + Uncounted + Cardinality(Unpaid)
    /\ current <= MaxTask + 1
    /\ runner.pc \in {"launch", "count"} => current <= MaxTask

\* run works on a coroutine whenever it is past its check.
HasItem == runner.pc \in {"launch", "count", "publish"} => runner.item \in Tasks

\* What a thread has not put yet is new.
Fresh == \A c \in Callers, i \in 1..MaxPuts : i > puts[c] => task[<<c, i>>].state = "none"

\* Whoever is in the queue was put there once and has not run.
Queued ==
    /\ \A i \in 1..Len(queue) : queue[i] # None => task[queue[i]].state = "queued"
    /\ \A i, j \in 1..Len(queue) : queue[i] # None /\ queue[i] = queue[j] => i = j
    /\ runner.pc = "launch" => /\ task[runner.item].state = "queued"
                               /\ \A i \in 1..Len(queue) : queue[i] # runner.item
    /\ runner.pc = "count" => task[runner.item].state \in {"running", "ended"}

IInv == TypeOK /\ HasItem /\ Fresh /\ Queued /\ CountCovers /\ SleepsWithReason

\* A set of coroutines has a size.
LEMMA TasksFinite == \A S \in SUBSET Tasks : IsFiniteSet(S) /\ Cardinality(S) \in Nat
  <1>1. IsFiniteSet(1..MaxPuts)
    BY FS_Interval, AsyncExecutorAssumption
  <1>2. IsFiniteSet(Tasks)
    BY <1>1, FS_Product, AsyncExecutorAssumption DEF Tasks
  <1>3. QED
    BY <1>2, FS_Subset, FS_CardinalityType

\* The initial state: nothing runs, nothing is queued.
THEOREM InitIInv == Init => IInv
  <1> SUFFICES ASSUME Init PROVE IInv
    OBVIOUS
  <1>1. TypeOK
    <2>1. <<>> \in Seq(Tasks \cup {None}) /\ <<>> \in Seq(Callers)
      OBVIOUS
    <2>2. task \in [Tasks -> [state : {"none", "queued", "running", "ended"},
                              pooled : BOOLEAN, reports : BOOLEAN]]
      <3>1. New \in [state : {"none", "queued", "running", "ended"},
                     pooled : BOOLEAN, reports : BOOLEAN]
        BY DEF New
      <3>2. QED
        BY <3>1 DEF Init
    <2>3. runner \in [pc : RunnerPc, item : Tasks \cup {None}]
      BY DEF Init, RunnerPc
    <2>4. /\ caller \in [Callers -> {"idle", "look", "sleep"}]
          /\ puts \in [Callers -> 0..MaxPuts]
      BY AsyncExecutorAssumption DEF Init
    <2>5. queue \in Seq(Tasks \cup {None}) /\ waiters \in Seq(Callers)
      BY <2>1, Zenon DEF Init
    <2>6. futures \subseteq Tasks /\ closed \in BOOLEAN
      BY Zenon DEF Init
    <2>7. current = 0
      BY Zenon DEF Init
    <2>8. QED
      BY <2>2, <2>3, <2>4, <2>5, <2>6, <2>7 DEF TypeOK
  <1>2. HasItem /\ Fresh /\ Queued /\ SleepsWithReason
    BY DEF Init, HasItem, Fresh, Queued, SleepsWithReason, New, Tasks
  <1>3. CountCovers
    <2>1. Running = {} /\ Unpaid = {}
      BY DEF Init, Running, Unpaid, New
    <2>2. Cardinality(Running) = 0 /\ Cardinality(Unpaid) = 0
      BY <2>1, FS_EmptySet
    <2>3. QED
      BY <2>2, AsyncExecutorAssumption DEF Init, CountCovers, Uncounted
  <1>4. QED
    BY <1>1, <1>2, <1>3 DEF IInv

-----------------------------------------------------------------------------
\* The notify of lock: run looks again if it slept, and nothing else of it moves.
LEMMA Notified ==
    ASSUME TypeOK, NotifyRunner
    PROVE  /\ runner' \in [pc : RunnerPc, item : Tasks \cup {None}]
           /\ runner'.item = runner.item
           /\ runner'.pc = IF runner.pc = "sleep" THEN "check" ELSE runner.pc
  BY DEF TypeOK, NotifyRunner, RunnerPc

\* The coroutines that the count is about have a size.
LEMMA Sizes == /\ IsFiniteSet(Running) /\ Cardinality(Running) \in Nat
               /\ IsFiniteSet(Unpaid) /\ Cardinality(Unpaid) \in Nat
  <1>1. Running \in SUBSET Tasks /\ Unpaid \in SUBSET Tasks
    BY DEF Running, Unpaid
  <1>2. QED
    BY <1>1, TasksFinite

\* A step that leaves the coroutines and the count alone, and takes run nowhere
\* near a launch.
LEMMA CountKept ==
    ASSUME CountCovers, UNCHANGED <<task, current>>,
           \/ runner'.pc = runner.pc /\ runner'.item = runner.item
           \/ runner.pc # "count" /\ runner'.pc \notin {"launch", "count"}
    PROVE  CountCovers'
  <1>1. Running' = Running /\ Unpaid' = Unpaid
    BY DEF Running, Unpaid
  <1>2. Uncounted' = Uncounted
    BY DEF Uncounted
  <1>3. QED
    BY <1>1, <1>2 DEF CountCovers

\* A coroutine that is put was new: it does not run and is not counted.
LEMMA PutStep ==
    ASSUME IInv, NEW c \in Callers, Put(c)
    PROVE  IInv'
  <1> DEFINE t == <<c, puts[c] + 1>>
  <1>1. t \in Tasks /\ puts[c] + 1 \in 0..MaxPuts /\ puts[c] \in Nat
    BY AsyncExecutorAssumption DEF IInv, TypeOK, Put, Tasks
  <1>0. task[t].state = "none" /\ t # None
    BY <1>1, AsyncExecutorAssumption DEF IInv, Fresh, Tasks
  <1>2. PICK pooled \in Pooling, callback \in Callbacks :
          task' = [task EXCEPT ![t] = [state |-> "queued", pooled |-> pooled,
                                       reports |-> callback = "default"]]
    BY DEF Put
  <1>3. pooled \in BOOLEAN
    BY AsyncExecutorAssumption
  <1> HIDE DEF t
  <1>4. /\ puts' = [puts EXCEPT ![c] = puts[c] + 1]
        /\ queue' = Append(queue, t)
        /\ caller' = [caller EXCEPT ![c] = "look"]
        /\ NotifyRunner
        /\ UNCHANGED <<current, futures, waiters, closed>>
    BY DEF Put, t
  <1>5. queue \in Seq(Tasks \cup {None}) /\ t \in Tasks \cup {None}
    BY <1>1 DEF IInv, TypeOK
  <1>6. /\ runner' \in [pc : RunnerPc, item : Tasks \cup {None}]
        /\ runner'.item = runner.item
        /\ runner'.pc = IF runner.pc = "sleep" THEN "check" ELSE runner.pc
    BY <1>4, Notified DEF IInv
  <1>7. task' \in [Tasks -> [state : {"none", "queued", "running", "ended"},
                             pooled : BOOLEAN, reports : BOOLEAN]]
    <2>1. (callback = "default") \in BOOLEAN
      OBVIOUS
    <2>2. QED
      BY <1>1, <1>2, <1>3, <2>1 DEF IInv, TypeOK
  <1>8. TypeOK'
    <2>1. queue' \in Seq(Tasks \cup {None})
      BY <1>4, <1>5, AppendProperties
    <2>2. QED
      BY <1>1, <1>4, <1>6, <1>7, <2>1 DEF IInv, TypeOK
  <1>9. HasItem' /\ SleepsWithReason'
    BY <1>4, <1>6 DEF IInv, HasItem, SleepsWithReason, NoSlotFree
  <1>10. /\ \A u \in Tasks : u # t => task'[u] = task[u]
         /\ task'[t].state = "queued"
    BY <1>1, <1>2 DEF IInv, TypeOK
  <1>11. Fresh'
    <2> SUFFICES ASSUME NEW d \in Callers, NEW i \in 1..MaxPuts, i > puts'[d]
                 PROVE  task'[<<d, i>>].state = "none"
      BY DEF Fresh
    <2>1. <<d, i>> \in Tasks /\ i > puts[d] /\ <<d, i>> # t
      BY <1>1, <1>4 DEF Tasks, t, IInv, TypeOK
    <2>2. QED
      BY <1>10, <2>1 DEF IInv, Fresh
  <1>12. Queued'
    <2>1. /\ Len(queue') = Len(queue) + 1 /\ Len(queue) \in Nat /\ queue'[Len(queue) + 1] = t
          /\ \A i \in 1..Len(queue) : queue'[i] = queue[i] /\ queue[i] \in Tasks \cup {None}
      BY <1>4, <1>5, AppendProperties
    <2>2. \A i \in 1..Len(queue) : queue[i] # t /\ queue'[i] # t
      BY <1>0, <2>1 DEF IInv, Queued
    <2>3. \A i \in 1..Len(queue') : i \in 1..Len(queue) \/ i = Len(queue) + 1
      BY <2>1
    <2>4. \A i \in 1..Len(queue') : queue'[i] # None => task'[queue'[i]].state = "queued"
      BY <1>10, <2>1, <2>2, <2>3 DEF IInv, Queued
    <2>5. \A i, j \in 1..Len(queue') : queue'[i] # None /\ queue'[i] = queue'[j] => i = j
      BY <2>1, <2>2, <2>3 DEF IInv, Queued
    <2>6. runner.pc \in {"launch", "count"} => runner.item \in Tasks /\ runner.item # t
      BY <1>0 DEF IInv, HasItem, Queued
    <2>7. runner'.pc = "launch" => /\ task'[runner'.item].state = "queued"
                                  /\ \A i \in 1..Len(queue') : queue'[i] # runner'.item
      BY <1>6, <1>10, <2>1, <2>3, <2>6 DEF IInv, Queued
    <2>8. runner'.pc = "count" => task'[runner'.item].state \in {"running", "ended"}
      BY <1>6, <1>10, <2>6 DEF IInv, Queued
    <2>9. QED
      BY <2>4, <2>5, <2>7, <2>8 DEF Queued
  <1>13. CountCovers'
    <2>1. Running' = Running /\ Unpaid' = Unpaid
      BY <1>0, <1>1, <1>10 DEF Running, Unpaid
    <2>2. Uncounted' = Uncounted
      <3>1. runner.pc = "count" => runner.item \in Tasks /\ runner.item # t
        BY <1>0 DEF IInv, HasItem, Queued
      <3>2. QED
        BY <1>6, <1>10, <3>1 DEF Uncounted
    <2>3. QED
      BY <1>4, <1>6, <2>1, <2>2 DEF IInv, CountCovers
  <1>14. QED
    BY <1>8, <1>9, <1>11, <1>12, <1>13 DEF IInv

\* Getting a task, or waiting for it, concerns nobody but the threads in get.
LEMMA GetStep ==
    ASSUME IInv, NEW c \in Callers, Get(c)
    PROVE  IInv'
  <1>1. /\ UNCHANGED <<puts, queue, current, runner, task, closed>>
        /\ caller' = [caller EXCEPT ![c] = "idle"] \/ caller' = [caller EXCEPT ![c] = "sleep"]
        /\ waiters' = waiters \/ waiters' = Append(waiters, c)
        /\ futures' \subseteq futures
    BY DEF Get
  <1>2. TypeOK'
    <2>1. waiters' \in Seq(Callers)
      <3>1. waiters \in Seq(Callers)
        BY DEF IInv, TypeOK
      <3>2. Append(waiters, c) \in Seq(Callers)
        BY <3>1, AppendProperties
      <3>3. QED
        BY <1>1, <3>1, <3>2
    <2>2. caller' \in [Callers -> {"idle", "look", "sleep"}]
      BY <1>1 DEF IInv, TypeOK
    <2>3. QED
      BY <1>1, <2>1, <2>2 DEF IInv, TypeOK
  <1>3. CountCovers'
    BY <1>1, CountKept DEF IInv
  <1>4. QED
    BY <1>1, <1>2, <1>3 DEF IInv, HasItem, Fresh, Queued, SleepsWithReason, NoSlotFree

\* cleanup's None is not a coroutine.
LEMMA CleanUpStep ==
    ASSUME IInv, CleanUp
    PROVE  IInv'
  <1>1. /\ UNCHANGED <<caller, puts, current, futures, waiters, task>>
        /\ queue' = Append(queue, None) /\ closed' = TRUE /\ NotifyRunner
    BY DEF CleanUp
  <1>2. queue \in Seq(Tasks \cup {None})
    BY DEF IInv, TypeOK
  <1>3. /\ queue' \in Seq(Tasks \cup {None}) /\ Len(queue') = Len(queue) + 1
        /\ \A i \in 1..Len(queue) : queue'[i] = queue[i]
        /\ queue'[Len(queue) + 1] = None /\ Len(queue) \in Nat
    BY <1>1, <1>2, AppendProperties
  <1>4. /\ runner' \in [pc : RunnerPc, item : Tasks \cup {None}]
        /\ runner'.item = runner.item
        /\ runner'.pc = IF runner.pc = "sleep" THEN "check" ELSE runner.pc
    BY <1>1, Notified DEF IInv
  <1>5. TypeOK'
    BY <1>1, <1>3, <1>4 DEF IInv, TypeOK
  <1>6. HasItem' /\ SleepsWithReason' /\ Fresh'
    BY <1>1, <1>4 DEF IInv, HasItem, SleepsWithReason, Fresh
  <1>7. Queued'
    <2>1. \A i \in 1..Len(queue') : i \in 1..Len(queue) \/ queue'[i] = None
      BY <1>3
    <2>2. runner.pc = "launch" => runner.item # None
      BY AsyncExecutorAssumption DEF IInv, HasItem, Tasks
    <2>3. QED
      BY <1>1, <1>3, <1>4, <2>1, <2>2 DEF IInv, Queued
  <1>8. CountCovers'
    BY <1>1, <1>4, CountKept DEF IInv
  <1>9. QED
    BY <1>5, <1>6, <1>7, <1>8 DEF IInv

\* run sleeps only when it has to, and takes an item only below the limit.
LEMMA CheckStep ==
    ASSUME IInv, Check
    PROVE  IInv'
  <1>1. runner.pc = "check" /\ UNCHANGED <<caller, puts, current, futures, waiters, task, closed>>
    BY DEF Check
  <1>2. Running' = Running /\ Unpaid' = Unpaid /\ Fresh'
    BY <1>1 DEF Running, Unpaid, IInv, Fresh
  <1>3. current \in Int /\ MaxTask \in Nat
    BY AsyncExecutorAssumption DEF IInv, TypeOK
  <1>4. CASE queue = <<>> \/ NoSlotFree
    <2>1. runner' = [runner EXCEPT !.pc = "sleep"] /\ queue' = queue
      BY <1>4 DEF Check
    <2>2. /\ runner' \in [pc : RunnerPc, item : Tasks \cup {None}]
          /\ runner'.pc = "sleep"
      BY <2>1 DEF IInv, TypeOK, RunnerPc
    <2>3. TypeOK' /\ HasItem' /\ Queued'
      BY <1>1, <2>1, <2>2 DEF IInv, TypeOK, HasItem, Queued
    <2>4. CountCovers'
      BY <1>1, <2>2, CountKept DEF IInv
    <2>5. SleepsWithReason'
      BY <1>1, <1>4, <2>1 DEF SleepsWithReason, NoSlotFree
    <2>6. QED
      BY <1>2, <2>3, <2>4, <2>5 DEF IInv
  <1>5. CASE queue # <<>> /\ ~NoSlotFree
    <2>1. /\ runner' = IF Head(queue) = None THEN [pc |-> "stopped", item |-> None]
                       ELSE [pc |-> "launch", item |-> Head(queue)]
          /\ queue' = Tail(queue)
      BY <1>5 DEF Check
    <2>2. /\ Head(queue) \in Tasks \cup {None} /\ Head(queue) = queue[1]
          /\ queue' \in Seq(Tasks \cup {None}) /\ Len(queue') = Len(queue) - 1 /\ Len(queue) > 0
          /\ Len(queue) \in Nat
          /\ \A i \in 1..Len(queue') : queue'[i] = queue[i + 1]
      BY <1>5, <2>1, HeadTailProperties DEF IInv, TypeOK
    <2>3. /\ runner' \in [pc : RunnerPc, item : Tasks \cup {None}]
          /\ runner'.pc \in {"launch", "stopped"}
          /\ runner'.pc = "launch" => runner'.item = Head(queue) /\ Head(queue) # None
      BY <2>1, <2>2 DEF RunnerPc
    <2>4. TypeOK'
      BY <1>1, <2>2, <2>3 DEF IInv, TypeOK
    <2>5. HasItem' /\ SleepsWithReason'
      BY <1>1, <2>2, <2>3 DEF IInv, HasItem, SleepsWithReason
    <2>6. Queued'
      <3>1. \A i \in 1..Len(queue') : i + 1 \in 1..Len(queue)
        BY <2>2
      <3>2. 1 \in 1..Len(queue)
        BY <2>2
      <3>3. /\ \A i \in 1..Len(queue') : queue'[i] # None => task'[queue'[i]].state = "queued"
            /\ \A i, j \in 1..Len(queue') : queue'[i] # None /\ queue'[i] = queue'[j] => i = j
        BY <1>1, <2>2, <3>1 DEF IInv, Queued
      <3>4. Head(queue) # None => \A i \in 1..Len(queue') : queue'[i] # Head(queue)
        BY <2>2, <3>1, <3>2 DEF IInv, Queued
      <3>5. Head(queue) # None => task'[Head(queue)].state = "queued"
        BY <1>1, <2>2, <3>2 DEF IInv, Queued
      <3>6. QED
        BY <2>3, <3>3, <3>4, <3>5 DEF Queued
    <2>7. CountCovers'
      BY <1>1, <1>2, <1>3, <1>5, <2>3 DEF IInv, CountCovers, Uncounted, NoSlotFree
    <2>8. QED
      BY <1>2, <2>4, <2>5, <2>6, <2>7 DEF IInv
  <1>6. QED
    BY <1>4, <1>5

\* One coroutine more runs, and if it is pooled it is the one not counted yet.
LEMMA LaunchStep ==
    ASSUME IInv, Launch
    PROVE  IInv'
  <1> DEFINE t == runner.item
  <1>1. runner.pc = "launch" /\ t \in Tasks /\ task[t].state = "queued" /\ current <= MaxTask
        /\ \A i \in 1..Len(queue) : queue[i] # t
    BY DEF Launch, IInv, HasItem, Queued, CountCovers
  <1>2. /\ task' = [task EXCEPT ![t] = [task[t] EXCEPT !.state = "running"]]
        /\ UNCHANGED <<caller, puts, queue, current, futures, waiters, closed>>
    BY DEF Launch
  <1>3. /\ runner' \in [pc : RunnerPc, item : Tasks \cup {None}]
        /\ runner'.pc = "count" /\ runner'.item = t
    BY <1>1 DEF Launch, IInv, TypeOK, RunnerPc
  <1> HIDE DEF t
  <1>4. /\ \A u \in Tasks \ {t} : task'[u] = task[u]
        /\ task'[t].state = "running" /\ task'[t].pooled = task[t].pooled
        /\ task'[t].reports = task[t].reports
    BY <1>1, <1>2 DEF IInv, TypeOK
  <1>5. task' \in [Tasks -> [state : {"none", "queued", "running", "ended"},
                             pooled : BOOLEAN, reports : BOOLEAN]]
    BY <1>1, <1>2 DEF IInv, TypeOK
  <1>6. TypeOK'
    BY <1>2, <1>3, <1>5 DEF IInv, TypeOK
  <1>7. HasItem' /\ SleepsWithReason'
    BY <1>1, <1>2, <1>3, <1>4 DEF IInv, HasItem, SleepsWithReason
  <1>8. Fresh' /\ Queued'
    <2>1. \A i \in 1..Len(queue) : queue[i] \in Tasks \cup {None}
      BY DEF IInv, TypeOK
    <2>2. Queued'
      BY <1>1, <1>2, <1>3, <1>4, <2>1 DEF IInv, Queued
    <2>3. Fresh'
      <3>1. \A c \in Callers, i \in 1..MaxPuts : <<c, i>> \in Tasks
        BY DEF Tasks
      <3>2. QED
        BY <1>1, <1>2, <1>4, <3>1 DEF IInv, Fresh
    <2>4. QED
      BY <2>2, <2>3
  <1>9. CountCovers'
    <2>1. Unpaid' = Unpaid
      BY <1>1, <1>4 DEF Unpaid
    <2>2. /\ Cardinality(Running') = Cardinality(Running) + Uncounted'
          /\ Uncounted = 0 /\ Uncounted' \in {0, 1}
      <3>1. CASE task[t].pooled
        <4>1. Running' = Running \cup {t} /\ t \notin Running
          BY <1>1, <1>4, <3>1 DEF Running
        <4>2. Cardinality(Running \cup {t}) = Cardinality(Running) + 1
          BY <4>1, Sizes, FS_AddElement
        <4>3. Uncounted = 0 /\ Uncounted' = 1
          BY <1>1, <1>3, <1>4, <3>1 DEF Uncounted
        <4>4. QED
          BY <4>1, <4>2, <4>3
      <3>2. CASE ~task[t].pooled
        <4>1. Running' = Running
          BY <1>1, <1>4, <3>2 DEF Running
        <4>2. QED
          BY <1>1, <1>3, <1>4, <3>2, <4>1, Sizes DEF Uncounted
      <3>3. QED
        BY <3>1, <3>2
    <2>3. QED
      BY <1>1, <1>2, <1>3, <2>1, <2>2, Sizes, AsyncExecutorAssumption
         DEF IInv, TypeOK, CountCovers
  <1>10. QED
    BY <1>6, <1>7, <1>8, <1>9 DEF IInv

\* The coroutine just launched is counted if it is pooled, whether it still runs
\* or not.
LEMMA CountStep ==
    ASSUME IInv, Count
    PROVE  IInv'
  <1>1. /\ runner.pc = "count"
        /\ current' = IF task[runner.item].pooled THEN current + 1 ELSE current
        /\ UNCHANGED <<caller, puts, queue, futures, waiters, task, closed>>
    BY DEF Count
  <1>2. /\ runner' \in [pc : RunnerPc, item : Tasks \cup {None}]
        /\ runner'.pc = "publish" /\ runner'.item = runner.item
    BY DEF Count, IInv, TypeOK, RunnerPc
  <1>3. current \in Int /\ MaxTask \in Nat
    BY AsyncExecutorAssumption DEF IInv, TypeOK
  <1>4. TypeOK'
    BY <1>1, <1>2, <1>3 DEF IInv, TypeOK
  <1>5. HasItem' /\ SleepsWithReason' /\ Fresh' /\ Queued'
    BY <1>1, <1>2 DEF IInv, HasItem, SleepsWithReason, Fresh, Queued
  <1>6. CountCovers'
    <2>1. Running' = Running /\ Unpaid' = Unpaid
      BY <1>1 DEF Running, Unpaid
    <2>2. current' + Uncounted' = current + Uncounted /\ Uncounted' = 0 /\ Uncounted \in {0, 1}
      BY <1>1, <1>2, <1>3 DEF Uncounted
    <2>3. QED
      BY <1>1, <1>2, <1>3, <2>1, <2>2, Sizes DEF IInv, CountCovers
  <1>7. QED
    BY <1>4, <1>5, <1>6 DEF IInv

\* Publishing wakes a waiter and counts nothing.
LEMMA PublishStep ==
    ASSUME IInv, Publish
    PROVE  IInv'
  <1>1. /\ runner.pc = "publish" /\ runner' = [pc |-> "check", item |-> None]
        /\ futures' = futures \cup {runner.item} /\ WakeOne
        /\ UNCHANGED <<puts, queue, current, task, closed>>
    BY DEF Publish
  <1>2. runner.item \in Tasks
    BY <1>1 DEF IInv, HasItem
  <1>3. /\ caller' \in [Callers -> {"idle", "look", "sleep"}]
        /\ waiters' \in Seq(Callers)
    <2>1. CASE waiters = <<>>
      BY <1>1, <2>1 DEF WakeOne, IInv, TypeOK
    <2>2. CASE waiters # <<>>
      <3>1. Tail(waiters) \in Seq(Callers)
        BY <2>2, HeadTailProperties DEF IInv, TypeOK
      <3>2. QED
        BY <1>1, <2>2, <3>1 DEF WakeOne, IInv, TypeOK
    <2>3. QED
      BY <2>1, <2>2
  <1>4. runner' \in [pc : RunnerPc, item : Tasks \cup {None}]
    BY <1>1 DEF RunnerPc
  <1>5. TypeOK'
    BY <1>1, <1>2, <1>3, <1>4 DEF IInv, TypeOK
  <1>6. HasItem' /\ SleepsWithReason' /\ Fresh' /\ Queued'
    BY <1>1 DEF IInv, HasItem, SleepsWithReason, Fresh, Queued
  <1>7. CountCovers'
    BY <1>1, CountKept DEF IInv
  <1>8. QED
    BY <1>5, <1>6, <1>7 DEF IInv

\* A coroutine that ends is one less to count, before or after it was counted;
\* one that is not pooled and reports is a slot given back unpaid.
LEMMA DoneStep ==
    ASSUME IInv, NEW t \in Tasks, Done(t)
    PROVE  IInv'
  <1>1. /\ task[t].state = "running"
        /\ task' = [task EXCEPT ![t] = [task[t] EXCEPT !.state = "ended"]]
        /\ current' = IF task[t].reports THEN current - 1 ELSE current
        /\ NotifyRunner \/ (runner' = runner /\ current' = current)
        /\ UNCHANGED <<caller, puts, queue, futures, waiters, closed>>
    BY DEF Done
  <1>2. /\ runner' \in [pc : RunnerPc, item : Tasks \cup {None}]
        /\ runner'.item = runner.item
        /\ \/ runner'.pc = runner.pc /\ (runner.pc = "sleep" => current' = current)
           \/ runner.pc = "sleep" /\ runner'.pc = "check"
    <2>1. CASE NotifyRunner
      BY <2>1, Notified DEF IInv
    <2>2. CASE runner' = runner /\ current' = current
      BY <2>2 DEF IInv, TypeOK
    <2>3. QED
      BY <1>1, <2>1, <2>2
  <1>3. current \in Int /\ MaxTask \in Nat
    BY AsyncExecutorAssumption DEF IInv, TypeOK
  <1>4. /\ \A u \in Tasks \ {t} : task'[u] = task[u]
        /\ task'[t].state = "ended" /\ task'[t].pooled = task[t].pooled
        /\ task'[t].reports = task[t].reports
    BY <1>1 DEF IInv, TypeOK
  <1>5. TypeOK'
    <2>1. task' \in [Tasks -> [state : {"none", "queued", "running", "ended"},
                               pooled : BOOLEAN, reports : BOOLEAN]]
      BY <1>1 DEF IInv, TypeOK
    <2>2. current' \in Int
      BY <1>1, <1>3
    <2>3. QED
      BY <1>1, <1>2, <2>1, <2>2 DEF IInv, TypeOK
  <1>6. HasItem'
    BY <1>1, <1>2, <1>4 DEF IInv, HasItem
  <1>7. SleepsWithReason'
    BY <1>1, <1>2 DEF IInv, SleepsWithReason, NoSlotFree
  <1>8. Fresh' /\ Queued'
    <2>1. \A i \in 1..Len(queue) : queue[i] \in Tasks \cup {None}
      BY DEF IInv, TypeOK
    <2>2. runner.pc \in {"launch", "count"} => runner.item \in Tasks
      BY DEF IInv, HasItem
    <2>3. Queued'
      BY <1>1, <1>2, <1>4, <2>1, <2>2 DEF IInv, Queued
    <2>4. Fresh'
      <3>1. \A c \in Callers, i \in 1..MaxPuts : <<c, i>> \in Tasks
        BY DEF Tasks
      <3>2. QED
        BY <1>1, <1>4, <3>1 DEF IInv, Fresh
    <2>5. QED
      BY <2>3, <2>4
  <1>9. CountCovers'
    <2>1. Uncounted' = Uncounted
      <3>1. runner.pc = "count" => runner.item \in Tasks
        BY DEF IInv, HasItem
      <3>2. QED
        BY <1>2, <1>4, <3>1 DEF Uncounted
    <2>2. Cardinality(Running') - current' - Cardinality(Unpaid')
            <= Cardinality(Running) - current - Cardinality(Unpaid)
      <3>1. CASE task[t].pooled
        <4>1. t \in Running /\ Running' = Running \ {t} /\ Unpaid' = Unpaid
          BY <1>1, <1>4, <3>1 DEF Running, Unpaid
        <4>2. Cardinality(Running') = Cardinality(Running) - 1
          BY <4>1, Sizes, FS_RemoveElement
        <4>3. QED
          BY <1>1, <1>3, <4>1, <4>2, Sizes
      <3>2. CASE ~task[t].pooled
        <4>1. Running' = Running
          BY <1>1, <1>4, <3>2 DEF Running
        <4>2. CASE task[t].reports
          <5>1. Unpaid' = Unpaid \cup {t} /\ t \notin Unpaid
            BY <1>1, <1>4, <3>2, <4>2 DEF Unpaid
          <5>2. Cardinality(Unpaid') = Cardinality(Unpaid) + 1
            BY <5>1, Sizes, FS_AddElement
          <5>3. QED
            BY <1>1, <1>3, <4>1, <4>2, <5>2, Sizes
        <4>3. CASE ~task[t].reports
          <5>1. Unpaid' = Unpaid
            BY <1>1, <1>4, <4>3 DEF Unpaid
          <5>2. QED
            BY <1>1, <1>3, <4>1, <4>3, <5>1, Sizes
        <4>4. QED
          BY <4>2, <4>3
      <3>3. QED
        BY <3>1, <3>2
    <2>3. current' \in Int /\ current' <= current
      BY <1>1, <1>3
    <2>4. Uncounted \in {0, 1} /\ Cardinality(Running') \in Nat /\ Cardinality(Unpaid') \in Nat
      <3>1. Running' \in SUBSET Tasks /\ Unpaid' \in SUBSET Tasks
        BY DEF Running, Unpaid
      <3>2. QED
        BY <3>1, TasksFinite DEF Uncounted
    <2>5. Cardinality(Running') <= current' + Uncounted' + Cardinality(Unpaid')
      BY <1>3, <2>1, <2>2, <2>3, <2>4, Sizes DEF IInv, CountCovers
    <2>6. QED
      BY <1>2, <1>3, <2>3, <2>5 DEF IInv, CountCovers
  <1>10. QED
    BY <1>5, <1>6, <1>7, <1>8, <1>9 DEF IInv

-----------------------------------------------------------------------------
\* Every step preserves the invariant.
THEOREM NextIInv == IInv /\ [Next]_vars => IInv'
  <1> SUFFICES ASSUME IInv, [Next]_vars PROVE IInv'
    OBVIOUS
  <1>1. ASSUME NEW c \in Callers, Put(c) \/ Get(c) PROVE IInv'
    BY <1>1, PutStep, GetStep
  <1>2. CASE CleanUp
    BY <1>2, CleanUpStep
  <1>3. CASE Run
    BY <1>3, CheckStep, LaunchStep, CountStep, PublishStep DEF Run
  <1>4. ASSUME NEW t \in Tasks, Done(t) PROVE IInv'
    BY <1>4, DoneStep
  <1>5. CASE UNCHANGED vars
    <2>1. CountCovers'
      BY <1>5, CountKept DEF vars, IInv
    <2>2. QED
      BY <1>5, <2>1 DEF vars, IInv, TypeOK, HasItem, Fresh, Queued, SleepsWithReason, NoSlotFree
  <1>6. QED
    BY <1>1, <1>2, <1>3, <1>4, <1>5 DEF Next

\* The invariant holds in every reachable state.
THEOREM Invariant == Spec => []IInv
  <1>1. QED
    BY InitIInv, NextIInv, PTL DEF Spec

\* At most one coroutine more than --tasks says is at work, and one more for each
\* slot given back that was never taken, for any number of threads, any limit and
\* any interleaving of run with the callbacks.
THEOREM TasksBounded == Spec => []AtMostOneMore
  <1>1. IInv => AtMostOneMore
    BY Sizes, AsyncExecutorAssumption
       DEF IInv, TypeOK, CountCovers, Uncounted, AtMostOneMore
  <1>2. QED
    BY Invariant, <1>1, PTL

\* run never sleeps through a notify: there is no queued coroutine beside a
\* free slot while it waits on lock.
THEOREM RunHearsEveryNotify == Spec => []SleepsWithReason
  <1>1. IInv => SleepsWithReason
    BY DEF IInv
  <1>2. QED
    BY Invariant, <1>1, PTL

\* Type correctness.
THEOREM TypeCorrect == Spec => []TypeOK
  <1>1. IInv => TypeOK
    BY DEF IInv
  <1>2. QED
    BY Invariant, <1>1, PTL
=============================================================================
