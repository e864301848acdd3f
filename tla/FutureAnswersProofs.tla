--------------------------- MODULE FutureAnswersProofs ---------------------------
(***************************************************************************)
(* What the futures keep in every behaviour of FutureAnswers.              *)
(***************************************************************************)
EXTENDS FutureAnswers, SequenceTheorems, FiniteSetTheorems, TLAPS

\* Every step of the composition is one of these or leaves the futures alone.
Step == TNext \/ NoContext

Ended == {"ended", "cancelled"}
Making == {"admit", "create", "list"}
InWork == {work[i] : i \in 1..Len(work)}
Own(c) == 1..size[c]

\* TTypeOK, but that the counts are numbers.
Shapes ==
    /\ call \in [pc : {"idle", "admit", "create", "list", "then", "attach", "attached"},
                 of : 0..MaxReq, at : 0..MaxTasks]
    /\ begun \in 0..MaxReq
    /\ size \in [Calls -> 0..MaxTasks] /\ made \in [Calls -> 0..MaxTasks]
    /\ task \in [Tasks -> Live \cup {"none", "ended", "unfit", "cancelled"}]
    /\ work \in Seq(Tasks) /\ listed \subseteq Tasks
    /\ executor \in {"none", "up", "shut"}
    /\ noMore \in BOOLEAN /\ locked \in BOOLEAN
    /\ closer \in {"idle", "drain", "wait", "closed"}
    /\ cb \in [Tasks -> Active \cup {"none", "set", "over"}]
    /\ by \in [Tasks -> {"pool", "closer", "call"}]
    /\ loaded \in [Tasks -> Nat] /\ responded \in [Calls -> Nat]
    /\ fulfilled \in [Calls -> Nat]
    /\ spent \in [Calls -> BOOLEAN] /\ overlap \in [Calls -> BOOLEAN]

\* The pool's queue has the pending tasks, each once; a task is there once it
\* was made; and an executor that has gone has gone for good, with its tasks.
Pool ==
    /\ \A i \in 1..Len(work) : task[work[i]] = "pending"
    /\ \A i, j \in 1..Len(work) : work[i] = work[j] => i = j
    /\ \A t \in Tasks : task[t] = "pending" => t \in InWork
    /\ \A t \in Tasks : task[t] = "none" <=> t[2] > made[t[1]]
    /\ executor = "none" => noMore /\ \A t \in Tasks : task[t] \notin Live
    /\ closer = "closed" => executor = "none"
    /\ closer # "idle" => noMore

\* A call makes all its tasks before it sets the first callback, and sets them
\* in order; a call that has not begun has nothing.
AtCall ==
    /\ call.pc # "idle" => call.of \in 1..begun /\ size[call.of] >= 1
    /\ call.pc \in {"admit", "create"} => made[call.of] < size[call.of]
    /\ call.pc = "list" => made[call.of] >= 1
    /\ call.pc \in {"then", "attach", "attached"} => made[call.of] >= size[call.of]
    /\ call.pc \in {"attach", "attached"} => call.at \in Own(call.of)
    /\ call.pc \in {"admit", "create", "list", "then"} =>
         \A t \in Tasks : t[1] = call.of => cb[t] = "none"
    /\ call.pc \in {"attach", "attached"} =>
         \A t \in Tasks : t[1] = call.of /\ t[2] \in Own(call.of)
                          /\ (t[2] > call.at \/ (t[2] = call.at /\ call.pc = "attach"))
                            => cb[t] = "none"
    /\ \A c \in Calls : c > begun =>
         size[c] = 0 /\ made[c] = 0 /\ responded[c] = 0 /\ fulfilled[c] = 0
    /\ \A t \in Tasks : t[1] > begun => cb[t] = "none"

\* One callback of a call makes a task at a time, and nobody else does then.
Makers ==
    /\ \A t, u \in Tasks : t[1] = u[1] /\ cb[t] \in Making /\ cb[u] \in Making => t = u
    /\ \A t \in Tasks : cb[t] # "none" => made[t[1]] >= size[t[1]]
    /\ \A t \in Tasks : cb[t] \in {"admit", "create"} => made[t[1]] < MaxTasks
    /\ \A t \in Tasks : cb[t] = "list" =>
         /\ made[t[1]] > size[t[1]] /\ made[t[1]] > t[2]
         /\ cb[<<t[1], made[t[1]]>>] = "none"

\* A callback waits for its task, which is fit when it is counted.
Callbacks ==
    /\ \A t \in Tasks : cb[t] = "set" => task[t] \in Live
    /\ \A t \in Tasks : cb[t] \notin {"none", "set"} => task[t] \in Ended \cup {"unfit"}
    /\ \A t \in Tasks : cb[t] \notin {"none", "set", "due", "over"} => task[t] # "unfit"
    /\ \A t \in Tasks : Counting(t) => t[2] \in Own(t[1]) /\ size[t[1]] > 1

\* The tasks of a Futures whose end was counted, and those it called back for.
Counted(c) == {i \in Own(c) : cb[<<c, i>>] \notin {"none", "set", "due", "store"}
                              /\ task[<<c, i>>] # "unfit"}
Called(c) == {i \in Own(c) : cb[<<c, i>>] \in Making \cup {"callback", "failed", "over"}}
AllEnded(c) == \A i \in Own(c) : task[<<c, i>>] \in Ended

\* _responded never runs ahead of the tasks that were counted, whatever
\* increments are lost; so it is complete only when they have all ended.
Counts ==
    /\ \A c \in Calls : responded[c] <= Cardinality(Counted(c))
    /\ \A t \in Tasks : cb[t] = "store" => loaded[t] <= Cardinality(Counted(t[1]))
    /\ \A t \in Tasks : loaded[t] <= MaxTasks
    /\ \A t \in Tasks : cb[t] = "fulfil" /\ t[2] \in Own(t[1]) => AllEnded(t[1])
    /\ \A c \in Calls : fulfilled[c] > 0 => AllEnded(c)
    /\ \A c \in Calls : fulfilled[c] <= Cardinality(Called(c))

\* Where no two tasks are counted at the same time, no increment is lost, and
\* only the last task finds the count complete.
InTurn(c) ==
    /\ \A t, u \in Tasks : t[1] = c /\ u[1] = c /\ Counting(t) /\ Counting(u) => t = u
    /\ size[c] > 1 => responded[c] = Cardinality(Counted(c))
    /\ \A t \in Tasks : t[1] = c /\ cb[t] = "store" => loaded[t] = responded[c]
    /\ \A i, j \in Own(c) : cb[<<c, i>>] = "fulfil" /\ cb[<<c, j>>] = "fulfil" => i = j
    /\ \A i \in Own(c) : cb[<<c, i>>] = "fulfil" => fulfilled[c] = 0
    /\ fulfilled[c] <= 1
    /\ \A i, j \in Own(c) : fulfilled[c] > 0 \/ cb[<<c, i>>] = "fulfil" =>
         cb[<<c, j>>] \notin {"none", "set", "due", "store", "compare"}
Turns == \A c \in Calls : ~overlap[c] => InTurn(c)

FInv == Shapes /\ Pool /\ AtCall /\ Makers /\ Callbacks /\ Counts /\ Turns /\ TasksAccountedFor

-----------------------------------------------------------------------------
(* Steps.                                                                  *)

\* A step of the composition is a step of the futures, or leaves them alone.
LEMMA AsTasks == [Next]_vars => [Step]_tvars
<1> SUFFICES ASSUME [Next]_vars PROVE [Step]_tvars
  OBVIOUS
<1>1. CASE CallBegins \/ CallFails \/ NoClone \/ HaveContext
  BY <1>1 DEF CallBegins, CallFails, NoClone, HaveContext, Step, TNext, CallStep
<1>2. CASE FuturesStep
  BY <1>2 DEF FuturesStep, Step, TNext, CallStep, CallbackStep
<1>3. CASE \E t \in Tasks : Callback(t)
  <2>1. PICK t \in Tasks : Callback(t)
    BY <1>3
  <2> QED
    BY <2>1 DEF Callback, LateRespond, NoContent, FallSilent, Content, Unwanted, HandOver, AnotherFuture,
                FutureChained, AnswerAgain, Step, TNext, CallbackStep
<1>4. CASE CloneStep \/ ThunkRuns \/ ContextFreed \/ \E c \in Calls : Expires(c)
  BY <1>4 DEF CloneStep, ThunkRuns, ContextFreed, Expires
<1>5. CASE LoopEnds
  BY <1>5 DEF LoopEnds, Step, TNext
<1>6. CASE UNCHANGED vars
  BY <1>6 DEF vars
<1> QED
  BY <1>1, <1>2, <1>3, <1>4, <1>5, <1>6 DEF Next

-----------------------------------------------------------------------------
(* Types.                                                                  *)

\* A task of a call that is being made.
LEMMA IsTask ==
    ASSUME NEW c \in Calls, NEW i \in 1..MaxTasks
    PROVE  <<c, i>> \in Tasks /\ <<c, i>>[1] = c /\ <<c, i>>[2] = i
BY DEF Tasks

LEMMA TaskParts ==
    ASSUME NEW t \in Tasks
    PROVE  t[1] \in Calls /\ t[2] \in 1..MaxTasks /\ t = <<t[1], t[2]>>
BY DEF Tasks

\* Where a task can be made there is one more to make.
LEMMA MayMake ==
    ASSUME Shapes, AtCall, Makers
    PROVE  /\ call.pc # "idle" => call.of \in Calls
           /\ call.pc \in {"admit", "create"} => made[call.of] < MaxTasks
           /\ \A t \in Tasks : cb[t] \in {"admit", "create"} => made[t[1]] < MaxTasks
<1> USE TaskFuturesAssumption
<1>1. call.pc # "idle" => call.of \in 1..begun
  BY DEF AtCall
<1>2. begun \in Int /\ begun <= MaxReq
  BY DEF Shapes
<1>3. call.pc # "idle" => call.of \in Calls
  BY <1>1, <1>2 DEF Calls
<1>4. ASSUME call.pc \in {"admit", "create"} PROVE made[call.of] < MaxTasks
  <2>1. call.of \in Calls
    BY <1>3, <1>4
  <2>2. made[call.of] < size[call.of] /\ made[call.of] \in Nat /\ size[call.of] \in 0..MaxTasks
    BY <1>4, <2>1 DEF AtCall, Shapes
  <2> QED
    BY <2>2
<1> QED
  BY <1>3, <1>4 DEF Makers

\* What a task that is made changes.
LEMMA Makes ==
    ASSUME Shapes, NEW c \in Calls, made[c] < MaxTasks, Submit(c)
    PROVE  /\ <<c, made[c] + 1>> \in Tasks
           /\ executor = "up"
           /\ made' \in [Calls -> 0..MaxTasks]
           /\ made'[c] = made[c] + 1 /\ \A d \in Calls : d # c => made'[d] = made[d]
           /\ task' \in [Tasks -> Live \cup {"none", "ended", "unfit", "cancelled"}]
           /\ task'[<<c, made[c] + 1>>] = "pending"
           /\ \A t \in Tasks : t # <<c, made[c] + 1>> => task'[t] = task[t]
           /\ work' = Append(work, <<c, made[c] + 1>>) /\ work' \in Seq(Tasks)
<1> USE TaskFuturesAssumption
<1>1. made[c] \in 0..MaxTasks
  BY DEF Shapes
<1>2. made[c] + 1 \in 1..MaxTasks
  BY <1>1
<1>3. <<c, made[c] + 1>> \in Tasks
  BY <1>2 DEF Tasks
<1>4. work' = Append(work, <<c, made[c] + 1>>) /\ work \in Seq(Tasks)
  BY DEF Submit, Shapes
<1>5. work' \in Seq(Tasks)
  BY <1>3, <1>4, AppendProperties
<1>6. made' \in [Calls -> 0..MaxTasks] /\ made'[c] = made[c] + 1 /\ \A d \in Calls : d # c => made'[d] = made[d]
  BY <1>1, <1>2 DEF Submit, Shapes
<1>7. task' = [task EXCEPT ![<<c, made[c] + 1>>] = "pending"] /\ executor = "up"
  BY DEF Submit
<1> DEFINE w == <<c, made[c] + 1>>
<1>8. w \in Tasks /\ task' = [task EXCEPT ![w] = "pending"]
  BY <1>3, <1>7
<1> HIDE DEF w
<1>9. task' \in [Tasks -> Live \cup {"none", "ended", "unfit", "cancelled"}]
       /\ task'[w] = "pending" /\ \A t \in Tasks : t # w => task'[t] = task[t]
  BY <1>8 DEF Shapes, Live
<1> QED
  BY <1>3, <1>4, <1>5, <1>6, <1>7, <1>9 DEF w

\* Every step keeps the types.
LEMMA ShapesStep ==
    ASSUME Shapes, AtCall, Makers, Pool, [Step]_tvars PROVE Shapes'
<1> USE TaskFuturesAssumption
<1> DEFINE CallRec == [pc : {"idle", "admit", "create", "list", "then", "attach", "attached"},
                       of : 0..MaxReq, at : 0..MaxTasks]
           TaskFun == [Tasks -> Live \cup {"none", "ended", "unfit", "cancelled"}]
           CbFun == [Tasks -> Active \cup {"none", "set", "over"}]
           ByFun == [Tasks -> {"pool", "closer", "call"}]
<1>1. call \in CallRec /\ task \in TaskFun /\ cb \in CbFun /\ by \in ByFun
  BY DEF Shapes
<1>2. Maintained \subseteq Tasks /\ listed \subseteq Tasks
  BY DEF Shapes, Maintained
<1>3. NoCall \in CallRec
  BY DEF NoCall
<1>4. ASSUME NEW pc \in {"idle", "admit", "create", "list", "then", "attach", "attached"}
      PROVE  [call EXCEPT !.pc = pc] \in CallRec
  BY <1>1
<1>5. ASSUME NEW pc \in {"attach", "attached"}, NEW n \in 0..MaxTasks
      PROVE  [call EXCEPT !.pc = pc, !.at = n] \in CallRec
  BY <1>1
<1>6. ASSUME NEW t \in Tasks, NEW x \in Active \cup {"none", "set", "over"}
      PROVE  [cb EXCEPT ![t] = x] \in CbFun
  BY <1>1
<1>7. /\ call.pc # "idle" => call.of \in Calls
      /\ call.pc \in {"admit", "create"} => made[call.of] < MaxTasks
      /\ \A t \in Tasks : cb[t] \in {"admit", "create"} => made[t[1]] < MaxTasks
  BY MayMake
<1>8. work # <<>> => Head(work) \in Tasks /\ Tail(work) \in Seq(Tasks)
  <2>1. work \in Seq(Tasks)
    BY DEF Shapes
  <2> QED
    BY <2>1, HeadTailProperties
<1> HIDE DEF CallRec, TaskFun, CbFun, ByFun
<1>9. Shapes <=>
        /\ call \in CallRec
        /\ begun \in 0..MaxReq
        /\ size \in [Calls -> 0..MaxTasks] /\ made \in [Calls -> 0..MaxTasks]
        /\ task \in TaskFun
        /\ work \in Seq(Tasks) /\ listed \subseteq Tasks
        /\ executor \in {"none", "up", "shut"}
        /\ noMore \in BOOLEAN /\ locked \in BOOLEAN
        /\ closer \in {"idle", "drain", "wait", "closed"}
        /\ cb \in CbFun
        /\ by \in ByFun
        /\ loaded \in [Tasks -> Nat] /\ responded \in [Calls -> Nat]
        /\ fulfilled \in [Calls -> Nat]
        /\ spent \in [Calls -> BOOLEAN] /\ overlap \in [Calls -> BOOLEAN]
  BY DEF Shapes, CallRec, TaskFun, CbFun, ByFun
<1>10. CASE UNCHANGED tvars
  BY <1>10 DEF tvars, callVars, poolVars, lockVars, countVars, futureVars, Shapes
<1>11. ASSUME Shapes' <=>
        (/\ call' \in CallRec
         /\ begun' \in 0..MaxReq
         /\ size' \in [Calls -> 0..MaxTasks] /\ made' \in [Calls -> 0..MaxTasks]
         /\ task' \in TaskFun
         /\ work' \in Seq(Tasks) /\ listed' \subseteq Tasks
         /\ executor' \in {"none", "up", "shut"}
         /\ noMore' \in BOOLEAN /\ locked' \in BOOLEAN
         /\ closer' \in {"idle", "drain", "wait", "closed"}
         /\ cb' \in CbFun
         /\ by' \in ByFun
         /\ loaded' \in [Tasks -> Nat] /\ responded' \in [Calls -> Nat]
         /\ fulfilled' \in [Calls -> Nat]
         /\ spent' \in [Calls -> BOOLEAN] /\ overlap' \in [Calls -> BOOLEAN]),
       Step
       PROVE Shapes'
  <2>1. CASE Begin
    <3>1. begun + 1 \in Calls /\ begun' = begun + 1 /\ begun' \in 0..MaxReq
      BY <2>1 DEF Begin, Shapes, Calls
    <3>2. PICK n \in Sizes[begun + 1] : size' = [size EXCEPT ![begun + 1] = n]
      BY <2>1 DEF Begin
    <3>3. n \in 1..MaxTasks
      BY <3>1, <3>2 DEF Calls
    <3>4. size' \in [Calls -> 0..MaxTasks]
      BY <3>1, <3>2, <3>3 DEF Shapes
    <3>5. call' \in CallRec
      <4>1. call' = [pc |-> "admit", of |-> begun + 1, at |-> 0]
        BY <2>1 DEF Begin
      <4>2. begun + 1 \in 0..MaxReq
        BY <3>1
      <4> QED
        BY <4>1, <4>2 DEF CallRec
    <3> QED
      BY <1>9, <1>11, <2>1, <3>1, <3>4, <3>5 DEF Begin, poolVars, lockVars, countVars, futureVars
  <2>2. CASE AdmitTask
    <3>1. call' \in CallRec /\ listed' \subseteq Tasks /\ executor' \in {"none", "up", "shut"}
      BY <1>2, <1>4, <1>9, <2>2 DEF AdmitTask, Admitted
    <3> QED
      BY <1>9, <1>11, <2>2, <3>1 DEF AdmitTask, countVars, futureVars
  <2>3. CASE CreateTask
    <3>1. call.of \in Calls /\ made[call.of] < MaxTasks /\ Submit(call.of)
      BY <1>7, <2>3 DEF CreateTask
    <3>2. made' \in [Calls -> 0..MaxTasks] /\ task' \in TaskFun /\ work' \in Seq(Tasks)
      BY <3>1, Makes DEF TaskFun
    <3>3. call' \in CallRec
      BY <1>4, <2>3 DEF CreateTask
    <3> QED
      BY <1>9, <1>11, <2>3, <3>2, <3>3 DEF CreateTask, lockVars, countVars, futureVars
  <2>4. CASE ListTask
    <3>1. call' \in CallRec
      BY <1>4, <2>4 DEF ListTask
    <3>2. made[call.of] \in 1..MaxTasks
      <4>1. call.of \in Calls
        BY <1>7, <2>4 DEF ListTask
      <4>2. made[call.of] \in 0..MaxTasks
        BY <1>9, <4>1
      <4>3. made[call.of] # 0
        BY <2>4, <4>1, <4>2 DEF ListTask, AtCall
      <4> QED
        BY <4>2, <4>3
    <3>3. <<call.of, made[call.of]>> \in Tasks
      BY <1>7, <2>4, <3>2, IsTask DEF ListTask
    <3>4. listed' \subseteq Tasks
      BY <1>2, <2>4, <3>3 DEF ListTask, List
    <3> QED
      BY <1>9, <1>11, <2>4, <3>1, <3>4 DEF ListTask, poolVars, countVars, futureVars
  <2>5. CASE FailCall \/ NoContext
    BY <1>3, <1>9, <1>11, <2>5 DEF FailCall, NoContext, poolVars, lockVars, countVars, futureVars
  <2>6. CASE Then
    <3>1. 1 \in 0..MaxTasks
      <4>1. call.of \in Calls /\ size[call.of] >= 1
        BY <1>7, <2>6 DEF Then, AtCall
      <4>2. size[call.of] \in 0..MaxTasks
        BY <1>9, <4>1
      <4> QED
        BY <4>1, <4>2
    <3>2. call' \in CallRec
      BY <1>5, <2>6, <3>1 DEF Then
    <3> QED
      BY <1>9, <1>11, <2>6, <3>2 DEF Then, poolVars, lockVars, countVars, futureVars
  <2>7. CASE Attach
    <3> DEFINE t == <<call.of, call.at>>
    <3>1. t \in Tasks
      <4>1. call.of \in Calls /\ call.at \in Own(call.of)
        BY <1>7, <2>7 DEF Attach, AtCall
      <4>2. size[call.of] \in 0..MaxTasks
        BY <1>9, <4>1
      <4>3. call.at \in 1..MaxTasks
        BY <4>1, <4>2 DEF Own
      <4> QED
        BY <4>1, <4>3, IsTask
    <3>2. /\ cb' = [cb EXCEPT ![t] = IF task[t] \in Live THEN "set" ELSE "due"]
          /\ by' = [by EXCEPT ![t] = IF task[t] \in Live THEN "pool" ELSE "call"]
      BY <2>7 DEF Attach, SetCallback
    <3> HIDE DEF t
    <3>3. cb' \in CbFun /\ by' \in ByFun
      BY <1>1, <3>1, <3>2 DEF CbFun, ByFun, Active
    <3>4. call' \in CallRec
      BY <1>4, <2>7 DEF Attach
    <3> QED
      BY <1>9, <1>11, <2>7, <3>3, <3>4 DEF Attach, poolVars, lockVars, countVars
  <2>8. CASE Attached
    <3>1. CASE call.at = size[call.of]
      BY <1>3, <1>9, <1>11, <2>8, <3>1 DEF Attached, poolVars, lockVars, countVars, futureVars
    <3>2. CASE call.at # size[call.of]
      <4>1. call.of \in Calls /\ call.at \in Own(call.of)
        BY <1>7, <2>8 DEF Attached, AtCall
      <4>2. size[call.of] \in 0..MaxTasks
        BY <1>9, <4>1
      <4>3. call.at + 1 \in 0..MaxTasks
        BY <3>2, <4>1, <4>2 DEF Own
      <4>4. call' = [call EXCEPT !.pc = "attach", !.at = call.at + 1]
        BY <2>8, <3>2 DEF Attached
      <4>5. call' \in CallRec
        BY <1>5, <4>3, <4>4
      <4> QED
        BY <1>9, <1>11, <2>8, <4>5 DEF Attached, poolVars, lockVars, countVars, futureVars
    <3> QED
      BY <3>1, <3>2
  <2>9. CASE Start
    <3>1. task' \in TaskFun /\ work' \in Seq(Tasks)
      <4>1. Head(work) \in Tasks /\ Tail(work) \in Seq(Tasks)
        BY <1>8, <2>9 DEF Start
      <4>2. task' = [task EXCEPT ![Head(work)] = "running"] /\ work' = Tail(work)
        BY <2>9 DEF Start
      <4> QED
        BY <1>1, <4>1, <4>2 DEF TaskFun, Live
    <3> QED
      BY <1>9, <1>11, <2>9, <3>1 DEF Start, callVars, lockVars, countVars, futureVars
  <2>10. CASE Shutdown
    BY <1>2, <1>9, <1>11, <2>10 DEF Shutdown, callVars, countVars, futureVars
  <2>11. CASE Cancel
    <3> DEFINE t == Head(work)
    <3>1. t \in Tasks /\ Tail(work) \in Seq(Tasks)
      BY <1>8, <2>11 DEF Cancel
    <3>2. /\ task' = [task EXCEPT ![t] = "cancelled"]
          /\ cb' = [cb EXCEPT ![t] = IF cb[t] = "set" THEN "due" ELSE cb[t]]
          /\ by' = [by EXCEPT ![t] = IF cb[t] = "set" THEN "closer" ELSE by[t]]
          /\ work' = Tail(work)
      BY <2>11 DEF Cancel
    <3> HIDE DEF t
    <3>3. task' \in TaskFun /\ cb' \in CbFun /\ by' \in ByFun
      BY <1>1, <3>1, <3>2 DEF TaskFun, CbFun, ByFun, Active
    <3> QED
      BY <1>9, <1>11, <2>11, <3>1, <3>2, <3>3 DEF Cancel, callVars, lockVars, countVars
  <2>12. CASE Drained \/ Closed
    BY <1>9, <1>11, <2>12 DEF Drained, Closed, callVars, poolVars, countVars, futureVars
  <2>13. ASSUME NEW t \in Tasks, End(t) PROVE Shapes'
    <3>1. task' \in TaskFun
      BY <1>1, <2>13 DEF End, TaskFun
    <3>2. cb' \in CbFun
      BY <1>1, <2>13 DEF End, CbFun, Active
    <3> QED
      BY <1>9, <1>11, <2>13, <3>1, <3>2 DEF End, callVars, lockVars, countVars
  <2>14. ASSUME NEW t \in Tasks, Settle(t) PROVE Shapes'
    <3>1. t[1] \in Calls
      BY TaskParts
    <3>2. cb' \in CbFun
      <4>1. \E x \in {"over", "fulfil", "store"} : cb' = [cb EXCEPT ![t] = x]
        BY <2>14 DEF Settle
      <4> QED
        BY <1>6, <4>1 DEF Active
    <3>3. loaded' \in [Tasks -> Nat] /\ responded' = responded
      BY <1>9, <2>14, <3>1 DEF Settle, countVars
    <3>4. overlap' \in [Calls -> BOOLEAN]
      <4>1. \/ overlap' = overlap
            \/ overlap' = [overlap EXCEPT ![t[1]] = overlap[t[1]] \/ \E u \in Tasks : u[1] = t[1] /\ Counting(u)]
        BY <2>14 DEF Settle, countVars
      <4>3. overlap \in [Calls -> BOOLEAN]
        BY <1>9
      <4> DEFINE b == overlap[t[1]] \/ \E u \in Tasks : u[1] = t[1] /\ Counting(u)
      <4>4. b \in BOOLEAN
        <5>1. overlap[t[1]] \in BOOLEAN
          BY <3>1, <4>3
        <5> QED
          BY <5>1, Zenon
      <4>5. overlap' = overlap \/ overlap' = [overlap EXCEPT ![t[1]] = b]
        BY <4>1
      <4> HIDE DEF b
      <4> QED
        BY <3>1, <4>3, <4>4, <4>5
    <3> QED
      BY <1>9, <1>11, <2>14, <3>2, <3>3, <3>4 DEF Settle, callbackRest, callVars, poolVars, lockVars
  <2>15. ASSUME NEW t \in Tasks, Store(t) PROVE Shapes'
    <3>1. t[1] \in Calls
      BY TaskParts
    <3>2. cb' \in CbFun
      BY <1>6, <2>15 DEF Store, Active
    <3>3. responded' \in [Calls -> Nat]
      BY <1>9, <2>15, <3>1 DEF Store
    <3> QED
      BY <1>9, <1>11, <2>15, <3>2, <3>3 DEF Store, callbackRest, callVars, poolVars, lockVars
  <2>16. ASSUME NEW t \in Tasks, Fulfil(t) PROVE Shapes'
    <3>1. t[1] \in Calls
      BY TaskParts
    <3>2. cb' \in CbFun
      BY <1>6, <2>16 DEF Fulfil, Active
    <3>3. fulfilled' \in [Calls -> Nat]
      BY <1>9, <2>16, <3>1 DEF Fulfil
    <3> QED
      BY <1>9, <1>11, <2>16, <3>2, <3>3 DEF Fulfil, callbackRest, callVars, poolVars, lockVars, countVars
  <2>17. ASSUME NEW t \in Tasks, Compare(t) \/ Raise(t) \/ Chain(t) \/ FailChain(t) PROVE Shapes'
    <3>2. cb' \in CbFun
      BY <1>6, <2>17 DEF Compare, Raise, Chain, FailChain, Active
    <3> QED
      BY <1>9, <1>11, <2>17, <3>2
      DEF Compare, Raise, Chain, FailChain, callbackRest, callVars, poolVars, lockVars, countVars
  <2>18. ASSUME NEW t \in Tasks, Return(t) PROVE Shapes'
    <3>1. t[1] \in Calls
      BY TaskParts
    <3>2. cb' \in CbFun
      BY <1>6, <2>18 DEF Return, Active
    <3>3. spent' \in [Calls -> BOOLEAN]
      BY <1>9, <2>18, <3>1 DEF Return
    <3> QED
      BY <1>9, <1>11, <2>18, <3>2, <3>3 DEF Return, callbackRest, callVars, poolVars, lockVars, countVars
  <2>19. ASSUME NEW t \in Tasks, ChainAdmit(t) PROVE Shapes'
    <3>1. cb' \in CbFun /\ listed' \subseteq Tasks /\ executor' \in {"none", "up", "shut"}
      BY <1>2, <1>6, <1>9, <2>19 DEF ChainAdmit, Admitted, Active
    <3> QED
      BY <1>9, <1>11, <2>19, <3>1 DEF ChainAdmit, callbackRest, callVars, countVars
  <2>20. ASSUME NEW t \in Tasks, ChainCreate(t) PROVE Shapes'
    <3>1. t[1] \in Calls /\ made[t[1]] < MaxTasks /\ Submit(t[1])
      BY <1>7, <2>20, TaskParts DEF ChainCreate
    <3>2. made' \in [Calls -> 0..MaxTasks] /\ task' \in TaskFun /\ work' \in Seq(Tasks)
      BY <3>1, Makes DEF TaskFun
    <3>3. cb' \in CbFun
      BY <1>6, <2>20 DEF ChainCreate, Active
    <3> QED
      BY <1>9, <1>11, <2>20, <3>2, <3>3 DEF ChainCreate, callbackRest, callVars, lockVars, countVars
  <2>21. ASSUME NEW t \in Tasks, ChainThen(t) PROVE Shapes'
    <3> DEFINE u == <<t[1], made[t[1]]>>
    <3>1. t[1] \in Calls
      BY TaskParts
    <3>2. u \in Tasks
      <4>1. made[t[1]] \in 0..MaxTasks /\ size[t[1]] \in 0..MaxTasks /\ made[t[1]] > size[t[1]]
        BY <1>9, <2>21, <3>1 DEF ChainThen, Makers
      <4>2. made[t[1]] \in 1..MaxTasks
        BY <4>1
      <4> QED
        BY <3>1, <4>2, IsTask
    <3>3. /\ cb' = [cb EXCEPT ![t] = "over", ![u] = IF task[u] \in Live THEN "set" ELSE "due"]
          /\ by' = [by EXCEPT ![u] = IF task[u] \in Live THEN "pool" ELSE by[t]]
          /\ listed' = listed \cup {u}
          /\ spent' = [spent EXCEPT ![t[1]] = TRUE]
      BY <2>21 DEF ChainThen, List
    <3> HIDE DEF u
    <3>4. cb' \in CbFun
      BY <1>1, <3>2, <3>3 DEF CbFun, Active
    <3>5. by' \in ByFun
      BY <1>1, <3>2, <3>3 DEF ByFun
    <3>6. listed' \subseteq Tasks /\ spent' \in [Calls -> BOOLEAN]
      BY <1>9, <3>1, <3>2, <3>3
    <3> QED
      BY <1>9, <1>11, <2>21, <3>4, <3>5, <3>6 DEF ChainThen, callVars, poolVars, countVars
  <2> QED
    BY <1>11, <2>1, <2>2, <2>3, <2>4, <2>5, <2>6, <2>7, <2>8, <2>9, <2>10, <2>11, <2>12, <2>13, <2>14,
       <2>15, <2>16, <2>17, <2>18, <2>19, <2>20, <2>21
    DEF Step, TNext, CallStep, CloserStep, CallbackStep
<1>12. Shapes' <=>
        (/\ call' \in CallRec
         /\ begun' \in 0..MaxReq
         /\ size' \in [Calls -> 0..MaxTasks] /\ made' \in [Calls -> 0..MaxTasks]
         /\ task' \in TaskFun
         /\ work' \in Seq(Tasks) /\ listed' \subseteq Tasks
         /\ executor' \in {"none", "up", "shut"}
         /\ noMore' \in BOOLEAN /\ locked' \in BOOLEAN
         /\ closer' \in {"idle", "drain", "wait", "closed"}
         /\ cb' \in CbFun
         /\ by' \in ByFun
         /\ loaded' \in [Tasks -> Nat] /\ responded' \in [Calls -> Nat]
         /\ fulfilled' \in [Calls -> Nat]
         /\ spent' \in [Calls -> BOOLEAN] /\ overlap' \in [Calls -> BOOLEAN])
  BY DEF Shapes, CallRec, TaskFun, CbFun, ByFun
<1> QED
  BY <1>10, <1>11, <1>12

-----------------------------------------------------------------------------
(* What happens to a task and to its callback.                             *)

\* A task is made, started, ended or cancelled, its callback set; or the
\* callback goes on.
Moves(t) ==
    \/ task'[t] = task[t] /\ cb'[t] = cb[t]
    \/ task[t] = "none" /\ task'[t] = "pending" /\ cb'[t] = cb[t]
    \/ task[t] = "pending" /\ task'[t] = "running" /\ cb'[t] = cb[t]
    \/ /\ task[t] \in Live /\ task'[t] \in Ended \cup {"unfit"}
       /\ cb'[t] = IF cb[t] = "set" THEN "due" ELSE cb[t]
    \/ /\ task'[t] = task[t] /\ task[t] # "none" /\ cb[t] = "none"
       /\ cb'[t] = IF task[t] \in Live THEN "set" ELSE "due"
    \/ task'[t] = task[t] /\ CallbackStep(t) /\ cb'[t] # "none" /\ cb'[t] # "set" /\ cb'[t] # "due"

\* The next state of the callback of the task whose callback it is.
LEMMA CallbackGoesOn ==
    ASSUME Shapes, Makers, NEW t \in Tasks, CallbackStep(t)
    PROVE  /\ \/ cb[t] = "due" /\ cb'[t] = "over" /\ task[t] = "unfit"
              \/ cb[t] = "due" /\ cb'[t] = "fulfil" /\ task[t] # "unfit" /\ Single(t)
              \/ cb[t] = "due" /\ cb'[t] = "store" /\ task[t] # "unfit" /\ ~Single(t)
              \/ cb[t] = "store" /\ cb'[t] = "compare"
              \/ cb[t] = "compare" /\ cb'[t] = IF AllResponded(t[1]) THEN "fulfil" ELSE "over"
              \/ cb[t] = "fulfil" /\ cb'[t] \in {"over", "callback"}
              \/ cb[t] \in {"callback", "failed"} /\ cb'[t] \in {"failed", "over"}
              \/ cb[t] = "callback" /\ cb'[t] = "admit"
              \/ cb[t] = "admit" /\ cb'[t] \in {"create", "failed"}
              \/ cb[t] = "create" /\ cb'[t] \in {"list", "failed"}
              \/ cb[t] = "list" /\ cb'[t] = "over"
           /\ \/ \A u \in Tasks : u # t => cb'[u] = cb[u]
              \/ /\ ChainThen(t)
                 /\ <<t[1], made[t[1]]>> \in Tasks /\ <<t[1], made[t[1]]>> # t
                 /\ cb[<<t[1], made[t[1]]>>] = "none"
                 /\ cb'[<<t[1], made[t[1]]>>] =
                      IF task[<<t[1], made[t[1]]>>] \in Live THEN "set" ELSE "due"
                 /\ \A u \in Tasks : u # t /\ u # <<t[1], made[t[1]]>> => cb'[u] = cb[u]
<1>1. cb \in [Tasks -> Active \cup {"none", "set", "over"}]
  BY DEF Shapes
<1>2. CASE Settle(t)
  BY <1>1, <1>2 DEF Settle
<1>3. CASE Store(t) \/ Compare(t) \/ Fulfil(t)
  BY <1>1, <1>3 DEF Store, Compare, Fulfil
<1>4. CASE Raise(t) \/ Return(t) \/ Chain(t) \/ ChainAdmit(t) \/ ChainCreate(t) \/ FailChain(t)
  BY <1>1, <1>4 DEF Raise, Return, Chain, ChainAdmit, ChainCreate, FailChain
<1>5. CASE ChainThen(t)
  <2> DEFINE u == <<t[1], made[t[1]]>>
  <2>1. cb[t] = "list"
    BY <1>5 DEF ChainThen
  <2>2. made[t[1]] > size[t[1]] /\ made[t[1]] > t[2] /\ cb[u] = "none"
    BY <2>1 DEF Makers
  <2>3. t[1] \in Calls /\ t[2] \in 1..MaxTasks
    BY TaskParts
  <2>4. made[t[1]] \in 0..MaxTasks
    BY <2>3 DEF Shapes
  <2>5. made[t[1]] \in 1..MaxTasks
    BY <2>2, <2>3, <2>4
  <2>6. u \in Tasks /\ u[2] = made[t[1]]
    BY <2>3, <2>5, IsTask
  <2>7. u # t
    BY <2>2, <2>3, <2>4, <2>6
  <2>8. cb' = [cb EXCEPT ![t] = "over", ![u] = IF task[u] \in Live THEN "set" ELSE "due"]
    BY <1>5 DEF ChainThen
  <2>9. cb'[t] = "over" /\ cb'[u] = (IF task[u] \in Live THEN "set" ELSE "due")
        /\ \A v \in Tasks : v # t /\ v # u => cb'[v] = cb[v]
    <3> HIDE DEF u
    <3> QED
      BY <1>1, <2>6, <2>7, <2>8
  <2> QED
    BY <1>5, <2>1, <2>2, <2>6, <2>7, <2>9
<1> QED
  BY <1>2, <1>3, <1>4, <1>5 DEF CallbackStep

\* Every step moves every task in one of these ways.
LEMMA TasksMove ==
    ASSUME Shapes, AtCall, Makers, Pool, Callbacks, [Step]_tvars, NEW t \in Tasks
    PROVE  Moves(t)
<1> USE TaskFuturesAssumption
<1>1. /\ cb \in [Tasks -> Active \cup {"none", "set", "over"}]
      /\ task \in [Tasks -> Live \cup {"none", "ended", "unfit", "cancelled"}]
  BY DEF Shapes
<1>2. /\ call.pc # "idle" => call.of \in Calls
      /\ call.pc \in {"admit", "create"} => made[call.of] < MaxTasks
      /\ \A u \in Tasks : cb[u] \in {"admit", "create"} => made[u[1]] < MaxTasks
  BY MayMake
\* A new task.
<1>3. ASSUME NEW c \in Calls, made[c] < MaxTasks, Submit(c)
      PROVE  \A u \in Tasks : task'[u] = task[u] \/ (task[u] = "none" /\ task'[u] = "pending")
  <2>1. <<c, made[c] + 1>> \in Tasks /\ task'[<<c, made[c] + 1>>] = "pending"
        /\ \A u \in Tasks : u # <<c, made[c] + 1>> => task'[u] = task[u]
    BY <1>3, Makes
  <2>2. task[<<c, made[c] + 1>>] = "none"
    <3>1. made[c] \in 0..MaxTasks
      BY DEF Shapes
    <3>2. made[c] + 1 \in 1..MaxTasks
      BY <1>3, <3>1
    <3>3. <<c, made[c] + 1>>[1] = c /\ <<c, made[c] + 1>>[2] = made[c] + 1
      OBVIOUS
    <3> QED
      BY <2>1, <3>1, <3>3 DEF Pool
  <2> QED
    BY <2>1, <2>2
<1>4. CASE UNCHANGED <<task, cb>>
  BY <1>4 DEF Moves
<1>5. CASE Begin \/ AdmitTask \/ ListTask \/ FailCall \/ NoContext \/ Then \/ Attached
           \/ Shutdown \/ Drained \/ Closed \/ UNCHANGED tvars
  BY <1>4, <1>5 DEF Begin, AdmitTask, ListTask, FailCall, NoContext, Then, Attached, Shutdown, Drained, Closed,
     tvars, callVars, poolVars, lockVars, futureVars
<1>6. CASE CreateTask
  <2>1. call.of \in Calls /\ made[call.of] < MaxTasks /\ Submit(call.of) /\ cb' = cb
    BY <1>2, <1>6 DEF CreateTask, futureVars
  <2> QED
    BY <1>3, <2>1 DEF Moves
<1>7. CASE Attach
  <2> DEFINE u == <<call.of, call.at>>
  <2>1. call.of \in Calls /\ call.at \in Own(call.of) /\ made[call.of] >= size[call.of]
    BY <1>2, <1>7 DEF Attach, AtCall
  <2>2. size[call.of] \in 0..MaxTasks /\ made[call.of] \in 0..MaxTasks
    BY <2>1 DEF Shapes
  <2>3. call.at \in 1..MaxTasks /\ call.at <= made[call.of]
    BY <2>1, <2>2 DEF Own
  <2>4. u \in Tasks /\ u[1] = call.of /\ u[2] = call.at
    BY <2>1, <2>3, IsTask
  <2>5. task[u] # "none"
    BY <2>2, <2>3, <2>4 DEF Pool
  <2>6. cb[u] = "none"
    BY <1>7, <2>1, <2>4 DEF Attach, AtCall
  <2>7. cb' = [cb EXCEPT ![u] = IF task[u] \in Live THEN "set" ELSE "due"] /\ task' = task
    BY <1>7 DEF Attach, SetCallback, poolVars
  <2> HIDE DEF u
  <2> QED
    BY <1>1, <2>4, <2>5, <2>6, <2>7 DEF Moves
<1>8. ASSUME Start \/ Cancel PROVE Head(work) \in Tasks /\ task[Head(work)] = "pending"
  <2>1. work \in Seq(Tasks) /\ work # <<>>
    BY <1>8 DEF Start, Cancel, Shapes
  <2>2. Head(work) \in Tasks /\ Head(work) = work[1] /\ Len(work) > 0 /\ Len(work) \in Nat
    BY <2>1, HeadTailProperties
  <2>3. 1 \in 1..Len(work)
    BY <2>2
  <2> QED
    BY <2>2, <2>3 DEF Pool
<1>9. CASE Start
  BY <1>1, <1>8, <1>9 DEF Start, futureVars, Moves
<1>10. CASE Cancel
  <2> DEFINE u == Head(work)
  <2>1. u \in Tasks /\ task[u] = "pending"
    BY <1>8, <1>10
  <2>2. task' = [task EXCEPT ![u] = "cancelled"] /\ cb' = [cb EXCEPT ![u] = IF cb[u] = "set" THEN "due" ELSE cb[u]]
    BY <1>10 DEF Cancel
  <2> HIDE DEF u
  <2> QED
    BY <1>1, <2>1, <2>2 DEF Moves, Live, Ended
<1>11. ASSUME NEW u \in Tasks, End(u) PROVE Moves(t)
  BY <1>1, <1>11 DEF End, Moves, Live, Ended
<1>12. ASSUME NEW u \in Tasks, CallbackStep(u) PROVE Moves(t)
  \* Only ChainCreate makes a task, one that is not yet there.
  <2>1. task'[t] = task[t] \/ (task[t] = "none" /\ task'[t] = "pending" /\ u # t /\ cb'[t] = cb[t])
    <3>1. CASE ChainCreate(u)
      <4>1. cb[u] = "create" /\ u[1] \in Calls /\ made[u[1]] < MaxTasks /\ Submit(u[1])
            /\ cb' = [cb EXCEPT ![u] = "list"]
        BY <1>2, <3>1, TaskParts DEF ChainCreate
      <4>2. task[u] # "none"
        BY <4>1 DEF Callbacks, Ended
      <4> QED
        BY <1>1, <1>3, <4>1, <4>2
    <3>2. CASE ~ChainCreate(u)
      <4>1. task' = task
        BY <1>12, <3>2 DEF CallbackStep, Settle, Store, Compare, Fulfil, Raise, Return, Chain, ChainAdmit,
           ChainThen, FailChain, poolVars
      <4> QED
        BY <4>1
    <3> QED
      BY <3>1, <3>2
  <2>2. CASE u = t
    <3>1. cb'[t] # "none" /\ cb'[t] # "set" /\ cb'[t] # "due"
      BY <1>12, <2>2, CallbackGoesOn
    <3> QED
      BY <1>12, <2>1, <2>2, <3>1 DEF Moves
  <2>3. CASE u # t /\ cb'[t] = cb[t]
    BY <2>1, <2>3 DEF Moves
  <2>4. CASE u # t /\ cb'[t] # cb[t]
    <3>1. /\ ChainThen(u) /\ t = <<u[1], made[u[1]]>> /\ cb[t] = "none"
          /\ cb'[t] = IF task[t] \in Live THEN "set" ELSE "due"
      BY <1>12, <2>4, CallbackGoesOn
    <3>2. task' = task
      BY <3>1 DEF ChainThen, poolVars
    <3>3. made[u[1]] \in 0..MaxTasks
      BY TaskParts DEF Shapes
    <3>4. t[1] = u[1] /\ t[2] = made[u[1]]
      BY <3>1
    <3>5. task[t] # "none"
      BY <3>3, <3>4 DEF Pool
    <3> QED
      BY <3>1, <3>2, <3>5 DEF Moves
  <2> QED
    BY <2>2, <2>3, <2>4
<1> QED
  BY <1>5, <1>6, <1>7, <1>9, <1>10, <1>11, <1>12 DEF Step, TNext, CallStep, CloserStep

\* A call gets its size when it begins, and only makes more tasks.
LEMMA SizesStay ==
    ASSUME Shapes, AtCall, Makers, [Step]_tvars, NEW c \in Calls
    PROVE  /\ size'[c] = size[c] \/ (Begin /\ c = begun + 1)
           /\ made'[c] \in Nat /\ made[c] \in Nat /\ made'[c] >= made[c]
           /\ \/ made'[c] = made[c]
              \/ CreateTask /\ c = call.of /\ made'[c] = made[c] + 1
              \/ \E t \in Tasks : ChainCreate(t) /\ c = t[1] /\ made'[c] = made[c] + 1
<1>1. size \in [Calls -> 0..MaxTasks] /\ made \in [Calls -> 0..MaxTasks]
  BY DEF Shapes
<1>2. made[c] \in Nat /\ MaxTasks \in Nat
  BY <1>1, TaskFuturesAssumption
<1>3. CASE Begin
  <2>1. PICK n \in Sizes[begun + 1] : size' = [size EXCEPT ![begun + 1] = n]
    BY <1>3 DEF Begin
  <2>2. made' = made
    BY <1>3 DEF Begin, poolVars
  <2> QED
    BY <1>1, <1>2, <1>3, <2>1, <2>2
<1>4. CASE CreateTask
  <2>1. call.of \in Calls /\ made[call.of] < MaxTasks /\ Submit(call.of)
    BY <1>4, MayMake DEF CreateTask
  <2>2. made'[call.of] = made[call.of] + 1 /\ \A d \in Calls : d # call.of => made'[d] = made[d]
    BY <2>1, Makes
  <2>3. size' = size
    BY <1>4 DEF CreateTask
  <2> QED
    BY <1>2, <1>4, <2>2, <2>3
<1>5. ASSUME NEW t \in Tasks, ChainCreate(t)
      PROVE  size' = size /\ (made'[c] = made[c] \/ (c = t[1] /\ made'[c] = made[c] + 1))
  <2>1. t[1] \in Calls /\ made[t[1]] < MaxTasks /\ Submit(t[1])
    BY <1>5, MayMake, TaskParts DEF ChainCreate
  <2>2. made'[t[1]] = made[t[1]] + 1 /\ \A d \in Calls : d # t[1] => made'[d] = made[d]
    BY <2>1, Makes
  <2>3. size' = size
    BY <1>5 DEF ChainCreate, callbackRest, callVars
  <2> QED
    BY <2>2, <2>3
<1>6. ASSUME NEW t \in Tasks, CallbackStep(t), ~ChainCreate(t)
      PROVE  size' = size /\ made' = made
  BY <1>6 DEF CallbackStep, Settle, Store, Compare, Fulfil, Raise, Return, Chain, ChainAdmit, ChainThen, FailChain,
     callbackRest, callVars, poolVars
<1>7. ASSUME size' = size /\ made' = made
      PROVE  size'[c] = size[c] /\ made'[c] = made[c] /\ made'[c] \in Nat /\ made'[c] >= made[c]
  BY <1>2, <1>7
<1>8. CASE AdmitTask \/ ListTask \/ FailCall \/ NoContext \/ Then \/ Attach \/ Attached
           \/ Start \/ Shutdown \/ CloserStep \/ (\E t \in Tasks : End(t)) \/ UNCHANGED tvars
  <2>1. size' = size /\ made' = made
    BY <1>8 DEF AdmitTask, ListTask, FailCall, NoContext, Then, Attach, Attached, Start, Shutdown, CloserStep,
       Cancel, Drained, Closed, End, callVars, poolVars, lockVars, futureVars, tvars
  <2> QED
    BY <1>7, <2>1
<1>9. CASE \E t \in Tasks : CallbackStep(t)
  <2>1. PICK t \in Tasks : CallbackStep(t)
    BY <1>9
  <2>2. CASE ChainCreate(t)
    BY <1>2, <1>5, <2>2
  <2>3. CASE ~ChainCreate(t)
    BY <1>6, <1>7, <2>1, <2>3
  <2> QED
    BY <2>2, <2>3
<1> QED
  BY <1>3, <1>4, <1>8, <1>9 DEF Step, TNext, CallStep

\* A call whose tasks have callbacks keeps its size.
LEMMA SizeKept ==
    ASSUME Shapes, AtCall, Makers, [Step]_tvars, NEW t \in Tasks, cb[t] # "none" \/ size[t[1]] > 0
    PROVE  size'[t[1]] = size[t[1]] /\ Own(t[1])' = Own(t[1])
<1>1. t[1] \in Calls
  BY TaskParts
<1>2. t[1] \in Int /\ begun \in Int
  BY <1>1, TaskFuturesAssumption DEF Calls, Shapes
<1>3. size[t[1]] \in Int
  BY <1>1 DEF Shapes
<1>4. ~(Begin /\ t[1] = begun + 1)
  <2>1. CASE t[1] = begun + 1
    <3>1. t[1] > begun
      BY <1>2, <2>1
    <3>2. cb[t] = "none" /\ size[t[1]] = 0
      BY <1>1, <3>1 DEF AtCall
    <3> QED
      BY <1>3, <3>2
  <2> QED
    BY <2>1
<1>5. size'[t[1]] = size[t[1]]
  BY <1>1, <1>4, SizesStay
<1> QED
  BY <1>5 DEF Own

\* Every step keeps Callbacks.
LEMMA CallbacksStep ==
    ASSUME Shapes, AtCall, Makers, Pool, Callbacks, [Step]_tvars PROVE Callbacks'
<1>1. \A t \in Tasks : Moves(t)
  BY TasksMove
<1>2. ASSUME NEW t \in Tasks, CallbackStep(t)
      PROVE  \/ cb[t] = "due" /\ cb'[t] = "over" /\ task[t] = "unfit"
             \/ cb[t] = "due" /\ cb'[t] = "fulfil" /\ task[t] # "unfit"
             \/ cb[t] = "due" /\ cb'[t] = "store" /\ task[t] # "unfit" /\ ~Single(t)
             \/ cb[t] = "store" /\ cb'[t] = "compare"
             \/ cb[t] \notin {"none", "set", "due", "over"} /\ cb'[t] \notin {"none", "set", "due", "store", "compare"}
  <2>1. CASE cb[t] = "compare"
    BY <1>2, <2>1, CallbackGoesOn
  <2>2. CASE cb[t] # "compare"
    BY <1>2, <2>2, CallbackGoesOn
  <2> QED
    BY <2>1, <2>2
<1>3. ASSUME NEW t \in Tasks
      PROVE  /\ cb'[t] = "set" => task'[t] \in Live
             /\ cb'[t] \notin {"none", "set"} => task'[t] \in Ended \cup {"unfit"}
             /\ cb'[t] \notin {"none", "set", "due", "over"} => task'[t] # "unfit"
             /\ cb'[t] \in {"store", "compare"} => Counting(t) \/ (cb[t] # "none" /\ ~Single(t))
  <2>1. /\ cb[t] = "set" => task[t] \in Live
        /\ cb[t] \notin {"none", "set"} => task[t] \in Ended \cup {"unfit"}
        /\ cb[t] \notin {"none", "set", "due", "over"} => task[t] # "unfit"
    BY DEF Callbacks
  <2>2. task[t] \in Live \cup {"none", "ended", "unfit", "cancelled"}
    BY DEF Shapes
  <2>3. CASE CallbackStep(t) /\ task'[t] = task[t]
    BY <1>2, <2>1, <2>3 DEF Counting, Live, Ended
  <2>4. CASE ~(CallbackStep(t) /\ task'[t] = task[t])
    BY <1>1, <2>1, <2>2, <2>4 DEF Moves, Counting, Live, Ended
  <2> QED
    BY <2>3, <2>4
<1>4. ASSUME NEW t \in Tasks, cb'[t] \in {"store", "compare"}
      PROVE  t[2] \in Own(t[1])' /\ size'[t[1]] > 1
  <2>1. cb[t] # "none"
    BY <1>3, <1>4 DEF Counting
  <2>2. size'[t[1]] = size[t[1]] /\ Own(t[1])' = Own(t[1])
    BY <2>1, SizeKept
  <2>3. CASE Counting(t)
    BY <2>2, <2>3 DEF Callbacks
  <2>4. CASE ~Single(t)
    <3>1. t[1] \in Calls /\ t[2] \in 1..MaxTasks
      BY TaskParts
    <3>2. size[t[1]] \in 0..MaxTasks /\ MaxTasks \in Nat
      BY <3>1, TaskFuturesAssumption DEF Shapes
    <3> QED
      BY <2>2, <2>4, <3>1, <3>2 DEF Single, Own
  <2> QED
    BY <1>3, <1>4, <2>3, <2>4
<1> QED
  BY <1>3, <1>4 DEF Callbacks, Counting

-----------------------------------------------------------------------------
(* Who sets a callback, and who makes a task.                              *)

\* A callback is set by Futures.then, or by the callback that made the task.
LEMMA CallbackIsSet ==
    ASSUME Shapes, AtCall, Makers, Pool, Callbacks, [Step]_tvars,
           NEW t \in Tasks, cb[t] = "none", cb'[t] # "none"
    PROVE  \/ Attach /\ t = <<call.of, call.at>>
           \/ \E u \in Tasks : ChainThen(u) /\ t[1] = u[1] /\ t[2] = made[u[1]]
<1>1. cb \in [Tasks -> Active \cup {"none", "set", "over"}]
  BY DEF Shapes
<1>2. CASE Attach
  <2> DEFINE u == <<call.of, call.at>>
  <2>1. cb' = [cb EXCEPT ![u] = IF task[u] \in Live THEN "set" ELSE "due"]
    BY <1>2 DEF Attach, SetCallback
  <2> HIDE DEF u
  <2>2. t = u
    BY <1>1, <2>1
  <2> QED
    BY <1>2, <2>2 DEF u
<1>3. ASSUME NEW u \in Tasks, CallbackStep(u)
      PROVE  ChainThen(u) /\ t[1] = u[1] /\ t[2] = made[u[1]]
  <2>1. cb[u] # "none"
    BY <1>3, CallbackGoesOn
  <2>2. u # t /\ cb'[t] # cb[t]
    BY <2>1
  <2>3. ChainThen(u) /\ t = <<u[1], made[u[1]]>>
    BY <1>3, <2>2, CallbackGoesOn
  <2> QED
    BY <2>3
<1>4. CASE Begin \/ AdmitTask \/ CreateTask \/ ListTask \/ FailCall \/ NoContext \/ Then \/ Attached
           \/ Start \/ Shutdown \/ Drained \/ Closed \/ UNCHANGED tvars
  <2>1. cb' = cb
    BY <1>4 DEF Begin, AdmitTask, CreateTask, ListTask, FailCall, NoContext, Then, Attached,
       Start, Shutdown, Drained, Closed, futureVars, tvars
  <2> QED
    BY <2>1
<1>5. CASE Cancel \/ \E u \in Tasks : End(u)
  <2>1. PICK u : cb' = [cb EXCEPT ![u] = IF cb[u] = "set" THEN "due" ELSE cb[u]]
    BY <1>5 DEF Cancel, End
  <2>2. cb'[t] = cb[t]
    BY <1>1, <2>1
  <2> QED
    BY <2>2
<1> QED
  BY <1>2, <1>3, <1>4, <1>5 DEF Step, TNext, CallStep, CloserStep

\* A callback begins to make a task when nobody else makes one for its call.
LEMMA BeginsToMake ==
    ASSUME Shapes, AtCall, Makers, Pool, Callbacks, [Step]_tvars,
           NEW t \in Tasks, cb'[t] \in Making
    PROVE  \/ cb[t] \in Making
           \/ Chain(t) /\ made' = made /\ \A u \in Tasks : u # t => cb'[u] = cb[u]
<1>1. CASE ~CallbackStep(t)
  BY <1>1, TasksMove DEF Moves, Making
<1>2. CASE CallbackStep(t) /\ cb[t] \notin Making
  <2>1. cb[t] = "callback" /\ cb'[t] = "admit"
    BY <1>2, CallbackGoesOn DEF Making
  <2>2. Chain(t)
    BY <1>2, <2>1 DEF CallbackStep, Settle, Store, Compare, Fulfil, Raise, Return, ChainAdmit, ChainCreate,
       ChainThen, FailChain, Shapes
  <2> QED
    BY <2>2 DEF Chain, Shapes, poolVars
<1> QED
  BY <1>1, <1>2

\* While a callback makes a task, nobody else makes one for its call.
LEMMA MakesAlone ==
    ASSUME Shapes, AtCall, Makers, [Step]_tvars,
           NEW t \in Tasks, cb[t] \in Making, ~ChainCreate(t)
    PROVE  made'[t[1]] = made[t[1]]
<1>1. t[1] \in Calls
  BY TaskParts
<1>2. ~(CreateTask /\ t[1] = call.of)
  BY DEF CreateTask, AtCall, Making
<1>3. ASSUME NEW u \in Tasks, ChainCreate(u), t[1] = u[1] PROVE FALSE
  <2>1. cb[u] \in Making
    BY <1>3 DEF ChainCreate, Making
  <2> QED
    BY <1>3, <2>1 DEF Makers
<1> QED
  BY <1>1, <1>2, <1>3, SizesStay

\* Every step keeps Makers.
LEMMA MakersStep ==
    ASSUME Shapes, AtCall, Makers, Pool, Callbacks, [Step]_tvars PROVE Makers'
<1>1. ASSUME NEW t \in Tasks, NEW u \in Tasks, t[1] = u[1], cb'[t] \in Making, cb'[u] \in Making
      PROVE  t = u
  <2>1. CASE cb[t] \in Making /\ cb[u] \in Making
    BY <1>1, <2>1 DEF Makers
  <2>2. ASSUME NEW v \in Tasks, NEW w \in Tasks, v[1] = w[1], cb'[v] \in Making, cb'[w] \in Making,
               cb[v] \notin Making
        PROVE  v = w
    <3>1. Chain(v) /\ \A x \in Tasks : x # v => cb'[x] = cb[x]
      BY <2>2, BeginsToMake
    <3>2. w # v => cb[w] \in Making
      BY <2>2, <3>1
    <3> QED
      BY <2>2, <3>1, <3>2 DEF Chain, Making
  <2> QED
    BY <1>1, <2>1, <2>2
<1>2. ASSUME NEW t \in Tasks
      PROVE  made[t[1]] \in Nat /\ size[t[1]] \in Nat /\ made'[t[1]] \in Nat /\ made'[t[1]] >= made[t[1]]
             /\ t[1] \in Calls /\ t[2] \in 1..MaxTasks /\ t[2] \in Nat
  <2>1. t[1] \in Calls /\ t[2] \in 1..MaxTasks
    BY TaskParts
  <2>2. size[t[1]] \in Nat
    BY <2>1 DEF Shapes
  <2>3. t[2] \in Nat
    BY <2>1
  <2> QED
    BY <2>1, <2>2, <2>3, SizesStay
<1>3. ASSUME NEW t \in Tasks, cb'[t] # "none" PROVE made'[t[1]] >= size'[t[1]]
  <2>1. CASE cb[t] # "none"
    <3>1. made[t[1]] >= size[t[1]] /\ size'[t[1]] = size[t[1]]
      BY <2>1, SizeKept DEF Makers
    <3> QED
      BY <1>2, <3>1
  <2>2. CASE cb[t] = "none"
    <3>1. CASE Attach /\ t = <<call.of, call.at>>
      <4>1. made[call.of] >= size[call.of] /\ made' = made /\ size' = size /\ t[1] = call.of
        BY <3>1 DEF Attach, AtCall, poolVars
      <4> QED
        BY <4>1
    <3>2. ASSUME NEW u \in Tasks, ChainThen(u), t[1] = u[1] PROVE made'[t[1]] >= size'[t[1]]
      <4>1. made' = made /\ size' = size /\ cb[u] = "list"
        BY <3>2 DEF ChainThen, poolVars, callVars
      <4>2. made[u[1]] >= size[u[1]]
        BY <4>1 DEF Makers
      <4> QED
        BY <3>2, <4>1, <4>2
    <3> QED
      BY <1>3, <2>2, <3>1, <3>2, CallbackIsSet
  <2> QED
    BY <2>1, <2>2
<1>4. ASSUME NEW t \in Tasks, cb'[t] \in {"admit", "create"} PROVE made'[t[1]] < MaxTasks
  <2>1. CASE cb[t] \in Making
    <3>1. cb[t] # "list"
      BY <1>4, TasksMove, CallbackGoesOn, <2>1 DEF Moves, Making
    <3>2. ~ChainCreate(t)
      BY <1>4 DEF ChainCreate, Shapes
    <3>3. made'[t[1]] = made[t[1]]
      BY <2>1, <3>2, MakesAlone
    <3> QED
      BY <2>1, <3>1, <3>3 DEF Makers, Making
  <2>2. CASE cb[t] \notin Making
    <3>1. Chain(t) /\ made' = made
      BY <1>4, <2>2, BeginsToMake DEF Making
    <3> QED
      BY <3>1 DEF Chain
  <2> QED
    BY <2>1, <2>2
<1>5. ASSUME NEW t \in Tasks, cb'[t] = "list"
      PROVE  /\ made'[t[1]] > size'[t[1]] /\ made'[t[1]] > t[2]
             /\ cb'[<<t[1], made'[t[1]]>>] = "none"
  <2>1. cb[t] \in Making
    <3>1. CASE Chain(t)
      BY <1>5, <3>1 DEF Chain, Shapes
    <3> QED
      BY <1>5, <3>1, BeginsToMake DEF Making
  <2>2. size'[t[1]] = size[t[1]]
    BY <2>1, SizeKept DEF Making
  <2>3. CASE ChainCreate(t)
    <3> DEFINE w == <<t[1], made[t[1]] + 1>>
    <3>1. t[1] \in Calls /\ made[t[1]] < MaxTasks /\ Submit(t[1]) /\ cb[t] = "create"
          /\ cb' = [cb EXCEPT ![t] = "list"]
      BY <2>3, MayMake, TaskParts DEF ChainCreate
    <3>2. w \in Tasks /\ made'[t[1]] = made[t[1]] + 1
      BY <3>1, Makes
    <3>3. w[1] = t[1] /\ w[2] = made[t[1]] + 1
      OBVIOUS
    <3>4. task[w] = "none"
      BY <1>2, <3>2, <3>3 DEF Pool
    <3>5. cb[w] = "none"
      BY <3>2, <3>4 DEF Callbacks, Live, Ended
    <3>6. task[t] # "none"
      BY <3>1 DEF Callbacks, Ended
    <3>7. t[2] <= made[t[1]] /\ made[t[1]] >= size[t[1]]
      BY <1>2, <3>1, <3>6 DEF Pool, Makers
    <3> HIDE DEF w
    <3>8. cb'[w] = "none"
      BY <3>1, <3>2, <3>5 DEF Shapes
    <3> QED
      BY <1>2, <2>2, <3>2, <3>7, <3>8 DEF w
  <2>4. CASE ~ChainCreate(t)
    <3> DEFINE w == <<t[1], made[t[1]]>>
    <3>1. made'[t[1]] = made[t[1]]
      BY <2>1, <2>4, MakesAlone
    <3>2. cb[t] = "list"
      <4>1. CASE cb[t] = "create" /\ CallbackStep(t)
        BY <1>5, <2>4, <4>1 DEF CallbackStep, Settle, Store, Compare, Fulfil, Raise, Return, Chain, ChainAdmit,
           ChainThen, FailChain, Shapes
      <4>2. CASE ~(cb[t] = "create" /\ CallbackStep(t))
        BY <1>5, <2>1, <4>2, TasksMove, CallbackGoesOn DEF Moves, Making
      <4> QED
        BY <4>1, <4>2
    <3>3. made[t[1]] > size[t[1]] /\ made[t[1]] > t[2] /\ cb[w] = "none"
      BY <3>2 DEF Makers
    <3>4. w \in Tasks /\ w[1] = t[1] /\ w[2] = made[t[1]]
      <4>1. made[t[1]] \in 0..MaxTasks
        BY <1>2 DEF Shapes
      <4>2. made[t[1]] \in 1..MaxTasks
        BY <1>2, <3>3, <4>1
      <4> QED
        BY <1>2, <4>2, IsTask
    <3>5. cb'[w] = "none"
      <4> SUFFICES ASSUME cb'[w] # "none" PROVE FALSE
        OBVIOUS
      <4>1. CASE Attach /\ w = <<call.of, call.at>>
        <5>1. call.at \in Own(call.of) /\ t[1] = call.of /\ call.at = made[t[1]]
          BY <3>4, <4>1 DEF Attach, AtCall
        <5> QED
          BY <1>2, <3>3, <5>1 DEF Own
      <4>2. ASSUME NEW u \in Tasks, ChainThen(u), w[1] = u[1] PROVE FALSE
        <5>1. cb[u] = "list"
          BY <4>2 DEF ChainThen
        <5>2. u = t
          BY <3>2, <3>4, <4>2, <5>1 DEF Makers, Making
        <5>3. cb'[t] = "over"
          BY <4>2, <5>1, <5>2, CallbackGoesOn DEF CallbackStep
        <5> QED
          BY <1>5, <5>3
      <4> QED
        BY <3>3, <3>4, <4>1, <4>2, CallbackIsSet
    <3> QED
      BY <2>2, <3>1, <3>3, <3>5
  <2> QED
    BY <2>3, <2>4
<1> QED
  BY <1>1, <1>3, <1>4, <1>5 DEF Makers

-----------------------------------------------------------------------------
(* The request thread.                                                     *)

\* Calls that have not begun have no counts yet.
NotBegun ==
    /\ \A c \in Calls : c > begun =>
         size[c] = 0 /\ made[c] = 0 /\ responded[c] = 0 /\ fulfilled[c] = 0
    /\ \A t \in Tasks : t[1] > begun => cb[t] = "none"

\* A step that leaves the call where it is keeps what is so of it.
LEMMA CallRests ==
    ASSUME Shapes, AtCall, Makers, Pool, Callbacks, [Step]_tvars, UNCHANGED callVars
    PROVE  AtCall'
<1>1. call' = call /\ begun' = begun /\ size' = size
  BY DEF callVars
<1>2. begun \in 0..MaxReq /\ MaxReq \in Nat /\ begun \in Nat
  BY TaskFuturesAssumption DEF Shapes
<1>3. \A c \in Calls : c \in Nat /\ made[c] \in Nat /\ made'[c] \in Nat /\ made'[c] >= made[c] /\ size[c] \in Nat
  <2> TAKE c \in Calls
  <2>1. c \in Nat /\ size[c] \in Nat
    BY TaskFuturesAssumption DEF Calls, Shapes
  <2>2. made'[c] \in Nat /\ made[c] \in Nat /\ made'[c] >= made[c]
    BY SizesStay
  <2> QED
    BY <2>1, <2>2
<1>4. call.pc # "idle" => call.of \in Calls
  BY MayMake
<1>5. ~CreateTask /\ ~Attach
  BY <1>1 DEF CreateTask, Attach, Shapes
<1>6. ASSUME NEW c \in Calls, c > begun \/ (c = call.of /\ call.pc \in {"admit", "create", "list", "then"})
      PROVE  /\ \A t \in Tasks : t[1] = c => cb[t] = "none"
             /\ made'[c] = made[c] /\ responded'[c] = responded[c] /\ fulfilled'[c] = fulfilled[c]
  <2>1. \A t \in Tasks : t[1] = c => cb[t] = "none"
    BY <1>6 DEF AtCall
  <2>2. made'[c] = made[c]
    <3>1. ~ \E t \in Tasks : ChainCreate(t) /\ c = t[1]
      BY <2>1 DEF ChainCreate
    <3> QED
      BY <1>5, <3>1, SizesStay
  <2>3. ASSUME NEW t \in Tasks, CallbackStep(t) PROVE t[1] # c
    <3>1. cb[t] # "none"
      BY <2>3, CallbackGoesOn
    <3> QED
      BY <2>1, <3>1
  <2>4. responded'[c] = responded[c] /\ fulfilled'[c] = fulfilled[c]
    <3>1. CASE \E t \in Tasks : CallbackStep(t)
      <4>1. PICK t \in Tasks : CallbackStep(t)
        BY <3>1
      <4>2. t[1] # c /\ t[1] \in Calls
        BY <2>3, <4>1, TaskParts
      <4>3. /\ responded' = responded \/ \E n : responded' = [responded EXCEPT ![t[1]] = n]
            /\ fulfilled' = fulfilled \/ \E n : fulfilled' = [fulfilled EXCEPT ![t[1]] = n]
        BY <4>1 DEF CallbackStep, Settle, Store, Compare, Fulfil, Raise, Return, Chain, ChainAdmit, ChainCreate,
           ChainThen, FailChain, countVars
      <4> QED
        BY <4>2, <4>3 DEF Shapes
    <3>2. CASE ~ \E t \in Tasks : CallbackStep(t)
      <4>1. responded' = responded /\ fulfilled' = fulfilled
        BY <3>2 DEF Step, TNext, CallStep, CloserStep, Begin, AdmitTask, CreateTask, ListTask, FailCall,
           NoContext, Then, Attach, Attached, Start, Shutdown, Cancel, Drained, Closed, End,
           futureVars, countVars, tvars
      <4> QED
        BY <4>1
    <3> QED
      BY <3>1, <3>2
  <2> QED
    BY <2>1, <2>2, <2>4
<1>7. ASSUME NEW t \in Tasks, cb[t] = "none", cb'[t] # "none"
      PROVE  \E u \in Tasks : cb[u] = "list" /\ t[1] = u[1] /\ t[2] = made[u[1]]
  <2>1. PICK u \in Tasks : ChainThen(u) /\ t[1] = u[1] /\ t[2] = made[u[1]]
    BY <1>5, <1>7, CallbackIsSet
  <2> QED
    BY <2>1 DEF ChainThen
<1>8. call'.pc # "idle" => call'.of \in 1..begun' /\ size'[call'.of] >= 1
  BY <1>1 DEF AtCall
<1>9. /\ call'.pc \in {"admit", "create"} => made'[call'.of] < size'[call'.of]
      /\ call'.pc = "list" => made'[call'.of] >= 1
  BY <1>1, <1>4, <1>6 DEF AtCall
<1>10. call'.pc \in {"then", "attach", "attached"} => made'[call'.of] >= size'[call'.of]
  BY <1>1, <1>3, <1>4 DEF AtCall
<1>11. call'.pc \in {"attach", "attached"} => call'.at \in Own(call.of)'
  BY <1>1 DEF AtCall, Own
<1>12. call'.pc \in {"admit", "create", "list", "then"} =>
         \A t \in Tasks : t[1] = call'.of => cb'[t] = "none"
  BY <1>1, <1>4, <1>6, <1>7
<1>13. call'.pc \in {"attach", "attached"} =>
         \A t \in Tasks : t[1] = call'.of /\ t[2] \in Own(call.of)'
                          /\ (t[2] > call'.at \/ (t[2] = call'.at /\ call'.pc = "attach"))
                            => cb'[t] = "none"
  <2> SUFFICES ASSUME call.pc \in {"attach", "attached"}, NEW t \in Tasks, t[1] = call.of, t[2] \in Own(call.of),
                      t[2] > call.at \/ (t[2] = call.at /\ call.pc = "attach"), cb'[t] # "none"
               PROVE  FALSE
    BY <1>1 DEF Own
  <2>1. cb[t] = "none"
    BY DEF AtCall
  <2>2. PICK u \in Tasks : cb[u] = "list" /\ t[1] = u[1] /\ t[2] = made[u[1]]
    BY <1>7, <2>1
  <2>3. t[2] > size[t[1]]
    BY <2>2 DEF Makers
  <2>4. size[t[1]] \in Nat /\ t[2] <= size[t[1]]
    BY <1>3, TaskParts DEF Own
  <2> QED
    BY <1>3, <2>2, <2>3, <2>4, TaskParts
<1>14. NotBegun'
  <2>1. \A c \in Calls : c > begun =>
          size[c] = 0 /\ made[c] = 0 /\ responded[c] = 0 /\ fulfilled[c] = 0
    BY DEF AtCall
  <2>2. ASSUME NEW t \in Tasks, t[1] > begun PROVE cb'[t] = "none"
    <3>1. t[1] \in Calls
      BY TaskParts
    <3> QED
      BY <1>6, <1>7, <2>2, <3>1
  <2> QED
    BY <1>1, <1>6, <2>1, <2>2 DEF NotBegun
<1> QED
  BY <1>1, <1>8, <1>9, <1>10, <1>11, <1>12, <1>13, <1>14 DEF AtCall, NotBegun, Own

\* Every step keeps AtCall.
LEMMA AtCallStep ==
    ASSUME Shapes, AtCall, Makers, Pool, Callbacks, [Step]_tvars PROVE AtCall'
<1>1. begun \in 0..MaxReq /\ MaxReq \in Nat /\ begun \in Nat
  BY TaskFuturesAssumption DEF Shapes
<1>2. \A c \in Calls : c \in Nat /\ made[c] \in 0..MaxTasks /\ size[c] \in 0..MaxTasks
                       /\ made[c] \in Nat /\ size[c] \in Nat
  BY <1>1 DEF Calls, Shapes
<1>3. call.pc # "idle" => call.of \in Calls
  BY MayMake
<1>4. call \in [pc : {"idle", "admit", "create", "list", "then", "attach", "attached"},
                of : 0..MaxReq, at : 0..MaxTasks]
  BY DEF Shapes
\* No callback is set, nothing is counted.
<1>5. ASSUME NEW c \in Calls,
             UNCHANGED <<begun, size, cb, responded, fulfilled>>,
             \A d \in Calls : d # c => made'[d] = made[d],
             c <= begun
      PROVE  NotBegun'
  <2>1. \A d \in Calls : d > begun => d # c
    BY <1>1, <1>2, <1>5
  <2>2. \A d \in Calls : d > begun =>
          size[d] = 0 /\ made[d] = 0 /\ responded[d] = 0 /\ fulfilled[d] = 0
    BY DEF AtCall
  <2>3. \A t \in Tasks : t[1] > begun => cb[t] = "none"
    BY DEF AtCall
  <2> QED
    BY <1>5, <2>1, <2>2, <2>3 DEF NotBegun
<1>6. CASE Begin
  <2> DEFINE c == begun + 1
  <2>1. c \in Calls /\ c \in Nat /\ begun' = c /\ call' = [pc |-> "admit", of |-> c, at |-> 0]
    BY <1>1, <1>6 DEF Begin, Calls
  <2>2. PICK n \in Sizes[c] : size' = [size EXCEPT ![c] = n]
    BY <1>6 DEF Begin
  <2>3. n \in 1..MaxTasks
    BY <2>1, <2>2, TaskFuturesAssumption DEF Calls
  <2>4. size'[c] = n /\ \A d \in Calls : d # c => size'[d] = size[d]
    BY <2>1, <2>2 DEF Shapes
  <2>5. UNCHANGED <<made, cb, responded, fulfilled>>
    BY <1>6 DEF Begin, poolVars, futureVars, countVars
  <2>6. c > begun
    BY <1>1
  <2> HIDE DEF c
  <2>7. made[c] = 0 /\ \A t \in Tasks : t[1] = c => cb[t] = "none"
    BY <2>1, <2>6 DEF AtCall
  <2>8. call'.pc = "admit" /\ call'.of = c
    BY <2>1
  <2>9. NotBegun'
    <3>1. \A d \in Calls : d > c => d > begun /\ d # c
      BY <1>1, <1>2, <2>1, <2>6 DEF Calls
    <3>2. \A t \in Tasks : t[1] > c => t[1] > begun
      BY <3>1, TaskParts
    <3> QED
      BY <2>1, <2>4, <2>5, <3>1, <3>2 DEF AtCall, NotBegun
  <2>10. c \in 1..begun'
    BY <2>1 DEF Calls
  <2>11. n > 0 /\ n >= 1
    BY <2>3
  <2> QED
    BY <2>4, <2>5, <2>7, <2>8, <2>9, <2>10, <2>11 DEF AtCall, NotBegun
<1>7. CASE AdmitTask \/ ListTask \/ Then
  <2> DEFINE c == call.of
  <2>1. /\ UNCHANGED <<begun, size, made, cb, responded, fulfilled>>
        /\ call.pc \in {"admit", "list", "then"} /\ call'.of = c
    BY <1>4, <1>7 DEF AdmitTask, ListTask, Then, poolVars, futureVars, countVars
  <2>2. c \in Calls /\ c \in 1..begun /\ size[c] >= 1 /\ c <= begun
    BY <1>1, <1>3, <2>1 DEF AtCall
  <2>3. NotBegun'
    BY <1>5, <2>1, <2>2
  <2>4. \A t \in Tasks : t[1] = c => cb'[t] = "none"
    BY <2>1 DEF AtCall
  <2>5. CASE AdmitTask
    <3>1. call'.pc = "create" /\ call.pc = "admit"
      BY <1>4, <2>5 DEF AdmitTask
    <3> QED
      BY <2>1, <2>2, <2>3, <2>4, <3>1 DEF AtCall, NotBegun
  <2>6. CASE ListTask
    <3>1. call'.pc = (IF made[c] < size[c] THEN "admit" ELSE "then") /\ call.pc = "list"
      BY <1>4, <2>6 DEF ListTask
    <3>2. made[c] < size[c] \/ made[c] >= size[c]
      BY <1>2, <2>2
    <3> QED
      BY <2>1, <2>2, <2>3, <2>4, <3>1, <3>2 DEF AtCall, NotBegun
  <2>7. CASE Then
    <3>1. call'.pc = "attach" /\ call.pc = "then" /\ call'.at = 1
      BY <1>4, <2>7 DEF Then
    <3>2. 1 \in Own(c)'
      BY <1>2, <2>1, <2>2 DEF Own
    <3> QED
      BY <2>1, <2>2, <2>3, <2>4, <3>1, <3>2 DEF AtCall, NotBegun, Own
  <2> QED
    BY <1>7, <2>5, <2>6, <2>7
<1>8. CASE CreateTask
  <2> DEFINE c == call.of
  <2>1. /\ UNCHANGED <<begun, size, cb, responded, fulfilled>>
        /\ call.pc = "create" /\ call'.of = c /\ call'.pc = "list"
    BY <1>4, <1>8 DEF CreateTask, futureVars, countVars
  <2>2. c \in Calls /\ c \in 1..begun /\ size[c] >= 1 /\ c <= begun
    BY <1>1, <1>3, <2>1 DEF AtCall
  <2>3. made'[c] = made[c] + 1 /\ \A d \in Calls : d # c => made'[d] = made[d]
    BY <1>8, <2>1, MayMake, Makes DEF CreateTask
  <2>4. NotBegun'
    BY <1>5, <2>1, <2>2, <2>3
  <2>5. made'[c] >= 1
    BY <1>2, <2>2, <2>3
  <2> QED
    BY <2>1, <2>2, <2>4, <2>5 DEF AtCall, NotBegun
<1>9. CASE FailCall \/ NoContext \/ (Attached /\ call' = NoCall)
  <2>1. UNCHANGED <<begun, size, made, cb, responded, fulfilled>> /\ call'.pc = "idle"
    BY <1>9 DEF FailCall, NoContext, Attached, NoCall, poolVars, futureVars, countVars
  <2> QED
    BY <2>1 DEF AtCall
<1>10. CASE Attach
  <2> DEFINE c == call.of
             u == <<c, call.at>>
  <2>1. /\ UNCHANGED <<begun, size, made, responded, fulfilled>>
        /\ call.pc = "attach" /\ call'.of = c /\ call'.pc = "attached" /\ call'.at = call.at
    BY <1>4, <1>10 DEF Attach, poolVars, countVars
  <2>2. c \in Calls /\ c \in 1..begun /\ c <= begun /\ call.at \in Own(c) /\ size[c] >= 1 /\ made[c] >= size[c]
    BY <1>1, <1>3, <2>1 DEF AtCall
  <2>3. \A t \in Tasks : t # u => cb'[t] = cb[t]
    BY <1>10 DEF Attach, SetCallback, Shapes
  <2>4. u[1] = c /\ u[2] = call.at
    OBVIOUS
  <2> HIDE DEF u
  <2>5. \A t \in Tasks : t[1] > begun => t # u
    BY <1>1, <1>2, <2>2, <2>4
  <2>6. NotBegun'
    BY <2>1, <2>3, <2>5 DEF AtCall, NotBegun
  <2>7. \A t \in Tasks : t[1] = c /\ t[2] \in Own(c) /\ t[2] > call.at => cb'[t] = "none"
    <3>1. \A t \in Tasks : t[2] > call.at => t # u
      <4>1. call.at \in Int
        BY <1>2, <2>2 DEF Own
      <4> QED
        BY <2>4, <4>1
    <3> QED
      BY <2>1, <2>3, <3>1 DEF AtCall
  <2> QED
    BY <2>1, <2>2, <2>6, <2>7 DEF AtCall, NotBegun, Own
<1>11. CASE Attached /\ call' # NoCall
  <2> DEFINE c == call.of
  <2>1. /\ UNCHANGED <<begun, size, made, cb, responded, fulfilled>> /\ call.at # size[c]
        /\ call.pc = "attached" /\ call'.of = c /\ call'.pc = "attach" /\ call'.at = call.at + 1
    BY <1>4, <1>11 DEF Attached, poolVars, futureVars, countVars
  <2>2. c \in Calls /\ c \in 1..begun /\ c <= begun /\ call.at \in Own(c) /\ size[c] >= 1 /\ made[c] >= size[c]
    BY <1>1, <1>3, <2>1 DEF AtCall
  <2>3. NotBegun'
    BY <1>5, <2>1, <2>2
  <2>4. call'.at \in 1..size[c] /\ call.at \in Int
    BY <1>2, <2>1, <2>2 DEF Own
  <2>5. \A t \in Tasks : t[2] \in Int
    BY TaskParts
  <2>6. \A t \in Tasks : t[2] > call'.at \/ t[2] = call'.at => t[2] > call.at
    BY <2>1, <2>4, <2>5
  <2>7. \A t \in Tasks : t[1] = c /\ t[2] \in Own(c) /\ t[2] > call.at => cb'[t] = "none"
    BY <2>1 DEF AtCall
  <2>8. \A t \in Tasks : t[1] = c /\ t[2] \in 1..size[c]
                        /\ (t[2] > call'.at \/ (t[2] = call'.at /\ call'.pc = "attach")) => cb'[t] = "none"
    <3> HIDE DEF c
    <3> TAKE t \in Tasks
    <3>1. t[2] > call'.at \/ t[2] = call'.at => t[2] > call.at
      BY <2>6
    <3>2. t[1] = c /\ t[2] \in 1..size[c] /\ t[2] > call.at => cb'[t] = "none"
      BY <2>7 DEF Own
    <3> QED
      BY <3>1, <3>2, Zenon
  <2>9. NotBegun' /\ call'.of \in 1..begun' /\ size'[call'.of] >= 1 /\ made'[call'.of] >= size'[call'.of]
        /\ Own(call.of)' = 1..size[c]
    BY <2>1, <2>2, <2>3 DEF Own
  <2> QED
    BY <2>1, <2>4, <2>8, <2>9 DEF AtCall, NotBegun
<1>12. CASE Start \/ Shutdown \/ CloserStep \/ (\E t \in Tasks : End(t) \/ CallbackStep(t)) \/ UNCHANGED tvars
  <2>1. UNCHANGED callVars
    BY <1>12 DEF Start, Shutdown, CloserStep, Cancel, Drained, Closed, End, CallbackStep,
       Settle, Store, Compare, Fulfil, Raise, Return, Chain, ChainAdmit, ChainCreate, ChainThen, FailChain,
       callbackRest, tvars, callVars
  <2> QED
    BY <2>1, CallRests
<1> QED
  BY <1>6, <1>7, <1>8, <1>9, <1>10, <1>11, <1>12 DEF Step, TNext, CallStep

-----------------------------------------------------------------------------
(* The pool.                                                               *)

\* The queue and the tasks agree.
Queue ==
    /\ \A i \in 1..Len(work) : task[work[i]] = "pending"
    /\ \A i, j \in 1..Len(work) : work[i] = work[j] => i = j
    /\ \A t \in Tasks : task[t] = "pending" => t \in InWork
    /\ \A t \in Tasks : task[t] = "none" <=> t[2] > made[t[1]]

\* A task that is made joins the queue.
LEMMA QueueGrows ==
    ASSUME Shapes, Pool, NEW c \in Calls, made[c] < MaxTasks, Submit(c)
    PROVE  Queue'
<1> DEFINE w == <<c, made[c] + 1>>
<1>1. made[c] \in 0..MaxTasks /\ MaxTasks \in Nat /\ work \in Seq(Tasks)
  BY TaskFuturesAssumption DEF Shapes
<1>2. /\ w \in Tasks /\ task'[w] = "pending" /\ \A t \in Tasks : t # w => task'[t] = task[t]
      /\ made'[c] = made[c] + 1 /\ \A d \in Calls : d # c => made'[d] = made[d]
      /\ work' = Append(work, w)
  BY Makes
<1>3. w[1] = c /\ w[2] = made[c] + 1
  OBVIOUS
<1>4. task[w] = "none"
  BY <1>1, <1>2, <1>3 DEF Pool
<1>w. ASSUME NEW t \in Tasks, t[1] = c, t[2] = made[c] + 1 PROVE t = w
  BY <1>w, TaskParts
<1> HIDE DEF w
<1>5. /\ Len(work') = Len(work) + 1 /\ Len(work) \in Nat
      /\ \A i \in 1..Len(work) : work'[i] = work[i]
      /\ work'[Len(work) + 1] = w
  BY <1>1, <1>2, AppendProperties
<1>6. \A i \in 1..Len(work') : i \in 1..Len(work) \/ i = Len(work) + 1
  BY <1>5
<1>7. \A i \in 1..Len(work) : work[i] \in Tasks /\ work[i] # w /\ task[work[i]] = "pending"
  BY <1>1, <1>4 DEF Pool
<1>8. \A i \in 1..Len(work') : task'[work'[i]] = "pending"
  BY <1>2, <1>5, <1>6, <1>7
<1>9. \A i, j \in 1..Len(work') : work'[i] = work'[j] => i = j
  <2> TAKE i, j \in 1..Len(work')
  <2>1. \A k, l \in 1..Len(work) : work[k] = work[l] => k = l
    BY DEF Pool
  <2> QED
    BY <1>5, <1>6, <1>7, <2>1
<1>10. ASSUME NEW t \in Tasks, task'[t] = "pending" PROVE \E i \in 1..Len(work') : work'[i] = t
  <2>1. CASE t = w
    <3>1. Len(work) + 1 \in 1..Len(work')
      BY <1>5
    <3> QED
      BY <1>5, <2>1, <3>1
  <2>2. CASE t # w
    <3>1. task[t] = "pending"
      BY <1>2, <1>10, <2>2
    <3>2. PICK i \in 1..Len(work) : work[i] = t
      BY <3>1 DEF Pool, InWork
    <3>3. i \in 1..Len(work') /\ work'[i] = t
      BY <1>5, <3>2
    <3> QED
      BY <3>3
  <2> QED
    BY <2>1, <2>2
<1>11. ASSUME NEW t \in Tasks PROVE task'[t] = "none" <=> t[2] > made'[t[1]]
  <2>1. t[1] \in Calls /\ t[2] \in 1..MaxTasks /\ (task[t] = "none" <=> t[2] > made[t[1]])
    BY TaskParts DEF Pool
  <2>2. CASE t = w
    BY <1>1, <1>2, <1>3, <2>2
  <2>3. CASE t # w /\ t[1] = c
    <3>1. t[2] # made[c] + 1
      BY <1>w, <2>3
    <3> QED
      BY <1>1, <1>2, <2>1, <2>3, <3>1
  <2>4. CASE t[1] # c
    BY <1>2, <1>3, <2>1, <2>4
  <2> QED
    BY <2>2, <2>3, <2>4
<1> QED
  BY <1>8, <1>9, <1>10, <1>11 DEF Queue, InWork

\* The first task leaves the queue.
LEMMA QueueShrinks ==
    ASSUME Shapes, Pool, work # <<>>, work' = Tail(work), made' = made,
           NEW x \in {"running", "cancelled"}, task' = [task EXCEPT ![Head(work)] = x]
    PROVE  Queue'
<1>1. work \in Seq(Tasks) /\ Len(work) \in Nat
  BY DEF Shapes
<1> DEFINE h == Head(work)
<1>2. /\ h \in Tasks /\ Len(work) > 0 /\ Len(work') = Len(work) - 1 /\ h = work[1]
      /\ \A i \in 1..Len(work') : work'[i] = work[i + 1]
  BY <1>1, HeadTailProperties
<1>3. task' = [task EXCEPT ![h] = x]
  OBVIOUS
<1> HIDE DEF h
<1>4. task'[h] = x /\ \A t \in Tasks : t # h => task'[t] = task[t]
  BY <1>2, <1>3 DEF Shapes
<1>5. \A i \in 1..Len(work') : i + 1 \in 1..Len(work) /\ i + 1 # 1
  BY <1>1, <1>2
<1>6. 1 \in 1..Len(work)
  BY <1>1, <1>2
<1>7. \A i, j \in 1..Len(work) : work[i] = work[j] => i = j
  BY DEF Pool
<1>8. \A i \in 1..Len(work') : work'[i] # h
  BY <1>2, <1>5, <1>6, <1>7
<1>9. \A i \in 1..Len(work') : task'[work'[i]] = "pending"
  <2> TAKE i \in 1..Len(work')
  <2>1. work'[i] = work[i + 1] /\ work[i + 1] \in Tasks /\ task[work[i + 1]] = "pending"
    BY <1>1, <1>2, <1>5 DEF Pool
  <2> QED
    BY <1>4, <1>8, <2>1
<1>10. \A i, j \in 1..Len(work') : work'[i] = work'[j] => i = j
  <2> TAKE i, j \in 1..Len(work')
  <2>1. i + 1 = j + 1 => i = j
    BY <1>2, <1>1
  <2> QED
    BY <1>2, <1>5, <1>7, <2>1
<1>11. ASSUME NEW t \in Tasks, task'[t] = "pending" PROVE \E i \in 1..Len(work') : work'[i] = t
  <2>1. t # h /\ task[t] = "pending"
    BY <1>4, <1>11
  <2>2. PICK i \in 1..Len(work) : work[i] = t
    BY <2>1 DEF Pool, InWork
  <2>3. i # 1
    BY <1>2, <2>1, <2>2
  <2>4. i - 1 \in 1..Len(work') /\ (i - 1) + 1 = i
    BY <1>1, <1>2, <2>3
  <2> QED
    BY <1>2, <2>2, <2>4
<1>12. ASSUME NEW t \in Tasks PROVE task'[t] = "none" <=> t[2] > made'[t[1]]
  <2>1. task[h] = "pending"
    BY <1>2, <1>6 DEF Pool
  <2>2. task[t] = "none" <=> task'[t] = "none"
    BY <1>4, <2>1
  <2> QED
    BY <2>2 DEF Pool
<1> QED
  BY <1>9, <1>10, <1>11, <1>12 DEF Queue, InWork

\* Every step keeps Pool.
LEMMA PoolStep ==
    ASSUME Shapes, AtCall, Makers, Pool, [Step]_tvars PROVE Pool'
<1>1. CASE UNCHANGED <<made, task, work>>
  <2>1. Queue'
    BY <1>1 DEF Pool, Queue, InWork
  <2>2. CASE UNCHANGED <<executor, noMore, closer>>
    BY <1>1, <2>1, <2>2 DEF Pool, Queue
  <2>3. CASE Admitted /\ UNCHANGED <<noMore, closer>>
    BY <1>1, <2>1, <2>3 DEF Pool, Queue, Admitted
  <2>4. CASE Shutdown \/ Drained
    BY <1>1, <2>1, <2>4 DEF Pool, Queue, Shutdown, Drained, poolVars
  <2>5. CASE Closed
    <3>1. ASSUME NEW t \in Tasks PROVE task[t] \notin Live
      <4>1. task[t] # "running"
        BY <2>5 DEF Closed, Busy
      <4>2. InWork = {}
        BY <2>5 DEF Closed, InWork
      <4>3. task[t] # "pending"
        BY <4>2 DEF Pool
      <4> QED
        BY <4>1, <4>3 DEF Live
    <3>2. executor' = "none" /\ closer' = "closed" /\ noMore' = noMore /\ closer # "idle"
      BY <2>5 DEF Closed
    <3> QED
      BY <1>1, <2>1, <3>1, <3>2 DEF Pool, Queue
  <2>6. \/ UNCHANGED <<executor, noMore, closer>>
        \/ Admitted /\ UNCHANGED <<noMore, closer>>
        \/ Shutdown \/ Drained \/ Closed
    <3>1. CASE AdmitTask \/ \E t \in Tasks : ChainAdmit(t)
      BY <3>1 DEF AdmitTask, ChainAdmit
    <3>2. CASE CallStep /\ ~AdmitTask
      BY <3>2 DEF CallStep, Begin, CreateTask, ListTask, FailCall, Then, Attach, Attached, poolVars, lockVars
    <3>3. CASE NoContext \/ Start \/ Cancel \/ \E t \in Tasks : End(t)
      BY <3>3 DEF NoContext, Start, Cancel, End, poolVars, lockVars
    <3>4. CASE \E t \in Tasks : CallbackStep(t) /\ ~ChainAdmit(t)
      BY <3>4 DEF CallbackStep, Settle, Store, Compare, Fulfil, Raise, Return, Chain, ChainCreate, ChainThen,
         FailChain, poolVars, lockVars
    <3>5. CASE UNCHANGED tvars
      BY <3>5 DEF tvars, poolVars, lockVars
    <3> QED
      BY <3>1, <3>2, <3>3, <3>4, <3>5 DEF Step, TNext, CloserStep
  <2> QED
    BY <2>2, <2>3, <2>4, <2>5, <2>6
<1>2. ASSUME NEW c \in Calls, made[c] < MaxTasks, Submit(c), UNCHANGED <<executor, noMore, closer>>
      PROVE  Pool'
  <2>1. Queue'
    BY <1>2, QueueGrows
  <2>2. executor = "up"
    BY <1>2 DEF Submit
  <2> QED
    BY <1>2, <2>1, <2>2 DEF Pool, Queue
<1>3. CASE CreateTask
  BY <1>2, <1>3, MayMake DEF CreateTask, lockVars
<1>4. ASSUME NEW t \in Tasks, ChainCreate(t) PROVE Pool'
  BY <1>2, <1>4, MayMake, TaskParts DEF ChainCreate, lockVars
\* Tasks only end.
<1>5. ASSUME Queue', UNCHANGED <<executor, noMore, closer>>,
             \A t \in Tasks : task'[t] \in Live => task[t] \in Live
      PROVE  Pool'
  BY <1>5 DEF Pool, Queue
<1>6. ASSUME Start \/ Cancel PROVE Pool'
  <2>1. PICK x \in {"running", "cancelled"} : task' = [task EXCEPT ![Head(work)] = x]
    BY <1>6 DEF Start, Cancel
  <2>2. work # <<>> /\ work' = Tail(work) /\ UNCHANGED <<made, executor, noMore, closer>>
    BY <1>6 DEF Start, Cancel, lockVars
  <2>3. Queue'
    BY <2>1, <2>2, QueueShrinks
  <2>4. Head(work) \in Tasks /\ task[Head(work)] = "pending"
    <3>1. work \in Seq(Tasks)
      BY DEF Shapes
    <3>2. Head(work) \in Tasks /\ Head(work) = work[1] /\ Len(work) > 0 /\ Len(work) \in Nat
      BY <2>2, <3>1, HeadTailProperties
    <3>3. 1 \in 1..Len(work)
      BY <3>2
    <3> QED
      BY <3>2, <3>3 DEF Pool
  <2>5. \A t \in Tasks : task'[t] \in Live => task[t] \in Live
    BY <2>1, <2>4 DEF Shapes, Live
  <2> QED
    BY <1>5, <2>2, <2>3, <2>5
<1>7. ASSUME NEW t \in Tasks, End(t) PROVE Pool'
  <2>1. task[t] = "running" /\ UNCHANGED <<made, work, executor, noMore, closer>>
        /\ task'[t] \in {"ended", "unfit"} /\ \A u \in Tasks : u # t => task'[u] = task[u]
    BY <1>7 DEF End, Shapes, lockVars
  <2>2. \A i \in 1..Len(work) : work[i] \in Tasks /\ work[i] # t
    BY <2>1 DEF Pool, Shapes
  <2>3. Queue'
    <3>1. \A i \in 1..Len(work) : task'[work[i]] = "pending"
      BY <2>1, <2>2 DEF Pool
    <3>2. \A u \in Tasks : task'[u] = "none" <=> u[2] > made[u[1]]
      BY <2>1 DEF Pool
    <3>3. \A u \in Tasks : task'[u] = "pending" => u \in InWork
      BY <2>1 DEF Pool
    <3> QED
      BY <2>1, <3>1, <3>2, <3>3 DEF Pool, Queue, InWork
  <2>4. \A u \in Tasks : task'[u] \in Live => task[u] \in Live
    BY <2>1 DEF Live
  <2> QED
    BY <1>5, <2>1, <2>3, <2>4
<1>8. \/ UNCHANGED <<made, task, work>>
      \/ CreateTask \/ Start \/ Cancel
      \/ \E t \in Tasks : End(t) \/ ChainCreate(t)
  <2>1. CASE CallStep \/ NoContext \/ Shutdown \/ Drained \/ Closed
    BY <2>1 DEF CallStep, Begin, AdmitTask, ListTask, FailCall, NoContext, Then, Attach, Attached, Shutdown,
       Drained, Closed, poolVars
  <2>2. CASE \E t \in Tasks : CallbackStep(t)
    BY <2>2 DEF CallbackStep, Settle, Store, Compare, Fulfil, Raise, Return, Chain, ChainAdmit, ChainThen,
         FailChain, poolVars
  <2>3. CASE UNCHANGED tvars
    BY <2>3 DEF tvars, poolVars
  <2> QED
    BY <2>1, <2>2, <2>3 DEF Step, TNext, CloserStep
<1> QED
  BY <1>1, <1>3, <1>4, <1>6, <1>7, <1>8

\* Every step keeps TasksAccountedFor: who makes a task lists it before anybody
\* makes another for the call, and to maintain or to shut down drops none.
LEMMA AccountedStep ==
    ASSUME Shapes, AtCall, Makers, Pool, Callbacks, TasksAccountedFor, [Step]_tvars PROVE TasksAccountedFor'
<1>1. Pool'
  BY PoolStep
<1>2. \A t \in Tasks : task'[t] \in Live => closer' # "closed"
  BY <1>1 DEF Pool
<1> SUFFICES ASSUME NEW t \in Tasks, task'[t] \in Live PROVE t \in listed' \/ BeingListed(t)'
  BY <1>2 DEF TasksAccountedFor
<1>3. t[1] \in Calls /\ t = <<t[1], t[2]>>
  BY TaskParts
<1>4. call \in [pc : {"idle", "admit", "create", "list", "then", "attach", "attached"},
                of : 0..MaxReq, at : 0..MaxTasks]
  BY DEF Shapes
\* What was made a moment ago.
<1>5. CASE CreateTask /\ task[t] \notin Live
  <2>1. call.of \in Calls /\ made[call.of] < MaxTasks /\ Submit(call.of)
    BY <1>5, MayMake DEF CreateTask
  <2>2. t = <<call.of, made[call.of] + 1>> /\ made'[call.of] = made[call.of] + 1
    BY <1>5, <2>1, Makes
  <2>3. call'.pc = "list" /\ call'.of = call.of
    BY <1>4, <1>5 DEF CreateTask
  <2> QED
    BY <2>2, <2>3 DEF BeingListed
<1>6. ASSUME NEW u \in Tasks, ChainCreate(u), task[t] \notin Live PROVE BeingListed(t)'
  <2>1. u[1] \in Calls /\ made[u[1]] < MaxTasks /\ Submit(u[1])
    BY <1>6, MayMake, TaskParts DEF ChainCreate
  <2>2. t = <<u[1], made[u[1]] + 1>> /\ made'[u[1]] = made[u[1]] + 1
    BY <1>6, <2>1, Makes
  <2>3. cb'[u] = "list"
    BY <1>6 DEF ChainCreate, Shapes
  <2> QED
    BY <2>2, <2>3 DEF BeingListed
<1>7. CASE task[t] \in Live /\ t \in listed
  <2>1. \/ listed' = listed \/ listed' = Maintained \/ \E u : listed' = listed \cup {u}
        \/ Closed
    <3>1. CASE CallStep \/ NoContext \/ Start \/ Shutdown \/ CloserStep \/ UNCHANGED tvars
      BY <3>1 DEF CallStep, Begin, AdmitTask, CreateTask, ListTask, FailCall, NoContext, Then, Attach, Attached,
         Start, Shutdown, CloserStep, Cancel, Drained, Admitted, List, lockVars, tvars
    <3>2. CASE \E u \in Tasks : End(u) \/ CallbackStep(u)
      BY <3>2 DEF End, CallbackStep, Settle, Store, Compare, Fulfil, Raise, Return, Chain, ChainAdmit, ChainCreate,
         ChainThen, FailChain, Admitted, List, lockVars
    <3> QED
      BY <3>1, <3>2 DEF Step, TNext
  <2>2. ~Closed
    <3>1. CASE Closed
      <4>1. closer' = "closed"
        BY <3>1 DEF Closed
      <4> QED
        BY <1>2, <4>1
    <3> QED
      BY <3>1
  <2> QED
    BY <1>7, <2>1, <2>2 DEF Maintained
<1>8. CASE task[t] \in Live /\ call.pc = "list" /\ t = <<call.of, made[call.of]>>
  <2>1. CASE ListTask
    BY <1>8, <2>1 DEF ListTask, List
  <2>2. CASE ~ListTask
    <3>1. call' = call
      BY <1>4, <1>8, <2>2 DEF Step, TNext, CallStep, Begin, AdmitTask, CreateTask, ListTask, FailCall, NoContext,
         Then, Attach, Attached, Start, Shutdown, CloserStep, Cancel, Drained, Closed, End,
         CallbackStep, Settle, Store, Compare, Fulfil, Raise, Return, Chain, ChainAdmit, ChainCreate,
         ChainThen, FailChain, callbackRest, callVars, tvars
    <3>2. ~CreateTask /\ call.of \in Calls
      BY <1>8, MayMake DEF CreateTask
    <3>3. ~ \E u \in Tasks : ChainCreate(u) /\ call.of = u[1]
      <4>1. \A u \in Tasks : u[1] = call.of => cb[u] = "none"
        BY <1>8 DEF AtCall
      <4> QED
        BY <4>1 DEF ChainCreate
    <3>4. made'[call.of] = made[call.of]
      BY <3>2, <3>3, SizesStay
    <3> QED
      BY <1>8, <3>1, <3>4 DEF BeingListed
  <2> QED
    BY <2>1, <2>2
<1>9. ASSUME NEW u \in Tasks, task[t] \in Live, cb[u] = "list", t = <<u[1], made[u[1]]>>
      PROVE  t \in listed' \/ BeingListed(t)'
  <2>1. CASE ChainThen(u)
    BY <1>9, <2>1 DEF ChainThen, List
  <2>2. CASE ~ChainThen(u)
    <3>1. made'[u[1]] = made[u[1]]
      BY <1>9, MakesAlone DEF Making, ChainCreate
    <3>2. cb'[u] = "list"
      <4>1. ~CallbackStep(u)
        BY <1>9, <2>2 DEF CallbackStep, Settle, Store, Compare, Fulfil, Raise, Return, Chain, ChainAdmit,
           ChainCreate, FailChain
      <4> QED
        BY <1>9, <4>1, TasksMove DEF Moves
    <3> QED
      BY <1>9, <3>1, <3>2 DEF BeingListed
  <2> QED
    BY <2>1, <2>2
<1>10. CASE task[t] \notin Live
  <2>1. task[t] = "none" /\ task'[t] = "pending"
    BY <1>10, TasksMove DEF Moves, Live, Ended
  <2>2. CreateTask \/ \E u \in Tasks : ChainCreate(u)
    <3>1. CASE made' = made
      BY <1>1, <2>1, <3>1 DEF Pool
    <3>2. CASE made' # made
      <4>1. CASE CallStep \/ NoContext \/ Shutdown \/ CloserStep \/ Start \/ UNCHANGED tvars
        BY <3>2, <4>1 DEF CallStep, Begin, AdmitTask, ListTask, FailCall, NoContext, Then, Attach, Attached, Shutdown,
           CloserStep, Cancel, Start, Drained, Closed, poolVars, tvars
      <4>2. CASE \E u \in Tasks : End(u) \/ CallbackStep(u)
        BY <3>2, <4>2 DEF CallbackStep, Settle, Store, Compare, Fulfil, Raise, Return, Chain, ChainAdmit, ChainThen,
         FailChain, poolVars, End
      <4> QED
        BY <4>1, <4>2 DEF Step, TNext
    <3> QED
      BY <3>1, <3>2
  <2> QED
    BY <1>5, <1>6, <1>10, <2>2
<1> QED
  BY <1>7, <1>8, <1>9, <1>10 DEF TasksAccountedFor, BeingListed

-----------------------------------------------------------------------------
(* The counts.                                                             *)

\* The numbers of a part of 1..n.
LEMMA Part ==
    ASSUME NEW n \in Nat, NEW S \in SUBSET (1..n)
    PROVE  /\ IsFiniteSet(S) /\ Cardinality(S) \in Nat /\ Cardinality(S) <= n
           /\ Cardinality(S) >= n => S = 1..n
<1>1. IsFiniteSet(1..n) /\ Cardinality(1..n) = n
  BY FS_Interval
<1>2. /\ IsFiniteSet(S) /\ Cardinality(S) <= n
      /\ n = Cardinality(S) => S = 1..n
  BY <1>1, FS_Subset
<1>3. Cardinality(S) \in Nat
  BY <1>2, FS_CardinalityType
<1> QED
  BY <1>2, <1>3

\* A part that grows, by one new number at least.
LEMMA Grows ==
    ASSUME NEW n \in Nat, NEW S \in SUBSET (1..n), NEW T \in SUBSET (1..n), S \subseteq T
    PROVE  /\ Cardinality(S) <= Cardinality(T)
           /\ \A x \in T : x \notin S => Cardinality(S) + 1 <= Cardinality(T)
           /\ \A x \in T : x \notin S /\ T = S \cup {x} => Cardinality(T) = Cardinality(S) + 1
<1>1. IsFiniteSet(S) /\ IsFiniteSet(T) /\ Cardinality(S) \in Nat /\ Cardinality(T) \in Nat
  BY Part
<1>2. Cardinality(S) <= Cardinality(T)
  BY <1>1, FS_Subset
<1>3. ASSUME NEW x \in T, x \notin S
      PROVE  /\ Cardinality(S) + 1 <= Cardinality(T)
             /\ T = S \cup {x} => Cardinality(T) = Cardinality(S) + 1
  <2>1. Cardinality(S \cup {x}) = Cardinality(S) + 1
    BY <1>1, <1>3, FS_AddElement
  <2>2. S \cup {x} \in SUBSET T
    BY <1>3
  <2>3. Cardinality(S \cup {x}) <= Cardinality(T)
    BY <1>1, <2>2, FS_Subset
  <2> QED
    BY <2>1, <2>3
<1> QED
  BY <1>2, <1>3

\* The tasks of a Futures are tasks.
LEMMA OwnTasks ==
    ASSUME Shapes, NEW c \in Calls
    PROVE  /\ size[c] \in Nat /\ size[c] <= MaxTasks /\ Own(c) = 1..size[c]
           /\ \A i \in Own(c) : i \in Nat /\ i \in 1..MaxTasks /\ <<c, i>> \in Tasks
           /\ Counted(c) \in SUBSET (1..size[c]) /\ Called(c) \in SUBSET (1..size[c])
<1>1. size[c] \in 0..MaxTasks /\ MaxTasks \in Nat
  BY TaskFuturesAssumption DEF Shapes
<1>2. \A i \in 1..size[c] : i \in Nat /\ i \in 1..MaxTasks
  BY <1>1
<1> QED
  BY <1>1, <1>2, IsTask DEF Own, Counted, Called

\* What a step does to the counts.
LEMMA CountsMove ==
    ASSUME Shapes, [Step]_tvars
    PROVE  /\ \A c \in Calls :
                /\ \/ responded'[c] = responded[c]
                   \/ \E t \in Tasks : Store(t) /\ t[1] = c /\ responded'[c] = loaded[t] + 1
                /\ \/ fulfilled'[c] = fulfilled[c]
                   \/ \E t \in Tasks : Fulfil(t) /\ t[1] = c /\ t[2] <= size[c]
                                       /\ fulfilled'[c] = fulfilled[c] + 1
                /\ overlap[c] => overlap'[c]
           /\ \A t \in Tasks :
                \/ loaded'[t] = loaded[t] /\ (cb'[t] = "store" => ~Settle(t))
                \/ /\ Settle(t) /\ loaded'[t] = responded[t[1]] /\ responded' = responded
                   /\ overlap'[t[1]] <=> (overlap[t[1]] \/ \E u \in Tasks : u[1] = t[1] /\ Counting(u))
<1>1. /\ responded \in [Calls -> Nat] /\ fulfilled \in [Calls -> Nat] /\ loaded \in [Tasks -> Nat]
      /\ overlap \in [Calls -> BOOLEAN] /\ cb \in [Tasks -> Active \cup {"none", "set", "over"}]
  BY DEF Shapes
<1>2. \A t \in Tasks : t[1] \in Calls
  BY TaskParts
<1>3. CASE \E t \in Tasks : Store(t)
  <2>1. PICK t \in Tasks : Store(t)
    BY <1>3
  <2>2. /\ responded' = [responded EXCEPT ![t[1]] = loaded[t] + 1]
        /\ fulfilled' = fulfilled /\ overlap' = overlap /\ loaded' = loaded /\ cb' = [cb EXCEPT ![t] = "compare"]
        /\ cb[t] = "store"
    BY <2>1 DEF Store
  <2>3. \A c \in Calls : responded'[c] = responded[c] \/ (t[1] = c /\ responded'[c] = loaded[t] + 1)
    BY <1>1, <1>2, <2>2
  <2>4. \A u \in Tasks : cb'[u] = "store" => ~Settle(u)
    BY <1>1, <2>2 DEF Settle
  <2> QED
    BY <2>1, <2>2, <2>3, <2>4
<1>4. CASE \E t \in Tasks : Fulfil(t)
  <2>1. PICK t \in Tasks : Fulfil(t)
    BY <1>4
  <2>2. /\ fulfilled' = [fulfilled EXCEPT ![t[1]] = IF t[2] <= size[t[1]] THEN fulfilled[t[1]] + 1 ELSE fulfilled[t[1]]]
        /\ responded' = responded /\ overlap' = overlap /\ loaded' = loaded
        /\ cb' = [cb EXCEPT ![t] = IF ~Single(t) /\ spent[t[1]] THEN "over" ELSE "callback"]
        /\ cb[t] = "fulfil"
    BY <2>1 DEF Fulfil, countVars
  <2>3. \A c \in Calls : fulfilled'[c] = fulfilled[c]
                         \/ (t[1] = c /\ t[2] <= size[c] /\ fulfilled'[c] = fulfilled[c] + 1)
    BY <1>1, <1>2, <2>2
  <2>4. \A u \in Tasks : cb'[u] = "store" => ~Settle(u)
    BY <1>1, <2>2 DEF Settle
  <2> QED
    BY <2>1, <2>2, <2>3, <2>4
<1>5. CASE \E t \in Tasks : Settle(t)
  <2>1. PICK t \in Tasks : Settle(t)
    BY <1>5
  <2>2. responded' = responded /\ fulfilled' = fulfilled
    BY <2>1 DEF Settle, countVars
  <2>3. CASE overlap' = overlap /\ loaded' = loaded /\ \A u \in Tasks : cb'[u] # "store" \/ cb[u] = "store"
    BY <2>2, <2>3 DEF Settle
  <2>4. CASE /\ loaded' = [loaded EXCEPT ![t] = responded[t[1]]]
             /\ overlap' = [overlap EXCEPT ![t[1]] = overlap[t[1]] \/ \E u \in Tasks : u[1] = t[1] /\ Counting(u)]
             /\ cb' = [cb EXCEPT ![t] = "store"]
    <3>1. \A c \in Calls : overlap[c] => overlap'[c]
      BY <1>1, <1>2, <2>4
    <3>2. loaded'[t] = responded[t[1]] /\ \A u \in Tasks : u # t => loaded'[u] = loaded[u]
      BY <1>1, <2>4
    <3>3. overlap'[t[1]] = (overlap[t[1]] \/ \E u \in Tasks : u[1] = t[1] /\ Counting(u))
      BY <1>1, <1>2, <2>4
    <3>4. \A u \in Tasks : u # t => cb'[u] = cb[u]
      BY <1>1, <2>4
    <3> QED
      BY <2>1, <2>2, <3>1, <3>2, <3>3, <3>4 DEF Settle
  <2> QED
    BY <1>1, <2>1, <2>3, <2>4 DEF Settle, countVars
<1>6. CASE ~(\E t \in Tasks : Store(t) \/ Fulfil(t) \/ Settle(t))
  <2>1. responded' = responded /\ fulfilled' = fulfilled /\ overlap' = overlap /\ loaded' = loaded
    BY <1>6 DEF Step, TNext, CallStep, CloserStep, CallbackStep, Begin, AdmitTask, CreateTask, ListTask, FailCall,
       NoContext, Then, Attach, Attached, Start, Shutdown, Cancel, Drained, Closed, End, Compare, Raise, Return,
       Chain, ChainAdmit, ChainCreate, ChainThen, FailChain, tvars, futureVars, countVars
  <2> QED
    BY <1>6, <2>1
<1> QED
  BY <1>3, <1>4, <1>5, <1>6

\* A task that was counted, or called back for, stays so.
LEMMA CountedStays ==
    ASSUME Shapes, AtCall, Makers, Pool, Callbacks, [Step]_tvars, NEW c \in Calls
    PROVE  Counted(c) \subseteq Counted(c)' /\ Called(c) \subseteq Called(c)'
<1>1. ASSUME NEW i \in Own(c) PROVE <<c, i>> \in Tasks /\ i \in Own(c)'
  <2>1. /\ <<c, i>> \in Tasks /\ size[c] \in Nat /\ i \in Nat /\ Own(c) = 1..size[c] /\ <<c, i>>[1] = c
    BY OwnTasks
  <2>2. size[c] > 0
    BY <2>1
  <2>3. size'[c] = size[c]
    BY <2>1, <2>2, SizeKept
  <2> QED
    BY <2>1, <2>3 DEF Own
<1>2. ASSUME NEW i \in Counted(c) PROVE i \in Counted(c)'
  <2> DEFINE t == <<c, i>>
  <2>1. i \in Own(c) /\ cb[t] \notin {"none", "set", "due", "store"} /\ task[t] # "unfit"
    BY DEF Counted
  <2>2. t \in Tasks /\ i \in Own(c)'
    BY <1>1, <2>1
  <2> HIDE DEF t
  <2>3. task[t] \in Ended
    BY <2>1, <2>2 DEF Callbacks
  <2>4. cb'[t] \notin {"none", "set", "due", "store"} /\ task'[t] = task[t]
    <3>1. Moves(t)
      BY <2>2, TasksMove
    <3>2. CASE CallbackStep(t)
      <4>1. CASE cb[t] = "compare"
        BY <2>2, <3>2, <4>1, <3>1, <2>1, <2>3, CallbackGoesOn DEF Moves, Live, Ended
      <4>2. CASE cb[t] # "compare"
        BY <2>1, <2>2, <2>3, <3>1, <3>2, <4>2, CallbackGoesOn DEF Moves, Live, Ended
      <4> QED
        BY <4>1, <4>2
    <3>3. CASE ~CallbackStep(t)
      BY <2>1, <2>3, <3>1, <3>3 DEF Moves, Live, Ended
    <3> QED
      BY <3>2, <3>3
  <2> QED
    BY <2>1, <2>2, <2>4 DEF Counted, t
<1>3. ASSUME NEW i \in Called(c) PROVE i \in Called(c)'
  <2> DEFINE t == <<c, i>>
  <2>1. i \in Own(c) /\ cb[t] \in Making \cup {"callback", "failed", "over"}
    BY DEF Called
  <2>2. t \in Tasks /\ i \in Own(c)'
    BY <1>1, <2>1
  <2> HIDE DEF t
  <2>3. cb'[t] \in Making \cup {"callback", "failed", "over"}
    <3>1. Moves(t)
      BY <2>2, TasksMove
    <3>2. CASE CallbackStep(t)
      BY <2>1, <2>2, <3>2, CallbackGoesOn DEF Making
    <3>3. CASE ~CallbackStep(t)
      BY <2>1, <3>1, <3>3 DEF Moves, Making
    <3> QED
      BY <3>2, <3>3
  <2> QED
    BY <2>1, <2>2, <2>3 DEF Called, t
<1> QED
  BY <1>2, <1>3

\* Where more than one task is collected, a task is counted by Store.
LEMMA CountedByStore ==
    ASSUME Shapes, AtCall, Makers, Pool, Callbacks, [Step]_tvars,
           NEW c \in Calls, size[c] > 1, NEW i \in Counted(c)', i \notin Counted(c)
    PROVE  Store(<<c, i>>) /\ <<c, i>> \in Tasks
<1> DEFINE t == <<c, i>>
<1>1. size'[c] = size[c]
  <2>1. size[c] \in Nat /\ size[c] <= MaxTasks /\ MaxTasks \in Nat
    BY OwnTasks, TaskFuturesAssumption
  <2>2. 1 \in 1..MaxTasks
    BY <2>1
  <2>3. <<c, 1>> \in Tasks /\ <<c, 1>>[1] = c /\ size[c] > 0
    BY <2>1, <2>2, IsTask
  <2> QED
    BY <2>3, SizeKept
<1>2. i \in Own(c) /\ cb'[t] \notin {"none", "set", "due", "store"} /\ task'[t] # "unfit"
  BY <1>1 DEF Counted, Own
<1>3. t \in Tasks /\ t[1] = c /\ t[2] = i /\ i \in Nat /\ size[c] \in Nat /\ i <= size[c]
  BY <1>2, OwnTasks DEF Own
<1>4. cb[t] \in {"none", "set", "due", "store"} \/ task[t] = "unfit"
  BY <1>2 DEF Counted
<1>5. ~Single(t)
  BY <1>3 DEF Single
<1> HIDE DEF t
<1>6. Moves(t)
  BY <1>3, TasksMove
<1>7. task[t] \in Live \cup {"none", "ended", "unfit", "cancelled"}
  BY <1>3 DEF Shapes
<1>8. task[t] # "unfit"
  BY <1>2, <1>6, <1>7 DEF Moves, Live, Ended
<1>9. CallbackStep(t)
  BY <1>2, <1>4, <1>6, <1>8 DEF Moves
<1>10. cb[t] = "store"
  BY <1>2, <1>3, <1>4, <1>5, <1>8, <1>9, CallbackGoesOn
<1>11. Store(t)
  BY <1>9, <1>10 DEF CallbackStep, Settle, Store, Compare, Fulfil, Raise, Return, Chain, ChainAdmit, ChainCreate,
     ChainThen, FailChain
<1> QED
  BY <1>3, <1>11 DEF t

\* Tasks that have ended, have.
LEMMA AllEndedStays ==
    ASSUME Shapes, AtCall, Makers, Pool, Callbacks, [Step]_tvars, NEW c \in Calls, AllEnded(c), size'[c] = size[c]
    PROVE  AllEnded(c)'
<1> SUFFICES ASSUME NEW i \in Own(c) PROVE task'[<<c, i>>] \in Ended
  BY DEF AllEnded, Own
<1> DEFINE t == <<c, i>>
<1>1. t \in Tasks /\ task[t] \in Ended
  BY OwnTasks DEF AllEnded
<1> HIDE DEF t
<1>2. task'[t] \in Ended
  BY <1>1, TasksMove DEF Moves, Ended, Live
<1> QED
  BY <1>2 DEF t

\* A count that is complete is complete for its tasks.
LEMMA CountComplete ==
    ASSUME Shapes, Callbacks, Counts, NEW c \in Calls, AllResponded(c)
    PROVE  Counted(c) = Own(c) /\ AllEnded(c)
<1>1. /\ size[c] \in Nat /\ Own(c) = 1..size[c] /\ Counted(c) \in SUBSET (1..size[c])
      /\ \A i \in Own(c) : <<c, i>> \in Tasks
  BY OwnTasks
<1>2. Cardinality(Counted(c)) \in Nat /\ Cardinality(Counted(c)) >= size[c]
  BY <1>1, Part DEF Counts, AllResponded
<1>3. Counted(c) = Own(c)
  BY <1>1, <1>2, Part
<1>4. ASSUME NEW i \in Own(c) PROVE task[<<c, i>>] \in Ended
  <2>1. <<c, i>> \in Tasks /\ cb[<<c, i>>] \notin {"none", "set"} /\ task[<<c, i>>] # "unfit"
    BY <1>1, <1>3 DEF Counted
  <2> QED
    BY <2>1 DEF Callbacks
<1> QED
  BY <1>3, <1>4 DEF AllEnded

\* Every step keeps Counts.
LEMMA CountsStep ==
    ASSUME Shapes, AtCall, Makers, Pool, Callbacks, Counts, [Step]_tvars PROVE Counts'
<1>1. \A c \in Calls : /\ size[c] \in Nat /\ size[c] <= MaxTasks /\ Own(c) = 1..size[c]
                       /\ Counted(c) \in SUBSET (1..size[c]) /\ Called(c) \in SUBSET (1..size[c])
                       /\ responded[c] \in Nat /\ fulfilled[c] \in Nat
  BY OwnTasks DEF Shapes
<1>2. \A t \in Tasks : t[1] \in Calls /\ t[2] \in Nat /\ t[2] >= 1 /\ loaded[t] \in Nat
  BY TaskParts DEF Shapes
<1>3. Shapes'
  BY ShapesStep
<1>4. ASSUME NEW c \in Calls
      PROVE  /\ Cardinality(Counted(c)) \in Nat /\ Cardinality(Counted(c)) <= size[c]
             /\ Cardinality(Counted(c)) <= Cardinality(Counted(c)')
             /\ Cardinality(Counted(c)') \in Nat
             /\ \A i \in Counted(c)' : i \notin Counted(c) => Cardinality(Counted(c)) + 1 <= Cardinality(Counted(c)')
             /\ Cardinality(Called(c)) \in Nat
             /\ Cardinality(Called(c)) <= Cardinality(Called(c)')
             /\ Cardinality(Called(c)') \in Nat
             /\ \A i \in Called(c)' : i \notin Called(c) => Cardinality(Called(c)) + 1 <= Cardinality(Called(c)')
  <2>1. /\ Counted(c) \in SUBSET (1..size[c]) /\ Called(c) \in SUBSET (1..size[c]) /\ size[c] \in 0..MaxTasks
        /\ Counted(c)' \in SUBSET (1..size'[c]) /\ Called(c)' \in SUBSET (1..size'[c]) /\ size'[c] \in 0..MaxTasks
        /\ MaxTasks \in Nat
    BY <1>1, <1>3, TaskFuturesAssumption DEF Shapes, Own, Counted, Called
  <2>2. /\ Counted(c) \in SUBSET (1..MaxTasks) /\ Called(c) \in SUBSET (1..MaxTasks)
        /\ Counted(c)' \in SUBSET (1..MaxTasks) /\ Called(c)' \in SUBSET (1..MaxTasks)
    BY <2>1
  <2>3. Counted(c) \subseteq Counted(c)' /\ Called(c) \subseteq Called(c)'
    BY CountedStays
  <2>4. Cardinality(Counted(c)) \in Nat /\ Cardinality(Called(c)) \in Nat /\ Cardinality(Counted(c)) <= size[c]
        /\ Cardinality(Counted(c)') \in Nat /\ Cardinality(Called(c)') \in Nat
    BY <1>1, <2>1, <2>2, Part
  <2>5. /\ Cardinality(Counted(c)) <= Cardinality(Counted(c)')
        /\ \A i \in Counted(c)' : i \notin Counted(c) => Cardinality(Counted(c)) + 1 <= Cardinality(Counted(c)')
    BY <2>1, <2>2, <2>3, Grows
  <2>6. /\ Cardinality(Called(c)) <= Cardinality(Called(c)')
        /\ \A i \in Called(c)' : i \notin Called(c) => Cardinality(Called(c)) + 1 <= Cardinality(Called(c)')
    BY <2>1, <2>2, <2>3, Grows
  <2> QED
    BY <2>4, <2>5, <2>6
<1>5. \A t \in Tasks : cb[t] # "none" => size'[t[1]] = size[t[1]] /\ Own(t[1])' = Own(t[1])
  BY SizeKept
\* The step of the task t that is counted, or called back for.
<1>6. ASSUME NEW t \in Tasks, Store(t)
      PROVE  loaded[t] + 1 <= Cardinality(Counted(t[1])')
  <2>1. /\ cb[t] = "store" /\ cb' = [cb EXCEPT ![t] = "compare"] /\ task' = task
        /\ t[1] \in Calls /\ t = <<t[1], t[2]>>
    BY <1>6, TaskParts DEF Store, poolVars
  <2>2. t[2] \in Own(t[1]) /\ task[t] # "unfit" /\ t[2] \in Own(t[1])'
    BY <1>5, <2>1 DEF Callbacks, Counting
  <2>3. cb'[t] = "compare"
    BY <2>1 DEF Shapes
  <2>4. t[2] \in Counted(t[1])' /\ t[2] \notin Counted(t[1])
    BY <2>1, <2>2, <2>3 DEF Counted
  <2>5. loaded[t] <= Cardinality(Counted(t[1]))
    BY <2>1 DEF Counts
  <2> QED
    BY <1>2, <1>4, <2>1, <2>4, <2>5
<1>7. ASSUME NEW t \in Tasks, Fulfil(t), t[2] <= size[t[1]]
      PROVE  AllEnded(t[1]) /\ fulfilled[t[1]] + 1 <= Cardinality(Called(t[1])')
             /\ size'[t[1]] = size[t[1]]
  <2>1. /\ cb[t] = "fulfil" /\ t[1] \in Calls /\ t = <<t[1], t[2]>>
        /\ cb' = [cb EXCEPT ![t] = IF ~Single(t) /\ spent[t[1]] THEN "over" ELSE "callback"]
    BY <1>7, TaskParts DEF Fulfil
  <2>2. t[2] \in Own(t[1])
    BY <1>1, <1>2, <1>7, <2>1
  <2>3. t[2] \in Own(t[1])' /\ size'[t[1]] = size[t[1]]
    BY <1>5, <2>1, <2>2
  <2>4. cb'[t] \in {"over", "callback"}
    BY <2>1 DEF Shapes
  <2>5. t[2] \in Called(t[1])' /\ t[2] \notin Called(t[1])
    BY <2>1, <2>2, <2>3, <2>4 DEF Called, Making
  <2>6. fulfilled[t[1]] <= Cardinality(Called(t[1])) /\ AllEnded(t[1])
    BY <2>1, <2>2 DEF Counts
  <2> QED
    BY <1>1, <1>4, <2>1, <2>3, <2>5, <2>6
<1>8. ASSUME NEW c \in Calls PROVE responded'[c] <= Cardinality(Counted(c)')
  <2>1. CASE responded'[c] = responded[c]
    BY <1>1, <1>4, <2>1 DEF Counts
  <2>2. CASE \E t \in Tasks : Store(t) /\ t[1] = c /\ responded'[c] = loaded[t] + 1
    BY <1>6, <2>2
  <2> QED
    BY <2>1, <2>2, CountsMove
<1>9. ASSUME NEW t \in Tasks
      PROVE  /\ cb'[t] = "store" => loaded'[t] <= Cardinality(Counted(t[1])')
             /\ loaded'[t] <= MaxTasks
  <2>1. t[1] \in Calls /\ MaxTasks \in Nat
    BY TaskParts, TaskFuturesAssumption
  <2>2. CASE Settle(t) /\ loaded'[t] = responded[t[1]]
    <3>1. responded[t[1]] <= Cardinality(Counted(t[1]))
      BY <2>1 DEF Counts
    <3> QED
      BY <1>1, <1>4, <2>1, <2>2, <3>1
  <2>3. CASE loaded'[t] = loaded[t] /\ (cb'[t] = "store" => ~Settle(t))
    <3>1. ASSUME cb'[t] = "store" PROVE cb[t] = "store"
      <4>1. Moves(t)
        BY TasksMove
      <4>2. CASE CallbackStep(t)
        <5>1. cb[t] = "due"
          BY <3>1, <4>2, CallbackGoesOn
        <5>2. Settle(t)
          BY <4>2, <5>1 DEF CallbackStep, Settle, Store, Compare, Fulfil, Raise, Return, Chain, ChainAdmit,
             ChainCreate, ChainThen, FailChain
        <5> QED
          BY <2>3, <3>1, <5>2
      <4>3. CASE ~CallbackStep(t)
        BY <3>1, <4>1, <4>3 DEF Moves
      <4> QED
        BY <4>2, <4>3
    <3>2. loaded[t] <= MaxTasks /\ (cb[t] = "store" => loaded[t] <= Cardinality(Counted(t[1])))
      BY DEF Counts
    <3> QED
      BY <1>2, <1>4, <2>1, <2>3, <3>1, <3>2
  <2> QED
    BY <2>2, <2>3, CountsMove
<1>10. ASSUME NEW t \in Tasks, cb'[t] = "fulfil", t[2] \in Own(t[1])' PROVE AllEnded(t[1])'
  <2>1. t[1] \in Calls /\ t[2] \in Nat /\ t = <<t[1], t[2]>>
    BY TaskParts
  <2>2. Moves(t)
    BY TasksMove
  <2>3. cb[t] # "none" /\ (cb[t] # "fulfil" => CallbackStep(t) /\ task'[t] = task[t])
    BY <1>10, <2>2, CallbackGoesOn DEF Moves
  <2>4. size'[t[1]] = size[t[1]] /\ t[2] \in Own(t[1])
    BY <1>5, <1>10, <2>3
  <2>5. CASE cb[t] = "fulfil"
    <3>1. AllEnded(t[1])
      BY <2>4, <2>5 DEF Counts
    <3> QED
      BY <2>1, <2>4, <3>1, AllEndedStays
  <2>6. CASE cb[t] = "compare"
    <3>1. AllResponded(t[1])
      BY <1>10, <2>3, <2>6, CallbackGoesOn
    <3>2. AllEnded(t[1])
      BY <2>1, <3>1, CountComplete
    <3> QED
      BY <2>1, <2>4, <3>2, AllEndedStays
  <2>7. CASE cb[t] = "due"
    <3>1. Single(t) /\ task[t] # "unfit"
      BY <1>10, <2>3, <2>7, CallbackGoesOn
    <3>2. t[2] <= size[t[1]] /\ size[t[1]] \in Nat /\ Own(t[1]) = 1..size[t[1]]
      BY <1>1, <2>1, <2>4
    <3>3. size[t[1]] = 1
      BY <2>1, <3>1, <3>2 DEF Single
    <3>4. t[2] = 1 /\ \A i \in Own(t[1]) : i = 1
      BY <2>1, <2>4, <3>2, <3>3
    <3>5. task[t] \in Ended
      BY <2>7, <3>1 DEF Callbacks
    <3>6. AllEnded(t[1])
      BY <2>1, <3>4, <3>5 DEF AllEnded
    <3> QED
      BY <2>1, <2>4, <3>6, AllEndedStays
  <2> QED
    BY <1>10, <2>3, <2>5, <2>6, <2>7, CallbackGoesOn
<1>11. ASSUME NEW c \in Calls
       PROVE  fulfilled'[c] <= Cardinality(Called(c)') /\ (fulfilled'[c] > 0 => AllEnded(c)')
  <2>1. CASE fulfilled'[c] = fulfilled[c]
    <3>1. fulfilled[c] <= Cardinality(Called(c)) /\ (fulfilled[c] > 0 => AllEnded(c))
      BY DEF Counts
    <3>2. ASSUME fulfilled[c] > 0 PROVE size'[c] = size[c]
      <4>1. ~(Begin /\ c = begun + 1)
        <5>1. begun \in Nat /\ c \in Nat
          BY TaskFuturesAssumption DEF Shapes, Calls
        <5>2. ~(c > begun)
          BY <1>1, <3>2 DEF AtCall
        <5> QED
          BY <5>1, <5>2
      <4> QED
        BY <4>1, SizesStay
    <3>3. fulfilled'[c] > 0 => AllEnded(c)'
      BY <2>1, <3>1, <3>2, AllEndedStays
    <3> QED
      BY <1>1, <1>4, <2>1, <3>1, <3>3
  <2>2. CASE \E t \in Tasks : Fulfil(t) /\ t[1] = c /\ t[2] <= size[c] /\ fulfilled'[c] = fulfilled[c] + 1
    <3>1. AllEnded(c) /\ fulfilled'[c] <= Cardinality(Called(c)') /\ size'[c] = size[c]
      BY <1>7, <2>2
    <3> QED
      BY <3>1, AllEndedStays
  <2> QED
    BY <2>1, <2>2, CountsMove
<1> QED
  BY <1>8, <1>9, <1>10, <1>11 DEF Counts

-----------------------------------------------------------------------------
(* Tasks that are counted one after the other.                             *)

\* A callback that was at a step has gone on from it.
Passed == {"none", "set", "due", "store", "compare"}

\* A step sets at most one callback of those of a call that goes on.
LEMMA OneGoesOn ==
    ASSUME Shapes, AtCall, Makers, Pool, Callbacks, [Step]_tvars,
           NEW t \in Tasks, cb'[t] # cb[t], cb'[t] \notin {"none", "set", "due"}
    PROVE  /\ CallbackStep(t)
           /\ \A u \in Tasks : u # t => cb'[u] = cb[u] \/ (cb[u] = "none" /\ cb'[u] \in {"set", "due"})
<1>1. Moves(t)
  BY TasksMove
<1>2. CallbackStep(t)
  BY <1>1 DEF Moves
<1> QED
  BY <1>2, CallbackGoesOn

\* Which step that is.
LEMMA ThatGoesOn ==
    ASSUME Shapes, Makers, NEW t \in Tasks, CallbackStep(t)
    PROVE  /\ cb'[t] = "store" => Settle(t)
           /\ cb[t] = "compare" => Compare(t)
           /\ cb'[t] = "fulfil" => /\ \/ Settle(t) /\ Single(t)
                                      \/ Compare(t) /\ AllResponded(t[1])
                                   /\ fulfilled' = fulfilled
           /\ cb[t] \notin Passed => cb'[t] \notin Passed
<1>1. cb \in [Tasks -> Active \cup {"none", "set", "over"}]
  BY DEF Shapes
<1>2. CASE Settle(t)
  BY <1>1, <1>2 DEF Settle, Passed
<1>3. CASE Compare(t)
  BY <1>1, <1>3 DEF Compare, Passed
<1>4. CASE ~Settle(t) /\ ~Compare(t)
  BY <1>1, <1>4, CallbackGoesOn DEF CallbackStep, Store, Fulfil, Raise, Return, Chain, ChainAdmit, ChainCreate,
     ChainThen, FailChain, Passed
<1> QED
  BY <1>2, <1>3, <1>4

\* A call that begins has nothing to count.
LEMMA TurnBegins ==
    ASSUME Shapes, AtCall, Makers, Pool, Callbacks, Counts, Begin, NEW c \in Calls, c = begun + 1
    PROVE  InTurn(c)'
<1>1. /\ cb' = cb /\ fulfilled' = fulfilled /\ responded' = responded
  BY DEF Begin, futureVars, countVars
<1>2. c > begun
  BY DEF Shapes, Calls
<1>3. responded'[c] = 0 /\ fulfilled'[c] = 0 /\ \A t \in Tasks : t[1] = c => cb'[t] = "none"
  BY <1>1, <1>2 DEF AtCall
<1>4. size' \in [Calls -> 0..MaxTasks] /\ MaxTasks \in Nat
  BY ShapesStep, TaskFuturesAssumption DEF Step, TNext, CallStep, Shapes
<1>5. \A i \in Own(c)' : <<c, i>> \in Tasks /\ <<c, i>>[1] = c
  <2> TAKE i \in Own(c)'
  <2>1. i \in 1..MaxTasks
    BY <1>4 DEF Own
  <2> QED
    BY <2>1, IsTask
<1>6. \A i \in Own(c)' : cb'[<<c, i>>] = "none"
  BY <1>3, <1>5
<1>7. Counted(c)' = {}
  BY <1>6 DEF Counted
<1>8. Cardinality(Counted(c)') = 0
  BY <1>7, FS_EmptySet
<1> QED
  BY <1>3, <1>6, <1>8 DEF InTurn, Counting

\* A call that is counted in turn goes on in turn.
LEMMA TurnGoesOn ==
    ASSUME Shapes, AtCall, Makers, Pool, Callbacks, Counts, [Step]_tvars,
           NEW c \in Calls, size'[c] = size[c], ~overlap'[c], InTurn(c)
    PROVE  InTurn(c)'
<1>1. /\ cb \in [Tasks -> Active \cup {"none", "set", "over"}]
      /\ size[c] \in Nat /\ size[c] <= MaxTasks /\ Own(c) = 1..size[c] /\ Own(c)' = Own(c)
      /\ responded[c] \in Nat /\ fulfilled[c] \in Nat
      /\ Counted(c) \in SUBSET (1..size[c]) /\ Counted(c)' \in SUBSET (1..size[c])
  BY OwnTasks DEF Shapes, Own, Counted
<1>2. \A i \in Own(c) : i \in Nat /\ <<c, i>> \in Tasks /\ <<c, i>>[1] = c /\ <<c, i>>[2] = i
  BY OwnTasks
<1>3. \A t \in Tasks : /\ t[1] \in Calls /\ t[2] \in Nat /\ t[2] >= 1 /\ t = <<t[1], t[2]>>
                       /\ (t[1] = c /\ t[2] <= size[c] => t[2] \in Own(c))
  BY <1>1, TaskParts
<1>4. /\ \A t, u \in Tasks : t[1] = c /\ u[1] = c /\ Counting(t) /\ Counting(u) => t = u
      /\ size[c] > 1 => responded[c] = Cardinality(Counted(c))
      /\ \A t \in Tasks : t[1] = c /\ cb[t] = "store" => loaded[t] = responded[c]
      /\ \A i, j \in Own(c) : cb[<<c, i>>] = "fulfil" /\ cb[<<c, j>>] = "fulfil" => i = j
      /\ \A i \in Own(c) : cb[<<c, i>>] = "fulfil" => fulfilled[c] = 0
      /\ fulfilled[c] <= 1
      /\ \A i, j \in Own(c) : fulfilled[c] > 0 \/ cb[<<c, i>>] = "fulfil" => cb[<<c, j>>] \notin Passed
  BY DEF InTurn, Passed
\* A task begins to be counted when no other is.
<1>5. ASSUME NEW t \in Tasks, t[1] = c, Counting(t)', ~Counting(t)
      PROVE  /\ Settle(t) /\ cb'[t] = "store" /\ loaded'[t] = responded[c] /\ responded' = responded
             /\ \A u \in Tasks : u[1] = c => ~Counting(u)
             /\ \A u \in Tasks : u # t => ~(Counting(u)' /\ ~Counting(u))
  <2>1. cb'[t] # cb[t] /\ cb'[t] \in {"store", "compare"} /\ cb[t] \notin {"store", "compare"}
    BY <1>5 DEF Counting
  <2>2. /\ CallbackStep(t)
        /\ \A u \in Tasks : u # t => cb'[u] = cb[u] \/ (cb[u] = "none" /\ cb'[u] \in {"set", "due"})
    BY <2>1, OneGoesOn
  <2>3. cb'[t] = "store"
    BY <2>1, <2>2, CallbackGoesOn
  <2>4. Settle(t)
    BY <2>2, <2>3, ThatGoesOn
  <2>5. /\ loaded'[t] = responded[c] /\ responded' = responded
        /\ overlap'[c] <=> (overlap[c] \/ \E u \in Tasks : u[1] = c /\ Counting(u))
    BY <1>5, <2>3, <2>4, CountsMove
  <2> QED
    BY <2>2, <2>3, <2>4, <2>5 DEF Counting
<1>6. ASSUME NEW t \in Tasks, NEW u \in Tasks, t[1] = c, u[1] = c, Counting(t)', Counting(u)' PROVE t = u
  BY <1>4, <1>5, <1>6
\* The step that counts one.
<1>7. ASSUME NEW t \in Tasks, t[1] = c, Store(t)
      PROVE  /\ responded'[c] = responded[c] + 1 /\ loaded' = loaded /\ cb'[t] = "compare"
             /\ \A u \in Tasks : u # t => cb'[u] = cb[u]
             /\ size[c] > 1 => responded'[c] = Cardinality(Counted(c)')
  <2>1. /\ cb[t] = "store" /\ cb' = [cb EXCEPT ![t] = "compare"] /\ task' = task /\ loaded' = loaded
        /\ responded' = [responded EXCEPT ![c] = loaded[t] + 1]
    BY <1>7 DEF Store, poolVars
  <2>2. responded'[c] = responded[c] + 1 /\ cb'[t] = "compare" /\ \A u \in Tasks : u # t => cb'[u] = cb[u]
    BY <1>1, <1>4, <1>7, <2>1 DEF Shapes
  <2>3. ASSUME size[c] > 1 PROVE responded'[c] = Cardinality(Counted(c)')
    <3>1. t[2] \in Own(c) /\ task[t] # "unfit" /\ t = <<c, t[2]>>
      BY <1>3, <1>7, <2>1 DEF Callbacks, Counting
    <3>2. t[2] \in Counted(c)' /\ t[2] \notin Counted(c)
      BY <1>1, <2>1, <2>2, <3>1 DEF Counted
    <3>3. ASSUME NEW i \in Counted(c)', i \notin Counted(c) PROVE i = t[2]
      <4>1. <<c, i>> \in Tasks /\ Store(<<c, i>>)
        BY <2>3, <3>3, CountedByStore
      <4>2. cb[<<c, i>>] = "store" /\ cb'[<<c, i>>] = "compare"
        BY <1>1, <4>1 DEF Store
      <4>3. <<c, i>> = t
        BY <2>2, <4>1, <4>2
      <4> QED
        BY <4>3
    <3>4. Counted(c) \subseteq Counted(c)'
      BY CountedStays
    <3>5. Counted(c)' = Counted(c) \cup {t[2]}
      BY <3>2, <3>3, <3>4
    <3>6. Cardinality(Counted(c)') = Cardinality(Counted(c)) + 1
      BY <1>1, <3>2, <3>4, <3>5, Grows
    <3> QED
      BY <1>4, <2>2, <2>3, <3>6
  <2> QED
    BY <2>1, <2>2, <2>3
<1>8. ASSUME \A t \in Tasks : t[1] = c => ~Store(t)
      PROVE  responded'[c] = responded[c] /\ (size[c] > 1 => responded'[c] = Cardinality(Counted(c)'))
  <2>1. responded'[c] = responded[c]
    BY <1>8, CountsMove
  <2>2. ASSUME size[c] > 1 PROVE Counted(c)' = Counted(c)
    <3>1. ASSUME NEW i \in Counted(c)', i \notin Counted(c) PROVE FALSE
      <4>1. Store(<<c, i>>) /\ <<c, i>> \in Tasks
        BY <2>2, <3>1, CountedByStore
      <4>2. <<c, i>>[1] = c
        OBVIOUS
      <4> QED
        BY <1>8, <4>1, <4>2
    <3> QED
      BY <3>1, CountedStays
  <2> QED
    BY <1>4, <2>1, <2>2
<1>9. size'[c] > 1 => responded'[c] = Cardinality(Counted(c)')
  BY <1>7, <1>8
<1>10. ASSUME NEW t \in Tasks, t[1] = c, cb'[t] = "store" PROVE loaded'[t] = responded'[c]
  <2>1. CASE cb[t] = "store"
    <3>1. ~CallbackStep(t)
      BY <1>10, <2>1, CallbackGoesOn
    <3>2. ~Settle(t)
      BY <2>1 DEF Settle
    <3>3. loaded'[t] = loaded[t]
      BY <3>2, CountsMove
    <3>4. ASSUME NEW u \in Tasks, u[1] = c PROVE ~Store(u)
      <4>1. SUFFICES ASSUME Store(u) PROVE FALSE
        OBVIOUS
      <4>2. Counting(u) /\ Counting(t)
        BY <2>1, <4>1 DEF Store, Counting
      <4>3. u = t
        BY <1>4, <1>10, <3>4, <4>2
      <4> QED
        BY <3>1, <4>1, <4>3 DEF CallbackStep
    <3>5. responded'[c] = responded[c]
      BY <1>8, <3>4
    <3> QED
      BY <1>4, <1>10, <2>1, <3>3, <3>5
  <2>2. CASE cb[t] # "store"
    <3>1. CASE Counting(t)
      <4>1. cb[t] = "compare" /\ cb'[t] # cb[t]
        BY <1>10, <2>2, <3>1 DEF Counting
      <4>2. CallbackStep(t)
        BY <1>10, <4>1, OneGoesOn
      <4> QED
        BY <1>10, <4>1, <4>2, CallbackGoesOn
    <3>2. CASE ~Counting(t)
      <4>1. Counting(t)'
        BY <1>10 DEF Counting
      <4> QED
        BY <1>5, <1>10, <3>2, <4>1
    <3> QED
      BY <3>1, <3>2
  <2> QED
    BY <2>1, <2>2
\* The callback is to be called: all have been counted, no other is at it.
<1>11. ASSUME NEW i \in Own(c), cb'[<<c, i>>] = "fulfil", cb[<<c, i>>] # "fulfil"
       PROVE  /\ fulfilled'[c] = 0
              /\ \A j \in Own(c) : cb'[<<c, j>>] \notin Passed /\ cb[<<c, j>>] # "fulfil"
              /\ \A j \in Own(c) : j # i => cb'[<<c, j>>] = cb[<<c, j>>]
                                            \/ (cb[<<c, j>>] = "none" /\ cb'[<<c, j>>] \in {"set", "due"})
  <2> DEFINE t == <<c, i>>
  <2>1. t \in Tasks /\ t[1] = c /\ t[2] = i
    BY <1>2
  <2>2. cb'[t] = "fulfil" /\ cb[t] # "fulfil"
    BY <1>11
  <2>t. t = <<c, i>>
    OBVIOUS
  <2> HIDE DEF t
  <2>3. /\ CallbackStep(t)
        /\ \A u \in Tasks : u # t => cb'[u] = cb[u] \/ (cb[u] = "none" /\ cb'[u] \in {"set", "due"})
    BY <2>1, <2>2, OneGoesOn
  <2>4. /\ (Settle(t) /\ Single(t)) \/ (Compare(t) /\ AllResponded(c))
        /\ fulfilled' = fulfilled
    BY <2>1, <2>2, <2>3, ThatGoesOn
  <2>5. cb[t] \in Passed
    BY <2>4 DEF Settle, Compare, Passed
  <2>6. fulfilled[c] = 0 /\ \A j \in Own(c) : cb[<<c, j>>] # "fulfil"
    BY <1>1, <1>4, <2>5, <2>t
  <2>7. \A j \in Own(c) : j # i => /\ <<c, j>> # t /\ <<c, j>> \in Tasks
                                   /\ \/ cb'[<<c, j>>] = cb[<<c, j>>]
                                      \/ cb[<<c, j>>] = "none" /\ cb'[<<c, j>>] \in {"set", "due"}
    <3> TAKE j \in Own(c)
    <3> HAVE j # i
    <3>1. <<c, j>> # t /\ <<c, j>> \in Tasks
      BY <1>2, <2>t
    <3> QED
      BY <2>3, <3>1
  <2>8. ASSUME NEW j \in Own(c) PROVE cb'[<<c, j>>] \notin Passed
    <3>1. CASE j = i
      BY <2>2, <2>t, <3>1 DEF Passed
    <3>2. CASE j # i /\ Settle(t) /\ Single(t)
      <4>1. size[c] = 1
        BY <1>1, <1>2, <2>1, <3>2 DEF Single
      <4> QED
        BY <1>1, <3>2, <4>1
    <3>3. CASE j # i /\ Compare(t) /\ AllResponded(c)
      <4>1. Counted(c) = Own(c)
        BY <3>3, CountComplete
      <4>2. cb[<<c, j>>] \notin {"none", "set", "due", "store"}
        BY <4>1 DEF Counted
      <4>3. Counting(t) /\ <<c, j>> \in Tasks /\ <<c, j>> # t /\ <<c, j>>[1] = c
        BY <1>2, <2>7, <3>3 DEF Compare, Counting
      <4>4. ~Counting(<<c, j>>)
        BY <1>4, <2>1, <4>3
      <4>5. cb[<<c, j>>] # "compare"
        BY <4>4 DEF Counting
      <4>6. cb'[<<c, j>>] = cb[<<c, j>>]
        BY <2>7, <3>3, <4>2
      <4> QED
        BY <4>2, <4>5, <4>6 DEF Passed
    <3> QED
      BY <2>4, <3>1, <3>2, <3>3
  <2> QED
    BY <2>4, <2>6, <2>7, <2>8
<1>12. ASSUME NEW i \in Own(c), NEW j \in Own(c), cb'[<<c, i>>] = "fulfil", cb'[<<c, j>>] = "fulfil" PROVE i = j
  <2>1. CASE cb[<<c, i>>] = "fulfil" /\ cb[<<c, j>>] = "fulfil"
    BY <1>4, <2>1
  <2>2. ASSUME NEW k \in Own(c), NEW l \in Own(c), cb'[<<c, k>>] = "fulfil", cb'[<<c, l>>] = "fulfil",
               cb[<<c, k>>] # "fulfil"
        PROVE  k = l
    BY <1>11, <2>2
  <2> QED
    BY <1>12, <2>1, <2>2
\* The callback is called.
<1>13. ASSUME NEW t \in Tasks, Fulfil(t), t[1] = c, t[2] <= size[c]
       PROVE  /\ t[2] \in Own(c) /\ cb[<<c, t[2]>>] = "fulfil" /\ fulfilled[c] = 0
              /\ \A i \in Own(c) : cb'[<<c, i>>] # "fulfil"
  <2>1. cb[t] = "fulfil" /\ cb' = [cb EXCEPT ![t] = IF ~Single(t) /\ spent[t[1]] THEN "over" ELSE "callback"]
    BY <1>13 DEF Fulfil
  <2>2. t[2] \in Own(c) /\ t = <<c, t[2]>>
    BY <1>3, <1>13
  <2>3. cb[<<c, t[2]>>] = "fulfil"
    BY <2>1, <2>2
  <2>4. cb'[t] # "fulfil" /\ \A u \in Tasks : u # t => cb'[u] = cb[u]
    BY <1>1, <2>1
  <2>5. ASSUME NEW i \in Own(c), cb'[<<c, i>>] = "fulfil" PROVE FALSE
    <3>1. <<c, i>> # t /\ <<c, i>> \in Tasks
      BY <1>2, <2>4, <2>5
    <3>2. cb[<<c, i>>] = "fulfil"
      BY <2>4, <2>5, <3>1
    <3>3. i = t[2]
      BY <1>4, <2>2, <2>3, <3>2
    <3> QED
      BY <2>2, <3>1, <3>3
  <2> QED
    BY <1>4, <2>2, <2>3, <2>5
<1>14. fulfilled'[c] = fulfilled[c]
       \/ (fulfilled[c] = 0 /\ fulfilled'[c] = 1 /\ (\A i \in Own(c) : cb'[<<c, i>>] # "fulfil")
           /\ \E i \in Own(c) : cb[<<c, i>>] = "fulfil")
  <2>1. CASE \E t \in Tasks : Fulfil(t) /\ t[1] = c /\ t[2] <= size[c] /\ fulfilled'[c] = fulfilled[c] + 1
    <3>1. PICK t \in Tasks : Fulfil(t) /\ t[1] = c /\ t[2] <= size[c] /\ fulfilled'[c] = fulfilled[c] + 1
      BY <2>1
    <3>2. /\ t[2] \in Own(c) /\ cb[<<c, t[2]>>] = "fulfil" /\ fulfilled[c] = 0
          /\ \A i \in Own(c) : cb'[<<c, i>>] # "fulfil"
      BY <1>13, <3>1
    <3>3. fulfilled'[c] = 1
      BY <3>1, <3>2
    <3> QED
      BY <3>2, <3>3
  <2> QED
    BY <2>1, CountsMove
<1>15. fulfilled'[c] <= 1
  BY <1>4, <1>14
<1>16. ASSUME NEW i \in Own(c), cb'[<<c, i>>] = "fulfil" PROVE fulfilled'[c] = 0
  <2>1. CASE cb[<<c, i>>] = "fulfil"
    BY <1>4, <1>14, <1>16, <2>1
  <2> QED
    BY <1>11, <1>16, <2>1
<1>17. ASSUME NEW j \in Own(c), cb[<<c, j>>] \notin Passed PROVE cb'[<<c, j>>] \notin Passed
  <2> DEFINE t == <<c, j>>
  <2>1. t \in Tasks /\ cb[t] \notin Passed
    BY <1>2, <1>17
  <2> HIDE DEF t
  <2>2. Moves(t)
    BY <2>1, TasksMove
  <2>3. CallbackStep(t) => cb'[t] \notin Passed
    BY <2>1, ThatGoesOn
  <2>4. ~CallbackStep(t) => cb'[t] \notin Passed
    BY <2>1, <2>2 DEF Moves, Passed
  <2>5. cb'[t] \notin Passed
    BY <2>3, <2>4
  <2> QED
    BY <2>5 DEF t
<1>18. ASSUME NEW i \in Own(c), NEW j \in Own(c), fulfilled'[c] > 0 \/ cb'[<<c, i>>] = "fulfil"
       PROVE  cb'[<<c, j>>] \notin Passed
  <2>1. CASE fulfilled[c] > 0 \/ \E k \in Own(c) : cb[<<c, k>>] = "fulfil"
    <3>1. cb[<<c, j>>] \notin Passed
      BY <1>4, <2>1
    <3> QED
      BY <1>17, <3>1
  <2>2. CASE ~(fulfilled[c] > 0) /\ \A k \in Own(c) : cb[<<c, k>>] # "fulfil"
    <3>1. ~(fulfilled'[c] > 0)
      BY <1>14, <2>2
    <3>2. cb'[<<c, i>>] = "fulfil" /\ cb[<<c, i>>] # "fulfil"
      BY <1>18, <2>2, <3>1
    <3> QED
      BY <1>11, <3>2
  <2> QED
    BY <2>1, <2>2
<1> QED
  BY <1>1, <1>6, <1>9, <1>10, <1>12, <1>15, <1>16, <1>18 DEF InTurn, Passed

\* Every step keeps Turns.
LEMMA TurnsStep ==
    ASSUME Shapes, AtCall, Makers, Pool, Callbacks, Counts, Turns, [Step]_tvars PROVE Turns'
<1> SUFFICES ASSUME NEW c \in Calls, ~overlap'[c] PROVE InTurn(c)'
  BY DEF Turns
<1>1. InTurn(c)
  BY CountsMove DEF Turns
<1>2. CASE Begin /\ c = begun + 1
  BY <1>2, TurnBegins
<1>3. CASE size'[c] = size[c]
  BY <1>1, <1>3, TurnGoesOn
<1> QED
  BY <1>2, <1>3, SizesStay

-----------------------------------------------------------------------------
(* Theorems.                                                               *)

LEMMA FInit == Init => FInv
<1> SUFFICES ASSUME Init PROVE FInv
  OBVIOUS
<1> USE TaskFuturesAssumption
<1>1. TInit
  BY DEF Init
<1>2. Shapes
  <2>1. work \in Seq(Tasks)
    <3>1. work = <<>>
      BY <1>1 DEF TInit
    <3>2. <<>> \in Seq(Tasks)
      OBVIOUS
    <3> QED
      BY <3>1, <3>2
  <2>2. call \in [pc : {"idle", "admit", "create", "list", "then", "attach", "attached"},
                 of : 0..MaxReq, at : 0..MaxTasks]
    BY <1>1 DEF TInit, NoCall
  <2>3. /\ begun \in 0..MaxReq
        /\ size \in [Calls -> 0..MaxTasks] /\ made \in [Calls -> 0..MaxTasks]
        /\ loaded \in [Tasks -> Nat] /\ responded \in [Calls -> Nat] /\ fulfilled \in [Calls -> Nat]
    BY <1>1 DEF TInit
  <2>4. /\ task \in [Tasks -> Live \cup {"none", "ended", "unfit", "cancelled"}]
        /\ cb \in [Tasks -> Active \cup {"none", "set", "over"}]
        /\ by \in [Tasks -> {"pool", "closer", "call"}]
    BY <1>1 DEF TInit
  <2>5. spent \in [Calls -> BOOLEAN] /\ overlap \in [Calls -> BOOLEAN]
    BY <1>1, Zenon DEF TInit
  <2>6. /\ listed \subseteq Tasks /\ executor \in {"none", "up", "shut"}
        /\ noMore \in BOOLEAN /\ locked \in BOOLEAN
        /\ closer \in {"idle", "drain", "wait", "closed"}
    BY <1>1 DEF TInit
  <2> QED
    BY <2>1, <2>2, <2>3, <2>4, <2>5, <2>6, Zenon DEF Shapes
<1>3. \A t \in Tasks : task[t] = "none" /\ cb[t] = "none"
  BY <1>1 DEF TInit
<1>4. \A c \in Calls : made[c] = 0 /\ size[c] = 0 /\ responded[c] = 0 /\ fulfilled[c] = 0
  BY <1>1 DEF TInit
<1>5. \A t \in Tasks : t[1] \in Calls /\ t[2] \in Nat /\ t[2] > made[t[1]] /\ loaded[t] = 0
  BY <1>1, <1>4, TaskParts DEF TInit
<1>6. Pool
  BY <1>1, <1>3, <1>5 DEF TInit, Pool
<1>7. AtCall
  BY <1>1, <1>3, <1>4 DEF TInit, NoCall, AtCall
<1>8. Makers
  BY <1>3 DEF Makers, Making
<1>c. Callbacks
  <2>1. \A t \in Tasks : cb[t] = "none"
    BY <1>3
  <2>2. "none" # "set" /\ "none" \in {"none", "set"} /\ "none" \in {"none", "set", "due", "over"}
        /\ "none" \notin {"store", "compare"}
    OBVIOUS
  <2> QED
    BY <2>1, <2>2, Zenon DEF Callbacks, Counting
<1>9. \A c \in Calls : Own(c) = {} /\ Counted(c) = {} /\ Called(c) = {} /\ AllEnded(c)
  BY <1>4 DEF Own, Counted, Called, AllEnded
<1>10. Cardinality({}) = 0
  BY FS_EmptySet
<1>11. Counts
  <2>1. \A c \in Calls : Cardinality(Counted(c)) = 0 /\ Cardinality(Called(c)) = 0
    BY <1>9, <1>10
  <2>2. \A t \in Tasks : cb[t] # "store" /\ cb[t] # "fulfil" /\ loaded[t] <= MaxTasks
    BY <1>3, <1>5
  <2> QED
    BY <1>4, <2>1, <2>2 DEF Counts
<1>12. Turns
  BY <1>3, <1>4, <1>9, <1>10 DEF Turns, InTurn, Counting
<1>13. TasksAccountedFor
  BY <1>3 DEF TasksAccountedFor, Live
<1> QED
  BY <1>2, <1>6, <1>7, <1>8, <1>c, <1>11, <1>12, <1>13 DEF FInv

LEMMA FStep == FInv /\ [Next]_vars => FInv'
<1> SUFFICES ASSUME FInv, [Next]_vars PROVE FInv'
  OBVIOUS
<1>1. [Step]_tvars
  BY AsTasks
<1>2. Shapes /\ Pool /\ AtCall /\ Makers /\ Callbacks /\ Counts /\ Turns /\ TasksAccountedFor
  BY DEF FInv
<1>3. Shapes' /\ Pool' /\ AtCall' /\ Makers'
  BY <1>1, <1>2, ShapesStep, PoolStep, AtCallStep, MakersStep
<1>4. Callbacks' /\ Counts' /\ Turns' /\ TasksAccountedFor'
  BY <1>1, <1>2, CallbacksStep, CountsStep, TurnsStep, AccountedStep
<1> QED
  BY <1>3, <1>4 DEF FInv

\* What the tasks and the futures keep at every step, whatever the contexts do.
THEOREM Invariant == Spec => []FInv
<1>1. Init => FInv
  BY FInit
<1>2. FInv /\ [Next]_vars => FInv'
  BY FStep
<1> QED
  BY <1>1, <1>2, PTL DEF Spec

\* The futures' part of TypeOK: the counts stay within the tasks there can be.
THEOREM FuturesTyped == Spec => []TTypeOK
<1>1. FInv => TTypeOK
  <2> SUFFICES ASSUME FInv PROVE TTypeOK
    OBVIOUS
  <2>1. Shapes /\ Counts
    BY DEF FInv
  <2>2. \A c \in Calls : responded[c] \in 0..MaxTasks /\ fulfilled[c] \in 0..MaxTasks
    <3> TAKE c \in Calls
    <3>1. /\ size[c] \in Nat /\ size[c] <= MaxTasks /\ MaxTasks \in Nat
          /\ Counted(c) \in SUBSET (1..size[c]) /\ Called(c) \in SUBSET (1..size[c])
      BY <2>1, OwnTasks, TaskFuturesAssumption
    <3>2. Cardinality(Counted(c)) \in Nat /\ Cardinality(Counted(c)) <= size[c]
          /\ Cardinality(Called(c)) \in Nat /\ Cardinality(Called(c)) <= size[c]
      BY <3>1, Part
    <3>3. responded[c] \in Nat /\ responded[c] <= Cardinality(Counted(c))
          /\ fulfilled[c] \in Nat /\ fulfilled[c] <= Cardinality(Called(c))
      BY <2>1 DEF Shapes, Counts
    <3> QED
      BY <3>1, <3>2, <3>3
  <2>3. \A t \in Tasks : loaded[t] \in 0..MaxTasks
    BY <2>1, TaskFuturesAssumption DEF Shapes, Counts
  <2>4. responded \in [Calls -> 0..MaxTasks] /\ fulfilled \in [Calls -> 0..MaxTasks]
    BY <2>1, <2>2 DEF Shapes
  <2>5. loaded \in [Tasks -> 0..MaxTasks]
    BY <2>1, <2>3 DEF Shapes
  <2> QED
    BY <2>1, <2>4, <2>5 DEF Shapes, TTypeOK
<1> QED
  BY <1>1, Invariant, PTL

\* A Futures calls its callback when the last of its tasks has ended, and calls
\* it once unless two of its tasks were counted at the same time (Futures._collect).
THEOREM CallbackOnceAndAfterAll == Spec => []FulfilledOnce
<1>1. FInv => FulfilledOnce
  <2> SUFFICES ASSUME FInv, NEW c \in Calls
               PROVE  /\ fulfilled[c] > 0 => \A i \in 1..size[c] : task[<<c, i>>] \in {"ended", "cancelled"}
                      /\ fulfilled[c] > 1 => overlap[c]
    BY DEF FulfilledOnce
  <2>1. fulfilled[c] > 0 => AllEnded(c)
    BY DEF FInv, Counts
  <2>2. ~overlap[c] => fulfilled[c] <= 1
    BY DEF FInv, Turns, InTurn
  <2>3. fulfilled[c] \in Nat
    BY DEF FInv, Shapes
  <2> QED
    BY <2>1, <2>2, <2>3 DEF AllEnded, Own, Ended
<1> QED
  BY <1>1, Invariant, PTL

\* Every task the pool still has is listed, or about to be, and none is left
\* when shutdown has returned (ThreadExecutor.__call__ and shutdown).
THEOREM NoTaskUnaccounted == Spec => []TasksAccountedFor
<1>1. FInv => TasksAccountedFor
  BY DEF FInv
<1> QED
  BY <1>1, Invariant, PTL

-----------------------------------------------------------------------------
(* The contexts.                                                           *)

Collecting == {"admit", "create", "list", "then"}

\* The request thread looks for a clone on behalf of the call that is being
\* made; a call has a future, and a clone, before it has callbacks.
Together ==
    /\ Contexts!TypeOK /\ senders \in Seq(Calls) /\ Len(senders) = Len(thunks)
    /\ began = begun
    /\ thread.pc = "idle" <=> call.pc \notin Collecting
    /\ thread.pc # "idle" => thread.req = call.of
    /\ thread.pc \notin {"idle", "look"} => thread.at \in Contexts!Clones
    /\ \A c \in Calls : future[c] # "none" =>
         held[c] \in Contexts!Clones /\ c <= begun /\ (call.pc \in Collecting => c # call.of)
    /\ \A t \in Tasks : future[t[1]] = "none" => cb[t] = "none"
    /\ call.pc \in {"attach", "attached"} => future[call.of] # "none"

\* The callbacks of a call that are called, and those of chained futures that wait.
AtWork == {"callback", "failed"} \cup Making
Waiting == {"set", "due", "fulfil"}
Chained(t) == t[2] > size[t[1]]

\* A call has one callback at a time, and its future is where that callback is.
OneAtATime(c) ==
    /\ \A t \in Tasks : t[1] = c /\ cb[t] \in AtWork =>
         fulfilled[c] > 0 /\ future[c] \in {"respond", "answer", "dropped", "silent"}
    /\ \A t \in Tasks : t[1] = c /\ (cb[t] = "fulfil" \/ (Chained(t) /\ cb[t] \in Waiting)) =>
         future[c] = "running"
    /\ \A t \in Tasks : t[1] = c /\ Chained(t) /\ cb[t] # "none" => fulfilled[c] > 0
    /\ \A t, u \in Tasks : t[1] = c /\ u[1] = c /\ cb[t] \in AtWork /\ cb[u] \in AtWork => t = u
    /\ \A t, u \in Tasks : t[1] = c /\ u[1] = c /\ Chained(t) /\ Chained(u)
                           /\ cb[t] \in Waiting /\ cb[u] \in Waiting => t = u
    /\ fulfilled[c] = 0 => future[c] \in {"none", "running"}

\* A clone has one holder, who finds its own request in it or none.
OneHolder ==
    /\ \A c, d \in Calls : c # d /\ Contexts!Holds(c) /\ Contexts!Holds(d) => held[c] # held[d]
    /\ \A c \in Calls : Contexts!Holds(c) =>
         /\ clone[held[c]].env
         /\ clone[held[c]].request \in {c, Contexts!Absent}
         /\ clone[held[c]].response \in {c, Contexts!Absent}
         /\ thread.pc \notin {"idle", "look"} => held[c] # thread.at
    /\ thread.pc \in {"request", "response", "then"} => clone[thread.at].env
    /\ thread.pc \in {"response", "then"} => clone[thread.at].request \in {thread.req, Contexts!Absent}
    /\ thread.pc = "then" => clone[thread.at].response \in {thread.req, Contexts!Absent}

\* A thunk is on its way once for each call whose answer is given, or the main
\* thread has run it and is to give the clone back.
OneThunk ==
    /\ \A i \in 1..Len(thunks) : thunks[i] = <<senders[i], held[senders[i]]>> /\ future[senders[i]] = "thunk"
    /\ \A i, j \in 1..Len(thunks) : senders[i] = senders[j] => i = j
    /\ main.pc = "env" => \E c \in Calls : /\ future[c] = "thunk" /\ held[c] = main.at
                                           /\ \A i \in 1..Len(thunks) : senders[i] # c

NoOverlap == \A c \in Calls : ~overlap[c]
Apart == OneHolder /\ OneThunk /\ \A c \in Calls : OneAtATime(c)
CInv == Together /\ (NoOverlap => Apart)

-----------------------------------------------------------------------------
(* What a step of the composition does to the futures.                     *)

\* Where the future of a call is, and which clone it has.
LEMMA FutureMoves ==
    ASSUME Together, [Next]_vars, NEW c \in Calls
    PROVE  \/ future'[c] = future[c] /\ held'[c] = held[c]
           \/ /\ HaveContext /\ thread.pc = "then" /\ c = call.of /\ c = thread.req
              /\ future[c] = "none" /\ future'[c] = "running" /\ held'[c] = thread.at
           \/ /\ held'[c] = held[c]
              /\ \E t \in Tasks : /\ t[1] = c
                                  /\ \/ /\ LateRespond(t) /\ future[c] = "running"
                                        /\ future'[c] \in {"silent", "respond"}
                                     \/ /\ Content(t) /\ future[c] = "respond"
                                        /\ future'[c] \in {"dropped", "answer"}
                                     \/ /\ FutureChained(t) /\ future[c] = "respond" /\ future'[c] = "running"
                                     \/ /\ HandOver(t) /\ future[c] = "answer"
                                        /\ future'[c] \in {"silent", "thunk"}
           \/ /\ ContextFreed /\ Contexts!ClearEnv /\ held'[c] = held[c]
              /\ future[c] = "thunk" /\ held[c] = main.at /\ future'[c] = "freed"
<1>1. /\ future \in [Calls -> Contexts!TaskStates] /\ held \in [Calls -> 0..MaxClones]
      /\ Contexts!Requests = Calls
  BY DEF Together, Contexts!TypeOK, Contexts!Requests, Calls
<1>2. CASE UNCHANGED contextVars
  BY <1>2 DEF contextVars
<1>3. CASE CallBegins \/ CallFails \/ NoClone
  BY <1>3 DEF CallBegins, CallFails, NoClone, Contexts!Then, Contexts!Fail, Contexts!TooMany
<1>4. CASE HaveContext
  <2>1. /\ thread.pc = "then" /\ future' = [future EXCEPT ![thread.req] = "running"]
        /\ held' = [held EXCEPT ![thread.req] = thread.at]
    BY <1>4 DEF HaveContext, Contexts!Return
  <2>2. thread.req = call.of /\ (future[call.of] # "none" => call.of \notin Calls)
    BY <2>1 DEF Together
  <2>3. CASE c = thread.req
    BY <1>1, <1>4, <2>1, <2>2, <2>3
  <2>4. CASE c # thread.req
    BY <1>1, <2>1, <2>4
  <2> QED
    BY <2>3, <2>4
<1>5. CASE CloneStep
  BY <1>5 DEF CloneStep, Contexts!Look, Contexts!SetEnv, Contexts!SetRequest, Contexts!SetResponse
<1>6. ASSUME NEW t \in Tasks, Callback(t) PROVE (future'[c] = future[c] /\ held'[c] = held[c])
         \/ /\ held'[c] = held[c] /\ t[1] = c
            /\ \/ /\ LateRespond(t) /\ future[c] = "running" /\ future'[c] \in {"silent", "respond"}
               \/ /\ Content(t) /\ future[c] = "respond" /\ future'[c] \in {"dropped", "answer"}
               \/ /\ FutureChained(t) /\ future[c] = "respond" /\ future'[c] = "running"
               \/ /\ HandOver(t) /\ future[c] = "answer" /\ future'[c] \in {"silent", "thunk"}
  <2>1. t[1] \in Calls
    BY TaskParts
  <2>2. CASE FallSilent(t) \/ Unwanted(t) \/ AnotherFuture(t) \/ NoContent(t) \/ AnswerAgain(t)
    BY <2>2 DEF FallSilent, Unwanted, AnotherFuture, NoContent, AnswerAgain, contextVars
  <2>3. CASE LateRespond(t)
    BY <1>1, <2>1, <2>3 DEF LateRespond, contextVars, Contexts!Settle, Contexts!State, Contexts!taskRest
  <2>4. CASE Content(t)
    BY <1>1, <2>1, <2>4 DEF Content, Contexts!Fulfil, Contexts!State, Contexts!taskRest
  <2>5. CASE FutureChained(t)
    BY <1>1, <2>1, <2>5 DEF FutureChained, Contexts!Fulfil, Contexts!State, Contexts!taskRest
  <2>6. CASE HandOver(t)
    BY <1>1, <2>1, <2>6 DEF HandOver, Contexts!Answer, Contexts!State, Contexts!taskRest
  <2> QED
    BY <1>6, <2>2, <2>3, <2>4, <2>5, <2>6 DEF Callback
<1>7. CASE ThunkRuns \/ LoopEnds \/ \E d \in Calls : Expires(d)
  BY <1>7 DEF ThunkRuns, LoopEnds, Expires, Contexts!RunThunk, Contexts!Timeout, Contexts!mainRest, contextVars
<1>8. CASE ContextFreed
  <2>1. CASE Contexts!ClearEnv
    BY <1>1, <1>8, <2>1 DEF Contexts!ClearEnv, Contexts!mainRest
  <2>2. CASE Contexts!DelResponse \/ Contexts!DelRequest
    BY <2>2 DEF Contexts!DelResponse, Contexts!DelRequest, Contexts!mainRest
  <2> QED
    BY <1>8, <2>1, <2>2 DEF ContextFreed
<1>9. CASE FuturesStep \/ UNCHANGED vars
  BY <1>2, <1>9 DEF FuturesStep, vars
<1>10. CASE \E t \in Tasks : Callback(t)
  BY <1>6, <1>10
<1> QED
  BY <1>3, <1>4, <1>5, <1>7, <1>8, <1>9, <1>10 DEF Next

\* A future stays one, on its clone.
LEMMA FutureStays ==
    ASSUME Together, [Next]_vars, NEW c \in Calls, future[c] # "none"
    PROVE  future'[c] # "none" /\ held'[c] = held[c]
  BY FutureMoves

\* What a step does to the request thread.
LEMMA CallGoes ==
    ASSUME Shapes, [Next]_vars
    PROVE  \/ CallBegins
           \/ CallFails \/ NoClone
           \/ HaveContext
           \/ /\ begun' = begun
              /\ call'.pc \in Collecting <=> call.pc \in Collecting
              /\ call'.pc \in Collecting => call'.of = call.of
              /\ call'.pc \in {"attach", "attached"} => call.pc \in {"attach", "attached"} /\ call'.of = call.of
              /\ \/ thread' = thread /\ began' = began
                 \/ CloneStep /\ call' = call
<1>1. call \in [pc : {"idle", "admit", "create", "list", "then", "attach", "attached"},
                of : 0..MaxReq, at : 0..MaxTasks]
  BY DEF Shapes
<1>2. CASE UNCHANGED callVars /\ UNCHANGED <<thread, began>>
  BY <1>2 DEF callVars
<1>3. CASE FuturesStep
  <2>1. thread' = thread /\ began' = began
    BY <1>3 DEF FuturesStep, contextVars
  <2>2. CASE AdmitTask \/ CreateTask
    BY <1>1, <2>1, <2>2 DEF AdmitTask, CreateTask, Collecting
  <2>3. CASE ListTask
    BY <1>1, <2>1, <2>3 DEF ListTask, Collecting
  <2>4. CASE Attach
    BY <1>1, <2>1, <2>4 DEF Attach, Collecting
  <2>5. CASE Attached
    BY <1>1, <2>1, <2>5 DEF Attached, Collecting, NoCall
  <2>6. CASE UNCHANGED callVars
    BY <1>2, <2>1, <2>6
  <2> QED
    BY <1>3, <2>2, <2>3, <2>4, <2>5, <2>6 DEF FuturesStep, Start, CloserStep, Cancel, Drained, Closed, End,
       Settle, Store, Compare, ChainAdmit, ChainCreate, FailChain, Raise, callbackRest
<1>4. CASE CloneStep
  BY <1>4 DEF CloneStep, tvars, callVars
<1>5. ASSUME NEW t \in Tasks, Callback(t) PROVE UNCHANGED callVars /\ UNCHANGED <<thread, began>>
  <2>1. CASE FallSilent(t) \/ Unwanted(t) \/ AnotherFuture(t)
    BY <2>1 DEF FallSilent, Unwanted, AnotherFuture, contextVars, Return, Chain, callbackRest
  <2>2. CASE LateRespond(t) \/ NoContent(t)
    BY <2>2 DEF LateRespond, NoContent, contextVars, Contexts!Settle, Contexts!taskRest, Fulfil, callbackRest
  <2>3. CASE Content(t)
    BY <2>3 DEF Content, Contexts!Fulfil, Contexts!taskRest, tvars
  <2>4. CASE FutureChained(t)
    BY <2>4 DEF FutureChained, Contexts!Fulfil, Contexts!taskRest, ChainThen
  <2>5. CASE HandOver(t) \/ AnswerAgain(t)
    BY <2>5 DEF HandOver, AnswerAgain, Contexts!Answer, Contexts!taskRest, Return, callbackRest
  <2> QED
    BY <1>5, <2>1, <2>2, <2>3, <2>4, <2>5 DEF Callback
<1>6. CASE ThunkRuns \/ ContextFreed \/ LoopEnds \/ \E d \in Calls : Expires(d)
  <2>1. UNCHANGED callVars /\ UNCHANGED <<thread, began>>
    BY <1>6 DEF ThunkRuns, ContextFreed, LoopEnds, Expires, Contexts!RunThunk, Contexts!ClearEnv,
       Contexts!DelResponse, Contexts!DelRequest, Contexts!Timeout, Contexts!mainRest, Shutdown, contextVars, tvars
  <2> QED
    BY <1>2, <2>1
<1>7. CASE UNCHANGED vars
  BY <1>2, <1>7 DEF vars, tvars, contextVars
<1> QED
  BY <1>2, <1>3, <1>4, <1>5, <1>6, <1>7 DEF Next

\* Every step keeps the request thread with its call.
LEMMA ThreadStep ==
    ASSUME FInv, Together, [Next]_vars
    PROVE  /\ began' = begun'
           /\ thread'.pc = "idle" <=> call'.pc \notin Collecting
           /\ thread'.pc # "idle" => thread'.req = call'.of
           /\ thread'.pc \notin {"idle", "look"} => thread'.at \in Contexts!Clones
<1>1. /\ began = begun
      /\ thread.pc = "idle" <=> call.pc \notin Collecting
      /\ thread.pc # "idle" => thread.req = call.of
      /\ thread.pc \notin {"idle", "look"} => thread.at \in Contexts!Clones
      /\ thread \in [pc : {"idle", "look", "env", "request", "response", "then"},
                     req : 0..MaxReq, at : 1..MaxClones + 1]
  BY DEF Together, Contexts!TypeOK
<1>2. CASE CallBegins
  BY <1>1, <1>2 DEF CallBegins, Begin, Contexts!Then, Collecting
<1>3. CASE CallFails
  BY <1>1, <1>3 DEF CallFails, FailCall, Contexts!Fail, Collecting, NoCall
<1>4. CASE NoClone
  BY <1>1, <1>4 DEF NoClone, NoContext, Contexts!TooMany, Collecting, NoCall
<1>5. CASE HaveContext
  <2>1. call'.pc = "attach"
    BY <1>5 DEF HaveContext, Then, FInv, Shapes
  <2> QED
    BY <1>1, <1>5, <2>1 DEF HaveContext, Then, Contexts!Return, Collecting
<1>6. CASE CloneStep /\ call' = call
  <2>1. call.pc = "then" /\ began' = began /\ begun' = begun
    BY <1>6 DEF CloneStep, Contexts!Look, Contexts!SetEnv, Contexts!SetRequest, Contexts!SetResponse, tvars, callVars
  <2>2. thread'.pc # "idle" /\ thread'.req = thread.req
        /\ (thread'.pc \notin {"idle", "look"} => thread'.at \in Contexts!Clones)
    <3>1. CASE Contexts!Look
      <4>1. thread.pc = "look" /\ thread.at \in Contexts!Clones
        BY <1>1, <3>1, FutureAnswersAssumption DEF Contexts!Look, Contexts!Clones
      <4>2. thread' = [thread EXCEPT !.at = thread.at + 1] \/ thread' = [thread EXCEPT !.pc = "env"]
        BY <3>1 DEF Contexts!Look
      <4> QED
        BY <1>1, <4>1, <4>2
    <3>2. CASE Contexts!SetEnv \/ Contexts!SetRequest \/ Contexts!SetResponse
      <4>1. /\ thread.pc \notin {"idle", "look"}
            /\ \E p \in {"request", "response", "then"} : thread' = [thread EXCEPT !.pc = p]
        BY <3>2 DEF Contexts!SetEnv, Contexts!SetRequest, Contexts!SetResponse
      <4> QED
        BY <1>1, <4>1
    <3> QED
      BY <1>6, <3>1, <3>2 DEF CloneStep
  <2> QED
    BY <1>1, <1>6, <2>1, <2>2 DEF Collecting
<1>7. ASSUME begun' = begun, thread' = thread, began' = began,
             call'.pc \in Collecting <=> call.pc \in Collecting, call'.pc \in Collecting => call'.of = call.of
      PROVE  /\ began' = begun'
             /\ thread'.pc = "idle" <=> call'.pc \notin Collecting
             /\ thread'.pc # "idle" => thread'.req = call'.of
             /\ thread'.pc \notin {"idle", "look"} => thread'.at \in Contexts!Clones
  BY <1>1, <1>7
<1> QED
  BY <1>2, <1>3, <1>4, <1>5, <1>6, <1>7, CallGoes DEF FInv

\* Every step keeps a call's future before its callbacks.
LEMMA FutureFirst ==
    ASSUME FInv, Together, [Next]_vars
    PROVE  /\ \A c \in Calls : future'[c] # "none" =>
                held'[c] \in Contexts!Clones /\ c <= begun' /\ (call'.pc \in Collecting => c # call'.of)
           /\ \A t \in Tasks : future'[t[1]] = "none" => cb'[t] = "none"
           /\ call'.pc \in {"attach", "attached"} => future'[call'.of] # "none"
<1>1. /\ \A c \in Calls : future[c] # "none" =>
           held[c] \in Contexts!Clones /\ c <= begun /\ (call.pc \in Collecting => c # call.of)
      /\ \A t \in Tasks : future[t[1]] = "none" => cb[t] = "none"
      /\ call.pc \in {"attach", "attached"} => future[call.of] # "none"
  BY DEF Together
<1>2. /\ Shapes /\ AtCall /\ Makers /\ Pool /\ Callbacks /\ [Step]_tvars
      /\ begun \in Nat /\ \A c \in Calls : c \in Nat
      /\ call.pc # "idle" => call.of \in Calls /\ call.of <= begun
  <2>1. Shapes /\ AtCall /\ Makers /\ Pool /\ Callbacks
    BY DEF FInv
  <2>2. begun \in Nat /\ \A c \in Calls : c \in Nat
    BY <2>1, TaskFuturesAssumption DEF Shapes, Calls
  <2>3. call.pc # "idle" => call.of \in Calls /\ call.of <= begun
    BY <2>1, <2>2, MayMake DEF AtCall
  <2> QED
    BY <2>1, <2>2, <2>3, AsTasks
<1>3. ASSUME NEW c \in Calls, future'[c] # "none"
      PROVE  held'[c] \in Contexts!Clones /\ c <= begun' /\ (call'.pc \in Collecting => c # call'.of)
  <2>1. CASE CallBegins
    <3>1. future' = future /\ held' = held /\ begun' = begun + 1 /\ call'.of = begun + 1
      BY <2>1 DEF CallBegins, Contexts!Then, Begin
    <3>2. held[c] \in Contexts!Clones /\ c <= begun
      BY <1>1, <1>3, <3>1
    <3>3. c <= begun + 1 /\ c # begun + 1
      BY <1>2, <3>2
    <3> QED
      BY <3>1, <3>2, <3>3
  <2>2. CASE HaveContext
    <3>1. begun' = begun /\ call' = [call EXCEPT !.pc = "attach", !.at = 1] /\ call.pc = "then"
      BY <2>2 DEF HaveContext, Then
    <3>2. call'.pc \notin Collecting
      BY <1>2, <3>1 DEF Collecting, Shapes
    <3>3. CASE c = call.of /\ thread.pc = "then" /\ held'[c] = thread.at
      BY <1>2, <3>1, <3>2, <3>3 DEF Together
    <3>4. CASE future[c] # "none"
      BY <1>1, <3>1, <3>2, <3>4, FutureStays
    <3> QED
      BY <1>3, <3>3, <3>4, FutureMoves
  <2>3. CASE ~CallBegins /\ ~HaveContext
    <3>1. future[c] # "none"
      BY <1>3, <2>3, FutureMoves
    <3>2. held'[c] = held[c]
      BY <3>1, FutureStays
    <3>3. begun' = begun /\ (call'.pc \in Collecting => call.pc \in Collecting /\ call'.of = call.of)
      <4>1. CASE CallFails \/ NoClone
        BY <4>1 DEF CallFails, NoClone, FailCall, NoContext, NoCall, Collecting
      <4> QED
        BY <1>2, <2>3, <4>1, CallGoes
    <3> QED
      BY <1>1, <3>1, <3>2, <3>3
  <2> QED
    BY <2>1, <2>2, <2>3
<1>4. ASSUME NEW t \in Tasks, future'[t[1]] = "none" PROVE cb'[t] = "none"
  <2>1. t[1] \in Calls
    BY TaskParts
  <2>2. future[t[1]] = "none"
    BY <1>4, <2>1, FutureStays
  <2>3. cb[t] = "none"
    BY <1>1, <2>2
  <2>4. CASE Attach /\ t = <<call.of, call.at>>
    BY <1>1, <2>2, <2>4 DEF Attach
  <2>5. ASSUME NEW u \in Tasks, ChainThen(u), t[1] = u[1] PROVE FALSE
    BY <1>1, <2>2, <2>5 DEF ChainThen
  <2> QED
    BY <1>2, <2>3, <2>4, <2>5, CallbackIsSet
<1>5. ASSUME call'.pc \in {"attach", "attached"} PROVE future'[call'.of] # "none"
  <2>1. CASE CallBegins \/ CallFails \/ NoClone
    BY <1>5, <2>1 DEF CallBegins, Begin, CallFails, NoClone, FailCall, NoContext, NoCall
  <2>2. CASE HaveContext
    <3>1. call' = [call EXCEPT !.pc = "attach", !.at = 1] /\ call.pc = "then"
      BY <2>2 DEF HaveContext, Then
    <3>2. call'.of = call.of /\ call.of \in Calls
      BY <1>2, <3>1 DEF Shapes
    <3>3. /\ thread.pc = "then" /\ future' = [future EXCEPT ![thread.req] = "running"]
      BY <2>2 DEF HaveContext, Contexts!Return
    <3>4. thread.req = call.of /\ future \in [Calls -> Contexts!TaskStates]
      BY <3>3 DEF Together, Contexts!TypeOK, Contexts!Requests, Calls
    <3> QED
      BY <3>2, <3>3, <3>4
  <2>3. CASE call.pc \in {"attach", "attached"} /\ call'.of = call.of
    BY <1>1, <1>2, <2>3, FutureStays
  <2> QED
    BY <1>2, <1>5, <2>1, <2>2, <2>3, CallGoes
<1> QED
  BY <1>3, <1>4, <1>5

-----------------------------------------------------------------------------
(* Types of the contexts.                                                  *)

CloneRec == [env : BOOLEAN, request : Calls \cup {Contexts!Absent}, response : Calls \cup {Contexts!Absent}]

\* What setting an attribute of a clone leaves alone.
LEMMA OneAttribute ==
    ASSUME Together, NEW k \in Contexts!Clones
    PROVE  /\ \A b \in BOOLEAN : clone' = [clone EXCEPT ![k].env = b] =>
                /\ clone' \in [Contexts!Clones -> CloneRec]
                /\ \A l \in Contexts!Clones : l # k => clone'[l] = clone[l]
                /\ clone'[k].env = b /\ clone'[k].request = clone[k].request
                /\ clone'[k].response = clone[k].response
           /\ \A r \in Calls \cup {Contexts!Absent} : clone' = [clone EXCEPT ![k].request = r] =>
                /\ clone' \in [Contexts!Clones -> CloneRec]
                /\ \A l \in Contexts!Clones : l # k => clone'[l] = clone[l]
                /\ clone'[k].env = clone[k].env /\ clone'[k].request = r
                /\ clone'[k].response = clone[k].response
           /\ \A r \in Calls \cup {Contexts!Absent} : clone' = [clone EXCEPT ![k].response = r] =>
                /\ clone' \in [Contexts!Clones -> CloneRec]
                /\ \A l \in Contexts!Clones : l # k => clone'[l] = clone[l]
                /\ clone'[k].env = clone[k].env /\ clone'[k].request = clone[k].request
                /\ clone'[k].response = r
<1>1. clone \in [Contexts!Clones -> CloneRec]
  BY DEF Together, Contexts!TypeOK, CloneRec, Contexts!Requests, Calls
<1>2. clone[k] \in CloneRec
  BY <1>1
<1> QED
  BY <1>1, <1>2 DEF CloneRec

\* What a step does to the clones: it sets one attribute of one of them.
LEMMA CloneMoves ==
    ASSUME Together, [Next]_vars
    PROVE  \/ clone' = clone
           \/ \E k \in Contexts!Clones :
                /\ clone' \in [Contexts!Clones -> CloneRec]
                /\ \A l \in Contexts!Clones : l # k => clone'[l] = clone[l]
                /\ \/ /\ CloneStep /\ Contexts!SetEnv /\ k = thread.at
                      /\ clone'[k].env /\ clone'[k].request = clone[k].request
                      /\ clone'[k].response = clone[k].response
                   \/ /\ CloneStep /\ Contexts!SetRequest /\ k = thread.at
                      /\ clone'[k].env = clone[k].env /\ clone'[k].request = thread.req
                      /\ clone'[k].response = clone[k].response
                   \/ /\ CloneStep /\ Contexts!SetResponse /\ k = thread.at
                      /\ clone'[k].env = clone[k].env /\ clone'[k].request = clone[k].request
                      /\ clone'[k].response = thread.req
                   \/ /\ ContextFreed /\ Contexts!ClearEnv /\ k = main.at
                      /\ clone'[k].request = clone[k].request /\ clone'[k].response = clone[k].response
                   \/ /\ ContextFreed /\ Contexts!DelResponse /\ k = main.at
                      /\ clone'[k].env = clone[k].env /\ clone'[k].request = clone[k].request
                      /\ clone'[k].response = Contexts!Absent
                   \/ /\ ContextFreed /\ Contexts!DelRequest /\ k = main.at
                      /\ clone'[k].env = clone[k].env /\ clone'[k].request = Contexts!Absent
                      /\ clone'[k].response = clone[k].response
<1>1. clone \in [Contexts!Clones -> CloneRec] /\ main.at \in Contexts!Clones
  BY DEF Together, Contexts!TypeOK, CloneRec, Contexts!Requests, Calls
<1>3. CASE CloneStep
  <2>1. CASE Contexts!Look
    BY <2>1 DEF Contexts!Look
  <2>2. CASE Contexts!SetEnv \/ Contexts!SetRequest \/ Contexts!SetResponse
    <3>1. thread.at \in Contexts!Clones /\ thread.req \in Calls \cup {Contexts!Absent}
      <4>1. thread.pc \notin {"idle", "look"}
        BY <2>2 DEF Contexts!SetEnv, Contexts!SetRequest, Contexts!SetResponse
      <4>2. thread.at \in Contexts!Clones /\ thread.req \in 0..MaxReq
        BY <4>1 DEF Together, Contexts!TypeOK
      <4> QED
        BY <4>2, TaskFuturesAssumption DEF Calls, Contexts!Absent
    <3>2. CASE Contexts!SetEnv
      <4>1. clone' = [clone EXCEPT ![thread.at].env = TRUE]
        BY <3>2 DEF Contexts!SetEnv
      <4>2. /\ clone' \in [Contexts!Clones -> CloneRec]
            /\ \A l \in Contexts!Clones : l # thread.at => clone'[l] = clone[l]
            /\ clone'[thread.at].env = TRUE
            /\ clone'[thread.at].request = clone[thread.at].request
            /\ clone'[thread.at].response = clone[thread.at].response
        BY <4>1, <3>1, OneAttribute
      <4> QED
        BY <4>2, <3>1, <1>3, <3>2
    <3>3. CASE Contexts!SetRequest
      <4>1. clone' = [clone EXCEPT ![thread.at].request = thread.req]
        BY <3>3 DEF Contexts!SetRequest
      <4>2. /\ clone' \in [Contexts!Clones -> CloneRec]
            /\ \A l \in Contexts!Clones : l # thread.at => clone'[l] = clone[l]
            /\ clone'[thread.at].request = thread.req
            /\ clone'[thread.at].env = clone[thread.at].env
            /\ clone'[thread.at].response = clone[thread.at].response
        BY <4>1, <3>1, OneAttribute
      <4> QED
        BY <4>2, <3>1, <1>3, <3>3
    <3>4. CASE Contexts!SetResponse
      <4>1. clone' = [clone EXCEPT ![thread.at].response = thread.req]
        BY <3>4 DEF Contexts!SetResponse
      <4>2. /\ clone' \in [Contexts!Clones -> CloneRec]
            /\ \A l \in Contexts!Clones : l # thread.at => clone'[l] = clone[l]
            /\ clone'[thread.at].response = thread.req
            /\ clone'[thread.at].env = clone[thread.at].env
            /\ clone'[thread.at].request = clone[thread.at].request
        BY <4>1, <3>1, OneAttribute
      <4> QED
        BY <4>2, <3>1, <1>3, <3>4
    <3> QED
      BY <2>2, <3>2, <3>3, <3>4
  <2> QED
    BY <1>3, <2>1, <2>2 DEF CloneStep
<1>4. CASE ContextFreed
  <2>1. CASE Contexts!ClearEnv
    <3>1. clone' = [clone EXCEPT ![main.at].env = FALSE]
      BY <2>1 DEF Contexts!ClearEnv
    <3>2. /\ clone' \in [Contexts!Clones -> CloneRec]
          /\ \A l \in Contexts!Clones : l # main.at => clone'[l] = clone[l]
          /\ clone'[main.at].env = FALSE
          /\ clone'[main.at].request = clone[main.at].request
          /\ clone'[main.at].response = clone[main.at].response
      BY <3>1, <1>1, OneAttribute
    <3> QED
      BY <3>2, <1>1, <1>4, <2>1
  <2>2. CASE Contexts!DelResponse
    <3>1. clone' = [clone EXCEPT ![main.at].response = Contexts!Absent]
      BY <2>2 DEF Contexts!DelResponse
    <3>2. /\ clone' \in [Contexts!Clones -> CloneRec]
          /\ \A l \in Contexts!Clones : l # main.at => clone'[l] = clone[l]
          /\ clone'[main.at].response = Contexts!Absent
          /\ clone'[main.at].env = clone[main.at].env
          /\ clone'[main.at].request = clone[main.at].request
      BY <3>1, <1>1, OneAttribute
    <3> QED
      BY <3>2, <1>1, <1>4, <2>2
  <2>3. CASE Contexts!DelRequest
    <3>1. clone' = [clone EXCEPT ![main.at].request = Contexts!Absent]
      BY <2>3 DEF Contexts!DelRequest
    <3>2. /\ clone' \in [Contexts!Clones -> CloneRec]
          /\ \A l \in Contexts!Clones : l # main.at => clone'[l] = clone[l]
          /\ clone'[main.at].request = Contexts!Absent
          /\ clone'[main.at].env = clone[main.at].env
          /\ clone'[main.at].response = clone[main.at].response
      BY <3>1, <1>1, OneAttribute
    <3> QED
      BY <3>2, <1>1, <1>4, <2>3
  <2> QED
    BY <1>4, <2>1, <2>2, <2>3 DEF ContextFreed
<1>5. ASSUME NEW t \in Tasks, Callback(t) PROVE clone' = clone
  BY <1>5 DEF Callback, LateRespond, NoContent, FallSilent, Content, Unwanted, HandOver, AnotherFuture, FutureChained,
     AnswerAgain, contextVars, Contexts!Settle, Contexts!Fulfil, Contexts!Answer, Contexts!taskRest
<1>6. CASE CallBegins \/ CallFails \/ NoClone \/ HaveContext
  BY <1>6 DEF CallBegins, CallFails, NoClone, HaveContext, Contexts!Then, Contexts!Fail, Contexts!TooMany, Contexts!Return
<1>7. CASE FuturesStep \/ ThunkRuns \/ LoopEnds \/ (\E d \in Calls : Expires(d)) \/ UNCHANGED vars
  BY <1>7 DEF FuturesStep, ThunkRuns, LoopEnds, Expires, Contexts!RunThunk, Contexts!Timeout, vars, contextVars
<1> QED
  BY <1>3, <1>4, <1>5, <1>6, <1>7 DEF Next

\* What a step does to the thunks: they are appended and taken with their senders.
LEMMA ThunksMove ==
    ASSUME Together, [Next]_vars
    PROVE  \/ thunks' = thunks /\ senders' = senders /\ (main' = main \/ (main.pc = "env" /\ Contexts!ClearEnv)
                                                         \/ main'.pc # "env")
           \/ /\ main' = main /\ UNCHANGED clone
              /\ \E t \in Tasks :
                   /\ \/ HandOver(t) /\ future[t[1]] = "answer" /\ future'[t[1]] = "thunk"
                      \/ AnswerAgain(t)
                   /\ clone[held[t[1]]].response \in Calls /\ held[t[1]] \in Contexts!Clones
                   /\ thunks' = Append(thunks, <<clone[held[t[1]]].response, held[t[1]]>>)
                   /\ senders' = Append(senders, t[1])
           \/ /\ ThunkRuns /\ thunks # <<>> /\ thunks' = Tail(thunks) /\ senders' = Tail(senders)
              /\ main' = [pc |-> "env", at |-> Head(thunks)[2]]
<1>1. /\ clone \in [Contexts!Clones -> CloneRec] /\ future \in [Calls -> Contexts!TaskStates]
      /\ thunks \in Seq(Calls \X Contexts!Clones)
      /\ main \in [pc : {"loop", "env", "response", "request"}, at : Contexts!Clones]
  BY DEF Together, Contexts!TypeOK, CloneRec, Contexts!Requests, Calls
<1>2. ASSUME NEW t \in Tasks, Callback(t), ~HandOver(t), ~AnswerAgain(t)
      PROVE  thunks' = thunks /\ senders' = senders /\ main' = main
  BY <1>2 DEF Callback, LateRespond, NoContent, FallSilent, Content, Unwanted, AnotherFuture, FutureChained,
     contextVars, Contexts!Settle, Contexts!Fulfil, Contexts!taskRest
<1>3. ASSUME NEW t \in Tasks, future[t[1]] # "none", clone[held[t[1]]].response # Contexts!Absent
      PROVE  clone[held[t[1]]].response \in Calls /\ held[t[1]] \in Contexts!Clones
  <2>1. t[1] \in Calls
    BY TaskParts
  <2>2. held[t[1]] \in Contexts!Clones
    BY <1>3, <2>1 DEF Together
  <2>3. clone[held[t[1]]] \in CloneRec
    BY <1>1, <2>2
  <2> QED
    BY <1>3, <2>2, <2>3 DEF CloneRec
<1>4. ASSUME NEW x PROVE Append(thunks, x) # thunks
  <2>1. Len(Append(thunks, x)) = Len(thunks) + 1 /\ Len(thunks) \in Nat
    BY <1>1
  <2> QED
    BY <2>1
<1>5. ASSUME NEW t \in Tasks, HandOver(t)
      PROVE  \/ thunks' = thunks /\ senders' = senders /\ main' = main
             \/ /\ main' = main /\ UNCHANGED clone /\ future[t[1]] = "answer" /\ future'[t[1]] = "thunk"
                /\ clone[held[t[1]]].response \in Calls /\ held[t[1]] \in Contexts!Clones
                /\ thunks' = Append(thunks, <<clone[held[t[1]]].response, held[t[1]]>>)
                /\ senders' = Append(senders, t[1])
  <2>1. main' = main /\ UNCHANGED clone /\ future[t[1]] = "answer"
    BY <1>5 DEF HandOver, Contexts!Answer, Contexts!taskRest
  <2>2. CASE thunks' = thunks
    BY <1>5, <2>1, <2>2 DEF HandOver
  <2>3. CASE thunks' # thunks
    <3>1. /\ clone[held[t[1]]].response # Contexts!Absent
          /\ thunks' = Append(thunks, <<clone[held[t[1]]].response, held[t[1]]>>)
          /\ future' = [future EXCEPT ![t[1]] = "thunk"]
          /\ senders' = Append(senders, t[1])
      BY <1>5, <2>3 DEF HandOver, Contexts!Answer, Contexts!Context, Contexts!State
    <3>2. future'[t[1]] = "thunk"
      BY <1>1, <3>1, TaskParts
    <3> QED
      BY <1>3, <2>1, <3>1, <3>2
  <2> QED
    BY <2>2, <2>3
<1>6. ASSUME NEW t \in Tasks, AnswerAgain(t)
      PROVE  \/ thunks' = thunks /\ senders' = senders /\ main' = main
             \/ /\ main' = main /\ UNCHANGED clone
                /\ clone[held[t[1]]].response \in Calls /\ held[t[1]] \in Contexts!Clones
                /\ thunks' = Append(thunks, <<clone[held[t[1]]].response, held[t[1]]>>)
                /\ senders' = Append(senders, t[1])
  <2>1. main' = main /\ UNCHANGED clone /\ future[t[1]] # "none"
    BY <1>6 DEF AnswerAgain
  <2>2. \/ thunks' = thunks /\ senders' = senders
        \/ /\ clone[held[t[1]]].response # Contexts!Absent
           /\ thunks' = Append(thunks, <<clone[held[t[1]]].response, held[t[1]]>>)
           /\ senders' = Append(senders, t[1])
    BY <1>6 DEF AnswerAgain, Contexts!Context
  <2> QED
    BY <1>3, <2>1, <2>2
<1>7. CASE ThunkRuns
  BY <1>7 DEF ThunkRuns, Contexts!RunThunk
<1>8. CASE ContextFreed
  <2>1. thunks' = thunks /\ senders' = senders
    BY <1>8 DEF ContextFreed, Contexts!ClearEnv, Contexts!DelResponse, Contexts!DelRequest
  <2>2. CASE Contexts!ClearEnv
    BY <2>1, <2>2 DEF Contexts!ClearEnv
  <2>3. CASE Contexts!DelResponse \/ Contexts!DelRequest
    <3>1. main'.pc # "env"
      BY <1>1, <2>3 DEF Contexts!DelResponse, Contexts!DelRequest
    <3> QED
      BY <2>1, <3>1
  <2> QED
    BY <1>8, <2>2, <2>3 DEF ContextFreed
<1>9. CASE CallBegins \/ CallFails \/ NoClone \/ HaveContext
  BY <1>9 DEF CallBegins, CallFails, NoClone, HaveContext, Contexts!Then, Contexts!Fail, Contexts!TooMany, Contexts!Return,
     Contexts!threadRest
<1>10. CASE FuturesStep \/ CloneStep \/ LoopEnds \/ (\E d \in Calls : Expires(d)) \/ UNCHANGED vars
  BY <1>10 DEF FuturesStep, CloneStep, LoopEnds, Expires, Contexts!Look, Contexts!SetEnv, Contexts!SetRequest,
     Contexts!SetResponse, Contexts!threadRest, Contexts!Timeout, vars, contextVars
<1>11. CASE \E t \in Tasks : Callback(t)
  BY <1>2, <1>5, <1>6, <1>11
<1> QED
  BY <1>7, <1>8, <1>9, <1>10, <1>11 DEF Next

\* Every step keeps the types of the contexts.
LEMMA ContextsTyped ==
    ASSUME FInv, Together, [Next]_vars
    PROVE  Contexts!TypeOK' /\ senders' \in Seq(Calls) /\ Len(senders') = Len(thunks')
<1>1. /\ clone \in [Contexts!Clones -> CloneRec]
      /\ thread \in [pc : {"idle", "look", "env", "request", "response", "then"},
                     req : 0..MaxReq, at : 1..MaxClones + 1]
      /\ began \in 0..MaxReq
      /\ future \in [Calls -> Contexts!TaskStates] /\ held \in [Calls -> 0..MaxClones]
      /\ chain \in [Calls -> 0..MaxTasks] /\ done \in [Calls -> BOOLEAN]
      /\ thunks \in Seq(Calls \X Contexts!Clones)
      /\ main \in [pc : {"loop", "env", "response", "request"}, at : Contexts!Clones]
      /\ senders \in Seq(Calls) /\ Len(senders) = Len(thunks)
      /\ thread.pc \notin {"idle", "look"} => thread.at \in Contexts!Clones
      /\ Contexts!Requests = Calls
  BY DEF Together, Contexts!TypeOK, CloneRec, Contexts!Requests, Calls
<1>2. MaxClones \in Nat /\ MaxClones >= 1 /\ MaxReq \in Nat /\ MaxTasks \in Nat
  BY FutureAnswersAssumption, TaskFuturesAssumption
<1>3. clone' \in [Contexts!Clones -> CloneRec]
  BY <1>1, CloneMoves
<1>4. /\ thunks' \in Seq(Calls \X Contexts!Clones) /\ senders' \in Seq(Calls) /\ Len(senders') = Len(thunks')
      /\ main'.at \in Contexts!Clones \/ main' = main \/ (main'.pc # "env" /\ thunks' = thunks)
  <2>1. CASE thunks' = thunks /\ senders' = senders
             /\ (main' = main \/ (main.pc = "env" /\ Contexts!ClearEnv) \/ main'.pc # "env")
    <3>1. CASE Contexts!ClearEnv
      BY <1>1, <2>1, <3>1 DEF Contexts!ClearEnv
    <3> QED
      BY <1>1, <2>1, <3>1
  <2>2. ASSUME main' = main, NEW t \in Tasks,
               clone[held[t[1]]].response \in Calls, held[t[1]] \in Contexts!Clones,
               thunks' = Append(thunks, <<clone[held[t[1]]].response, held[t[1]]>>),
               senders' = Append(senders, t[1])
        PROVE  thunks' \in Seq(Calls \X Contexts!Clones) /\ senders' \in Seq(Calls) /\ Len(senders') = Len(thunks')
    <3> DEFINE x == <<clone[held[t[1]]].response, held[t[1]]>>
    <3>1. x \in Calls \X Contexts!Clones /\ t[1] \in Calls
      BY <2>2, TaskParts
    <3>2. thunks' = Append(thunks, x)
      BY <2>2
    <3> HIDE DEF x
    <3>3. thunks' \in Seq(Calls \X Contexts!Clones) /\ Len(thunks') = Len(thunks) + 1
      BY <1>1, <3>1, <3>2, AppendProperties
    <3>4. senders' \in Seq(Calls) /\ Len(senders') = Len(senders) + 1
      BY <1>1, <2>2, <3>1, AppendProperties
    <3> QED
      BY <1>1, <3>3, <3>4
  <2>3. CASE ThunkRuns /\ thunks # <<>> /\ thunks' = Tail(thunks) /\ senders' = Tail(senders)
             /\ main' = [pc |-> "env", at |-> Head(thunks)[2]]
    <3>1. /\ Head(thunks) \in Calls \X Contexts!Clones /\ thunks' \in Seq(Calls \X Contexts!Clones)
          /\ Len(thunks) > 0 /\ Len(thunks') = Len(thunks) - 1
      BY <1>1, <2>3, HeadTailProperties
    <3>2. senders # <<>>
      BY <1>1, <3>1
    <3>3. senders' \in Seq(Calls) /\ Len(senders') = Len(senders) - 1
      BY <1>1, <2>3, <3>2, HeadTailProperties
    <3>4. main'.at \in Contexts!Clones
      BY <2>3, <3>1
    <3> QED
      BY <1>1, <3>1, <3>3, <3>4
  <2> QED
    BY <2>1, <2>2, <2>3, ThunksMove
<1>5. main' \in [pc : {"loop", "env", "response", "request"}, at : Contexts!Clones]
  <2>1. CASE ThunkRuns
    <3>1. main' = [pc |-> "env", at |-> Head(thunks)[2]] /\ thunks # <<>>
      BY <2>1 DEF ThunkRuns, Contexts!RunThunk
    <3>2. Head(thunks) \in Calls \X Contexts!Clones
      BY <1>1, <3>1, HeadTailProperties
    <3> QED
      BY <3>1, <3>2
  <2>2. CASE ContextFreed
    <3>1. 1 \in Contexts!Clones
      BY <1>2 DEF Contexts!Clones
    <3>2. CASE Contexts!ClearEnv \/ Contexts!DelResponse
      <4>1. \E p \in {"response", "request"} : main' = [main EXCEPT !.pc = p]
        BY <3>2 DEF Contexts!ClearEnv, Contexts!DelResponse
      <4> QED
        BY <1>1, <4>1
    <3>3. CASE Contexts!DelRequest
      BY <3>1, <3>3 DEF Contexts!DelRequest
    <3> QED
      BY <2>2, <3>2, <3>3 DEF ContextFreed
  <2>3. CASE ~ThunkRuns /\ ~ContextFreed
    <3>1. main' = main
      <4>1. CASE \E t \in Tasks : Callback(t)
        BY <4>1 DEF Callback, LateRespond, NoContent, FallSilent, Content, Unwanted, HandOver, AnotherFuture,
           FutureChained, AnswerAgain, contextVars, Contexts!Settle, Contexts!Fulfil, Contexts!Answer, Contexts!taskRest
      <4>2. CASE ~ \E t \in Tasks : Callback(t)
        BY <2>3, <4>2 DEF Next, CallBegins, CallFails, NoClone, HaveContext, Contexts!Then, Contexts!Fail,
           Contexts!TooMany, Contexts!Return, Contexts!threadRest, FuturesStep, CloneStep, LoopEnds, Expires,
           Contexts!Look, Contexts!SetEnv, Contexts!SetRequest, Contexts!SetResponse, Contexts!Timeout, vars, contextVars
      <4> QED
        BY <4>1, <4>2
    <3> QED
      BY <1>1, <3>1
  <2> QED
    BY <2>1, <2>2, <2>3
<1>6. began' \in 0..MaxReq
  <2>1. began' = begun'
    BY ThreadStep
  <2>2. Shapes'
    BY AsTasks, ShapesStep DEF FInv
  <2> QED
    BY <2>1, <2>2 DEF Shapes
<1>7. thread' \in [pc : {"idle", "look", "env", "request", "response", "then"},
                   req : 0..MaxReq, at : 1..MaxClones + 1]
  <2>1. 1 \in 1..MaxClones + 1 /\ 0 \in 0..MaxReq
    BY <1>2
  <2>2. CASE CallBegins
    <3>1. thread' = [pc |-> "look", req |-> began + 1, at |-> 1] /\ began < MaxReq
      BY <2>2 DEF CallBegins, Contexts!Then
    <3>2. began + 1 \in 0..MaxReq
      BY <1>1, <1>2, <3>1
    <3> QED
      BY <2>1, <3>1, <3>2
  <2>3. CASE CallFails \/ NoClone \/ HaveContext
    <3>1. thread' = [pc |-> "idle", req |-> 0, at |-> 1]
      BY <2>3 DEF CallFails, NoClone, HaveContext, Contexts!Fail, Contexts!TooMany, Contexts!Return
    <3> QED
      BY <2>1, <3>1
  <2>4. CASE CloneStep
    <3>1. CASE Contexts!Look
      <4>1. thread.at <= MaxClones
        BY <3>1 DEF Contexts!Look
      <4>2. thread.at + 1 \in 1..MaxClones + 1
        BY <1>1, <1>2, <4>1
      <4>3. thread' = [thread EXCEPT !.at = thread.at + 1] \/ thread' = [thread EXCEPT !.pc = "env"]
        BY <3>1 DEF Contexts!Look
      <4> QED
        BY <1>1, <4>2, <4>3
    <3>2. CASE Contexts!SetEnv \/ Contexts!SetRequest \/ Contexts!SetResponse
      <4>1. \E p \in {"request", "response", "then"} : thread' = [thread EXCEPT !.pc = p]
        BY <3>2 DEF Contexts!SetEnv, Contexts!SetRequest, Contexts!SetResponse
      <4> QED
        BY <1>1, <4>1
    <3> QED
      BY <2>4, <3>1, <3>2 DEF CloneStep
  <2>5. CASE thread' = thread
    BY <1>1, <2>5
  <2> QED
    BY <2>2, <2>3, <2>4, <2>5, CallGoes DEF FInv
<1>8. future' \in [Calls -> Contexts!TaskStates] /\ held' \in [Calls -> 0..MaxClones]
  <2>1. CASE UNCHANGED <<future, held>>
    BY <1>1, <2>1
  <2>2. CASE HaveContext
    <3>1. /\ future' = [future EXCEPT ![thread.req] = "running"]
          /\ held' = [held EXCEPT ![thread.req] = thread.at] /\ thread.at \in Contexts!Clones
      BY <1>1, <2>2 DEF HaveContext, Contexts!Return
    <3>2. thread.at \in 0..MaxClones
      BY <1>2, <3>1 DEF Contexts!Clones
    <3> QED
      BY <1>1, <3>1, <3>2 DEF Contexts!TaskStates
  <2>3. ASSUME NEW t \in Tasks, Callback(t)
        PROVE  UNCHANGED <<future, held>>
               \/ (held' = held /\ \E s \in Contexts!TaskStates : future' = [future EXCEPT ![t[1]] = s])
    <3>1. CASE FallSilent(t) \/ Unwanted(t) \/ AnotherFuture(t) \/ NoContent(t) \/ AnswerAgain(t)
      BY <3>1 DEF FallSilent, Unwanted, AnotherFuture, NoContent, AnswerAgain, contextVars
    <3>2. CASE LateRespond(t)
      BY <3>2 DEF LateRespond, contextVars, Contexts!Settle, Contexts!State, Contexts!taskRest, Contexts!TaskStates
    <3>3. CASE Content(t) \/ FutureChained(t)
      BY <3>3 DEF Content, FutureChained, Contexts!Fulfil, Contexts!State, Contexts!taskRest, Contexts!TaskStates
    <3>4. CASE HandOver(t)
      BY <3>4 DEF HandOver, Contexts!Answer, Contexts!State, Contexts!taskRest, Contexts!TaskStates
    <3> QED
      BY <2>3, <3>1, <3>2, <3>3, <3>4 DEF Callback
  <2>4. CASE \E t \in Tasks : Callback(t)
    <3>1. PICK t \in Tasks : Callback(t)
      BY <2>4
    <3>2. CASE UNCHANGED <<future, held>>
      BY <1>1, <3>2
    <3>3. ASSUME held' = held, NEW s \in Contexts!TaskStates, future' = [future EXCEPT ![t[1]] = s]
          PROVE  future' \in [Calls -> Contexts!TaskStates] /\ held' \in [Calls -> 0..MaxClones]
      BY <1>1, <3>3
    <3> QED
      BY <2>3, <3>1, <3>2, <3>3
  <2>5. CASE ContextFreed /\ Contexts!ClearEnv
    BY <1>1, <2>5 DEF Contexts!ClearEnv, Contexts!mainRest, Contexts!TaskStates
  <2> QED
    BY <2>1, <2>2, <2>4, <2>5 DEF Next, CallBegins, CallFails, NoClone, Contexts!Then, Contexts!Fail,
       Contexts!TooMany, FuturesStep, CloneStep, LoopEnds, Expires, ThunkRuns, ContextFreed, Contexts!RunThunk,
       Contexts!Look, Contexts!SetEnv, Contexts!SetRequest, Contexts!SetResponse, Contexts!Timeout,
       Contexts!DelResponse, Contexts!DelRequest, Contexts!mainRest, vars, contextVars
<1>9. chain' \in [Calls -> 0..MaxTasks]
  <2>1. CASE chain' = chain
    BY <1>1, <2>1
  <2>2. ASSUME NEW t \in Tasks, chain[t[1]] < MaxTasks, chain' = [chain EXCEPT ![t[1]] = chain[t[1]] + 1]
        PROVE  chain' \in [Calls -> 0..MaxTasks]
    <3>1. t[1] \in Calls /\ chain[t[1]] \in 0..MaxTasks
      BY <1>1, TaskParts
    <3>2. chain[t[1]] + 1 \in 0..MaxTasks
      BY <1>2, <2>2, <3>1
    <3> QED
      BY <1>1, <2>2, <3>2
  <2>3. ASSUME NEW t \in Tasks, Callback(t)
        PROVE  chain' = chain \/ (chain[t[1]] < MaxTasks /\ chain' = [chain EXCEPT ![t[1]] = chain[t[1]] + 1])
    BY <2>3 DEF Callback, LateRespond, NoContent, FallSilent, Content, Unwanted, HandOver, AnotherFuture,
       FutureChained, AnswerAgain, contextVars, Contexts!Settle, Contexts!Fulfil, Contexts!Answer, Contexts!taskRest
  <2>4. CASE ~ \E t \in Tasks : Callback(t)
    <3>1. chain' = chain
      BY <2>4 DEF Next, CallBegins, CallFails, NoClone, HaveContext, Contexts!Then, Contexts!Fail,
         Contexts!TooMany, Contexts!Return, Contexts!threadRest, FuturesStep, CloneStep, LoopEnds, Expires,
         Contexts!Look, Contexts!SetEnv, Contexts!SetRequest, Contexts!SetResponse, Contexts!Timeout,
         ThunkRuns, ContextFreed, Contexts!RunThunk, Contexts!ClearEnv,
         Contexts!DelResponse, Contexts!DelRequest, Contexts!mainRest, vars, contextVars
    <3> QED
      BY <1>1, <3>1
  <2> QED
    BY <2>1, <2>2, <2>3, <2>4
<1>10. done' \in [Calls -> BOOLEAN]
  <2>1. CASE done' = done
    BY <1>1, <2>1
  <2>2. ASSUME NEW r, done' = [done EXCEPT ![r] = TRUE] PROVE done' \in [Calls -> BOOLEAN]
    BY <1>1, <2>2
  <2>3. ASSUME NEW r, done' = [c \in Calls |-> done[c] \/ c = r] PROVE done' \in [Calls -> BOOLEAN]
    BY <2>3, Zenon
  <2>4. ASSUME NEW t \in Tasks, Callback(t)
        PROVE  done' = done \/ \E r : done' = [c \in Calls |-> done[c] \/ c = r]
    BY <2>4 DEF Callback, LateRespond, NoContent, FallSilent, Content, Unwanted, HandOver, AnotherFuture,
       FutureChained, AnswerAgain, contextVars, Contexts!Settle, Contexts!Fulfil, Contexts!Answer, Contexts!taskRest
  <2>5. CASE ~ \E t \in Tasks : Callback(t)
    <3>1. done' = done \/ \E r : done' = [done EXCEPT ![r] = TRUE]
      BY <2>5 DEF Next, CallBegins, CallFails, NoClone, HaveContext, Contexts!Then, Contexts!Fail,
         Contexts!TooMany, Contexts!Return, Contexts!threadRest, FuturesStep, CloneStep, LoopEnds, Expires,
         Contexts!Look, Contexts!SetEnv, Contexts!SetRequest, Contexts!SetResponse, Contexts!Timeout,
         ThunkRuns, ContextFreed, Contexts!RunThunk, Contexts!ClearEnv,
         Contexts!DelResponse, Contexts!DelRequest, Contexts!mainRest, vars, contextVars
    <3> QED
      BY <2>1, <2>2, <3>1
  <2> QED
    BY <2>1, <2>3, <2>4, <2>5
<1> QED
  BY <1>3, <1>4, <1>5, <1>6, <1>7, <1>8, <1>9, <1>10 DEF Contexts!TypeOK, CloneRec, Contexts!Requests, Calls

\* Every step keeps Together.
LEMMA TogetherStep ==
    ASSUME FInv, Together, [Next]_vars PROVE Together'
<1>1. Contexts!TypeOK' /\ senders' \in Seq(Calls) /\ Len(senders') = Len(thunks')
  BY ContextsTyped
<1>2. /\ began' = begun'
      /\ thread'.pc = "idle" <=> call'.pc \notin Collecting
      /\ thread'.pc # "idle" => thread'.req = call'.of
      /\ thread'.pc \notin {"idle", "look"} => thread'.at \in Contexts!Clones
  BY ThreadStep
<1> QED
  BY <1>1, <1>2, FutureFirst DEF Together

-----------------------------------------------------------------------------
(* Clones and thunks.                                                      *)

\* Who holds a clone after a step held it before, or has just been given one.
LEMMA HoldersMove ==
    ASSUME Together, [Next]_vars, NEW c \in Calls, Contexts!Holds(c)'
    PROVE  \/ /\ Contexts!Holds(c) /\ held'[c] = held[c] /\ held[c] \in Contexts!Clones
              /\ Contexts!ClearEnv => ~(future[c] = "thunk" /\ held[c] = main.at)
           \/ /\ HaveContext /\ thread.pc = "then" /\ c = call.of /\ c = thread.req
              /\ held'[c] = thread.at /\ ~Contexts!Holds(c)
<1>1. future \in [Calls -> Contexts!TaskStates] /\ Contexts!Requests = Calls
  BY DEF Together, Contexts!TypeOK, Contexts!Requests, Calls
<1>2. future'[c] # "none" /\ future'[c] # "freed"
  BY DEF Contexts!Holds
<1>3. ASSUME Contexts!ClearEnv, future[c] = "thunk", held[c] = main.at PROVE FALSE
  <2>1. future'[c] = "freed"
    BY <1>1, <1>3 DEF Contexts!ClearEnv
  <2> QED
    BY <1>2, <2>1
<1>4. future[c] # "none" => held[c] \in Contexts!Clones
  BY DEF Together
<1> QED
  BY <1>2, <1>3, <1>4, FutureMoves DEF Contexts!Holds

\* What a step does to the request thread's clone.
LEMMA ThreadMoves ==
    ASSUME FInv, Together, [Next]_vars
    PROVE  \/ thread'.pc \in {"idle", "look"}
           \/ thread' = thread /\ ~(thread.pc \in {"env", "request", "response"} /\ CloneStep)
           \/ /\ CloneStep /\ Contexts!Look /\ clone' = clone /\ ~clone[thread.at].env
              /\ thread'.pc = "env" /\ thread'.at = thread.at
           \/ /\ CloneStep /\ Contexts!SetEnv /\ thread.pc = "env" /\ thread'.pc = "request"
              /\ thread'.at = thread.at /\ thread'.req = thread.req
           \/ /\ CloneStep /\ Contexts!SetRequest /\ thread.pc = "request" /\ thread'.pc = "response"
              /\ thread'.at = thread.at /\ thread'.req = thread.req
           \/ /\ CloneStep /\ Contexts!SetResponse /\ thread.pc = "response" /\ thread'.pc = "then"
              /\ thread'.at = thread.at /\ thread'.req = thread.req
<1>1. thread \in [pc : {"idle", "look", "env", "request", "response", "then"},
                  req : 0..MaxReq, at : 1..MaxClones + 1]
  BY DEF Together, Contexts!TypeOK
<1>2. CASE CallBegins \/ CallFails \/ NoClone \/ HaveContext
  BY <1>2 DEF CallBegins, CallFails, NoClone, HaveContext, Contexts!Then, Contexts!Fail, Contexts!TooMany, Contexts!Return
<1>3. CASE CloneStep
  <2>1. CASE Contexts!Look
    BY <1>1, <1>3, <2>1 DEF Contexts!Look
  <2>2. CASE Contexts!SetEnv \/ Contexts!SetRequest \/ Contexts!SetResponse
    BY <1>1, <1>3, <2>2 DEF Contexts!SetEnv, Contexts!SetRequest, Contexts!SetResponse
  <2> QED
    BY <1>3, <2>1, <2>2 DEF CloneStep
<1>4. CASE ~CloneStep /\ thread' = thread
  BY <1>4
<1> QED
  BY <1>2, <1>3, <1>4, CallGoes DEF FInv

\* Every step keeps the clones apart.
LEMMA OneHolderStep ==
    ASSUME FInv, Together, OneHolder, OneThunk, [Next]_vars PROVE OneHolder'
<1>1. /\ \A c, d \in Calls : c # d /\ Contexts!Holds(c) /\ Contexts!Holds(d) => held[c] # held[d]
      /\ \A c \in Calls : Contexts!Holds(c) =>
           /\ clone[held[c]].env
           /\ clone[held[c]].request \in {c, Contexts!Absent}
           /\ clone[held[c]].response \in {c, Contexts!Absent}
           /\ thread.pc \notin {"idle", "look"} => held[c] # thread.at
      /\ thread.pc \in {"request", "response", "then"} => clone[thread.at].env
      /\ thread.pc \in {"response", "then"} => clone[thread.at].request \in {thread.req, Contexts!Absent}
      /\ thread.pc = "then" => clone[thread.at].response \in {thread.req, Contexts!Absent}
  BY DEF OneHolder
<1>2. thread.pc \notin {"idle", "look"} => thread.at \in Contexts!Clones
  BY DEF Together
\* The clone the main thread gives back is that of the request it has answered.
<1>3. ASSUME Contexts!ClearEnv
      PROVE  \E c \in Calls : Contexts!Holds(c) /\ future[c] = "thunk" /\ held[c] = main.at
    BY <1>3 DEF OneThunk, Contexts!ClearEnv, Contexts!Holds
<1>4. ASSUME NEW c \in Calls, NEW d \in Calls, c # d, Contexts!Holds(c)', Contexts!Holds(d)'
      PROVE  held'[c] # held'[d]
  <2>1. ASSUME NEW e \in Calls, NEW f \in Calls, e # f, Contexts!Holds(e)', Contexts!Holds(f)',
               thread.pc = "then", e = thread.req, held'[e] = thread.at
        PROVE  held'[e] # held'[f]
    BY <1>1, <2>1, HoldersMove
  <2> QED
    BY <1>1, <1>4, <2>1, HoldersMove
<1>5. ASSUME NEW c \in Calls, Contexts!Holds(c)'
      PROVE  /\ clone'[held'[c]].env
             /\ clone'[held'[c]].request \in {c, Contexts!Absent}
             /\ clone'[held'[c]].response \in {c, Contexts!Absent}
             /\ thread'.pc \notin {"idle", "look"} => held'[c] # thread'.at
  <2>1. CASE HaveContext /\ thread.pc = "then" /\ c = thread.req /\ held'[c] = thread.at
    <3>1. clone' = clone /\ thread'.pc = "idle"
      BY <2>1 DEF HaveContext, Contexts!Return
    <3> QED
      BY <1>1, <2>1, <3>1
  <2>2. CASE /\ Contexts!Holds(c) /\ held'[c] = held[c] /\ held[c] \in Contexts!Clones
             /\ Contexts!ClearEnv => ~(future[c] = "thunk" /\ held[c] = main.at)
    <3>1. /\ clone[held[c]].env /\ clone[held[c]].request \in {c, Contexts!Absent}
          /\ clone[held[c]].response \in {c, Contexts!Absent}
          /\ thread.pc \notin {"idle", "look"} => held[c] # thread.at
      BY <1>1, <2>2
    <3>2. ~(Contexts!ClearEnv /\ held[c] = main.at)
      BY <1>1, <1>3, <2>2
    <3>3. ~((Contexts!SetEnv \/ Contexts!SetRequest \/ Contexts!SetResponse) /\ held[c] = thread.at)
      BY <3>1 DEF Contexts!SetEnv, Contexts!SetRequest, Contexts!SetResponse
    <3>4. /\ clone'[held[c]].env /\ clone'[held[c]].request \in {c, Contexts!Absent}
          /\ clone'[held[c]].response \in {c, Contexts!Absent}
      BY <2>2, <3>1, <3>2, <3>3, CloneMoves
    <3>5. ASSUME thread'.pc \notin {"idle", "look"} PROVE held[c] # thread'.at
      BY <3>1, <3>5, ThreadMoves
    <3> QED
      BY <2>2, <3>4, <3>5
  <2> QED
    BY <1>5, <2>1, <2>2, HoldersMove
<1>6. /\ thread'.pc \in {"request", "response", "then"} => clone'[thread'.at].env
      /\ thread'.pc \in {"response", "then"} => clone'[thread'.at].request \in {thread'.req, Contexts!Absent}
      /\ thread'.pc = "then" => clone'[thread'.at].response \in {thread'.req, Contexts!Absent}
  <2>1. CASE thread'.pc \in {"idle", "look", "env"}
    BY <2>1
  <2>2. CASE thread' = thread /\ thread.pc \in {"request", "response", "then"}
             /\ ~(thread.pc \in {"env", "request", "response"} /\ CloneStep)
    <3>1. thread.at \in Contexts!Clones
      BY <1>2, <2>2
    <3>2. ~(Contexts!ClearEnv /\ thread.at = main.at)
      BY <1>1, <1>3, <2>2
    <3>3. ~(CloneStep /\ (Contexts!SetEnv \/ Contexts!SetRequest \/ Contexts!SetResponse))
      BY <2>2 DEF Contexts!SetEnv, Contexts!SetRequest, Contexts!SetResponse
    <3>4. /\ clone[thread.at].env => clone'[thread.at].env
          /\ clone'[thread.at].request \in {clone[thread.at].request, Contexts!Absent}
          /\ clone'[thread.at].response \in {clone[thread.at].response, Contexts!Absent}
      BY <3>1, <3>2, <3>3, CloneMoves
    <3> QED
      BY <1>1, <2>2, <3>4
  <2>3. CASE CloneStep /\ (Contexts!SetEnv \/ Contexts!SetRequest \/ Contexts!SetResponse)
    <3>1. /\ thread.at \in Contexts!Clones /\ thread.req \in Calls \cup {Contexts!Absent}
          /\ thread'.at = thread.at /\ thread'.req = thread.req
      <4>1. thread.pc \notin {"idle", "look"} /\ thread.req \in 0..MaxReq
        BY <2>3 DEF Contexts!SetEnv, Contexts!SetRequest, Contexts!SetResponse, Together, Contexts!TypeOK
      <4>2. \E p \in {"request", "response", "then"} : thread' = [thread EXCEPT !.pc = p]
        BY <2>3 DEF Contexts!SetEnv, Contexts!SetRequest, Contexts!SetResponse
      <4> QED
        BY <1>2, <4>1, <4>2, TaskFuturesAssumption DEF Calls, Contexts!Absent, Together, Contexts!TypeOK
    <3>2. CASE Contexts!SetEnv
      <4>1. thread'.pc = "request" /\ clone' = [clone EXCEPT ![thread.at].env = TRUE]
        BY <3>2 DEF Contexts!SetEnv, Together, Contexts!TypeOK
      <4>2. clone'[thread.at].env
        BY <3>1, <4>1, OneAttribute
      <4> QED
        BY <3>1, <4>1, <4>2
    <3>3. CASE Contexts!SetRequest
      <4>1. /\ thread.pc = "request" /\ thread'.pc = "response"
            /\ clone' = [clone EXCEPT ![thread.at].request = thread.req]
        BY <3>3 DEF Contexts!SetRequest, Together, Contexts!TypeOK
      <4>2. clone'[thread.at].env = clone[thread.at].env /\ clone'[thread.at].request = thread.req
        BY <3>1, <4>1, OneAttribute
      <4> QED
        BY <1>1, <3>1, <4>1, <4>2
    <3>4. CASE Contexts!SetResponse
      <4>1. /\ thread.pc = "response" /\ thread'.pc = "then"
            /\ clone' = [clone EXCEPT ![thread.at].response = thread.req]
        BY <3>4 DEF Contexts!SetResponse, Together, Contexts!TypeOK
      <4>2. /\ clone'[thread.at].env = clone[thread.at].env
            /\ clone'[thread.at].request = clone[thread.at].request
            /\ clone'[thread.at].response = thread.req
        BY <3>1, <4>1, OneAttribute
      <4> QED
        BY <1>1, <3>1, <4>1, <4>2
    <3> QED
      BY <2>3, <3>2, <3>3, <3>4
  <2> QED
    BY <2>1, <2>2, <2>3, ThreadMoves
<1> QED
  BY <1>4, <1>5, <1>6 DEF OneHolder

\* Every step keeps the thunks apart.
LEMMA OneThunkStep ==
    ASSUME FInv, Together, OneHolder, OneThunk, \A c \in Calls : OneAtATime(c), [Next]_vars PROVE OneThunk'
<1>1. /\ thunks \in Seq(Calls \X Contexts!Clones) /\ senders \in Seq(Calls) /\ Len(senders) = Len(thunks)
      /\ Len(thunks) \in Nat
      /\ main \in [pc : {"loop", "env", "response", "request"}, at : Contexts!Clones]
  BY DEF Together, Contexts!TypeOK, Contexts!Requests, Calls
<1>2. /\ \A i \in 1..Len(thunks) : /\ thunks[i] = <<senders[i], held[senders[i]]>>
                                   /\ future[senders[i]] = "thunk" /\ senders[i] \in Calls
      /\ \A i, j \in 1..Len(thunks) : senders[i] = senders[j] => i = j
      /\ main.pc = "env" => \E c \in Calls : /\ future[c] = "thunk" /\ held[c] = main.at
                                             /\ \A i \in 1..Len(thunks) : senders[i] # c
  BY <1>1 DEF OneThunk
\* A thunk keeps its call and its clone until the clone is given back.
<1>3. ASSUME NEW c \in Calls, future[c] = "thunk", ~Contexts!ClearEnv
      PROVE  future'[c] = "thunk" /\ held'[c] = held[c]
  BY <1>3, FutureMoves
<1>4. ASSUME Contexts!ClearEnv, NEW i \in 1..Len(thunks)
      PROVE  future'[senders[i]] = "thunk" /\ held'[senders[i]] = held[senders[i]]
  <2>1. main.pc = "env"
    BY <1>4 DEF Contexts!ClearEnv
  <2>2. PICK c \in Calls : future[c] = "thunk" /\ held[c] = main.at /\ senders[i] # c
    BY <1>2, <2>1
  <2>3. Contexts!Holds(c) /\ Contexts!Holds(senders[i]) /\ senders[i] \in Calls /\ future[senders[i]] = "thunk"
    BY <1>2, <2>2 DEF Contexts!Holds
  <2>4. held[senders[i]] # main.at
    BY <2>2, <2>3 DEF OneHolder
  <2> QED
    BY <2>3, <2>4, FutureMoves
<1>5. \A i \in 1..Len(thunks) : future'[senders[i]] = "thunk" /\ held'[senders[i]] = held[senders[i]]
  BY <1>2, <1>3, <1>4
<1>6. CASE thunks' = thunks /\ senders' = senders
           /\ (main' = main \/ (main.pc = "env" /\ Contexts!ClearEnv) \/ main'.pc # "env")
  <2>1. main'.pc = "env" => main' = main /\ ~Contexts!ClearEnv
    BY <1>1, <1>6 DEF Contexts!ClearEnv
  <2>2. main'.pc = "env" => \E c \in Calls : /\ future'[c] = "thunk" /\ held'[c] = main'.at
                                             /\ \A i \in 1..Len(thunks') : senders'[i] # c
    BY <1>2, <1>3, <1>6, <2>1
  <2> QED
    BY <1>2, <1>5, <1>6, <2>2 DEF OneThunk
<1>7. ASSUME NEW t \in Tasks, HandOver(t), future[t[1]] = "answer", future'[t[1]] = "thunk", main' = main,
             clone[held[t[1]]].response \in Calls,
             thunks' = Append(thunks, <<clone[held[t[1]]].response, held[t[1]]>>), senders' = Append(senders, t[1]),
             held[t[1]] \in Contexts!Clones
      PROVE  OneThunk'
  <2> DEFINE r == t[1]
             x == <<r, held[r]>>
  <2>1. r \in Calls
    BY TaskParts
  <2>2. clone[held[r]].response = r
    <3>1. clone[held[r]].response \in {r, Contexts!Absent}
      BY <1>7, <2>1 DEF OneHolder, Contexts!Holds
    <3>2. Contexts!Absent \notin Calls
      BY TaskFuturesAssumption DEF Contexts!Absent, Calls
    <3> QED
      BY <1>7, <3>1, <3>2
  <2>3. thunks' = Append(thunks, x) /\ x \in Calls \X Contexts!Clones /\ x = <<r, held[r]>>
    BY <1>7, <2>1, <2>2
  <2>4. senders' = Append(senders, r) /\ future[r] = "answer" /\ future'[r] = "thunk" /\ held'[r] = held[r]
    BY <1>7, <2>1, FutureStays
  <2>5. ~Contexts!ClearEnv
    BY <1>1, <1>7 DEF Contexts!ClearEnv
  <2> HIDE DEF r, x
  <2>6. /\ Len(thunks') = Len(thunks) + 1
        /\ \A i \in 1..Len(thunks) : thunks'[i] = thunks[i]
        /\ thunks'[Len(thunks) + 1] = x
    BY <1>1, <2>3, AppendProperties
  <2>7. /\ \A i \in 1..Len(thunks) : senders'[i] = senders[i]
        /\ senders'[Len(thunks) + 1] = r
    BY <1>1, <2>1, <2>4, AppendProperties
  <2>8. \A i \in 1..Len(thunks') : i \in 1..Len(thunks) \/ i = Len(thunks) + 1
    BY <1>1, <2>6
  <2>9. \A i \in 1..Len(thunks') : thunks'[i] = <<senders'[i], held'[senders'[i]]>> /\ future'[senders'[i]] = "thunk"
    <3> TAKE i \in 1..Len(thunks')
    <3>1. CASE i \in 1..Len(thunks)
      BY <1>2, <1>5, <2>6, <2>7, <3>1
    <3>2. CASE i = Len(thunks) + 1
      BY <2>3, <2>4, <2>6, <2>7, <3>2
    <3> QED
      BY <2>8, <3>1, <3>2
  <2>10. \A i \in 1..Len(thunks) : senders[i] # r
    BY <1>2, <2>4
  <2>11. \A i, j \in 1..Len(thunks') : senders'[i] = senders'[j] => i = j
    <3> TAKE i, j \in 1..Len(thunks')
    <3> QED
      BY <1>2, <2>7, <2>8, <2>10
  <2>12. main'.pc = "env" => \E c \in Calls : /\ future'[c] = "thunk" /\ held'[c] = main'.at
                                              /\ \A i \in 1..Len(thunks') : senders'[i] # c
    <3> SUFFICES ASSUME main'.pc = "env"
                 PROVE  \E c \in Calls : /\ future'[c] = "thunk" /\ held'[c] = main'.at
                                         /\ \A i \in 1..Len(thunks') : senders'[i] # c
      OBVIOUS
    <3>1. PICK c \in Calls : /\ future[c] = "thunk" /\ held[c] = main.at
                             /\ \A i \in 1..Len(thunks) : senders[i] # c
      BY <1>2, <1>7
    <3>2. c # r
      BY <2>4, <3>1
    <3>3. future'[c] = "thunk" /\ held'[c] = main'.at
      BY <1>3, <1>7, <2>5, <3>1
    <3>4. \A i \in 1..Len(thunks') : senders'[i] # c
      BY <2>7, <2>8, <3>1, <3>2
    <3> QED
      BY <3>3, <3>4
  <2> QED
    BY <2>9, <2>11, <2>12 DEF OneThunk
<1>8. ASSUME NEW t \in Tasks, AnswerAgain(t) PROVE FALSE
  <2>1. cb[t] \in {"callback", "failed"} /\ future[t[1]] \in {"thunk", "freed"}
    BY <1>8 DEF AnswerAgain, Return
  <2>2. t[1] \in Calls
    BY TaskParts
  <2>3. future[t[1]] \in {"respond", "answer", "dropped", "silent"}
    BY <2>1, <2>2 DEF OneAtATime, AtWork
  <2> QED
    BY <2>1, <2>3
<1>9. CASE ThunkRuns /\ thunks # <<>> /\ thunks' = Tail(thunks) /\ senders' = Tail(senders)
           /\ main' = [pc |-> "env", at |-> Head(thunks)[2]]
  <2>1. /\ Len(thunks) > 0 /\ Len(thunks') = Len(thunks) - 1 /\ Head(thunks) = thunks[1]
        /\ \A i \in 1..Len(thunks') : thunks'[i] = thunks[i + 1]
    BY <1>1, <1>9, HeadTailProperties
  <2>2. senders # <<>>
    BY <1>1, <2>1
  <2>3. \A i \in 1..Len(thunks') : senders'[i] = senders[i + 1]
    BY <1>1, <1>9, <2>1, <2>2, HeadTailProperties
  <2>4. \A i \in 1..Len(thunks') : i \in Int /\ i + 1 \in 1..Len(thunks) /\ i + 1 # 1
    BY <1>1, <2>1
  <2>5. 1 \in 1..Len(thunks)
    BY <1>1, <2>1
  <2>6. \A i \in 1..Len(thunks') : thunks'[i] = <<senders'[i], held'[senders'[i]]>> /\ future'[senders'[i]] = "thunk"
    <3> TAKE i \in 1..Len(thunks')
    <3>1. i + 1 \in 1..Len(thunks) /\ thunks'[i] = thunks[i + 1] /\ senders'[i] = senders[i + 1]
      BY <2>1, <2>3, <2>4
    <3>2. thunks[i + 1] = <<senders[i + 1], held[senders[i + 1]]>>
      BY <1>2, <3>1
    <3>3. future'[senders[i + 1]] = "thunk" /\ held'[senders[i + 1]] = held[senders[i + 1]]
      BY <1>5, <3>1
    <3> QED
      BY <3>1, <3>2, <3>3
  <2>7. \A i, j \in 1..Len(thunks') : senders'[i] = senders'[j] => i = j
    <3> TAKE i, j \in 1..Len(thunks')
    <3>1. i + 1 = j + 1 => i = j
      BY <2>4
    <3> QED
      BY <1>2, <2>3, <2>4, <3>1
  <2>8. senders[1] \in Calls /\ future'[senders[1]] = "thunk" /\ held'[senders[1]] = main'.at
    BY <1>2, <1>5, <1>9, <2>1, <2>5
  <2>9. \A i \in 1..Len(thunks') : senders'[i] # senders[1]
    BY <1>2, <2>3, <2>4, <2>5
  <2> QED
    BY <2>6, <2>7, <2>8, <2>9 DEF OneThunk
<1> QED
  BY <1>6, <1>7, <1>8, <1>9, ThunksMove

-----------------------------------------------------------------------------
(* One callback at a time.                                                 *)

\* Which step calls a callback, and which one leaves another future behind.
LEMMA LateOrChained ==
    ASSUME Shapes, [Next]_vars, NEW t \in Tasks
    PROVE  /\ cb[t] = "fulfil" /\ cb'[t] = "callback" => LateRespond(t)
           /\ cb[t] = "list" /\ cb'[t] = "over" => FutureChained(t)
<1> DEFINE Right == /\ cb[t] = "fulfil" /\ cb'[t] = "callback" => LateRespond(t)
                    /\ cb[t] = "list" /\ cb'[t] = "over" => FutureChained(t)
<1>1. cb \in [Tasks -> Active \cup {"none", "set", "over"}]
  BY DEF Shapes
<1>2. ASSUME cb' = cb PROVE Right
  BY <1>2
<1>3. ASSUME NEW u, NEW x, cb' = [cb EXCEPT ![u] = x], x \in {"set", "due", "failed", "store", "fulfil", "create", "list"}
      PROVE  Right
  BY <1>1, <1>3
<1>4. ASSUME FuturesStep PROVE Right
  <2>1. CASE AdmitTask \/ CreateTask \/ ListTask \/ Attached \/ Start \/ Drained \/ Closed
    BY <1>2, <2>1 DEF AdmitTask, CreateTask, ListTask, Attached, Start, Drained, Closed, futureVars
  <2>2. CASE Attach
    <3>1. cb' = [cb EXCEPT ![<<call.of, call.at>>] = IF task[<<call.of, call.at>>] \in Live THEN "set" ELSE "due"]
      BY <2>2 DEF Attach, SetCallback
    <3> QED
      BY <1>3, <3>1
  <2>3. CASE Cancel
    <3>1. cb' = [cb EXCEPT ![Head(work)] = IF cb[Head(work)] = "set" THEN "due" ELSE cb[Head(work)]]
      BY <2>3 DEF Cancel
    <3>2. cb' = cb \/ cb' = [cb EXCEPT ![Head(work)] = "due"]
      BY <1>1, <3>1
    <3> QED
      BY <1>2, <1>3, <3>2
  <2>4. ASSUME NEW u \in Tasks, End(u) PROVE Right
    <3>1. cb' = cb \/ cb' = [cb EXCEPT ![u] = "due"]
      BY <1>1, <2>4 DEF End
    <3> QED
      BY <1>2, <1>3, <3>1
  <2>5. ASSUME NEW u \in Tasks, Settle(u) \/ Compare(u) PROVE Right
    <3>1. cb[u] \in {"due", "compare"} /\ \E x \in {"over", "fulfil", "store"} : cb' = [cb EXCEPT ![u] = x]
      BY <2>5 DEF Settle, Compare
    <3> QED
      BY <1>1, <3>1
  <2>6. ASSUME NEW u \in Tasks, Store(u) PROVE Right
    BY <1>1, <2>6 DEF Store
  <2>7. ASSUME NEW u \in Tasks, ChainAdmit(u) \/ ChainCreate(u) \/ FailChain(u) \/ Raise(u) PROVE Right
    <3>1. \E x \in {"create", "list", "failed"} : cb' = [cb EXCEPT ![u] = x]
      BY <2>7 DEF ChainAdmit, ChainCreate, FailChain, Raise
    <3> QED
      BY <1>3, <3>1
  <2> HIDE DEF Right
  <2> QED
    BY <1>4, <2>1, <2>2, <2>3, <2>4, <2>5, <2>6, <2>7 DEF FuturesStep, CloserStep
<1>5. ASSUME NEW u \in Tasks, Callback(u) PROVE Right
  <2>1. CASE LateRespond(u)
    <3>1. cb' = [cb EXCEPT ![u] = "callback"] /\ cb[u] = "fulfil"
      BY <1>1, <2>1 DEF LateRespond, Fulfil
    <3>2. CASE u = t
      BY <2>1, <3>1, <3>2
    <3>3. CASE u # t
      BY <1>1, <3>1, <3>3
    <3> QED
      BY <3>2, <3>3
  <2>2. CASE NoContent(u)
    <3>1. cb[u] = "fulfil" /\ \E x : cb' = [cb EXCEPT ![u] = x] /\ cb'[u] = "over"
      BY <2>2 DEF NoContent, Fulfil
    <3> QED
      BY <1>1, <3>1
  <2>3. CASE FallSilent(u) \/ Unwanted(u) \/ HandOver(u) \/ AnswerAgain(u)
    <3>1. cb[u] \in {"callback", "failed"} /\ cb' = [cb EXCEPT ![u] = "over"]
      BY <2>3 DEF FallSilent, Unwanted, HandOver, AnswerAgain, Return
    <3> QED
      BY <1>1, <3>1
  <2>4. CASE Content(u)
    BY <1>2, <2>4 DEF Content, tvars, futureVars
  <2>5. CASE AnotherFuture(u)
    <3>1. cb[u] = "callback" /\ cb' = [cb EXCEPT ![u] = "admit"]
      BY <2>5 DEF AnotherFuture, Chain
    <3> QED
      BY <1>1, <3>1
  <2>6. CASE FutureChained(u)
    <3> DEFINE v == <<u[1], made[u[1]]>>
    <3>1. cb[u] = "list" /\ cb' = [cb EXCEPT ![u] = "over", ![v] = IF task[v] \in Live THEN "set" ELSE "due"]
      BY <2>6 DEF FutureChained, ChainThen
    <3> HIDE DEF v
    <3>2. CASE u = t
      BY <2>6, <3>1, <3>2
    <3>3. CASE u # t
      <4>1. cb'[t] \in {cb[t], "set", "due"}
        BY <1>1, <3>1, <3>3
      <4> QED
        BY <4>1
    <3> QED
      BY <3>2, <3>3
  <2> HIDE DEF Right
  <2> QED
    BY <1>5, <2>1, <2>2, <2>3, <2>4, <2>5, <2>6 DEF Callback
<1>6. CASE ~FuturesStep /\ ~ \E u \in Tasks : Callback(u)
  <2>1. cb' = cb
    BY <1>6 DEF Next, CallBegins, CallFails, NoClone, HaveContext, CloneStep, ThunkRuns, ContextFreed, LoopEnds, Expires,
       Begin, FailCall, NoContext, Then, Shutdown, tvars, futureVars, vars
  <2> QED
    BY <1>2, <2>1
<1> QED
  BY <1>4, <1>5, <1>6

\* A callback is called by _late_respond.
LEMMA CalledLate ==
    ASSUME Shapes, AtCall, Makers, Pool, Callbacks, [Next]_vars,
           NEW t \in Tasks, cb'[t] \in AtWork, cb[t] \notin AtWork
    PROVE  /\ LateRespond(t) /\ cb[t] = "fulfil"
           /\ \A u \in Tasks : u # t => cb'[u] = cb[u] \/ (cb[u] = "none" /\ cb'[u] \in {"set", "due"})
<1>1. [Step]_tvars
  BY AsTasks
<1>2. cb'[t] # cb[t] /\ cb'[t] \notin {"none", "set", "due"}
  BY DEF AtWork, Making
<1>3. /\ CallbackStep(t)
      /\ \A u \in Tasks : u # t => cb'[u] = cb[u] \/ (cb[u] = "none" /\ cb'[u] \in {"set", "due"})
  BY <1>1, <1>2, OneGoesOn
<1>4. cb[t] = "fulfil" /\ cb'[t] = "callback"
  BY <1>3, CallbackGoesOn DEF AtWork, Making
<1> QED
  BY <1>3, <1>4, LateOrChained

\* A chained callback waits once the callback that made its task has returned.
LEMMA WaitsAfterAnother ==
    ASSUME Shapes, AtCall, Makers, Pool, Callbacks, [Next]_vars,
           NEW t \in Tasks, Chained(t), cb'[t] # cb[t], cb[t] \notin Waiting, cb'[t] \in Waiting \/ cb[t] = "none"
    PROVE  /\ cb[t] = "none" /\ t = <<t[1], made[t[1]]>>
           /\ \E u \in Tasks : FutureChained(u) /\ cb[u] = "list" /\ u[1] = t[1]
<1>1. [Step]_tvars /\ cb \in [Tasks -> Active \cup {"none", "set", "over"}]
  BY AsTasks DEF Shapes
<1>2. ~(t[2] \in Own(t[1]))
  <2>1. t[1] \in Calls /\ t[2] \in 1..MaxTasks
    BY TaskParts
  <2> QED
    BY <2>1 DEF Chained, Own, Shapes
<1>3. cb[t] = "none"
  <2>1. CASE CallbackStep(t)
    <3>1. cb[t] # "compare"
      BY <1>2 DEF Callbacks, Counting
    <3> QED
      BY <2>1, <3>1, CallbackGoesOn DEF Waiting
  <2>2. CASE ~CallbackStep(t)
    BY <1>1, <2>2, TasksMove DEF Moves, Waiting
  <2> QED
    BY <2>1, <2>2
<1>4. ~(Attach /\ t = <<call.of, call.at>>)
  BY <1>2 DEF AtCall, Attach
<1>5. PICK u \in Tasks : ChainThen(u) /\ t[1] = u[1] /\ t[2] = made[u[1]]
  BY <1>1, <1>3, <1>4, CallbackIsSet
<1>6. t = <<t[1], made[t[1]]>>
  BY <1>5 DEF Tasks
<1>7. cb[u] = "list" /\ cb'[u] = "over"
  <2>1. CallbackStep(u) /\ cb[u] = "list"
    BY <1>5 DEF CallbackStep, ChainThen
  <2> QED
    BY <2>1, CallbackGoesOn
<1> QED
  BY <1>3, <1>5, <1>6, <1>7, LateOrChained

\* Every step keeps the callbacks of a call one at a time, if its tasks are
\* counted one after the other.
LEMMA OneAtATimeStep ==
    ASSUME FInv, Together, [Next]_vars, NEW c \in Calls, InTurn(c), InTurn(c)', OneAtATime(c)
    PROVE  OneAtATime(c)'
<1>1. [Step]_tvars /\ Shapes /\ Pool /\ AtCall /\ Makers /\ Callbacks
  BY AsTasks DEF FInv
<1>2. cb \in [Tasks -> Active \cup {"none", "set", "over"}]
  BY <1>1 DEF Shapes
<1>3. fulfilled[c] \in Nat /\ fulfilled'[c] \in Nat /\ fulfilled'[c] >= fulfilled[c]
  <2>1. fulfilled[c] \in Nat
    BY <1>1 DEF Shapes
  <2>2. fulfilled'[c] = fulfilled[c] \/ fulfilled'[c] = fulfilled[c] + 1
    BY <1>1, CountsMove
  <2> QED
    BY <2>1, <2>2
\* The facts of OneAtATime(c), by name.
<1>o1. ASSUME NEW t \in Tasks, t[1] = c, cb[t] \in AtWork
       PROVE  fulfilled[c] > 0 /\ future[c] \in {"respond", "answer", "dropped", "silent"}
  BY <1>o1 DEF OneAtATime
<1>o2. ASSUME NEW t \in Tasks, t[1] = c, cb[t] = "fulfil" \/ (Chained(t) /\ cb[t] \in Waiting)
       PROVE  future[c] = "running"
  BY <1>o2 DEF OneAtATime
<1>o3. ASSUME NEW t \in Tasks, t[1] = c, Chained(t), cb[t] # "none" PROVE fulfilled[c] > 0
  BY <1>o3 DEF OneAtATime
<1>o4. ASSUME NEW t \in Tasks, NEW u \in Tasks, t[1] = c, u[1] = c, cb[t] \in AtWork, cb[u] \in AtWork PROVE t = u
  BY <1>o4 DEF OneAtATime
<1>o5. ASSUME NEW t \in Tasks, NEW u \in Tasks, t[1] = c, u[1] = c, Chained(t), Chained(u),
              cb[t] \in Waiting, cb[u] \in Waiting
       PROVE  t = u
  BY <1>o5 DEF OneAtATime
<1>o6. fulfilled[c] = 0 => future[c] \in {"none", "running"}
  BY DEF OneAtATime
<1>4. CASE Begin /\ c = begun + 1
  <2>1. cb' = cb /\ fulfilled' = fulfilled
    BY <1>4 DEF Begin, futureVars
  <2>2. c > begun
    BY <1>1, <1>4 DEF Shapes
  <2>3. fulfilled[c] = 0 /\ (\A t \in Tasks : t[1] = c => cb[t] = "none") /\ future[c] = "none"
    <3>1. future[c] # "none" => c <= begun
      BY DEF Together
    <3>2. begun \in Nat /\ c \in Nat
      BY <1>1 DEF Shapes, Calls
    <3> QED
      BY <1>1, <2>2, <3>1, <3>2 DEF AtCall
  <2>4. future'[c] = "none"
    <3>1. CallBegins \/ CallFails \/ NoClone \/ HaveContext \/ begun' = begun
      BY <1>1, CallGoes
    <3>2. begun' # begun
      BY <1>1, <1>4 DEF Begin, Shapes
    <3>3. ~HaveContext
      BY <3>2 DEF HaveContext, Then
    <3> QED
      BY <2>3, <3>3, FutureMoves
  <2> QED
    BY <2>1, <2>3, <2>4 DEF OneAtATime, AtWork, Making, Waiting
<1>5. CASE size'[c] = size[c]
  <2>1. \A t \in Tasks : t[1] = c => (Chained(t)' <=> Chained(t))
    BY <1>5 DEF Chained
  <2>2. \A t \in Tasks : t[1] = c => (Chained(t) <=> t[2] \notin Own(c)) /\ t[2] \in Nat
    <3> TAKE t \in Tasks
    <3>1. t[1] \in Calls /\ t[2] \in 1..MaxTasks
      BY TaskParts
    <3>2. size[c] \in Nat
      BY <1>1, TaskFuturesAssumption DEF Shapes
    <3> QED
      BY <3>1, <3>2 DEF Chained, Own
  \* A callback that waits to be called is the only one.
  <2>3. ASSUME NEW t \in Tasks, NEW u \in Tasks, t[1] = c, u[1] = c,
               cb[t] = "fulfil" \/ (Chained(t) /\ cb[t] \in Waiting), cb[u] = "fulfil"
        PROVE  t = u
    <3>1. CASE Chained(t) /\ Chained(u)
      BY <1>o5, <2>3, <3>1 DEF Waiting
    <3>2. ASSUME NEW v \in Tasks, v[1] = c, Chained(v), cb[v] # "none",
                 NEW w \in Tasks, w[1] = c, ~Chained(w), cb[w] = "fulfil"
          PROVE  FALSE
      <4>1. fulfilled[c] > 0
        BY <1>o3, <3>2
      <4>2. w[2] \in Own(c) /\ w = <<c, w[2]>>
        BY <2>2, <3>2 DEF Tasks
      <4>3. fulfilled[c] = 0
        BY <3>2, <4>2 DEF InTurn
      <4> QED
        BY <4>1, <4>3
    <3>3. CASE ~Chained(t) /\ ~Chained(u)
      <4>1. t[2] \in Own(c) /\ t = <<c, t[2]>> /\ u[2] \in Own(c) /\ u = <<c, u[2]>>
        BY <2>2, <2>3, <3>3 DEF Tasks
      <4>2. cb[t] = "fulfil" /\ cb[u] = "fulfil"
        BY <2>3, <3>3
      <4>3. t[2] = u[2]
        BY <4>1, <4>2 DEF InTurn
      <4> QED
        BY <4>1, <4>3
    <3> QED
      BY <2>3, <3>1, <3>2, <3>3 DEF Waiting
  <2>4. ASSUME NEW t \in Tasks, t[1] = c, LateRespond(t)
        PROVE  /\ cb[t] = "fulfil" /\ cb'[t] = "callback" /\ fulfilled'[c] > 0
               /\ future[c] = "running" /\ future'[c] \in {"silent", "respond"}
    <3>1. cb[t] = "fulfil" /\ cb'[t] = "callback" /\ Fulfil(t)
      BY <2>4 DEF LateRespond, Fulfil
    <3>2. future[c] = "running"
      BY <1>o2, <2>4, <3>1
    <3>3. future'[c] \in {"silent", "respond"}
      BY <2>4, <3>2 DEF LateRespond, Contexts!Settle, Contexts!State, Together, Contexts!TypeOK, Contexts!Requests, Calls
    <3>4. fulfilled'[c] > 0
      <4>1. CASE Chained(t)
        BY <1>3, <1>o3, <2>4, <3>1, <4>1
      <4>2. CASE ~Chained(t)
        <5>1. t[2] <= size[c]
          BY <2>2, <2>4, <4>2 DEF Own
        <5>2. fulfilled'[c] = fulfilled[c] + 1
          BY <1>1, <2>4, <3>1, <5>1 DEF Fulfil, Shapes
        <5> QED
          BY <1>3, <5>2
      <4> QED
        BY <4>1, <4>2
    <3> QED
      BY <3>1, <3>2, <3>3, <3>4
  <2>5. ASSUME NEW t \in Tasks, t[1] = c, cb'[t] \in AtWork
        PROVE  fulfilled'[c] > 0 /\ future'[c] \in {"respond", "answer", "dropped", "silent"}
    <3>1. CASE cb[t] \notin AtWork
      BY <1>1, <2>4, <2>5, <3>1, CalledLate
    <3>2. CASE cb[t] \in AtWork
      <4>1. fulfilled[c] > 0 /\ future[c] \in {"respond", "answer", "dropped", "silent"}
        BY <1>o1, <2>5, <3>2
      <4>2. ASSUME NEW u \in Tasks, u[1] = c, FutureChained(u) \/ HandOver(u) PROVE FALSE
        <5>1. cb[u] \in AtWork /\ CallbackStep(u)
          BY <4>2 DEF FutureChained, ChainThen, HandOver, Return, AtWork, Making, CallbackStep
        <5>2. u = t
          BY <1>o4, <2>5, <3>2, <4>2, <5>1
        <5>3. cb'[u] = "over"
          <6>1. CASE FutureChained(u)
            <7>1. cb[u] = "list"
              BY <6>1 DEF FutureChained, ChainThen
            <7> QED
              BY <1>1, <5>1, <7>1, CallbackGoesOn
          <6>2. CASE HandOver(u)
            BY <1>2, <6>2 DEF HandOver, Return
          <6> QED
            BY <4>2, <6>1, <6>2
        <5> QED
          BY <2>5, <5>2, <5>3 DEF AtWork, Making
      <4>3. future'[c] \in {"respond", "answer", "dropped", "silent"}
        BY <4>1, <4>2, FutureMoves
      <4> QED
        BY <1>3, <4>1, <4>3
    <3> QED
      BY <3>1, <3>2
  <2>6. ASSUME NEW t \in Tasks, t[1] = c, cb'[t] = "fulfil" \/ (Chained(t) /\ cb'[t] \in Waiting)
        PROVE  future'[c] = "running"
    <3>1. CASE cb[t] = "fulfil" \/ (Chained(t) /\ cb[t] \in Waiting)
      <4>1. future[c] = "running"
        BY <1>o2, <2>6, <3>1
      <4>2. ASSUME NEW u \in Tasks, u[1] = c, LateRespond(u) PROVE FALSE
        <5>1. cb[u] = "fulfil" /\ cb'[u] = "callback"
          BY <2>4, <4>2
        <5>2. u = t
          BY <2>3, <2>6, <3>1, <4>2, <5>1
        <5> QED
          BY <2>6, <5>1, <5>2 DEF Waiting
      <4> QED
        BY <4>1, <4>2, FutureMoves
    <3>2. CASE Chained(t) /\ cb[t] \notin Waiting
      <4>1. cb'[t] # cb[t] /\ cb'[t] \in Waiting
        BY <2>6, <3>2 DEF Waiting
      <4>2. PICK u \in Tasks : FutureChained(u) /\ u[1] = t[1]
        BY <1>1, <3>2, <4>1, WaitsAfterAnother
      <4> QED
        BY <2>6, <4>2 DEF FutureChained
    <3>3. CASE ~Chained(t) /\ cb[t] # "fulfil"
      <4>1. cb'[t] = "fulfil" /\ cb'[t] # cb[t]
        BY <2>6, <3>3
      <4>2. CallbackStep(t) /\ \A u \in Tasks : u # t => cb'[u] = cb[u] \/ cb[u] = "none"
        BY <1>1, <4>1, OneGoesOn
      <4>3. cb[t] \in {"due", "compare"}
        BY <1>1, <4>1, <4>2, CallbackGoesOn
      <4>4. t[2] \in Own(c) /\ t = <<c, t[2]>>
        BY <2>2, <2>6, <3>3 DEF Tasks
      <4>5. fulfilled'[c] = 0
        <5>1. Own(c)' = Own(c)
          BY <1>5 DEF Own
        <5> QED
          BY <4>1, <4>4, <5>1 DEF InTurn
      <4>6. future[c] = "running"
        <5>1. future[c] # "none"
          BY <2>6, <4>3 DEF Together
        <5> QED
          BY <1>3, <1>o6, <4>5, <5>1
      <4>7. ASSUME NEW u \in Tasks, u[1] = c, LateRespond(u) PROVE FALSE
        BY <1>3, <2>4, <4>5, <4>7
      <4> QED
        BY <4>6, <4>7, FutureMoves
    <3> QED
      BY <3>1, <3>2, <3>3
  <2>7. ASSUME NEW t \in Tasks, t[1] = c, Chained(t), cb'[t] # "none" PROVE fulfilled'[c] > 0
    <3>1. CASE cb[t] # "none"
      BY <1>3, <1>o3, <2>7, <3>1
    <3>2. CASE cb[t] = "none"
      <4>1. cb'[t] # cb[t] /\ cb[t] \notin Waiting
        BY <2>7, <3>2 DEF Waiting
      <4>2. PICK u \in Tasks : cb[u] = "list" /\ u[1] = t[1]
        BY <1>1, <2>7, <3>2, <4>1, WaitsAfterAnother
      <4> QED
        BY <1>3, <1>o1, <2>7, <4>2 DEF AtWork, Making
    <3> QED
      BY <3>1, <3>2
  <2>8. ASSUME NEW t \in Tasks, NEW u \in Tasks, t[1] = c, u[1] = c, cb'[t] \in AtWork, cb'[u] \in AtWork
        PROVE  t = u
    <3>1. ASSUME NEW v \in Tasks, NEW w \in Tasks, v[1] = c, w[1] = c, cb'[v] \in AtWork, cb'[w] \in AtWork,
                 cb[v] \notin AtWork
          PROVE  v = w
      <4>1. LateRespond(v) /\ \A x \in Tasks : x # v => cb'[x] = cb[x] \/ (cb[x] = "none" /\ cb'[x] \in {"set", "due"})
        BY <1>1, <3>1, CalledLate
      <4>2. future[c] = "running"
        BY <2>4, <3>1, <4>1
      <4>3. cb[w] \notin AtWork
        BY <1>o1, <3>1, <4>2
      <4> QED
        BY <3>1, <4>1, <4>3 DEF AtWork, Making
    <3> QED
      BY <1>o4, <2>8, <3>1
  <2>9. ASSUME NEW t \in Tasks, NEW u \in Tasks, t[1] = c, u[1] = c, Chained(t), Chained(u),
               cb'[t] \in Waiting, cb'[u] \in Waiting
        PROVE  t = u
    <3>1. ASSUME NEW v \in Tasks, NEW w \in Tasks, v[1] = c, w[1] = c, Chained(v), Chained(w),
                 cb'[v] \in Waiting, cb'[w] \in Waiting, cb[v] \notin Waiting
          PROVE  v = w
      <4>1. v = <<c, made[c]>> /\ \E x \in Tasks : FutureChained(x) /\ x[1] = c
        BY <1>1, <3>1, WaitsAfterAnother
      <4>2. future[c] = "respond"
        BY <4>1 DEF FutureChained
      <4>3. cb[w] \notin Waiting
        BY <1>o2, <3>1, <4>2
      <4>4. w = <<c, made[c]>>
        BY <1>1, <3>1, <4>3, WaitsAfterAnother
      <4> QED
        BY <4>1, <4>4
    <3> QED
      BY <1>o5, <2>9, <3>1
  <2>10. ASSUME fulfilled'[c] = 0 PROVE future'[c] \in {"none", "running"}
    <3>1. future[c] \in {"none", "running"}
      BY <1>3, <1>o6, <2>10
    <3>2. ASSUME NEW u \in Tasks, u[1] = c, LateRespond(u) PROVE FALSE
      BY <1>3, <2>4, <2>10, <3>2
    <3> QED
      BY <3>1, <3>2, FutureMoves
  <2> QED
    BY <2>1, <2>5, <2>6, <2>7, <2>8, <2>9, <2>10 DEF OneAtATime
<1> QED
  BY <1>1, <1>4, <1>5, SizesStay

LEMMA CInit == Init => CInv
<1> SUFFICES ASSUME Init PROVE CInv
  OBVIOUS
<1>1. MaxClones \in Nat /\ MaxClones >= 1 /\ MaxReq \in Nat /\ MaxTasks \in Nat
  BY FutureAnswersAssumption, TaskFuturesAssumption
<1>2. /\ call = NoCall /\ begun = 0 /\ began = 0 /\ thunks = <<>> /\ senders = <<>>
      /\ thread.pc = "idle" /\ main.pc = "loop"
      /\ cb = [t \in Tasks |-> "none"] /\ future = [c \in Calls |-> "none"]
      /\ fulfilled = [c \in Calls |-> 0]
  BY DEF Init, TInit, Contexts!Init, Contexts!Requests, Calls
<1>3. Contexts!TypeOK
  <2>1. Contexts!Init
    BY DEF Init
  <2>2. clone = [k \in Contexts!Clones |-> Contexts!Free] /\ Contexts!Free \in CloneRec
    BY <2>1 DEF Contexts!Init, Contexts!Free, CloneRec, Contexts!Absent
  <2>3. clone \in [Contexts!Clones -> CloneRec]
    BY <2>2
  <2>4. 1 \in Contexts!Clones /\ 1 \in 1..MaxClones + 1 /\ 0 \in 0..MaxReq /\ 0 \in 0..MaxTasks /\ 0 \in 0..MaxClones
    BY <1>1 DEF Contexts!Clones
  <2>5. thunks \in Seq(Contexts!Requests \X Contexts!Clones)
    BY <2>1 DEF Contexts!Init
  <2> QED
    BY <2>1, <2>3, <2>4, <2>5 DEF Contexts!Init, Contexts!TypeOK, Contexts!TaskStates, CloneRec, Contexts!Requests, Calls
<1>4. \A t \in Tasks : t[1] \in Calls /\ cb[t] = "none"
  BY <1>2, TaskParts
<1>5. \A c \in Calls : future[c] = "none" /\ fulfilled[c] = 0
  BY <1>2
<1>6. Together
  BY <1>2, <1>3, <1>4, <1>5 DEF Together, NoCall, Collecting
<1>7. OneHolder
  BY <1>2, <1>5 DEF OneHolder, Contexts!Holds
<1>8. OneThunk
  BY <1>2 DEF OneThunk
<1>9. \A c \in Calls : OneAtATime(c)
  BY <1>4, <1>5 DEF OneAtATime, AtWork, Making, Waiting
<1> QED
  BY <1>6, <1>7, <1>8, <1>9 DEF CInv, Apart

LEMMA CStep == FInv /\ CInv /\ [Next]_vars => CInv'
<1> SUFFICES ASSUME FInv, CInv, [Next]_vars PROVE CInv'
  OBVIOUS
<1>1. Together /\ Together'
  BY TogetherStep DEF CInv
<1>2. ASSUME NoOverlap' PROVE Apart'
  <2>1. Shapes /\ [Step]_tvars /\ FInv'
    BY AsTasks, FStep DEF FInv
  <2>2. NoOverlap
    BY <1>2, <2>1, CountsMove DEF NoOverlap
  <2>3. OneHolder /\ OneThunk /\ \A c \in Calls : OneAtATime(c)
    BY <2>2 DEF CInv, Apart
  <2>4. \A c \in Calls : InTurn(c) /\ InTurn(c)'
    BY <1>2, <2>1, <2>2 DEF NoOverlap, FInv, Turns
  <2>5. OneHolder' /\ OneThunk'
    BY <1>1, <2>3, OneHolderStep, OneThunkStep
  <2>6. \A c \in Calls : OneAtATime(c)'
    BY <1>1, <2>3, <2>4, OneAtATimeStep
  <2> QED
    BY <2>5, <2>6 DEF Apart
<1> QED
  BY <1>1, <1>2 DEF CInv

\* What the futures and their contexts keep together at every step.
LEMMA TogetherAlways == Spec => [](FInv /\ CInv)
<1>1. Init => FInv /\ CInv
  BY FInit, CInit
<1>2. FInv /\ CInv /\ [Next]_vars => FInv' /\ CInv'
  BY FStep, CStep
<1> QED
  BY <1>1, <1>2, PTL DEF Spec

\* The variables of the tasks and of the contexts keep their types.
THEOREM TypeCorrect == Spec => []TypeOK
<1>1. CInv => Contexts!TypeOK /\ senders \in Seq(Calls)
  BY DEF CInv, Together
<1>2. TTypeOK /\ Contexts!TypeOK /\ senders \in Seq(Calls) => TypeOK
  BY DEF TypeOK
<1> QED
  BY <1>1, <1>2, FuturesTyped, TogetherAlways, PTL

\* Unless two tasks of a Futures were counted at the same time, no two calls
\* share a clone of `was`, nobody finds another request in its clone, and every
\* thunk answers the request whose callback made it (_late_respond,
\* send_content_async, Context cloning).
THEOREM AnswersGoToTheirClients == Spec => []AnswersOwnClient
<1>1. CInv => AnswersOwnClient
  <2> SUFFICES ASSUME CInv, NoOverlap
               PROVE  Contexts!OwnContext /\ \A i \in 1..Len(thunks) : thunks[i][1] = senders[i]
    BY DEF AnswersOwnClient, NoOverlap
  <2>1. OneHolder /\ OneThunk
    BY DEF CInv, Apart
  <2>2. \A i \in 1..Len(thunks) : thunks[i][1] = senders[i]
    BY <2>1 DEF OneThunk
  <2>3. Contexts!OwnContext
    BY <2>1 DEF OneHolder, Contexts!OwnContext, Contexts!Requests, Calls, Contexts!Context
  <2> QED
    BY <2>2, <2>3
<1> QED
  BY <1>1, TogetherAlways, PTL
=============================================================================
