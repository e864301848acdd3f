------------------------------ MODULE ContextPool ------------------------------
(***************************************************************************)
(* The clones of skitai.was.  An application call that returns a future    *)
(* leaves its request context in a clone of its thread's `was` object:     *)
(* _WASPool._get (True) takes the first clone whose env is empty, and      *)
(* _clone copies env, request and response into it.  When the task ends, a *)
(* thread of the executor runs _late_respond on the clone; the answer goes *)
(* out through a thunk in which the main thread finishes the response and  *)
(* gives the clone back with deallocate_was.                               *)
(*                                                                         *)
(* The clones of a thread are taken by that thread alone, so one request   *)
(* thread is enough; every access to a clone's attributes is a step.       *)
(***************************************************************************)
EXTENDS Integers, Sequences, FiniteSets

CONSTANTS
    MaxClones,  \* MAX_CLONES_PER_THREAD (256)
    MaxReq,     \* bound: application calls that return a future
    MaxChain,   \* bound: futures a task's callback returns in turn
    Timeouts    \* TRUE: a request may be answered 503 before its task ends

Clones   == 1..MaxClones
Requests == 1..MaxReq
\* The attribute is deleted, or None.
Absent == 0

VARIABLES
    clone,      \* env, request and response of each clone
    thread,     \* the request thread: pc, the request, the clone looked at
    began,      \* application calls begun
    task,       \* the future of each request
    held,       \* the clone each future was given (its _was)
    chain,      \* futures returned by its callback
    done,       \* the response is done
    thunks,     \* the trigger's thunks: <<request, clone>>
    main        \* the main thread: pc, the clone it gives back

vars == <<clone, thread, began, task, held, chain, done, thunks, main>>

Free == [env |-> FALSE, request |-> Absent, response |-> Absent]
TaskStates == {"none", "running", "respond", "answer", "thunk", "freed", "silent", "dropped"}

Init ==
    /\ clone = [k \in Clones |-> Free]
    /\ thread = [pc |-> "idle", req |-> 0, at |-> 1]
    /\ began = 0
    /\ task = [r \in Requests |-> "none"]
    /\ held = [r \in Requests |-> 0]
    /\ chain = [r \in Requests |-> 0]
    /\ done = [r \in Requests |-> FALSE]
    /\ thunks = <<>>
    /\ main = [pc |-> "loop", at |-> 1]

-----------------------------------------------------------------------------
(* The request thread: Task.then -> _get_was -> _clone.                    *)

threadRest == <<chain, done, thunks, main>>

Then ==
    /\ thread.pc = "idle" /\ began < MaxReq
    /\ began' = began + 1
    /\ thread' = [pc |-> "look", req |-> began + 1, at |-> 1]
    /\ UNCHANGED <<clone, task, held, threadRest>>

LookAtFirst ==
    /\ thread.pc = "look" /\ thread.at <= MaxClones
    /\ thread' = [thread EXCEPT !.pc = "env"]
    /\ UNCHANGED <<clone, began, task, held, threadRest>>

\* _get: a clone that is active is passed over.
Look ==
    /\ thread.pc = "look" /\ thread.at <= MaxClones
    /\ thread' = IF clone[thread.at].env THEN [thread EXCEPT !.at = @ + 1]
                 ELSE [thread EXCEPT !.pc = "env"]
    /\ UNCHANGED <<clone, began, task, held, threadRest>>

\* "Too many skitai.was clones": the call fails and answers 502 (or 500).
TooMany ==
    /\ thread.pc = "look" /\ thread.at > MaxClones
    /\ thread' = [pc |-> "idle", req |-> 0, at |-> 1]
    /\ done' = [done EXCEPT ![thread.req] = TRUE]
    /\ UNCHANGED <<clone, began, task, held, chain, thunks, main>>

\* The call fails before it asks for a clone, and answers an error.
Fail ==
    /\ thread.pc = "look" /\ thread.at = 1
    /\ thread' = [pc |-> "idle", req |-> 0, at |-> 1]
    /\ done' = [done EXCEPT ![thread.req] = TRUE]
    /\ UNCHANGED <<clone, began, task, held, chain, thunks, main>>

SetEnv ==
    /\ thread.pc = "env"
    /\ clone' = [clone EXCEPT ![thread.at].env = TRUE]
    /\ thread' = [thread EXCEPT !.pc = "request"]
    /\ UNCHANGED <<began, task, held, threadRest>>
SetRequest ==
    /\ thread.pc = "request"
    /\ clone' = [clone EXCEPT ![thread.at].request = thread.req]
    /\ thread' = [thread EXCEPT !.pc = "response"]
    /\ UNCHANGED <<began, task, held, threadRest>>
SetResponse ==
    /\ thread.pc = "response"
    /\ clone' = [clone EXCEPT ![thread.at].response = thread.req]
    /\ thread' = [thread EXCEPT !.pc = "then"]
    /\ UNCHANGED <<began, task, held, threadRest>>

\* add_done_callback; the call returns its future and the job is over.
Return ==
    /\ thread.pc = "then"
    /\ task' = [task EXCEPT ![thread.req] = "running"]
    /\ held' = [held EXCEPT ![thread.req] = thread.at]
    /\ thread' = [pc |-> "idle", req |-> 0, at |-> 1]
    /\ UNCHANGED <<clone, began, threadRest>>

-----------------------------------------------------------------------------
(* A thread of the executor: _late_respond.                                *)

Context(r) == clone[held[r]]
State(r, s) == task' = [task EXCEPT ![r] = s]
taskRest == <<clone, thread, began, held, done, main>>

\* hasattr (self._was, 'response').
Settle(r) ==
    /\ task[r] = "running"
    /\ State(r, IF Context(r).response = Absent THEN "silent" ELSE "respond")
    /\ UNCHANGED <<chain, thunks, taskRest>>

\* The callback gives content, or another future on the same context; content
\* is not wanted for a response that is done.
Fulfil(r) ==
    /\ task[r] = "respond"
    /\ \/ /\ chain[r] < MaxChain
          /\ chain' = [chain EXCEPT ![r] = @ + 1]
          /\ State(r, "running")
       \/ /\ State(r, IF done[r] THEN "dropped" ELSE "answer")
          /\ UNCHANGED chain
    /\ UNCHANGED <<thunks, taskRest>>

\* self._was.request.postprocessing: send_content_async wakes the main thread.
Answer(r) ==
    /\ task[r] = "answer"
    /\ IF Context(r).request = Absent \/ Context(r).response = Absent
       THEN State(r, "silent") /\ UNCHANGED thunks
       ELSE /\ State(r, "thunk")
            /\ thunks' = Append(thunks, <<Context(r).response, held[r]>>)
    /\ UNCHANGED <<chain, taskRest>>

-----------------------------------------------------------------------------
(* The main thread.                                                        *)

mainRest == <<thread, began, held, chain>>

RunThunkSwapped ==
    /\ main.pc = "loop" /\ thunks # <<>>
    /\ thunks' = Tail(thunks)
    /\ done' = [done EXCEPT ![Head(thunks)[2]] = TRUE]
    /\ main' = [pc |-> "env", at |-> Head(thunks)[1]]
    /\ UNCHANGED <<clone, task, mainRest>>

\* The thunk: done ...
RunThunk ==
    /\ main.pc = "loop" /\ thunks # <<>>
    /\ thunks' = Tail(thunks)
    /\ done' = [done EXCEPT ![Head(thunks)[1]] = TRUE]
    /\ main' = [pc |-> "env", at |-> Head(thunks)[2]]
    /\ UNCHANGED <<clone, task, mainRest>>

\* ... and deallocate_was: was.env = None, del was.response, del was.request.
ClearEnv ==
    /\ main.pc = "env"
    /\ clone' = [clone EXCEPT ![main.at].env = FALSE]
    /\ task' = [r \in Requests |-> IF task[r] = "thunk" /\ held[r] = main.at THEN "freed" ELSE task[r]]
    /\ main' = [main EXCEPT !.pc = "response"]
    /\ UNCHANGED <<done, thunks, mainRest>>
DelResponse ==
    /\ main.pc = "response"
    /\ clone' = [clone EXCEPT ![main.at].response = Absent]
    /\ main' = [main EXCEPT !.pc = "request"]
    /\ UNCHANGED <<task, done, thunks, mainRest>>
DelRequest ==
    /\ main.pc = "request"
    /\ clone' = [clone EXCEPT ![main.at].request = Absent]
    /\ main' = [pc |-> "loop", at |-> 1]
    /\ UNCHANGED <<task, done, thunks, mainRest>>

\* The timeout of a channel answers 503 for its request.
Timeout(r) ==
    /\ Timeouts /\ main.pc = "loop"
    /\ r <= began /\ ~done[r]
    /\ done' = [done EXCEPT ![r] = TRUE]
    /\ UNCHANGED <<clone, task, thunks, main, mainRest>>

-----------------------------------------------------------------------------
Next == \/ Then \/ Fail \/ Look \/ TooMany \/ SetEnv \/ SetRequest \/ SetResponse \/ Return
        \/ RunThunk \/ ClearEnv \/ DelResponse \/ DelRequest
        \/ \E r \in Requests : Settle(r) \/ Fulfil(r) \/ Answer(r) \/ Timeout(r)

Spec == Init /\ [][Next]_vars

-----------------------------------------------------------------------------
(* Properties.                                                             *)

TypeOK ==
    /\ clone \in [Clones -> [env : BOOLEAN, request : Requests \cup {Absent},
                             response : Requests \cup {Absent}]]
    /\ thread \in [pc : {"idle", "look", "env", "request", "response", "then"},
                   req : 0..MaxReq, at : 1..MaxClones + 1]
    /\ began \in 0..MaxReq
    /\ task \in [Requests -> TaskStates]
    /\ held \in [Requests -> 0..MaxClones]
    /\ chain \in [Requests -> 0..MaxChain]
    /\ done \in [Requests -> BOOLEAN]
    /\ thunks \in Seq(Requests \X Clones)
    /\ main \in [pc : {"loop", "env", "response", "request"}, at : Clones]

\* A request that has a clone: its future goes on, or ended without giving the
\* clone back.
Holds(r) == task[r] \notin {"none", "freed"}

\* No two requests share a clone, and a request whose answer is still to be
\* given finds in its clone its own request and response or none, never those
\* of another: an answer cannot go to the wrong client.
OwnContext ==
    /\ \A r, s \in Requests : r # s /\ Holds(r) /\ Holds(s) => held[r] # held[s]
    /\ \A r \in Requests : Holds(r) =>
          /\ Context(r).request \in {r, Absent}
          /\ Context(r).response \in {r, Absent}
          /\ thread.pc \notin {"idle", "look"} => held[r] # thread.at
=============================================================================
