----------------------------- MODULE FutureAnswers -----------------------------
(***************************************************************************)
(* Futures and their contexts together: an application call makes its      *)
(* tasks (TaskFutures), takes a clone of `was` for the Futures it returns  *)
(* (ContextPool), and what the Futures calls back is _late_respond on that *)
(* clone.  The steps the two modules share are taken by both; each other   *)
(* step is a step of one of them.                                          *)
(*                                                                         *)
(* The main thread runs thunks while it serves and shuts the executor down *)
(* when it has left its loop.                                              *)
(***************************************************************************)
EXTENDS TaskFutures

CONSTANTS
    MaxClones,  \* MAX_CLONES_PER_THREAD
    Timeouts    \* TRUE: a request may be answered 503 before its tasks end

ASSUME FutureAnswersAssumption == MaxClones \in Nat \ {0} /\ Timeouts \in BOOLEAN

VARIABLES clone, thread, began, future, held, chain, done, thunks, main,
    senders     \* history: the call whose callback made each thunk

contextVars == <<clone, thread, began, future, held, chain, done, thunks, main>>
vars == <<tvars, contextVars, senders>>

Contexts == INSTANCE ContextPool WITH task <- future, MaxChain <- MaxTasks

Init == TInit /\ Contexts!Init /\ senders = <<>>

-----------------------------------------------------------------------------
(* Steps of both.                                                          *)

\* The application call begins; a clone will be wanted for its future.
CallBegins == Begin /\ Contexts!Then /\ UNCHANGED senders
\* It fails before it has a future, or finds no clone.
CallFails == FailCall /\ Contexts!Fail /\ UNCHANGED senders
NoClone == NoContext /\ Contexts!TooMany /\ UNCHANGED senders
\* Futures.then: the context is complete, the callbacks can be set.
HaveContext == Then /\ Contexts!Return /\ UNCHANGED senders

\* _late_respond begins.  (A second one, after two tasks were counted at the
\* same time, uses the clone whoever has it now.)
LateRespond(t) ==
    /\ Fulfil(t) /\ cb'[t] = "callback"
    /\ IF future[t[1]] = "running" THEN Contexts!Settle(t[1]) ELSE UNCHANGED contextVars
    /\ UNCHANGED senders
\* Or, when the callback is spent, ends the response of the clone with a 205.
NoContent(t) ==
    /\ Fulfil(t) /\ cb'[t] = "over"
    /\ LET r == Contexts!Context(t[1]).response IN
       done' = [c \in Calls |-> done[c] \/ c = r]
    /\ UNCHANGED <<clone, thread, began, future, held, chain, thunks, main, senders>>
\* hasattr (self._was, 'response') is false: it returns.
FallSilent(t) ==
    /\ future[t[1]] = "silent" /\ Return(t)
    /\ UNCHANGED <<contextVars, senders>>
\* The callback gives its content ...
Content(t) ==
    /\ future[t[1]] = "respond" /\ cb[t] \in {"callback", "failed"}
    /\ Contexts!Fulfil(t[1]) /\ future'[t[1]] # "running"
    /\ UNCHANGED <<tvars, senders>>
\* ... which is not wanted any more, or is handed to the main thread ...
Unwanted(t) ==
    /\ future[t[1]] = "dropped" /\ Return(t)
    /\ UNCHANGED <<contextVars, senders>>
HandOver(t) ==
    /\ future[t[1]] = "answer" /\ Return(t)
    /\ Contexts!Answer(t[1])
    /\ senders' = IF thunks' = thunks THEN senders ELSE Append(senders, t[1])
\* ... or another future on the same context.
AnotherFuture(t) ==
    /\ future[t[1]] = "respond" /\ Chain(t)
    /\ UNCHANGED <<contextVars, senders>>
FutureChained(t) ==
    /\ future[t[1]] = "respond" /\ ChainThen(t)
    /\ Contexts!Fulfil(t[1]) /\ future'[t[1]] = "running"
    /\ UNCHANGED senders
\* A callback whose call was answered already answers from that clone again.
AnswerAgain(t) ==
    /\ future[t[1]] \in {"thunk", "freed"} /\ Return(t)
    /\ LET c == Contexts!Context(t[1]) IN
       IF c.response = Contexts!Absent \/ c.request = Contexts!Absent \/ done[c.response]
       THEN UNCHANGED <<thunks, senders>>
       ELSE /\ thunks' = Append(thunks, <<c.response, held[t[1]]>>)
            /\ senders' = Append(senders, t[1])
    /\ UNCHANGED <<clone, thread, began, future, held, chain, done, main>>

\* The main thread is in its loop until it shuts the executor down.
ThunkRuns == Contexts!RunThunk /\ closer = "idle" /\ senders' = Tail(senders) /\ UNCHANGED tvars
ContextFreed ==
    /\ Contexts!ClearEnv \/ Contexts!DelResponse \/ Contexts!DelRequest
    /\ UNCHANGED <<tvars, senders>>
Expires(c) == Contexts!Timeout(c) /\ closer = "idle" /\ UNCHANGED <<tvars, senders>>
LoopEnds == Shutdown /\ main.pc = "loop" /\ UNCHANGED <<contextVars, senders>>

-----------------------------------------------------------------------------
\* Steps of the futures alone, and of the contexts alone.
FuturesStep ==
    /\ \/ AdmitTask \/ CreateTask \/ ListTask \/ Attach \/ Attached
       \/ Start \/ CloserStep
       \/ \E t \in Tasks : \/ End(t) \/ Settle(t) \/ Store(t) \/ Compare(t)
                           \/ ChainAdmit(t) \/ ChainCreate(t) \/ FailChain(t) \/ Raise(t)
    /\ UNCHANGED <<contextVars, senders>>
CloneStep ==
    /\ call.pc = "then"
    /\ Contexts!Look \/ Contexts!SetEnv \/ Contexts!SetRequest \/ Contexts!SetResponse
    /\ UNCHANGED <<tvars, senders>>

Callback(t) ==
    \/ LateRespond(t) \/ NoContent(t) \/ FallSilent(t) \/ Content(t) \/ Unwanted(t) \/ HandOver(t)
    \/ AnotherFuture(t) \/ FutureChained(t) \/ AnswerAgain(t)

Next == \/ CallBegins \/ CallFails \/ NoClone \/ HaveContext
        \/ FuturesStep \/ CloneStep \/ \E t \in Tasks : Callback(t)
        \/ ThunkRuns \/ ContextFreed \/ LoopEnds \/ \E c \in Calls : Expires(c)

Spec == Init /\ [][Next]_vars

-----------------------------------------------------------------------------
(* Properties.                                                             *)

TypeOK == TTypeOK /\ Contexts!TypeOK /\ senders \in Seq(Calls)

\* A thunk answers the request whose future made it, and nobody finds another
\* request in its context, as long as no two tasks of a Futures were counted at
\* the same time.
AnswersOwnClient ==
    (\A c \in Calls : ~overlap[c]) =>
        /\ Contexts!OwnContext
        /\ \A i \in 1..Len(thunks) : thunks[i][1] = senders[i]
=============================================================================
