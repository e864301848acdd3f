--------------------------- MODULE GracefulShutdown ---------------------------
(***************************************************************************)
(* backbone/lifetime: how a worker serves, is asked to stop, and stops.    *)
(* loop serves until _shutdown_phase is set, then graceful_shutdown_loop   *)
(* goes over the socket map phase by phase: the QUIC listener closes in    *)
(* phase 1, the listener in 2, and in 3 each channel that has nothing left *)
(* to write; a channel that has vetoes the end of the phase until the time *)
(* of the phase is up.  After phase 4 the process exits with _exit_code.   *)
(*                                                                         *)
(* shutdown is called by signal handlers and maintenance on the main       *)
(* thread, where it runs in one go, and by application threads, where      *)
(* every read and write of a global is a step of its own.                  *)
(***************************************************************************)
EXTENDS Integers, Sequences, FiniteSets, SequencesExt

CONSTANTS
    Channels,   \* connections
    Askers,     \* application threads that call shutdown (or run out of memory)
    Limits,     \* values of shutdown_timeout, in polls of a second
    Codes,      \* values of exit_code: 0 shutdown, 1 error, 3 restart
    MaxAsks,    \* bound: calls of shutdown on the main thread
    Early,      \* TRUE: a signal may come before lifetime.loop is entered
    Interrupts  \* TRUE: a KeyboardInterrupt may end the loop

ASSUME GracefulShutdownAssumption ==
    /\ Limits \subseteq Nat /\ Codes \subseteq Nat /\ MaxAsks \in Nat
    /\ Early \in BOOLEAN /\ Interrupts \in BOOLEAN
    /\ Channels \cap {"listener", "quic"} = {}

VARIABLES
    main,       \* where the main thread is
    phase, code, limit, \* _shutdown_phase, _exit_code, _shutdown_timeout
    next,       \* the value of _shutdown_phase += 1 between its read and its write
    elapsed,    \* time_in_this_phase
    map,        \* asyncore.socket_map, in the order of its dict
    todo,       \* objects the sweep has not asked yet
    veto,
    chan,       \* what each connection is at
    rejected,   \* http_channel.is_rejected
    asker,      \* application threads in shutdown
    asks

globals == <<phase, code, limit>>
netVars == <<map, chan, rejected>>
vars == <<main, globals, next, elapsed, map, todo, veto, chan, rejected, asker, asks>>

DefaultLimit == 30
LastPhase == 4

Init ==
    /\ main = "boot"
    /\ phase = 0 /\ code = 0 /\ limit = DefaultLimit
    /\ next = 0 /\ elapsed = 0
    /\ map = <<"quic", "listener">> /\ todo = <<>> /\ veto = FALSE
    /\ chan = [c \in Channels |-> "free"]
    /\ rejected = [c \in Channels |-> FALSE]
    /\ asker = [a \in Askers |-> [pc |-> "out", code |-> 0, limit |-> 0]]
    /\ asks = 0

-----------------------------------------------------------------------------
(* shutdown.                                                               *)

Enter(e, l) == phase' = 1 /\ code' = e /\ limit' = l

AskAgain(e, l) == Enter(e, l)
Ask(e, l) == IF phase # 0 THEN UNCHANGED globals ELSE Enter(e, l)

\* A signal, the reloader or a full memory on the main thread.
Signal(e, l) ==
    /\ main # "gone" /\ asks < MaxAsks
    /\ Early \/ main # "boot"
    /\ asks' = asks + 1
    /\ Ask(e, l)
    /\ UNCHANGED <<main, next, elapsed, netVars, todo, veto, asker>>

Goto(a, pc) == asker' = [asker EXCEPT ![a].pc = pc]
askRest == <<main, next, elapsed, netVars, todo, veto, asks>>

\* An application thread: the two tests of the phase, and the assignments.
ThreadCalls(a, e, l) ==
    /\ main \notin {"boot", "gone"} /\ asker[a].pc = "out"
    /\ asker' = [asker EXCEPT ![a] = [pc |-> "test", code |-> e, limit |-> l]]
    /\ UNCHANGED <<globals, askRest>>
ThreadTests(a) ==
    /\ asker[a].pc = "test"
    /\ Goto(a, IF phase # 0 THEN "back" ELSE "again")
    /\ UNCHANGED <<globals, askRest>>
ThreadTestsAgain(a) ==
    /\ asker[a].pc = "again"
    /\ Goto(a, IF phase = 0 THEN "code" ELSE "limit")
    /\ UNCHANGED <<globals, askRest>>
ThreadSetsCode(a) ==
    /\ asker[a].pc = "code"
    /\ code' = asker[a].code
    /\ Goto(a, "phase")
    /\ UNCHANGED <<phase, limit, askRest>>
ThreadSetsPhase(a) ==
    /\ asker[a].pc = "phase"
    /\ phase' = 1
    /\ Goto(a, "limit")
    /\ UNCHANGED <<code, limit, askRest>>
ThreadSetsLimit(a) ==
    /\ asker[a].pc = "limit"
    /\ limit' = asker[a].limit
    /\ Goto(a, "back")
    /\ UNCHANGED <<phase, code, askRest>>

-----------------------------------------------------------------------------
(* The network and the applications, while the main thread polls.          *)

Polling == main \in {"life", "poll"}
pollRest == <<main, globals, next, elapsed, todo, veto, asker, asks>>

Accept(c) ==
    /\ Polling /\ Contains(map, "listener") /\ chan[c] = "free"
    /\ map' = Append(map, c)
    /\ chan' = [chan EXCEPT ![c] = "idle"]
    /\ UNCHANGED <<rejected, pollRest>>

\* A request that a thread works on from now on.
Receive(c) ==
    /\ Polling /\ chan[c] = "idle" /\ ~rejected[c]
    /\ chan' = [chan EXCEPT ![c] = "busy"]
    /\ UNCHANGED <<map, rejected, pollRest>>

\* Its answer is pushed, by a thunk the main thread runs in a poll.
Answer(c) ==
    /\ Polling /\ chan[c] = "busy"
    /\ chan' = [chan EXCEPT ![c] = "ready"]
    /\ UNCHANGED <<map, rejected, pollRest>>

Write(c) ==
    /\ Polling /\ chan[c] = "ready"
    /\ chan' = [chan EXCEPT ![c] = "idle"]
    /\ UNCHANGED <<map, rejected, pollRest>>

\* An object leaves the socket map, where it is once.
Leave(o) == \E i \in DOMAIN map : map[i] = o /\ map' = RemoveAt(map, i)
Drop(c) == Leave(c) /\ chan' = [chan EXCEPT ![c] = "closed"]

Hangup(c) ==
    /\ Polling /\ chan[c] \in {"idle", "busy", "ready"}
    /\ ~rejected[c] \/ chan[c] = "ready"
    /\ Drop(c)
    /\ UNCHANGED <<rejected, pollRest>>

-----------------------------------------------------------------------------
(* The main thread.                                                        *)

mainRest == <<netVars, asker, asks>>

\* loop: whatever was asked before is forgotten.
BeginLoop ==
    /\ main = "boot"
    /\ phase' = 0 /\ limit' = DefaultLimit /\ code' = 0
    /\ main' = "life"
    /\ UNCHANGED <<next, elapsed, todo, veto, mainRest>>

Sweep == main' = "sweep" /\ todo' = map /\ veto' = FALSE

EndLife ==
    /\ main = "life" /\ phase # 0
    /\ Sweep
    /\ elapsed' = 0
    /\ UNCHANGED <<globals, next, mainRest>>

\* Ctrl-C: loop goes on to the shutdown, a second one leaves it at once.
Interrupt ==
    /\ Interrupts
    /\ \/ /\ main = "life"
          /\ limit' = 1 /\ elapsed' = 0
          /\ Sweep
       \/ /\ main \in {"sweep", "judge", "poll"}
          /\ main' = "close"
          /\ UNCHANGED <<limit, elapsed, todo, veto>>
    /\ UNCHANGED <<phase, code, next, mainRest>>

\* clean_shutdown_control of one object, unless another has already vetoed.
CloseReadyToo(o) == \/ o = "quic" /\ phase = 1
                    \/ o = "listener" /\ phase = 2
                    \/ o \in Channels /\ phase = 3
ListenerStays(o) == \/ o = "quic" /\ phase = 1
                    \/ o \in Channels /\ phase = 3 /\ chan[o] # "ready"
Closes(o) == \/ o = "quic" /\ phase = 1
             \/ o = "listener" /\ phase = 2
             \/ o \in Channels /\ phase = 3 /\ chan[o] # "ready"
Vetoes(o) == o \in Channels /\ phase = 3 /\ ~Closes(o)

Control(o) ==
    /\ veto' = Vetoes(o)
    /\ rejected' = IF o \in Channels /\ phase = 3 THEN [rejected EXCEPT ![o] = TRUE] ELSE rejected
    /\ IF ~Closes(o) THEN UNCHANGED <<map, chan>>
       ELSE IF o \in Channels THEN Drop(o)
       ELSE Leave(o) /\ UNCHANGED chan

SweepOne ==
    /\ main = "sweep" /\ todo # <<>>
    /\ todo' = Tail(todo)
    /\ IF veto THEN UNCHANGED <<veto, netVars>> ELSE Control(Head(todo))
    /\ UNCHANGED <<main, globals, next, elapsed, asker, asks>>

EndSweep ==
    /\ main = "sweep" /\ todo = <<>>
    /\ main' = "judge"
    /\ UNCHANGED <<globals, next, elapsed, todo, veto, mainRest>>

TimeUp == elapsed >= limit

JudgeNotGlobal ==
    /\ main = "judge"
    /\ IF veto /\ ~TimeUp THEN main' = "poll" ELSE main' = "bump"
    /\ next' = phase
    /\ UNCHANGED <<globals, elapsed, todo, veto, mainRest>>

\* A poll, or the next phase: _shutdown_phase is read here ...
Judge ==
    /\ main = "judge"
    /\ IF veto /\ ~TimeUp
       THEN main' = "poll" /\ UNCHANGED next
       ELSE main' = "bump" /\ next' = phase + 1
    /\ UNCHANGED <<globals, elapsed, todo, veto, mainRest>>

BumpPastTheLast ==
    /\ main = "bump"
    /\ phase' = next /\ elapsed' = 0
    /\ IF next <= LastPhase THEN Sweep ELSE main' = "close" /\ UNCHANGED <<todo, veto>>
    /\ UNCHANGED <<code, limit, next, mainRest>>

\* ... and written here.
Bump ==
    /\ main = "bump"
    /\ phase' = next /\ elapsed' = 0
    /\ IF next < LastPhase THEN Sweep ELSE main' = "close" /\ UNCHANGED <<todo, veto>>
    /\ UNCHANGED <<code, limit, next, mainRest>>

\* The poll of graceful_shutdown_loop returns within a second.
EndPoll ==
    /\ main = "poll"
    /\ elapsed' = elapsed + 1
    /\ Sweep
    /\ UNCHANGED <<globals, next, mainRest>>

\* Loader.close, and os._exit.
Exit ==
    /\ main = "close"
    /\ main' = "gone"
    /\ UNCHANGED <<globals, next, elapsed, todo, veto, mainRest>>

-----------------------------------------------------------------------------
MainStep == BeginLoop \/ EndLife \/ SweepOne \/ EndSweep \/ Judge \/ Bump \/ EndPoll \/ Exit
Network == \E c \in Channels : Accept(c) \/ Receive(c) \/ Answer(c) \/ Write(c) \/ Hangup(c)
ThreadStep(a) ==
    \/ \E e \in Codes, l \in Limits : ThreadCalls(a, e, l)
    \/ ThreadTests(a) \/ ThreadTestsAgain(a) \/ ThreadSetsCode(a)
    \/ ThreadSetsPhase(a) \/ ThreadSetsLimit(a)

Next == \/ MainStep \/ Network \/ Interrupt
        \/ \E e \in Codes, l \in Limits : Signal(e, l)
        \/ \E a \in Askers : ThreadStep(a)

Spec == Init /\ [][Next]_vars

\* The main thread goes on; polls and application hooks return.
Fairness == WF_vars(MainStep)
FairSpec == Spec /\ Fairness
-----------------------------------------------------------------------------
(* Properties.                                                             *)

TypeOK ==
    /\ main \in {"boot", "life", "sweep", "judge", "bump", "poll", "close", "gone"}
    /\ phase \in 0..LastPhase /\ next \in 0..LastPhase
    /\ code \in Codes \cup {0}
    /\ limit \in Limits \cup {1, DefaultLimit}
    /\ elapsed \in Nat
    /\ map \in Seq(Channels \cup {"listener", "quic"})
    /\ todo \in Seq(Channels \cup {"listener", "quic"})
    /\ veto \in BOOLEAN
    /\ chan \in [Channels -> {"free", "idle", "busy", "ready", "closed"}]
    /\ rejected \in [Channels -> BOOLEAN]
    /\ asker \in [Askers -> [pc : {"out", "test", "again", "code", "phase", "limit", "back"},
                             code : Codes \cup {0}, limit : Limits \cup {0}]]
    /\ asks \in 0..MaxAsks

\* An answer that is ready when the worker stops is written, unless the time
\* of the phase is up: no sweep closes its channel, and the loop leaves phase 3
\* only when every channel has been asked and closed, although a veto keeps the
\* ones behind it from being asked, and whatever other threads do to the phase
\* meanwhile.
ReadyAnswersAreWritten ==
    [][\A c \in Channels :
          /\ main = "sweep" /\ chan[c] = "ready" => chan'[c] = "ready"
          /\ main = "judge" /\ main' = "bump" /\ phase = 3 /\ ~TimeUp =>
                chan[c] \in {"free", "closed"}]_vars

\* No connection is taken and no request begun once the listener is closed,
\* but on a channel that a veto has kept from being rejected.
NothingNewWhileQuiet ==
    [][\A c \in Channels : main # "life" /\ chan[c] \in {"free", "idle"}
                           /\ chan'[c] \in {"idle", "busy"} /\ chan'[c] # chan[c]
          => /\ chan[c] = "idle"
             /\ \E d \in Channels : d # c /\ rejected[d] /\ chan[d] # "free"]_vars

\* "catch SIGHUP for reloading worker process": a worker asked to stop does.
\* (One asked before it enters loop forgets it: BeginLoop.)
StopsWhenAsked == (phase # 0 /\ main # "boot") ~> main = "gone"

\* "aready entered": once the worker is stopping, nothing changes its exit code
\* or takes it back to an earlier phase, but for an application thread that had
\* found the phase 0 before the worker was asked to stop.
FirstAskStands ==
    [][/\ phase # 0 /\ main # "boot"
       /\ \A a \in Askers : asker[a].pc \notin {"code", "phase"}
       => code' = code /\ phase' >= phase]_vars
=============================================================================
