---------------------------- MODULE MCComponents ----------------------------
(***************************************************************************)
(* Components that share no state, checked in one run: every behaviour is  *)
(* a behaviour of one of them, the others stay in their initial states.    *)
(***************************************************************************)
EXTENDS Naturals, Sequences

CONSTANTS Threads, MaxMsg                                       \* WebSocketSession, AppReload
CONSTANTS MaxEdits, Broken, MaxTicks                            \* AppReload
CONSTANTS Servers, MaxVersions, Stamp, Large, MaxSeconds        \* StaticFiles
CONSTANTS Processes, Keys, Early, Slots, MaxTime, MaxAdds       \* SharedState
CONSTANTS Addresses, Ids                                        \* Http3Connections
CONSTANTS MaxReq, MaxTasks, Sizes, Workers, Cancels, Filters, Closing   \* TaskFutures

VARIABLES
    part,
    mode, stage, env, queue, job, context, link, closing, registered, given, last, heard, early, crossed, robbed,
    disk, newest, seconds, calm, statCache, memCache, kept, serve,
    source, recorded, app, recent, ticks, visit, slipped, doubled,
    array, index, names, clock, op, adds, updated, again,
    chan, has, timer, linked, conns, quic, news, main,
    call, begun, size, made, task, work, listed, executor, noMore, locked, closer,
    cb, by, loaded, responded, fulfilled, spent, overlap

WS == INSTANCE WebSocketSession
SF == INSTANCE StaticFiles
AR == INSTANCE AppReload
SS == INSTANCE SharedState
H3 == INSTANCE Http3Connections
TF == INSTANCE TaskFutures

Parts == {"websocket", "static", "reload", "shared", "http3", "futures"}

Init ==
    /\ part \in Parts
    /\ WS!Init /\ SF!Init /\ AR!Init /\ SS!Init /\ H3!Init /\ TF!TInit

sessionVars == <<mode, stage, env, queue, job, context, link, closing, registered, given, last, heard, early, crossed, robbed>>
staticVars == <<disk, newest, seconds, calm, statCache, memCache, kept, serve>>
reloadVars == <<source, recorded, app, recent, ticks, visit, slipped, doubled>>
semapVars == <<array, index, names, clock, op, adds, updated, again>>
quicVars == <<chan, has, timer, linked, conns, quic, news, main>>
futureVars == <<call, begun, size, made, task, work, listed, executor, noMore, locked, closer,
                cb, by, loaded, responded, fulfilled, spent, overlap>>

Session == part = "websocket" /\ WS!Next
           /\ UNCHANGED <<part, staticVars, reloadVars, semapVars, quicVars, futureVars>>
Static == part = "static" /\ SF!Next
          /\ UNCHANGED <<part, sessionVars, reloadVars, semapVars, quicVars, futureVars>>
Reload == part = "reload" /\ AR!Next
          /\ UNCHANGED <<part, sessionVars, staticVars, semapVars, quicVars, futureVars>>
Shared == part = "shared" /\ SS!Next
          /\ UNCHANGED <<part, sessionVars, staticVars, reloadVars, quicVars, futureVars>>
Http3 == part = "http3" /\ H3!Next
         /\ UNCHANGED <<part, sessionVars, staticVars, reloadVars, semapVars, futureVars>>
OnlyFutures == part = "futures"
               /\ UNCHANGED <<part, sessionVars, staticVars, reloadVars, semapVars, quicVars>>
Futures == TF!TNext /\ OnlyFutures

Next == Session \/ Static \/ Reload \/ Shared \/ Http3 \/ Futures

vars == <<part, sessionVars, staticVars, reloadVars, semapVars, quicVars, futureVars>>

\* The fairness of TaskFutures, where it is the one that runs.
Fairness ==
    /\ WF_vars(OnlyFutures /\ TF!CallStep)
    /\ WF_vars(OnlyFutures /\ TF!Start)
    /\ WF_vars(OnlyFutures /\ TF!CloserStep)
    /\ \A t \in TF!Tasks : WF_vars(OnlyFutures /\ TF!End(t)) /\ WF_vars(OnlyFutures /\ TF!CallbackStep(t))

Spec == Init /\ [][Next]_vars /\ Fairness

-----------------------------------------------------------------------------
\* The types of all components.
TypeOK ==
    CASE part = "websocket" -> WS!TypeOK
      [] part = "static" -> SF!TypeOK
      [] part = "reload" -> AR!TypeOK
      [] part = "shared" -> SS!TypeOK
      [] part = "http3" -> H3!TypeOK
      [] part = "futures" -> TF!TTypeOK

\* WebSocketSession: no client stays registered with nobody to forget it.
ClientsForgotten == part = "websocket" => WS!ClientsForgotten
\* WebSocketSession: what was put last has reached the application.
LastWordHeard == part = "websocket" => WS!LastWordHeard
\* StaticFiles: an answer for a calm file is the file as it is.
FreshAnswers == part = "static" => SF!FreshAnswers
\* AppReload: the recorded file is the loaded one, or was missed in one of two ways.
NewestOrRetried == part = "reload" => AR!NewestOrRetried
\* SharedState: no two names have one slot.
KeysApart == part = "shared" => SS!KeysApart
\* Http3Connections: one open channel has the connection.
OneOpenChannel == part = "http3" => H3!OneOpenChannel
\* TaskFutures: shutdown returns.
ShutdownReturns == TF!ShutdownReturns
\* TaskFutures: the callback of every returned future is called.
FuturesFulfilled == TF!FuturesFulfilled

-----------------------------------------------------------------------------
MCStamp == <<1, 2, 3>>
MCEarly == <<"a">>
MCAddresses == 1..3
MCSizes == <<{1, 2}>>
=============================================================================
