--------------------------- MODULE WebSocketSession ---------------------------
(***************************************************************************)
(* One WebSocket session of design spec WS_SIMPLE, from the handshake to   *)
(* the end of its channel.  Every message and every event of the session   *)
(* becomes a Job, and all of them have the SAME environment: handle_thread *)
(* writes event and message into self.env on the main thread while request *)
(* threads read it, and a Job that ends clears the context that            *)
(* env ["skitai.was"] names by then, which may be another Job's.           *)
(*                                                                         *)
(* In "pool" mode the jobs go to the request threads' queue, in "inline"   *)
(* mode (WS_NOPOOL) they run at once on the main thread.  A job whose      *)
(* application raises closes the channel where it runs.                    *)
(*                                                                         *)
(* What a job sends back goes through the trigger (module Trigger) and is  *)
(* left out, as are generators (WS_SESSION) and WS_STREAM.                 *)
(***************************************************************************)
EXTENDS Naturals

CONSTANTS
    Threads,    \* the request threads
    MaxMsg      \* bound: messages of the client

Main == "main"
Actors == Threads \cup {Main}

VARIABLES
    mode,       \* how jobs run, once there is a session
    stage,      \* what the main thread is doing
    env,        \* self.env: the event, the message and the context in it
    queue,      \* how many jobs nobody has taken yet: they are all alike
    job,        \* what each request thread is doing, and the event it read
    context,    \* was.env of each request thread's context is set
    link,       \* self.channel, channel.closed and whom close will close
    closing,    \* where each thread is in the channel's close
    registered, \* the application has the client in its register
    given,      \* messages received
    last,       \* history: what was last put for the application
    heard,      \* history: what the application was told
    early,      \* history: the channel began to close before die_with
    crossed,    \* history: it closed elsewhere while main handled a message
    robbed      \* history: a job found its context cleared by another

jobVars == <<queue, job, context, heard, robbed>>
sessionVars == <<mode, stage, env, jobVars, link, closing, registered, given, last, early, crossed>>

Idle == [pc |-> "idle", event |-> "none"]
\* What an environment tells the application: the event, or the message
\* (0: none was ever put in it).
Told(event, msg) == IF event = "none" THEN <<"message", msg>> ELSE <<event, 0>>

Init ==
    /\ mode = "none" /\ stage = "request"
    /\ env = [event |-> "none", msg |-> 0, was |-> Main]
    /\ queue = 0 /\ job = [t \in Threads |-> Idle] /\ context = [t \in Threads |-> FALSE]
    /\ link = [up |-> TRUE, set |-> TRUE, partner |-> FALSE, attended |-> FALSE, ended |-> FALSE]
    /\ closing = [a \in Actors |-> "no"]
    /\ registered = FALSE /\ given = 0
    /\ last = <<"none", 0>> /\ heard = {}
    /\ early = FALSE /\ crossed = FALSE /\ robbed = FALSE

-----------------------------------------------------------------------------
(* Jobs.                                                                   *)

\* execute: one more job for the pool, or the job itself, here and now.
Execute(event, msg) ==
    /\ env' = [env EXCEPT !.event = event, !.msg = msg]
    /\ IF mode = "pool" THEN queue' = queue + 1 /\ heard' = heard
                        ELSE queue' = queue /\ heard' = heard \cup {Told(event, msg)}
    /\ UNCHANGED <<job, context, robbed>>
\* The application of an inline job may raise: the main thread closes.
MayRaise(c) ==
    closing' = [closing EXCEPT ![Main] = c] /\ c \in {"no"} \cup IF mode = "inline" /\ link.set THEN {"close"} ELSE {}

Take(t) ==
    /\ queue > 0 /\ job[t].pc = "idle"
    /\ queue' = queue - 1
    /\ job' = [job EXCEPT ![t].pc = "event"]
    /\ env' = [env EXCEPT !.was = t]
    /\ context' = [context EXCEPT ![t] = TRUE]
    /\ UNCHANGED <<mode, stage, link, closing, registered, given, last, heard, early, crossed, robbed>>
\* wshasevent, wsopened, wsclosed look into was.env, which another job's end
\* may have set to None.
ReadEvent(t) ==
    /\ job[t].pc = "event"
    /\ IF context[t]
       THEN job' = [job EXCEPT ![t] = [pc |-> "message", event |-> env.event]] /\ robbed' = robbed
       ELSE job' = [job EXCEPT ![t].pc = "raise"] /\ robbed' = TRUE
    /\ UNCHANGED <<mode, stage, env, queue, context, link, closing, registered, given, last, heard, early, crossed>>
\* The message is read from the environment itself; then the application ends
\* well or raises.
ReadMessage(t) ==
    /\ job[t].pc = "message"
    /\ heard' = heard \cup {Told(job[t].event, env.msg)}
    /\ \E pc \in {"end", "raise"} : job' = [job EXCEPT ![t].pc = pc]
    /\ UNCHANGED <<mode, stage, env, queue, context, link, closing, registered, given, last, early, crossed, robbed>>
Raise(t) ==
    /\ job[t].pc = "raise"
    /\ job' = [job EXCEPT ![t].pc = "end"]
    /\ closing' = [closing EXCEPT ![t] = IF link.set THEN "close" ELSE "no"]
    /\ UNCHANGED <<mode, stage, env, queue, context, link, registered, given, last, heard, early, crossed, robbed>>
\* deallocate: the context the environment names NOW.
End(t) ==
    /\ job[t].pc = "end" /\ closing[t] = "no"
    /\ job' = [job EXCEPT ![t] = Idle]
    /\ context' = [u \in Threads |-> context[u] /\ u # env.was]
    /\ UNCHANGED <<mode, stage, env, queue, link, closing, registered, given, last, heard, early, crossed, robbed>>

-----------------------------------------------------------------------------
(* The main thread: handle_request, then messages.                         *)

Handshake ==
    /\ stage = "request" /\ stage' = "open"
    /\ mode' \in {"pool", "inline"}
    /\ UNCHANGED <<env, jobVars, link, closing, registered, given, last, early, crossed>>

\* ws.open tells the application and registers the client, and only then is
\* the session among those that die with the channel.
StageAfterLate(s) == [open |-> "die_with", die_with |-> "register", register |-> "serving"][s]
StageAfter(s) == [open |-> "register", register |-> "die_with", die_with |-> "serving"][s]

Open ==
    /\ stage = "open" /\ stage' = StageAfter(stage)
    /\ Execute("open", env.msg) /\ last' = <<"open", 0>>
    /\ \E c \in {"no", "close"} : MayRaise(c)
    /\ UNCHANGED <<mode, link, registered, given, early, crossed>>
Register ==
    /\ stage = "register" /\ closing[Main] = "no" /\ stage' = StageAfter(stage)
    /\ registered' = TRUE
    /\ UNCHANGED <<mode, env, jobVars, link, closing, given, last, early, crossed>>
DieWith ==
    /\ stage = "die_with" /\ closing[Main] = "no" /\ stage' = StageAfter(stage)
    /\ link' = [link EXCEPT !.partner = TRUE]
    /\ UNCHANGED <<mode, env, jobVars, closing, registered, given, last, early, crossed>>

\* A whole message has come, for a channel that is not closing.
Receive ==
    /\ stage = "serving" /\ closing[Main] = "no" /\ link.set /\ given < MaxMsg
    /\ stage' = "make_params" /\ given' = given + 1
    /\ UNCHANGED <<mode, env, jobVars, link, closing, registered, last, early, crossed>>
\* (A version that trusts a running job to find the message.)
PutUnlessBusy ==
    /\ stage = "execute" /\ stage' = "serving"
    /\ env' = [env EXCEPT !.msg = given] /\ last' = <<"message", given>>
    /\ queue' = IF \E t \in Threads : job[t].pc # "idle" THEN queue ELSE queue + 1
    /\ UNCHANGED <<mode, job, context, heard, robbed, link, closing, registered, given, early, crossed>>
\* make_params writes the event before the message; then execute.
MakeParams ==
    /\ stage = "make_params" /\ stage' = "execute"
    /\ env' = [env EXCEPT !.event = "none"]
    /\ UNCHANGED <<mode, jobVars, link, closing, registered, given, last, early, crossed>>
PutMessage ==
    /\ stage = "execute" /\ stage' = "serving"
    /\ Execute(env.event, given) /\ last' = <<"message", given>>
    /\ \E c \in {"no", "close"} : MayRaise(c)
    /\ UNCHANGED <<mode, link, registered, given, early, crossed>>
\* The client goes, or the keep-alive of the channel is over.
Disconnect ==
    /\ stage = "serving" /\ closing[Main] = "no" /\ link.up
    /\ closing' = [closing EXCEPT ![Main] = "close"]
    /\ UNCHANGED <<mode, stage, env, jobVars, link, registered, given, last, early, crossed>>

-----------------------------------------------------------------------------
(* http_channel.close, on any thread and with no lock.                     *)

CloseBegins(a) ==
    /\ closing[a] = "close"
    /\ IF link.up
       THEN /\ closing' = [closing EXCEPT ![a] = "attend"]
            /\ link' = [link EXCEPT !.set = FALSE, !.attended = @ \/ link.partner]
            /\ early' = (early \/ ~link.partner)
            /\ crossed' = (crossed \/ stage \in {"make_params", "execute"})
       ELSE closing' = [closing EXCEPT ![a] = "no"] /\ UNCHANGED <<link, early, crossed>>
    /\ UNCHANGED <<mode, stage, env, jobVars, registered, given, last>>
\* A job reads self.channel twice, and may find None the second time.
NothingToClose(t) ==
    /\ closing[t] = "close" /\ ~link.set
    /\ closing' = [closing EXCEPT ![t] = "no"]
    /\ UNCHANGED <<mode, stage, env, jobVars, link, registered, given, last, early, crossed>>
\* SessionWebSocket.close, if the session is among them: forget the client,
\* tell the application, and only then remember it.
CloseSession(a) ==
    /\ closing[a] = "attend"
    /\ closing' = [closing EXCEPT ![a] = IF link.attended /\ ~link.ended THEN "ended" ELSE "channel"]
    /\ IF link.attended THEN registered' = FALSE ELSE registered' = registered
    /\ IF link.attended /\ ~link.ended THEN Execute("close", env.msg) /\ last' = <<"close", 0>>
                                        ELSE UNCHANGED <<env, jobVars, last>>
    /\ UNCHANGED <<mode, stage, link, given, early, crossed>>
SessionClosed(a) ==
    /\ closing[a] = "ended"
    /\ closing' = [closing EXCEPT ![a] = "channel"]
    /\ link' = [link EXCEPT !.ended = TRUE]
    /\ UNCHANGED <<mode, stage, env, jobVars, registered, given, last, early, crossed>>
CloseEnds(a) ==
    /\ closing[a] = "channel"
    /\ closing' = [closing EXCEPT ![a] = "no"]
    /\ link' = [link EXCEPT !.up = FALSE, !.partner = FALSE, !.attended = FALSE]
    /\ UNCHANGED <<mode, stage, env, jobVars, registered, given, last, early, crossed>>

-----------------------------------------------------------------------------
JobStep(t) == Take(t) \/ ReadEvent(t) \/ ReadMessage(t) \/ Raise(t) \/ End(t) \/ NothingToClose(t)
CloseStep(a) == CloseBegins(a) \/ CloseSession(a) \/ SessionClosed(a) \/ CloseEnds(a)
MainStep == \/ Handshake \/ Open \/ Register \/ DieWith
            \/ Receive \/ MakeParams \/ PutMessage \/ Disconnect
Next == MainStep \/ (\E t \in Threads : JobStep(t)) \/ (\E a \in Actors : CloseStep(a))

Spec == Init /\ [][Next]_sessionVars

-----------------------------------------------------------------------------
(* Properties.                                                             *)

TypeOK ==
    /\ mode \in {"none", "pool", "inline"}
    /\ stage \in {"request", "open", "register", "die_with", "serving", "make_params", "execute"}
    /\ env \in [event : {"none", "open", "close"}, msg : 0..MaxMsg, was : Actors]
    /\ queue \in 0..(MaxMsg + 3) /\ context \in [Threads -> BOOLEAN]
    /\ job \in [Threads -> [pc : {"idle", "event", "message", "raise", "end"},
                            event : {"none", "open", "close"}]]
    /\ link \in [up : BOOLEAN, set : BOOLEAN, partner : BOOLEAN, attended : BOOLEAN, ended : BOOLEAN]
    /\ closing \in [Actors -> {"no", "close", "attend", "ended", "channel"}]

Quiet ==
    /\ stage = "serving" /\ queue = 0
    /\ \A t \in Threads : job[t].pc = "idle"
    /\ \A a \in Actors : closing[a] = "no"

\* When a session's channel is closed and nothing of it is left to do, the
\* application has no client registered that nobody will ever hear of; but
\* one whose OPEN job closed the channel before die_with stays for good.
ClientsForgotten == Quiet /\ registered => link.up \/ early

\* However the jobs of a session overwrite its environment, what was put last,
\* a message or the end of the session, has reached the application once
\* everything is quiet; unless a job's end cleared the context of another, or
\* a job closed the channel in the middle of a message.
LastWordHeard == Quiet /\ last # <<"none", 0>> => last \in heard \/ robbed \/ crossed
=============================================================================
