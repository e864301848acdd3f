---------------------------- MODULE Http2Connection ----------------------------
(***************************************************************************)
(* handlers/http2_handler.http2_connection_handler: the requests and       *)
(* responses of one HTTP/2 connection, kept in _requests and _producers,   *)
(* and the H2Connection that turns them into frames.  The main thread      *)
(* receives frames and answers; request threads push promises (and gRPC    *)
(* streams send) on the same connection, and each of them ends in flush:   *)
(* produce at most one piece of one response, take the bytes the           *)
(* H2Connection has collected, and push them to the channel.               *)
(*                                                                         *)
(* Two locks: _clock guards the handler's own fields, _plock the           *)
(* H2Connection.  A step that takes a lock and gives it back waits until   *)
(* it is free; only the steps that take the other lock meanwhile leave it  *)
(* held.  Whatever happens outside a lock lies between two steps.          *)
(***************************************************************************)
EXTENDS Integers, Sequences, FiniteSets

CONSTANTS
    Threads,    \* request threads
    Clients,    \* streams the client opens (odd)
    Pushes,     \* streams the server may promise (even)
    Sizes,      \* numbers of pieces of a response's body
    Window,     \* pieces the flow control window of a stream lets through
    Heavy,      \* streams with a higher priority than the others
    Resets,     \* streams the client may reset
    Forces,     \* values of force_close a response may have
    BadFrames,  \* TRUE: the client may break the protocol
    Main, None

Streams == Clients \cup Pushes
Actors  == Threads \cup {Main}

ASSUME Http2ConnectionAssumption ==
    /\ Clients \subseteq Nat \ {0} /\ Pushes \subseteq Nat \ {0}
    /\ Clients \cap Pushes = {}
    /\ Sizes \subseteq Nat /\ Window \in Nat \ {0}
    /\ Resets \subseteq Streams /\ Heavy \subseteq Streams
    /\ BadFrames \in BOOLEAN /\ Forces \subseteq BOOLEAN
    /\ Main \notin Threads /\ None \notin Threads \cup {Main}

VARIABLES
    act,        \* where each thread is
    clock, plock, \* who holds the locks between two steps
    h2,         \* the H2Connection's state of each stream
    window,     \* pieces each stream may still send
    made,       \* frames the H2Connection has made (history)
    taken,      \* how many of them data_to_send has taken out
    wire,       \* frames pushed to the channel
    requests,   \* keys of _requests
    producers,  \* _producers
    sendable,   \* _has_sendables
    pending, shutdowned, closed, \* _close_pending, _shutdowned, _closed
    up,         \* self.channel is not None
    raised,     \* an exception has left a handler (history)
    job         \* the application's job of each request

locks == <<clock, plock>>
chan  == <<up, raised>>
conn  == <<h2, window, made, taken>>
close == <<pending, shutdowned, closed>>
vars  == <<act, locks, conn, wire, requests, producers, sendable, close, chan, job>>

\* job: the request a thread works for; s: the stream in hand; left, finished: the loop of _data_from_producers; batch: bytes taken and
\* not yet pushed; then: what the callers of this step go on with.
Idle == [at |-> "idle", job |-> 0, s |-> 0, left |-> 0, finished |-> {}, batch |-> <<>>,
         then |-> <<>>]

Init ==
    /\ act = [a \in Actors |-> Idle]
    /\ clock = None /\ plock = None
    /\ h2 = [s \in Streams |-> "idle"]
    /\ window = [s \in Streams |-> Window]
    /\ made = <<>> /\ taken = 0 /\ wire = <<>>
    /\ requests = {} /\ producers = <<>> /\ sendable = FALSE
    /\ pending = FALSE /\ shutdowned = FALSE /\ closed = FALSE
    /\ up = TRUE /\ raised = FALSE
    /\ job = [s \in Streams |-> "none"]

At(a, at) == act[a].at = at
Goto(a, at) == act' = [act EXCEPT ![a].at = at]
Target(a, at, s) == act' = [act EXCEPT ![a].at = at, ![a].s = s]
\* A handler is over: its thread goes back to what it was called from.
Return(a) ==
    LET then == act[a].then IN
    act' = [act EXCEPT ![a] =
        IF then # <<>> THEN [@ EXCEPT !.at = Head(then), !.then = Tail(then), !.batch = <<>>]
        ELSE [Idle EXCEPT !.at = IF a = Main THEN "idle" ELSE "run", !.job = act[a].job]]

Headers(s, fin) == [kind |-> "headers", s |-> s, n |-> 0, fin |-> fin]
Data(s, n, fin) == [kind |-> "data", s |-> s, n |-> n, fin |-> fin]
PushPromise(s, p) == [kind |-> "promise", s |-> s, n |-> p, fin |-> FALSE]
Goaway == [kind |-> "goaway", s |-> 0, n |-> 0, fin |-> FALSE]

Gone == \E i \in 1..Len(made) : made[i] = Goaway
\* The H2Connection raises for a stream that is closed.
Dead(s) == h2[s] # "open" \/ Gone

\* A job is over, with its content or an exception: its thunk calls done.
EndJob(t) ==
    /\ act' = [act EXCEPT ![t] = Idle]
    /\ job' = [job EXCEPT ![act[t].job] = "thunk"]

\* An exception leaves every handler.  In a request thread it ends the job; on
\* the main thread the channel's handle_error closes the channel, or the poll
\* logs it and goes on.
Raise(a) ==
    /\ raised' = TRUE
    /\ IF a = Main
       THEN /\ \/ act' = [act EXCEPT ![a] = Idle] /\ up' = up
               \/ act' = [act EXCEPT ![a] = [Idle EXCEPT !.at = "close"]] /\ up' = FALSE
            /\ job' = job
       ELSE EndJob(a) /\ up' = up

-----------------------------------------------------------------------------
(* flush and data_to_send.                                                 *)

Flush(a) ==
    /\ At(a, "flush") /\ clock = None
    /\ \/ /\ closed
          /\ Goto(a, "flag") /\ UNCHANGED clock
       \/ /\ ~closed /\ producers = <<>>
          /\ Goto(a, "take") /\ UNCHANGED clock
       \/ /\ ~closed /\ producers # <<>>
          /\ clock' = a
          /\ act' = [act EXCEPT ![a].at = "window", ![a].left = Len(producers)]
    /\ UNCHANGED <<plock, conn, wire, requests, producers, sendable, close, chan, job>>

\* Mutant: finished streams are not removed from _requests.
\* The end of _data_from_producers.
EndLoop(a, finished) ==
    /\ clock' = None
    /\ act' = [act EXCEPT ![a].at = IF finished = {} THEN "take" ELSE "drop",
                          ![a].finished = finished]

\* Mutant: round and round until something is sent.
NotProducedEndless(a, rest, finished) ==
    IF rest = <<>>
    THEN producers' = rest /\ clock' = None /\ Raise(a)
    ELSE /\ producers' = IF Len(rest) = 1 THEN rest ELSE Append(Tail(rest), Head(rest))
         /\ act' = [act EXCEPT ![a].finished = finished]
         /\ UNCHANGED <<clock, chan, job>>

\* The producer gave nothing: the next one's turn.  pop from an empty list raises.
NotProduced(a, rest, finished) ==
    IF rest = <<>>
    THEN producers' = rest /\ clock' = None /\ Raise(a)
    ELSE /\ producers' = IF Len(rest) = 1 THEN rest ELSE Append(Tail(rest), Head(rest))
         /\ IF act[a].left = 1 THEN EndLoop(a, finished)
            ELSE /\ act' = [act EXCEPT ![a].left = @ - 1, ![a].finished = finished]
                 /\ clock' = clock
         /\ UNCHANGED <<chan, job>>

\* Mutant: pieces are sent without a look at the window.
LookAtNoWindow(a) ==
    /\ At(a, "window") /\ plock = None
    /\ LET p == Head(producers) IN
       \/ /\ p.ended
          /\ NotProduced(a, Tail(producers), act[a].finished \cup {p.s})
       \/ /\ ~p.ended
          /\ Goto(a, "send") /\ UNCHANGED <<clock, producers, chan, job>>
    /\ UNCHANGED <<plock, conn, wire, requests, sendable, close>>

\* http2_producer.produce: the window.
LookAtWindow(a) ==
    /\ At(a, "window") /\ plock = None
    /\ LET p == Head(producers)
           finished == act[a].finished
       IN \/ /\ p.ended
             /\ NotProduced(a, Tail(producers), finished \cup {p.s})
          \/ /\ ~p.ended /\ Dead(p.s)
             /\ clock' = None /\ Raise(a) /\ UNCHANGED producers
          \/ /\ ~p.ended /\ window[p.s] = 0
             /\ NotProduced(a, producers, finished)
          \/ /\ ~p.ended /\ window[p.s] > 0
             /\ Goto(a, "send") /\ UNCHANGED <<clock, producers, chan, job>>
    /\ UNCHANGED <<plock, conn, wire, requests, sendable, close>>

\* http2_producer.produce: the headers, when they are still to be sent, and then
\* one piece, each in a section of its own; the last frame ends the stream.
NextFrame(p) == IF ~p.begun THEN Headers(p.s, p.size = 0)
                ELSE Data(p.s, p.sent + 1, p.sent + 1 = p.size)
\* Mutant: the headers are sent again with the next piece.
ProducedTwice(p) == IF ~p.begun /\ p.sent > 0 THEN [p EXCEPT !.begun = TRUE] ELSE [p EXCEPT !.sent = @ + 1]
Produced(p) == IF ~p.begun THEN [p EXCEPT !.begun = TRUE] ELSE [p EXCEPT !.sent = @ + 1]

Send(a) ==
    /\ At(a, "send") /\ plock = None
    /\ LET p == Head(producers)
           frame == NextFrame(p)
       IN \/ /\ Dead(p.s)
             /\ clock' = None /\ Raise(a)
             /\ producers' = [producers EXCEPT ![1].ended = frame.kind = "data" /\ frame.fin]
             /\ UNCHANGED conn
          \/ /\ ~Dead(p.s)
             /\ made' = Append(made, frame)
             /\ window' = [window EXCEPT ![p.s] = IF frame.kind = "data" THEN @ - 1 ELSE @]
             /\ h2' = IF frame.fin THEN [h2 EXCEPT ![p.s] = "closed"] ELSE h2
             /\ producers' = IF frame.fin THEN Tail(producers)
                             ELSE [producers EXCEPT ![1] = Produced(p)]
             /\ IF frame.kind = "headers" /\ ~frame.fin
                THEN Goto(a, "send") /\ UNCHANGED clock
                ELSE EndLoop(a, act[a].finished \cup (IF frame.fin THEN {p.s} ELSE {}))
             /\ UNCHANGED <<taken, chan, job>>
    /\ UNCHANGED <<plock, wire, requests, sendable, close>>

\* remove_request of each finished stream.
Drop(a) ==
    /\ At(a, "drop") /\ clock = None
    /\ requests' = requests \ act[a].finished
    /\ act' = [act EXCEPT ![a].at = "take", ![a].finished = {}]
    /\ UNCHANGED <<locks, conn, wire, producers, sendable, close, chan, job>>

\* H2Connection.data_to_send.
Take(a) ==
    /\ At(a, "take") /\ plock = None
    /\ LET bytes == SubSeq(made, taken + 1, Len(made)) IN
       act' = [act EXCEPT ![a].at = IF bytes = <<>> THEN "exhausted" ELSE "flag", ![a].batch = bytes]
    /\ taken' = Len(made)
    /\ UNCHANGED <<locks, h2, window, made, wire, requests, producers, sendable, close, chan, job>>

\* Mutant: requests that have no response yet are not counted.
ExhaustedEarly(a) ==
    /\ At(a, "exhausted") /\ clock = None
    /\ Goto(a, IF up /\ ~shutdowned /\ pending /\ producers = <<>> THEN "goaway" ELSE "flag")
    /\ UNCHANGED <<locks, conn, wire, requests, producers, sendable, close, chan, job>>

\* _data_exhausted.
Exhausted(a) ==
    /\ At(a, "exhausted") /\ clock = None
    /\ Goto(a, IF up /\ ~shutdowned /\ pending /\ producers = <<>> /\ requests = {}
               THEN "goaway" ELSE "flag")
    /\ UNCHANGED <<locks, conn, wire, requests, producers, sendable, close, chan, job>>

\* _proceed_shutdown, which flushes before the flush it was called from goes on.
SendGoaway(a) ==
    /\ At(a, "goaway") /\ plock = None
    /\ made' = Append(made, Goaway)
    /\ Goto(a, "shutdowned")
    /\ UNCHANGED <<locks, h2, window, taken, wire, requests, producers, sendable, close, chan, job>>

Shutdowned(a) ==
    /\ At(a, "shutdowned") /\ clock = None
    /\ shutdowned' = TRUE
    /\ act' = [act EXCEPT ![a].at = "flush", ![a].then = <<"flag">> \o @]
    /\ UNCHANGED <<locks, conn, wire, requests, producers, sendable, pending, closed, chan, job>>

\* Mutant: there is more to send if there was something to send.
FlagByData(a) ==
    /\ At(a, "flag") /\ clock = None
    /\ sendable' = (act[a].batch # <<>>)
    /\ IF act[a].batch = <<>> THEN Return(a) ELSE Goto(a, "push")
    /\ UNCHANGED <<locks, conn, wire, requests, producers, close, chan, job>>

Flag(a) ==
    /\ At(a, "flag") /\ clock = None
    /\ sendable' = (producers # <<>>)
    /\ IF act[a].batch = <<>> THEN Return(a) ELSE Goto(a, "push")
    /\ UNCHANGED <<locks, conn, wire, requests, producers, close, chan, job>>

Push(a) ==
    /\ At(a, "push")
    /\ IF up THEN wire' = wire \o act[a].batch /\ Return(a) /\ UNCHANGED <<chan, job>>
       ELSE Raise(a) /\ UNCHANGED wire
    /\ UNCHANGED <<locks, conn, requests, producers, sendable, close>>

-----------------------------------------------------------------------------
(* Requests and responses.                                                 *)

Acceptable == up /\ ~pending /\ ~closed

\* handle_request: request_acceptable, and then the entry in _requests and the
\* job.  A stream that is not accepted gets no answer.
Accept(a) ==
    /\ At(a, "accept") /\ clock = None
    /\ Goto(a, IF Acceptable THEN "enter" ELSE "flush")
    /\ UNCHANGED <<locks, conn, wire, requests, producers, sendable, close, chan, job>>

Enter(a) ==
    /\ At(a, "enter") /\ clock = None
    /\ IF up THEN /\ requests' = requests \cup {act[a].s}
                  /\ job' = [job EXCEPT ![act[a].s] = "queued"]
                  /\ Goto(a, "flush")
                  /\ UNCHANGED chan
       ELSE Raise(a) /\ UNCHANGED requests
    /\ UNCHANGED <<locks, conn, wire, producers, sendable, close>>

\* remove_stream: remove_request and remove_response.
RemoveRequest(a) ==
    /\ At(a, "remove") /\ clock = None
    /\ requests' = requests \ {act[a].s}
    /\ Goto(a, "abort")
    /\ UNCHANGED <<locks, conn, wire, producers, sendable, close, chan, job>>

RemoveResponse(a) ==
    /\ At(a, "abort") /\ clock = None
    /\ producers' = [i \in DOMAIN producers |->
           IF producers[i].s = act[a].s THEN [producers[i] EXCEPT !.ended = TRUE] ELSE producers[i]]
    /\ Goto(a, "flush")
    /\ UNCHANGED <<locks, conn, wire, requests, sendable, close, chan, job>>

\* response.done, by the thunk of a job: no answer for a request removed.
RunThunk(s) ==
    /\ At(Main, "idle") /\ job[s] = "thunk"
    /\ job' = [job EXCEPT ![s] = "over"]
    /\ IF s \in requests THEN Target(Main, "respond", s) ELSE act' = act
    /\ UNCHANGED <<locks, conn, wire, requests, producers, sendable, close, chan>>

\* http2_producer.__lt__ (depends_on is left out).
Before(p, q) == \/ p.s \in Heavy /\ q.s \notin Heavy
                \/ (p.s \in Heavy <=> q.s \in Heavy) /\ p.s < q.s

\* _producers.append and sort: each producer at the place that the number of
\* those before it gives it.
Place(list, i) == Cardinality({j \in DOMAIN list : Before(list[j], list[i])}) + 1
Sorted(list) == [k \in DOMAIN list |-> list[CHOOSE i \in DOMAIN list : Place(list, i) = k]]
NewProducer(s, k) == [s |-> s, size |-> k, begun |-> FALSE, sent |-> 0, ended |-> FALSE]

\* Mutant: the response waits for the next flush.
HandleResponseLater ==
    /\ At(Main, "respond") /\ clock = None
    /\ \E k \in Sizes : producers' = Sorted(Append(producers, NewProducer(act[Main].s, k)))
    /\ Return(Main)
    /\ UNCHANGED <<locks, conn, wire, requests, sendable, close, chan, job>>

\* A response the application wants the connection closed after goes on to close.
HandleResponse ==
    /\ At(Main, "respond") /\ clock = None
    /\ IF act[Main].s \notin requests
       THEN Return(Main) /\ UNCHANGED producers
       ELSE \E k \in Sizes, force \in Forces :
            /\ producers' = Sorted(Append(producers, NewProducer(act[Main].s, k)))
            /\ act' = [act EXCEPT ![Main].at = "flush",
                                  ![Main].then = IF force THEN <<"close">> ELSE <<>>]
    /\ UNCHANGED <<locks, conn, wire, requests, sendable, close, chan, job>>

-----------------------------------------------------------------------------
(* close.                                                                  *)

Close(a) ==
    /\ At(a, "close") /\ clock = None
    /\ IF pending \/ closed THEN Return(a) /\ UNCHANGED pending
       ELSE pending' = TRUE /\ Goto(a, IF up THEN "flush" ELSE "terminate")
    /\ UNCHANGED <<locks, conn, wire, requests, producers, sendable, shutdowned, closed, chan, job>>

\* _terminate_connection: _closed, and the channel is to close.  For a broken
\* frame it is called with _plock held.
Terminate(a) ==
    /\ At(a, "terminate") /\ clock = None
    /\ pending' = FALSE /\ closed' = TRUE
    /\ plock' = IF plock = a THEN None ELSE plock
    /\ Return(a)
    /\ UNCHANGED <<clock, conn, wire, requests, producers, sendable, shutdowned, chan, job>>

-----------------------------------------------------------------------------
(* What the main thread receives.  A closed connection answers nothing, and *)
(* its channel closes: what it still receives is left out.                 *)

Receiving == At(Main, "idle") /\ up /\ ~closed /\ plock = None
mainRest == <<locks, taken, wire, requests, producers, sendable, close, job>>

OpenStream(s) ==
    /\ Receiving /\ ~Gone /\ s \in Clients /\ h2[s] = "idle"
    /\ h2' = [h2 EXCEPT ![s] = "open"]
    /\ Target(Main, "accept", s)
    /\ UNCHANGED <<window, made, chan, mainRest>>

ResetByClient(s) ==
    /\ Receiving /\ ~Gone /\ s \in Resets /\ h2[s] = "open"
    /\ h2' = [h2 EXCEPT ![s] = "reset"]
    /\ Target(Main, "remove", s)
    /\ UNCHANGED <<window, made, chan, mainRest>>

UpdateWindow(s) ==
    /\ Receiving /\ ~Gone /\ h2[s] = "open" /\ window[s] < Window
    /\ window' = [window EXCEPT ![s] = @ + 1]
    /\ Goto(Main, "flush")
    /\ UNCHANGED <<h2, made, chan, mainRest>>

\* Data for a request that has its answer: close, and the flush after it.
StrayData(s) ==
    /\ Receiving /\ ~Gone /\ ~pending /\ s \in Clients /\ h2[s] = "closed" /\ s \notin requests
    /\ act' = [act EXCEPT ![Main] = [Idle EXCEPT !.at = "close", !.then = <<"flush">>]]
    /\ UNCHANGED <<h2, window, made, chan, mainRest>>

\* GOAWAY from the client.
Leave ==
    /\ Receiving
    /\ act' = [act EXCEPT ![Main] = [Idle EXCEPT !.at = "terminate", !.then = <<"flush">>]]
    /\ UNCHANGED <<h2, window, made, chan, mainRest>>

\* A frame the H2Connection refuses; after its own GOAWAY it refuses most.
BreakProtocol ==
    /\ Receiving /\ (BadFrames \/ Gone)
    /\ plock' = Main
    /\ Goto(Main, "terminate")
    /\ UNCHANGED <<clock, taken, wire, requests, producers, sendable, close, job, h2, window, made, chan>>

\* The client is gone, or a closed connection has sent what it had: the channel
\* takes itself away and closes its http2_connection_handler.
LoseChannel ==
    /\ At(Main, "idle") /\ up
    /\ up' = FALSE
    /\ Goto(Main, "close")
    /\ UNCHANGED <<h2, window, made, raised, mainRest>>

\* The server shuts down: enter_shutdown_process.
EnterShutdown ==
    /\ At(Main, "idle") /\ ~pending /\ ~closed
    /\ Goto(Main, "close")
    /\ UNCHANGED <<h2, window, made, chan, mainRest>>

\* http_channel.writable: has_sendables, and flush.
Poll ==
    /\ At(Main, "idle") /\ up /\ sendable /\ clock = None
    /\ Goto(Main, "flush")
    /\ UNCHANGED <<h2, window, made, chan, mainRest>>

-----------------------------------------------------------------------------
(* What a request thread does.                                             *)

GetJob(t, s) ==
    /\ At(t, "idle") /\ job[s] = "queued"
    /\ job' = [job EXCEPT ![s] = "running"]
    /\ act' = [act EXCEPT ![t] = [Idle EXCEPT !.at = "run", !.job = s]]
    /\ UNCHANGED <<locks, conn, wire, requests, producers, sendable, close, chan>>

\* push_promise: pushable (which raises when the request was removed) ...
CallPush(t) ==
    /\ At(t, "run") /\ clock = None
    /\ \E p \in Pushes : h2[p] = "idle"
    /\ IF act[t].job \notin requests THEN EndJob(t)
       ELSE Acceptable /\ Goto(t, "promise") /\ job' = job
    /\ UNCHANGED <<locks, conn, wire, requests, producers, sendable, close, chan>>

\* ... and the next stream id and the frame.
Promise(t) ==
    /\ At(t, "promise") /\ plock = None
    /\ LET s == act[t].job
           fresh == {p \in Pushes : h2[p] = "idle"}
       IN IF Dead(s) \/ fresh = {} THEN EndJob(t) /\ UNCHANGED conn
          ELSE \E p \in fresh :
                 /\ \A q \in fresh : p <= q
                 /\ h2' = [h2 EXCEPT ![p] = "open"]
                 /\ made' = Append(made, PushPromise(s, p))
                 /\ Target(t, "accept", p)
                 /\ UNCHANGED <<window, taken, job>>
    /\ UNCHANGED <<locks, wire, requests, producers, sendable, close, chan>>

FinishJob(t) ==
    /\ At(t, "run")
    /\ EndJob(t)
    /\ UNCHANGED <<locks, conn, wire, requests, producers, sendable, close, chan>>

-----------------------------------------------------------------------------
FlushStep(a) == \/ Flush(a) \/ LookAtWindow(a) \/ Send(a) \/ Drop(a) \/ Take(a)
                \/ Exhausted(a) \/ SendGoaway(a) \/ Shutdowned(a) \/ Flag(a) \/ Push(a)
HandlerStep(a) == \/ Accept(a) \/ Enter(a) \/ RemoveRequest(a) \/ RemoveResponse(a)
                  \/ Close(a) \/ Terminate(a)
Step(a) == FlushStep(a) \/ HandlerStep(a)
JobStep(t) == (\E s \in Streams : GetJob(t, s)) \/ CallPush(t) \/ Promise(t) \/ FinishJob(t)
Client == \/ \E s \in Streams : OpenStream(s) \/ ResetByClient(s) \/ UpdateWindow(s) \/ StrayData(s)
          \/ Leave \/ BreakProtocol \/ LoseChannel

Next == \/ \E a \in Actors : Step(a)
        \/ \E t \in Threads : JobStep(t)
        \/ HandleResponse \/ Poll \/ EnterShutdown \/ Client
        \/ \E s \in Streams : RunThunk(s)

Spec == Init /\ [][Next]_vars

\* The event loop runs, calls writable and delivers thunks; threads run, and jobs
\* end.  Nothing is expected of the client.
Fairness ==
    /\ \A a \in Actors : WF_vars(Step(a))
    /\ \A t \in Threads : WF_vars(JobStep(t))
    /\ WF_vars(HandleResponse) /\ WF_vars(Poll)
    /\ \A s \in Streams : WF_vars(RunThunk(s))

FairSpec == Spec /\ Fairness

-----------------------------------------------------------------------------
(* Properties.                                                             *)

States == {"idle", "run", "window", "send", "drop", "take", "exhausted", "goaway", "shutdowned", "flag",
           "push", "flush", "accept", "enter", "remove", "abort", "respond", "close", "terminate", "promise"}
Frames == [kind : {"headers", "data", "promise", "goaway"}, s : Streams \cup {0},
           n : Nat, fin : BOOLEAN]
Handlers == [at : States, job : Streams \cup {0}, s : Streams \cup {0}, left : Nat,
             finished : SUBSET Streams, batch : Seq(Frames), then : Seq({"flag", "flush", "close"})]
Producers == [s : Streams, size : Sizes, begun : BOOLEAN, sent : Nat, ended : BOOLEAN]

\* The values the handler's fields, the H2Connection and the threads take.
TypeOK ==
    /\ act \in [Actors -> Handlers]
    /\ clock \in Actors \cup {None} /\ plock \in {Main, None}
    /\ h2 \in [Streams -> {"idle", "open", "closed", "reset"}]
    /\ window \in [Streams -> 0..Window]
    /\ made \in Seq(Frames) /\ taken \in 0..Len(made) /\ wire \in Seq(Frames)
    /\ requests \subseteq Streams
    /\ producers \in Seq(Producers)
    /\ {sendable, pending, shutdowned, closed, up, raised} \subseteq BOOLEAN
    /\ job \in [Streams -> {"none", "queued", "running", "thunk", "over"}]

\* Where the frames of the response of a stream are among the frames made.
ResponseFrames(s) == {i \in DOMAIN made : made[i].s = s /\ made[i].kind \in {"headers", "data"}}

\* Every response is made whole, however its pieces alternate with those of other
\* responses and whichever threads make them: headers, then every piece once and
\* in order, and nothing after the frame that ends the stream (produce).
ResponsesWhole ==
    \A s \in Streams :
        \A i \in ResponseFrames(s) :
            LET earlier == {j \in ResponseFrames(s) : j < i} IN
            /\ made[i].n = Cardinality(earlier)
            /\ made[i].kind = IF earlier = {} THEN "headers" ELSE "data"
            /\ \A j \in earlier : ~made[j].fin

\* The connection is told to go away only when no request of the client is owed
\* an answer and none of its answers is half sent (_data_exhausted).
GoawayCutsNoneOff ==
    [][Gone' /\ ~Gone => /\ requests \cap Clients = {}
                         /\ \A i \in DOMAIN producers : producers[i].s \notin Clients]_vars

AtRest == \A a \in Actors : act[a].at \in {"idle", "run"}

\* When every thread has left the handler, a response that is not sent completely is
\* known to the poll (_has_sendables), which makes the next flush; unless an
\* exception has kept a flush from its end.
NoStuckResponse ==
    AtRest /\ up /\ ~closed /\ ~raised /\ producers # <<>> => sendable

\* _clock is given back, unless a refused frame ends the connection while its
\* holder waits for _plock: _set_frame_data takes the locks in the other order.
ClockReturned == \A a \in Actors : clock = a ~> clock # a \/ plock = Main

\* Some stream has no window: its client has to speak first.
Starved == \E s \in Streams : h2[s] = "open" /\ window[s] = 0

\* A request that was accepted gets its answer, unless the connection is lost or
\* ended, the client resets it or leaves it no window, or an exception leaves a
\* handler.
RequestsAnswered ==
    \A s \in Streams : s \in requests ~> \/ h2[s] \in {"closed", "reset"}
                                         \/ Starved \/ closed \/ ~up \/ raised \/ plock = Main

\* A push is promised before the response that refers to it starts (the order
\* tests/level4-1/test_http2_server_push.py expects of the client's events).
PromisesFirst ==
    \A i \in DOMAIN wire : wire[i].kind = "promise" =>
        \A j \in 1..i - 1 : ~(wire[j].kind = "headers" /\ wire[j].s = wire[i].s)

=============================================================================
