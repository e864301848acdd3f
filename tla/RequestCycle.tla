---------------------------- MODULE RequestCycle ----------------------------
(***************************************************************************)
(* The HTTP/1.1 request cycle of one skitai worker process.                *)
(*                                                                         *)
(* The main thread runs the asyncore loop: it parses a request head on an  *)
(* http_channel, lets wsgi_handler.Handler admit it or refuse it, collects *)
(* the body of a POST, and puts a Job on the request queue.  A pool of     *)
(* request_threads takes the jobs, calls the application, fills the        *)
(* response's outgoing fifo, and asks the main thread, through a thunk of  *)
(* the trigger, to finish the response.  The main thread also answers 503  *)
(* for a request that outlives its timeout, and closes channels.           *)
(*                                                                         *)
(* A multipart body keeps its collector after the last byte.  Whatever the *)
(* client sends before it has its answer goes to that collector: an empty  *)
(* line ends the body once more and puts a second Job for the request, and *)
(* anything else is written to the closed file and loses the channel.      *)
(*                                                                         *)
(* Everything the main thread does in one go is one action, except where   *)
(* it shares a response with a thread that is still working on it: the     *)
(* 503 of a timeout (handle_timeout -> error -> push -> done) is a step    *)
(* for each access to the shared response, and so is the thread's side     *)
(* (a responsable check and the write it guards are two steps).            *)
(*                                                                         *)
(* The trigger appears here as the list of thunks it promises to run once  *)
(* each and in order; module Trigger shows how the pipe implements that.   *)
(***************************************************************************)
EXTENDS Integers, Sequences, FiniteSets

CONSTANTS
    Channels,   \* connections
    Threads,    \* request_threads of the pool
    MaxReq,     \* bound: requests a client sends on one connection
    MaxQueue,   \* Handler.max_queue
    MaxParts,   \* bound: parts one application call writes and returns
    MaxBlanks,  \* bound: empty lines a client sends on one connection
    Pipelining, \* TRUE: a client may send before it has its last answer
    Timeouts,   \* TRUE: maintern finds channels idle past zombie_timeout
    Outcomes,   \* how an application call may end: "parts", "write", "raise", "later"
    None

ASSUME RequestCycleAssumption ==
    /\ MaxReq \in Nat /\ MaxQueue \in Nat /\ MaxParts \in Nat /\ MaxBlanks \in Nat
    /\ Pipelining \in BOOLEAN /\ Timeouts \in BOOLEAN
    /\ Outcomes \subseteq {"parts", "write", "raise", "later"}
    /\ None \notin Channels \X (1..MaxReq)

Numbers == 1..MaxReq
\* A request: the connection it came on and its number there.
Requests == Channels \X Numbers

VARIABLES
    inbuf,      \* bytes the client sent and the channel has not read
    sent,       \* requests sent by the client, per channel
    blanks,     \* empty lines sent by the client, per channel
    closed,     \* http_channel.closed
    rejected,   \* http_channel.is_rejected
    current,    \* number of http_channel.current_request, 0 when it is None
    collecting, \* current_request.collector waits for the body
    fifo,       \* http_channel.producer_fifo: the requests answered there
    eof,        \* answers in front of the fifo's None (close_when_done), or NoEof
    wire,       \* answers the client has received
    req,        \* the http_request and its http_response
    queue,      \* the request queue
    thr,        \* request_threads
    thunks,     \* thunks the trigger has yet to run
    main        \* where the main thread is in handle_timeout

chanVars == <<closed, rejected, current, collecting, fifo, eof>>
netVars  == <<inbuf, sent, blanks>>
vars == <<inbuf, sent, blanks, closed, rejected, current, collecting, fifo,
          eof, wire, req, queue, thr, thunks, main>>

-----------------------------------------------------------------------------
\* "post" is every body collected by a FormCollector.
Kinds    == {"get", "post", "multipart"}
\* What the status line would say now: "init" is the 200 a response is born
\* with, "app" what the application set, "busy" the 503 of a full queue,
\* "zombie" the 503 of a timeout, "error" any other error.
Replies  == {"init", "app", "error", "busy", "zombie"}
\* A part of a body: 0 is the error page, k > 0 the k-th part of the
\* application's content.
Parts    == 0..MaxParts
ErrorPage == 0
NoEof    == -1

Request == [made : BOOLEAN,        \* the object exists
            kind : Kinds,
            linked : BOOLEAN,      \* request.channel is not None
            spent : BOOLEAN,       \* request.collector is still set, its file closed
            jobs : Nat,            \* Jobs put for it (history)
            isDone : BOOLEAN,      \* response._is_done
            reply : Replies,       \* response.reply_code
            outgoing : Seq(Parts), \* response.outgoing
            want : 0..MaxParts]    \* parts of the application's content (history)

Answer == [num : Numbers, reply : Replies, body : Seq(Parts), want : 0..MaxParts]

ThreadPc == {"idle", "begin", "start", "status", "content",
             "next", "push", "finish", "fail"}
MainPc   == {"loop", "page", "done", "send"}

Unmade == [made |-> FALSE, kind |-> "get", linked |-> FALSE, spent |-> FALSE, jobs |-> 0,
           isDone |-> FALSE, reply |-> "init", outgoing |-> <<>>, want |-> 0]

Idle == [pc |-> "idle", job |-> None, at |-> 1, want |-> 0, returned |-> FALSE]

Init ==
    /\ inbuf = [c \in Channels |-> <<>>]
    /\ sent = [c \in Channels |-> 0]
    /\ blanks = [c \in Channels |-> 0]
    /\ closed = [c \in Channels |-> FALSE]
    /\ rejected = [c \in Channels |-> FALSE]
    /\ current = [c \in Channels |-> 0]
    /\ collecting = [c \in Channels |-> FALSE]
    /\ fifo = [c \in Channels |-> <<>>]
    /\ eof = [c \in Channels |-> NoEof]
    /\ wire = [c \in Channels |-> <<>>]
    /\ req = [r \in Requests |-> Unmade]
    /\ queue = <<>>
    /\ thr = [t \in Threads |-> Idle]
    /\ thunks = <<>>
    /\ main = [pc |-> "loop", req |-> None]

-----------------------------------------------------------------------------
(* The client.                                                             *)

Data(n, kind) == IF kind = "get" THEN <<[num |-> n, kind |-> kind, part |-> "head"]>>
                 ELSE <<[num |-> n, kind |-> kind, part |-> "head"],
                        [num |-> n, kind |-> kind, part |-> "body"]>>

\* The client sends its next request, the body of a POST right behind the head.
ClientSend(c) ==
    /\ ~closed[c]
    /\ sent[c] < MaxReq
    /\ Pipelining \/ Len(wire[c]) = sent[c]
    /\ sent' = [sent EXCEPT ![c] = @ + 1]
    /\ \E kind \in Kinds :
         inbuf' = [inbuf EXCEPT ![c] = @ \o Data(sent[c] + 1, kind)]
    /\ UNCHANGED <<blanks, chanVars, wire, req, queue, thr, thunks, main>>

\* A terminator with nothing in front of it.
Blank == [num |-> 0, kind |-> "get", part |-> "blank"]
ClientBlank(c) ==
    /\ ~closed[c]
    /\ blanks[c] < MaxBlanks
    /\ blanks' = [blanks EXCEPT ![c] = @ + 1]
    /\ inbuf' = [inbuf EXCEPT ![c] = Append(@, Blank)]
    /\ UNCHANGED <<sent, chanVars, wire, req, queue, thr, thunks, main>>

-----------------------------------------------------------------------------
(* The channel.                                                            *)

InLoop == main.pc = "loop"

\* response.is_responsable.
AlwaysResponsable(r) == TRUE
Responsable(r) == ~req[r].isDone

\* http_channel.close: the current request loses its channel, whatever has
\* not been sent is discarded.
DiscardBuffers(c) ==
    /\ closed' = [closed EXCEPT ![c] = TRUE]
    /\ current' = [current EXCEPT ![c] = 0]
    /\ collecting' = [collecting EXCEPT ![c] = FALSE]
    /\ fifo' = [fifo EXCEPT ![c] = <<>>]
    /\ eof' = [eof EXCEPT ![c] = NoEof]
    /\ UNCHANGED rejected

CloseKeepsLink(c) == DiscardBuffers(c) /\ UNCHANGED req
CloseChannel(c) ==
    /\ DiscardBuffers(c)
    /\ req' = IF current[c] = 0 THEN req
              ELSE [req EXCEPT ![<<c, current[c]>>].linked = FALSE]

\* What done() leaves on the channel once it has pushed the answer of request
\* n: no current request, and an EOF when the connection is not kept.
PushAnswer(c, n, close) ==
    /\ fifo' = [fifo EXCEPT ![c] = Append(@, n)]
    /\ eof' = IF close /\ eof[c] = NoEof
              THEN [eof EXCEPT ![c] = Len(fifo[c]) + 1] ELSE eof

AnswerKeepsCurrent(c, n, close) == PushAnswer(c, n, close) /\ UNCHANGED current
AnswerOn(c, n, close) ==
    /\ PushAnswer(c, n, close)
    /\ current' = [current EXCEPT ![c] = 0]

\* A request that is answered with an error page as soon as it is made, by
\* error() or, with the channel rejected first, by abort().
Refuse(c, n, kind, code, aborts, jobs) ==
    \E close \in IF aborts THEN {TRUE} ELSE BOOLEAN :
        /\ req' = [req EXCEPT ![<<c, n>>] =
                     [made |-> TRUE, kind |-> kind, linked |-> TRUE, spent |-> FALSE,
                      jobs |-> jobs, isDone |-> TRUE,
                      reply |-> code, outgoing |-> <<ErrorPage>>, want |-> 0]]
        /\ rejected' = [rejected EXCEPT ![c] = @ \/ aborts]
        /\ AnswerOn(c, n, close)
        /\ queue' = IF jobs = 0 THEN queue ELSE Append(queue, <<c, n>>)
        /\ UNCHANGED collecting

\* A request that becomes the channel's current one.
Make(c, n, kind, jobs) ==
    /\ req' = [req EXCEPT ![<<c, n>>] =
                 [Unmade EXCEPT !.made = TRUE, !.kind = kind, !.linked = TRUE, !.jobs = jobs]]
    /\ current' = [current EXCEPT ![c] = n]
    /\ UNCHANGED <<rejected, fifo, eof>>

QueueFull == Len(queue) > MaxQueue

\* wsgi_handler.handle_request.  check_authentification answers 401 or 403 and
\* returns None, as it does for a request that may pass: the refused GET is put
\* on the queue all the same.  (A refused body is not read: the channel is
\* rejected, and no body is empty here.)
HandleRequest(c, n, kind) ==
    \/ /\ QueueFull
       /\ Refuse(c, n, kind, "busy", kind # "get", 0)
    \/ /\ ~QueueFull
       /\ \/ Refuse(c, n, kind, "error", kind # "get", 0) \* 401, 403, 404, 411, 413 ...
          \/ Refuse(c, n, kind, "error", FALSE, 0)        \* the handler raised
          \/ kind = "get" /\ Refuse(c, n, kind, "error", FALSE, 1)
          \/ /\ kind = "get"
             /\ Make(c, n, kind, 1)
             /\ queue' = Append(queue, <<c, n>>)
             /\ UNCHANGED collecting
          \/ /\ kind # "get"
             /\ Make(c, n, kind, 0)
             /\ collecting' = [collecting EXCEPT ![c] = TRUE]
             /\ UNCHANGED queue

\* The collector has a whole body: continue_request puts the Job.  A FormCollector
\* detaches itself first, a MultipartCollector stays with its file closed.
AlwaysStays(kind) == TRUE
Stays(kind) == kind = "multipart"
Enqueue(c) ==
    LET r == <<c, current[c]>> IN
    /\ req' = [req EXCEPT ![r].jobs = @ + 1, ![r].spent = Stays(req[r].kind)]
    /\ queue' = Append(queue, r)
    /\ collecting' = [collecting EXCEPT ![c] = FALSE]
    /\ UNCHANGED <<closed, rejected, current, fifo, eof>>

\* error(500): clear, status and page, done.
ErrorKeepsParts(r) == [req EXCEPT ![r].isDone = TRUE, ![r].reply = "error",
                                  ![r].outgoing = Append(@, ErrorPage)]
Failed(r) == [req EXCEPT ![r].isDone = TRUE, ![r].reply = "error", ![r].outgoing = <<ErrorPage>>]

\* continue_request cannot build the environment.
NotContinued(c) ==
    /\ req' = Failed(<<c, current[c]>>)
    /\ \E close \in BOOLEAN : AnswerOn(c, current[c], close)
    /\ collecting' = [collecting EXCEPT ![c] = FALSE]
    /\ UNCHANGED <<closed, rejected, queue>>

Collected(c) == Enqueue(c) \/ NotContinued(c)

\* A collector that is spent: its body ends again (with what could be built the
\* first time), or the file is gone, or closed for what is to be written to it.
CollectorSpent(c, part) ==
    \/ part = "blank" /\ Enqueue(c)
    \/ CloseChannel(c) /\ UNCHANGED queue

\* close_when_done.
CloseWhenDone(c) ==
    /\ eof' = IF eof[c] = NoEof THEN [eof EXCEPT ![c] = Len(fifo[c])] ELSE eof
    /\ UNCHANGED <<closed, rejected, current, collecting, fifo, req, queue>>

\* handle_read, the data is complete up to the terminator.
Receive(c) ==
    /\ InLoop /\ ~closed[c] /\ ~rejected[c]
    /\ inbuf[c] # <<>>
    /\ inbuf' = [inbuf EXCEPT ![c] = Tail(@)]
    /\ LET d == Head(inbuf[c])
           spent == req[<<c, current[c]>>].spent
       IN
       \/ \* a head and no request: found_terminator makes one
          /\ current[c] = 0 /\ d.part = "head"
          /\ HandleRequest(c, d.num, d.kind)
          /\ UNCHANGED closed
       \/ current[c] = 0 /\ d.part = "blank" /\ CloseWhenDone(c)
       \/ \* a body nobody collects is taken for a head, which is invalid
          /\ current[c] = 0 /\ d.part = "body"
          /\ CloseChannel(c)
          /\ UNCHANGED queue
       \/ \* the body the collector waits for
          current[c] # 0 /\ collecting[c] /\ Collected(c)
       \/ current[c] # 0 /\ ~collecting[c] /\ spent /\ CollectorSpent(c, d.part)
       \/ \* data behind a request that collects nothing is dropped
          /\ current[c] # 0 /\ ~collecting[c] /\ ~spent
          /\ UNCHANGED <<chanVars, req, queue>>
    /\ UNCHANGED <<sent, blanks, wire, thr, thunks, main>>

\* The client went away: recv returns nothing, or send fails.
Disconnect(c) ==
    /\ InLoop /\ ~closed[c]
    /\ ~rejected[c] \/ fifo[c] # <<>> \/ eof[c] # NoEof
    /\ CloseChannel(c)
    /\ UNCHANGED <<netVars, wire, queue, thr, thunks, main>>

\* initiate_send: the oldest producer goes out, an EOF closes the channel.
Flush(c) ==
    /\ InLoop /\ ~closed[c]
    /\ \/ /\ eof[c] = 0
          /\ CloseChannel(c)
          /\ UNCHANGED wire
       \/ /\ eof[c] # 0 /\ fifo[c] # <<>>
          /\ LET n == Head(fifo[c])
                 r == <<c, n>>
             IN wire' = [wire EXCEPT ![c] =
                    Append(@, [num |-> n, reply |-> req[r].reply,
                               body |-> req[r].outgoing, want |-> req[r].want])]
          /\ fifo' = [fifo EXCEPT ![c] = Tail(@)]
          /\ eof' = IF eof[c] = NoEof THEN eof ELSE [eof EXCEPT ![c] = @ - 1]
          /\ UNCHANGED <<closed, rejected, current, collecting, req>>
    /\ UNCHANGED <<netVars, queue, thr, thunks, main>>

-----------------------------------------------------------------------------
(* The timeout of a channel: close it, or answer 503 for its request.      *)

TimeoutIdle(c) ==
    /\ Timeouts /\ InLoop /\ ~closed[c] /\ current[c] = 0
    /\ CloseChannel(c)
    /\ UNCHANGED <<netVars, wire, queue, thr, thunks, main>>

\* error(503, force_close = True), up to the status.
TimeoutErrorNever(c) == FALSE
TimeoutError(c) ==
    /\ Timeouts /\ InLoop /\ ~closed[c] /\ current[c] # 0
    /\ LET r == <<c, current[c]>> IN
       /\ Responsable(r)
       /\ req' = [req EXCEPT ![r].outgoing = <<>>, ![r].reply = "zombie"]
       /\ main' = [pc |-> "page", req |-> r]
    /\ UNCHANGED <<netVars, chanVars, wire, queue, thr, thunks>>

\* error: push the page.
TimeoutPage ==
    /\ main.pc = "page"
    /\ req' = [req EXCEPT ![main.req].outgoing = Append(@, ErrorPage)]
    /\ main' = [main EXCEPT !.pc = "done"]
    /\ UNCHANGED <<netVars, chanVars, wire, queue, thr, thunks>>

\* done: from here on the response is not responsable.
TimeoutDone ==
    /\ main.pc = "done"
    /\ req' = [req EXCEPT ![main.req].isDone = TRUE]
    /\ main' = [main EXCEPT !.pc = "send"]
    /\ UNCHANGED <<netVars, chanVars, wire, queue, thr, thunks>>

\* done: header and body go to the channel, the channel is let go.
TimeoutSend ==
    /\ main.pc = "send"
    /\ AnswerOn(main.req[1], main.req[2], TRUE)
    /\ collecting' = [collecting EXCEPT ![main.req[1]] = FALSE]
    /\ main' = [pc |-> "loop", req |-> None]
    /\ UNCHANGED <<netVars, closed, rejected, wire, req, queue, thr, thunks>>

-----------------------------------------------------------------------------
(* The trigger's thunks, run by the main thread.                           *)

\* done(), after error(500) when the application raised.  (Where a request has
\* two jobs the other may be at its response meanwhile; all that can show then
\* is what the answer contains.)
RunThunk ==
    /\ InLoop /\ thunks # <<>>
    /\ thunks' = Tail(thunks)
    /\ LET k == Head(thunks)
           r == k.req
           finished == [req EXCEPT ![r].isDone = TRUE]
       IN
       IF ~Responsable(r) THEN UNCHANGED <<chanVars, req>>
       ELSE /\ req' = IF k.kind = "error" THEN Failed(r) ELSE finished
            /\ IF req[r].linked
               THEN \E close \in BOOLEAN : AnswerOn(r[1], r[2], close)
               ELSE UNCHANGED <<fifo, eof, current>>
            /\ UNCHANGED <<closed, rejected, collecting>>
    /\ UNCHANGED <<netVars, wire, queue, thr, main>>

-----------------------------------------------------------------------------
(* A request_thread and the Job it runs.                                   *)

Goto(t, pc) == thr' = [thr EXCEPT ![t].pc = pc]
WakeupOnSuccess(kind, r) ==
    IF kind = "done" THEN thunks' = Append(thunks, [kind |-> kind, req |-> r])
    ELSE UNCHANGED thunks
Wakeup(kind, r) == thunks' = Append(thunks, [kind |-> kind, req |-> r])
threadRest == <<netVars, chanVars, wire, main>>

GetJob(t) ==
    /\ thr[t].pc = "idle" /\ queue # <<>>
    /\ thr' = [thr EXCEPT ![t] = [Idle EXCEPT !.pc = "begin", !.job = Head(queue)]]
    /\ queue' = Tail(queue)
    /\ UNCHANGED <<req, thunks, threadRest>>

\* exec_app: nothing to do for a request that lost its channel.
BeginJob(t) ==
    /\ thr[t].pc = "begin"
    /\ IF req[thr[t].job].linked THEN Goto(t, "start")
       ELSE thr' = [thr EXCEPT ![t] = Idle]
    /\ UNCHANGED <<req, queue, thunks, threadRest>>

\* The application calls start_response, which checks ...
StartResponse(t) ==
    /\ thr[t].pc = "start"
    /\ Goto(t, IF Responsable(thr[t].job) THEN "status" ELSE "content")
    /\ UNCHANGED <<req, queue, thunks, threadRest>>

\* ... and sets the status.
SetStatus(t) ==
    /\ thr[t].pc = "status"
    /\ req' = [req EXCEPT ![thr[t].job].reply = "app"]
    /\ Goto(t, "content")
    /\ UNCHANGED <<queue, thunks, threadRest>>

\* The application returns its content, writes a part of it beforehand, raises,
\* or leaves the answer to a future.  make_pushables gives nothing to push for a
\* response already done, and a write to it is none.
Content(t) ==
    /\ thr[t].pc = "content"
    /\ \/ /\ "parts" \in Outcomes /\ Responsable(thr[t].job)
          /\ \E k \in thr[t].want..MaxParts :
               /\ req' = [req EXCEPT ![thr[t].job].want = k]
               /\ thr' = [thr EXCEPT ![t].pc = "next", ![t].want = k, ![t].returned = TRUE]
       \/ /\ "write" \in Outcomes /\ Responsable(thr[t].job)
          /\ thr[t].want < MaxParts
          /\ req' = [req EXCEPT ![thr[t].job].want = thr[t].want + 1]
          /\ thr' = [thr EXCEPT ![t].pc = "next", ![t].want = @ + 1]
       \/ /\ "raise" \in Outcomes
          /\ Goto(t, "fail")
          /\ UNCHANGED req
       \/ /\ "later" \in Outcomes \/ ~Responsable(thr[t].job)
          /\ thr' = [thr EXCEPT ![t] = Idle]
          /\ UNCHANGED req
    /\ UNCHANGED <<queue, thunks, threadRest>>

\* response.push: the check ...
AllPushed(t) == thr[t].at > thr[t].want
NextPart(t) ==
    /\ thr[t].pc = "next"
    /\ \/ AllPushed(t) /\ Goto(t, IF thr[t].returned THEN "finish" ELSE "content")
       \/ ~AllPushed(t) /\ Responsable(thr[t].job) /\ Goto(t, "push")
       \/ /\ ~AllPushed(t) /\ ~Responsable(thr[t].job)
          /\ thr' = [thr EXCEPT ![t].at = @ + 1]
    /\ UNCHANGED <<req, queue, thunks, threadRest>>

\* ... and the push.
PushPart(t) ==
    /\ thr[t].pc = "push"
    /\ req' = [req EXCEPT ![thr[t].job].outgoing = Append(@, thr[t].at)]
    /\ thr' = [thr EXCEPT ![t].pc = "next", ![t].at = @ + 1]
    /\ UNCHANGED <<queue, thunks, threadRest>>

\* trigger.wakeup: done.
FinishJob(t) ==
    /\ thr[t].pc = "finish"
    /\ Wakeup("done", thr[t].job)
    /\ thr' = [thr EXCEPT ![t] = Idle]
    /\ UNCHANGED <<req, queue, threadRest>>

\* trigger.wakeup: error(500) and done.
FailJob(t) ==
    /\ thr[t].pc = "fail"
    /\ Wakeup("error", thr[t].job)
    /\ thr' = [thr EXCEPT ![t] = Idle]
    /\ UNCHANGED <<req, queue, threadRest>>

-----------------------------------------------------------------------------
Client  == \E c \in Channels : ClientSend(c) \/ ClientBlank(c) \/ Disconnect(c)
Timeout == \E c \in Channels : TimeoutIdle(c) \/ TimeoutError(c)
MainStep == \/ \E c \in Channels : Receive(c) \/ Flush(c)
            \/ TimeoutPage \/ TimeoutDone \/ TimeoutSend
            \/ RunThunk
ThreadStep(t) ==
    \/ GetJob(t) \/ BeginJob(t) \/ StartResponse(t) \/ SetStatus(t) \/ Content(t)
    \/ NextPart(t) \/ PushPart(t) \/ FinishJob(t) \/ FailJob(t)

Next == Client \/ Timeout \/ MainStep \/ \E t \in Threads : ThreadStep(t)

Spec == Init /\ [][Next]_vars

\* The loop serves every readable or writable channel and every thunk, a
\* runnable thread runs and application calls return, and maintern looks at
\* every channel again and again.
Fairness ==
    /\ \A c \in Channels :
         /\ SF_vars(Receive(c)) /\ SF_vars(Flush(c))
         /\ SF_vars(TimeoutIdle(c) \/ TimeoutError(c))
    /\ WF_vars(TimeoutPage) /\ WF_vars(TimeoutDone) /\ WF_vars(TimeoutSend)
    /\ SF_vars(RunThunk)
    /\ \A t \in Threads : WF_vars(ThreadStep(t)) /\ SF_vars(GetJob(t))

FairSpec == Spec /\ Fairness
-----------------------------------------------------------------------------
(* Properties.                                                             *)

ThreadState == [pc : ThreadPc, job : Requests \cup {None},
                at : 1..MaxParts + 1, want : 0..MaxParts, returned : BOOLEAN]
Datum == [num : Numbers, kind : Kinds, part : {"head", "body"}] \cup {Blank}

NetTypeOK ==
    /\ inbuf \in [Channels -> Seq(Datum)]
    /\ sent \in [Channels -> 0..MaxReq]
    /\ blanks \in [Channels -> 0..MaxBlanks]
ChannelTypeOK ==
    /\ closed \in [Channels -> BOOLEAN]
    /\ rejected \in [Channels -> BOOLEAN]
    /\ current \in [Channels -> 0..MaxReq]
    /\ collecting \in [Channels -> BOOLEAN]
    /\ fifo \in [Channels -> Seq(Numbers)]
    /\ eof \in [Channels -> Nat \cup {NoEof}]
WireTypeOK == wire \in [Channels -> Seq(Answer)]
RequestTypeOK == req \in [Requests -> Request]
JobTypeOK ==
    /\ queue \in Seq(Requests)
    /\ thr \in [Threads -> ThreadState]
    /\ thunks \in Seq([kind : {"done", "error"}, req : Requests])
    /\ main \in [pc : MainPc, req : Requests \cup {None}]

\* Every variable has the shape the code gives it.
TypeOK == NetTypeOK /\ ChannelTypeOK /\ WireTypeOK /\ RequestTypeOK /\ JobTypeOK

\* A request that has its channel and no answer yet is the one its channel
\* waits for, and the other way round: no request is forgotten by its channel
\* (its late answer would then meet another request), and no channel waits for
\* a request already answered (found_terminator would drop all that follows).
CurrentIsPending ==
    \A c \in Channels, n \in Numbers :
        LET r == <<c, n>> IN
        current[c] = n <=>
            /\ req[r].made /\ req[r].linked
            /\ ~req[r].isDone \/ (main.pc = "send" /\ main.req = r)

\* A closed channel owes nothing and waits for nothing: whatever a thread or a
\* late thunk still does for a lost request, http_channel.close is final.
ClosedIsFinal ==
    \A c \in Channels : closed[c] => /\ fifo[c] = <<>> /\ current[c] = 0
                                     /\ ~collecting[c]

\* One Job for each request, and that in one place at a time: collecting, queued,
\* on one thread or with one thunk.  Only an empty line behind a multipart body
\* puts another.
Places(r) == {<<"queue", i>> : i \in {i \in 1..Len(queue) : queue[i] = r}}
    \cup {<<"thread", t>> : t \in {t \in Threads : thr[t].job = r}}
    \cup {<<"thunk", i>> : i \in {i \in 1..Len(thunks) : thunks[i].req = r}}
    \cup (IF current[r[1]] = r[2] /\ collecting[r[1]] THEN {<<"collector">>} ELSE {})
OneJobPerRequest ==
    \A r \in Requests :
        IF req[r].jobs > 1 THEN req[r].kind = "multipart" /\ blanks[r[1]] > 0
        ELSE Cardinality(Places(r)) <= 1

\* Without timeouts, the answer of a request with one Job is whole: the
\* application's status comes with every part the application wrote and returned,
\* in order, and an error with the error page alone, whatever had been pushed.
AnswersWhole ==
    \A c \in Channels : \A i \in 1..Len(wire[c]) :
        LET a == wire[c][i] IN
        req[<<c, a.num>>].jobs <= 1 =>
            IF a.reply = "app" THEN a.body = [k \in 1..a.want |-> k]
            ELSE a.reply # "init" /\ a.body = <<ErrorPage>>

\* Every request the server takes is answered, or its connection is closed.
Answered(r) == \E i \in 1..Len(wire[r[1]]) : wire[r[1]][i].num = r[2]
EveryRequestSettled ==
    \A r \in Requests : req[r].made ~> (Answered(r) \/ closed[r[1]])

\* The connections keep ConnectionContract.
Contract == INSTANCE ConnectionContract WITH
    open <- [c \in Channels |-> ~closed[c]],
    taken <- [c \in Channels |-> {n \in Numbers : req[<<c, n>>].made}],
    pending <- current,
    owed <- fifo,
    delivered <- [c \in Channels |-> [i \in 1..Len(wire[c]) |-> wire[c][i].num]]
KeepsContract == Contract!Contract
=============================================================================
