------------------------- MODULE RequestCycleProofs -------------------------
(***************************************************************************)
(* Proofs about RequestCycle for any number of connections, threads and    *)
(* requests, any queue limit, with and without pipelining.                 *)
(*                                                                         *)
(* First the types and what a channel and its current request say of each  *)
(* other (IInv); then what each step is to the client of a connection,     *)
(* which makes the server an implementation of ConnectionContract; then    *)
(* where the jobs are (Placed); last what is in a response while it goes   *)
(* from the queue to the wire (Whole), for a server without timeouts.      *)
(***************************************************************************)
EXTENDS RequestCycle, SequenceTheorems, FiniteSetTheorems, TLAPS

\* One element makes a sequence.
LEMMA SeqOne ==
    ASSUME NEW S, NEW a \in S
    PROVE  <<a>> \in Seq(S)
  OBVIOUS

\* Two elements make a sequence.
LEMMA SeqTwo ==
    ASSUME NEW S, NEW a \in S, NEW b \in S
    PROVE  <<a, b>> \in Seq(S)
  OBVIOUS

\* A queue per key: adding to one.
LEMMA AppendAt ==
    ASSUME NEW S, NEW D, NEW f \in [D -> Seq(S)], NEW d \in D, NEW a \in S
    PROVE  [f EXCEPT ![d] = Append(f[d], a)] \in [D -> Seq(S)]
  OBVIOUS

\* A queue per key: taking the first element of one.
LEMMA TailAt ==
    ASSUME NEW S, NEW D, NEW f \in [D -> Seq(S)], NEW d \in D, f[d] # <<>>
    PROVE  [f EXCEPT ![d] = Tail(f[d])] \in [D -> Seq(S)]
  OBVIOUS


\* A request is its channel and its number.
LEMMA RequestParts ==
    ASSUME NEW r \in Requests
    PROVE  /\ r[1] \in Channels /\ r[2] \in Numbers
           /\ r = <<r[1], r[2]>>
  BY DEF Requests

\* A request is a pair of a connection and a number.
LEMMA RequestPair ==
    ASSUME NEW c \in Channels, NEW n \in Numbers
    PROVE  <<c, n>> \in Requests
  BY DEF Requests

\* What a piece of the client's bytes does.
LEMMA ReceiveCases ==
    ASSUME NetTypeOK, NEW c \in Channels, Receive(c)
    PROVE  LET d == Head(inbuf[c]) IN
           /\ d \in Datum /\ InLoop /\ ~closed[c]
           /\ UNCHANGED <<sent, blanks, wire, thr, thunks, main>>
           /\ \/ /\ current[c] = 0 /\ d.part = "head" /\ d.num \in Numbers /\ d.kind \in Kinds
                 /\ HandleRequest(c, d.num, d.kind) /\ UNCHANGED closed
              \/ current[c] = 0 /\ CloseWhenDone(c)
              \/ CloseChannel(c) /\ UNCHANGED queue
              \/ /\ current[c] # 0 /\ Enqueue(c)
                 /\ collecting[c] \/ (req[<<c, current[c]>>].spent /\ d.part = "blank")
              \/ current[c] # 0 /\ collecting[c] /\ NotContinued(c)
              \/ UNCHANGED <<chanVars, req, queue>>
  <1> DEFINE d == Head(inbuf[c])
  <1>1. d \in Datum
    BY DEF Receive, NetTypeOK
  <1>2. d.part = "head" => d.num \in Numbers /\ d.kind \in Kinds
    BY <1>1 DEF Datum, Blank
  <1> HIDE DEF d
  <1>3. QED
    BY <1>1, <1>2 DEF Receive, Collected, CollectorSpent, d

\* What a thread, a thunk and the main thread hold while they work.
Holding ==
    /\ \A t \in Threads : thr[t].pc # "idle" => thr[t].job \in Requests
    /\ \A t \in Threads : thr[t].pc = "push" => thr[t].at <= thr[t].want
    /\ main.pc # "loop" => /\ main.req \in Requests
                           /\ current[main.req[1]] = main.req[2]
    /\ main.pc = "send" => req[main.req].isDone

\* A request has a channel only once it was made.
Linking == \A r \in Requests : req[r].linked => req[r].made

IInv == TypeOK /\ Holding /\ Linking /\ CurrentIsPending /\ ClosedIsFinal

\* What the application's code does: it asks for more parts, fails or ends.
LEMMA ContentCases ==
    ASSUME JobTypeOK, RequestTypeOK, Holding, NEW t \in Threads, Content(t)
    PROVE  LET q == thr[t].job IN
           /\ q \in Requests
           /\ UNCHANGED <<queue, thunks, threadRest>>
           /\ \/ \E k \in 0..MaxParts, ret \in BOOLEAN :
                   /\ ~req[q].isDone /\ thr[t].want <= k
                   /\ req' = [req EXCEPT ![q] = [req[q] EXCEPT !.want = k]]
                   /\ thr' = [thr EXCEPT ![t] =
                                [thr[t] EXCEPT !.pc = "next", !.want = k, !.returned = ret]]
              \/ thr' = [thr EXCEPT ![t] = [thr[t] EXCEPT !.pc = "fail"]] /\ UNCHANGED req
              \/ thr' = [thr EXCEPT ![t] = Idle] /\ UNCHANGED req
  <1> DEFINE q == thr[t].job
             s == thr[t]
             More(k, ret) ==
                   /\ ~req[q].isDone /\ s.want <= k
                   /\ req' = [req EXCEPT ![q] = [req[q] EXCEPT !.want = k]]
                   /\ thr' = [thr EXCEPT ![t] =
                                [s EXCEPT !.pc = "next", !.want = k, !.returned = ret]]
  <1>1. q \in Requests /\ UNCHANGED <<queue, thunks, threadRest>>
    BY DEF Content, Holding
  <1>2. s \in ThreadState /\ s.want \in 0..MaxParts /\ s.returned \in BOOLEAN
    BY DEF JobTypeOK, ThreadState
  <1>3. ASSUME Responsable(q), NEW k \in s.want..MaxParts,
               req' = [req EXCEPT ![q].want = k],
               thr' = [thr EXCEPT ![t].pc = "next", ![t].want = k, ![t].returned = TRUE]
        PROVE  k \in 0..MaxParts /\ More(k, TRUE)
    <2>1. k \in 0..MaxParts /\ s.want <= k
      BY <1>2
    <2>2. QED
      BY <1>1, <1>3, <2>1 DEF RequestTypeOK, JobTypeOK, Responsable
  <1>4. ASSUME Responsable(q), s.want < MaxParts,
               req' = [req EXCEPT ![q].want = s.want + 1],
               thr' = [thr EXCEPT ![t].pc = "next", ![t].want = @ + 1]
        PROVE  s.want + 1 \in 0..MaxParts /\ More(s.want + 1, s.returned)
    <2>1. s.want + 1 \in 0..MaxParts /\ s.want <= s.want + 1
      BY <1>2, <1>4, RequestCycleAssumption
    <2>2. [s EXCEPT !.pc = "next", !.want = s.want + 1]
            = [s EXCEPT !.pc = "next", !.want = s.want + 1, !.returned = s.returned]
      BY <1>2 DEF ThreadState
    <2>3. req' = [req EXCEPT ![q] = [req[q] EXCEPT !.want = s.want + 1]]
      BY <1>1, <1>4 DEF RequestTypeOK
    <2>4. thr' = [thr EXCEPT ![t] = [s EXCEPT !.pc = "next", !.want = s.want + 1]]
      BY <1>4 DEF JobTypeOK
    <2>5. QED
      BY <1>4, <2>1, <2>2, <2>3, <2>4 DEF Responsable
  <1> DEFINE Fails == thr' = [thr EXCEPT ![t] = [s EXCEPT !.pc = "fail"]] /\ UNCHANGED req
             Ends  == thr' = [thr EXCEPT ![t] = Idle] /\ UNCHANGED req
  <1>5. \/ /\ Responsable(q)
           /\ \E k \in s.want..MaxParts :
                /\ req' = [req EXCEPT ![q].want = k]
                /\ thr' = [thr EXCEPT ![t].pc = "next", ![t].want = k, ![t].returned = TRUE]
        \/ /\ Responsable(q) /\ s.want < MaxParts
           /\ req' = [req EXCEPT ![q].want = s.want + 1]
           /\ thr' = [thr EXCEPT ![t].pc = "next", ![t].want = @ + 1]
        \/ Fails \/ Ends
    BY DEF Content, Goto, JobTypeOK
  <1> HIDE DEF Fails, Ends, More
  <1>6. (\E k \in 0..MaxParts, ret \in BOOLEAN : More(k, ret)) \/ Fails \/ Ends
    BY <1>2, <1>3, <1>4, <1>5
  <1>7. QED
    BY <1>1, <1>6 DEF Fails, Ends, More

\* The server starts with no channel, no request and idle threads.
THEOREM InitIInv == Init => IInv
  <1> SUFFICES ASSUME Init PROVE IInv
    OBVIOUS
  <1> USE RequestCycleAssumption DEF Init
  <1>1. TypeOK
    BY DEF TypeOK, NetTypeOK, ChannelTypeOK, WireTypeOK, RequestTypeOK, JobTypeOK,
           Idle, Unmade, ThreadState, ThreadPc, MainPc, Request, Kinds,
           Replies, Parts, NoEof, Numbers
  <1>2. Holding
    BY DEF Holding, Idle
  <1>3. Linking
    BY DEF Linking, Unmade
  <1>4. CurrentIsPending
    <2> SUFFICES ASSUME NEW c \in Channels, NEW n \in Numbers
                 PROVE  /\ current[c] # n
                        /\ ~req[<<c, n>>].made
      BY DEF CurrentIsPending
    <2> QED
      BY RequestPair DEF Unmade, Numbers
  <1>5. ClosedIsFinal
    BY DEF ClosedIsFinal
  <1>6. QED
    BY <1>1, <1>2, <1>3, <1>4, <1>5 DEF IInv

\* Types of what the clients and the sockets hold.
LEMMA NetTypeStep ==
    ASSUME TypeOK, [Next]_vars
    PROVE  NetTypeOK'
  <1> USE RequestCycleAssumption DEF TypeOK, NetTypeOK
  <1>1. ASSUME NEW c \in Channels, ClientSend(c) PROVE NetTypeOK'
    <2>1. PICK kind \in Kinds :
            inbuf' = [inbuf EXCEPT ![c] = inbuf[c] \o Data(sent[c] + 1, kind)]
      BY <1>1 DEF ClientSend
    <2>2. sent[c] + 1 \in Numbers
      BY <1>1 DEF ClientSend, Numbers
    <2>3. Data(sent[c] + 1, kind) \in Seq(Datum)
      <3> DEFINE head == [num |-> sent[c] + 1, kind |-> kind, part |-> "head"]
                 body == [num |-> sent[c] + 1, kind |-> kind, part |-> "body"]
      <3>1. head \in Datum /\ body \in Datum
        BY <2>2 DEF Datum
      <3>2. Data(sent[c] + 1, kind) = <<head>> \/ Data(sent[c] + 1, kind) = <<head, body>>
        BY DEF Data
      <3> HIDE DEF head, body
      <3>3. QED
        <4>1. <<head>> \in Seq(Datum)
          BY <3>1, SeqOne
        <4>2. <<head, body>> \in Seq(Datum)
          BY <3>1, SeqTwo
        <4>3. QED
          BY <3>2, <4>1, <4>2
    <2>4. inbuf' \in [Channels -> Seq(Datum)]
      BY <2>1, <2>3
    <2>5. sent' \in [Channels -> 0..MaxReq]
      BY <1>1 DEF ClientSend
    <2>6. QED
      BY <1>1, <2>4, <2>5 DEF ClientSend
  <1>7. ASSUME NEW c \in Channels, ClientBlank(c) PROVE NetTypeOK'
    <2>1. inbuf' = [inbuf EXCEPT ![c] = Append(inbuf[c], Blank)] /\ Blank \in Datum
      BY <1>7 DEF ClientBlank, Datum
    <2>2. inbuf' \in [Channels -> Seq(Datum)]
      BY <2>1, AppendAt
    <2>3. QED
      BY <1>7, <2>2 DEF ClientBlank
  <1>2. ASSUME NEW c \in Channels, Receive(c) PROVE NetTypeOK'
    BY <1>2 DEF Receive
  <1>3. ASSUME NEW c \in Channels,
               Disconnect(c) \/ Flush(c) \/ TimeoutIdle(c) \/ TimeoutError(c)
        PROVE  NetTypeOK'
    BY <1>3 DEF Disconnect, Flush, TimeoutIdle, TimeoutError, netVars
  <1>4. CASE TimeoutPage \/ TimeoutDone \/ TimeoutSend \/ RunThunk
    BY <1>4 DEF TimeoutPage, TimeoutDone, TimeoutSend, RunThunk, netVars
  <1>5. ASSUME NEW t \in Threads, ThreadStep(t) PROVE NetTypeOK'
    BY <1>5 DEF ThreadStep, GetJob, BeginJob, StartResponse, SetStatus, Content,
                NextPart, PushPart, FinishJob, FailJob, threadRest, netVars
  <1>6. CASE UNCHANGED vars
    BY <1>6 DEF vars
  <1>8. QED
    BY <1>1, <1>2, <1>3, <1>4, <1>5, <1>6, <1>7 DEF Next, Client, Timeout, MainStep

\* What the helpers leave on a channel.
LEMMA CloseChannelType ==
    ASSUME ChannelTypeOK, RequestTypeOK, NEW c \in Channels, CloseChannel(c)
    PROVE  ChannelTypeOK' /\ RequestTypeOK'
  <1>1. ChannelTypeOK'
    BY RequestCycleAssumption DEF ChannelTypeOK, CloseChannel, DiscardBuffers
  <1>2. CASE current[c] = 0
    BY <1>1, <1>2 DEF CloseChannel, RequestTypeOK
  <1>3. CASE current[c] # 0
    <2>1. <<c, current[c]>> \in Requests
      BY <1>3, RequestPair DEF ChannelTypeOK, Numbers
    <2>2. RequestTypeOK'
      BY <1>3, <2>1 DEF CloseChannel, RequestTypeOK, Request
    <2>3. QED
      BY <1>1, <2>2
  <1>4. QED
    BY <1>2, <1>3

\* Answering on a channel keeps the channel well-typed.
LEMMA AnswerOnType ==
    ASSUME ChannelTypeOK, NEW c \in Channels, NEW n \in Numbers,
           NEW close \in BOOLEAN, AnswerOn(c, n, close)
    PROVE  /\ current' \in [Channels -> 0..MaxReq]
           /\ fifo' \in [Channels -> Seq(Numbers)]
           /\ eof' \in [Channels -> Nat \cup {NoEof}]
  BY RequestCycleAssumption DEF ChannelTypeOK, AnswerOn, PushAnswer

\* What a request's handler may do with it.
LEMMA HandleCases ==
    ASSUME NEW c, NEW n, NEW kind, HandleRequest(c, n, kind)
    PROVE  \/ \E code \in {"error", "busy"}, aborts \in BOOLEAN, jobs \in {0, 1} :
                 Refuse(c, n, kind, code, aborts, jobs) /\ (jobs = 1 => kind = "get")
           \/ /\ kind = "get" /\ Make(c, n, kind, 1)
              /\ queue' = Append(queue, <<c, n>>) /\ UNCHANGED collecting
           \/ /\ kind # "get" /\ Make(c, n, kind, 0)
              /\ collecting' = [collecting EXCEPT ![c] = TRUE] /\ UNCHANGED queue
  <1> DEFINE Cases ==
           \/ \E code \in {"error", "busy"}, aborts \in BOOLEAN, jobs \in {0, 1} :
                 Refuse(c, n, kind, code, aborts, jobs) /\ (jobs = 1 => kind = "get")
           \/ /\ kind = "get" /\ Make(c, n, kind, 1)
              /\ queue' = Append(queue, <<c, n>>) /\ UNCHANGED collecting
           \/ /\ kind # "get" /\ Make(c, n, kind, 0)
              /\ collecting' = [collecting EXCEPT ![c] = TRUE] /\ UNCHANGED queue
  <1>1. ASSUME NEW code \in {"error", "busy"}, NEW aborts \in BOOLEAN, NEW jobs \in {0, 1},
               Refuse(c, n, kind, code, aborts, jobs), jobs = 1 => kind = "get"
        PROVE  Cases
    BY <1>1
  <1>2. CASE \/ kind = "get" /\ Make(c, n, kind, 1)
                /\ queue' = Append(queue, <<c, n>>) /\ UNCHANGED collecting
             \/ kind # "get" /\ Make(c, n, kind, 0)
                /\ collecting' = [collecting EXCEPT ![c] = TRUE] /\ UNCHANGED queue
    BY <1>2
  <1> HIDE DEF Cases
  <1>3. ASSUME NEW aborts \in BOOLEAN,
               \/ Refuse(c, n, kind, "busy", aborts, 0)
               \/ Refuse(c, n, kind, "error", aborts, 0)
               \/ kind = "get" /\ Refuse(c, n, kind, "error", aborts, 1)
        PROVE  Cases
    BY <1>1, <1>3
  <1>4. \/ \E aborts \in BOOLEAN :
             \/ Refuse(c, n, kind, "busy", aborts, 0)
             \/ Refuse(c, n, kind, "error", aborts, 0)
             \/ kind = "get" /\ Refuse(c, n, kind, "error", aborts, 1)
        \/ kind = "get" /\ Make(c, n, kind, 1)
                /\ queue' = Append(queue, <<c, n>>) /\ UNCHANGED collecting
        \/ kind # "get" /\ Make(c, n, kind, 0)
                /\ collecting' = [collecting EXCEPT ![c] = TRUE] /\ UNCHANGED queue
    BY DEF HandleRequest
  <1>5. QED
    BY <1>2, <1>3, <1>4 DEF Cases

\* Handing a request to its handler keeps the channel well-typed.
LEMMA HandleRequestType ==
    ASSUME TypeOK, NEW c \in Channels, NEW n \in Numbers, NEW kind \in Kinds,
           HandleRequest(c, n, kind), UNCHANGED closed
    PROVE  ChannelTypeOK' /\ RequestTypeOK' /\ queue' \in Seq(Requests)
  <1> USE RequestPair DEF TypeOK
  <1>0. queue \in Seq(Requests) /\ Append(queue, <<c, n>>) \in Seq(Requests)
    BY AppendProperties DEF JobTypeOK
  <1>1. ASSUME NEW code \in {"error", "busy"}, NEW aborts \in BOOLEAN, NEW jobs \in {0, 1},
               Refuse(c, n, kind, code, aborts, jobs)
        PROVE  ChannelTypeOK' /\ RequestTypeOK' /\ queue' \in Seq(Requests)
    <2>1. PICK close \in BOOLEAN : AnswerOn(c, n, close)
      BY <1>1 DEF Refuse
    <2>2. ChannelTypeOK'
      BY <1>1, <2>1, AnswerOnType DEF Refuse, ChannelTypeOK
    <2>3. <<ErrorPage>> \in Seq(Parts)
      BY RequestCycleAssumption DEF ErrorPage, Parts
    <2>4. RequestTypeOK'
      BY <1>1, <2>3, RequestCycleAssumption DEF Refuse, RequestTypeOK, Request, Replies
    <2>5. QED
      BY <1>0, <1>1, <2>2, <2>4 DEF Refuse
  <1>2. ASSUME NEW jobs \in {0, 1}, Make(c, n, kind, jobs)
        PROVE  /\ RequestTypeOK'
               /\ current' \in [Channels -> 0..MaxReq]
               /\ UNCHANGED <<rejected, fifo, eof>>
    <2>1. [Unmade EXCEPT !.made = TRUE, !.kind = kind, !.linked = TRUE, !.jobs = jobs] \in Request
      <3>1. <<>> \in Seq(Parts) /\ 0 \in 0..MaxParts /\ jobs \in Nat
        BY RequestCycleAssumption
      <3>2. QED
        BY <3>1 DEF Unmade, Request, Replies
    <2>2. QED
      BY <1>2, <2>1 DEF Make, RequestTypeOK, ChannelTypeOK, Numbers
  <1>3. CASE Make(c, n, kind, 1) /\ queue' = Append(queue, <<c, n>>) /\ UNCHANGED collecting
    BY <1>0, <1>2, <1>3 DEF ChannelTypeOK
  <1>4. CASE Make(c, n, kind, 0) /\ collecting' = [collecting EXCEPT ![c] = TRUE]
             /\ UNCHANGED queue
    BY <1>0, <1>2, <1>4 DEF ChannelTypeOK
  <1>5. QED
    BY <1>1, <1>3, <1>4, HandleCases

\* An error that replaces whatever was pushed keeps the request well-typed.
LEMMA FailedType ==
    ASSUME RequestTypeOK, NEW r \in Requests
    PROVE  Failed(r) \in [Requests -> Request]
  <1>1. <<ErrorPage>> \in Seq(Parts)
    BY RequestCycleAssumption DEF Parts, ErrorPage
  <1>2. Failed(r) = [req EXCEPT ![r] = [req[r] EXCEPT !.isDone = TRUE, !.reply = "error",
                                                     !.outgoing = <<ErrorPage>>]]
    BY DEF Failed, RequestTypeOK
  <1>3. [req[r] EXCEPT !.isDone = TRUE, !.reply = "error", !.outgoing = <<ErrorPage>>] \in Request
    BY <1>1 DEF RequestTypeOK, Request, Replies
  <1>4. QED
    BY <1>2, <1>3 DEF RequestTypeOK

\* An error marks its request done and fills its response, and touches no other.
LEMMA FailedFields ==
    ASSUME RequestTypeOK, NEW r \in Requests
    PROVE  /\ \A q \in Requests : q # r => Failed(r)[q] = req[q]
           /\ Failed(r)[r].isDone /\ Failed(r)[r].reply = "error"
           /\ Failed(r)[r].outgoing = <<ErrorPage>>
           /\ Failed(r)[r].made = req[r].made /\ Failed(r)[r].linked = req[r].linked
           /\ Failed(r)[r].kind = req[r].kind /\ Failed(r)[r].spent = req[r].spent
           /\ Failed(r)[r].jobs = req[r].jobs /\ Failed(r)[r].want = req[r].want
  <1>1. Failed(r) = [req EXCEPT ![r] = [req[r] EXCEPT !.isDone = TRUE, !.reply = "error",
                                                     !.outgoing = <<ErrorPage>>]]
    BY DEF Failed, RequestTypeOK
  <1>2. req[r] \in Request
    BY DEF RequestTypeOK
  <1>3. QED
    BY <1>1, <1>2 DEF RequestTypeOK, Request

\* Queueing a Job counts it and leaves the collector, and touches nothing else.
LEMMA EnqueueFields ==
    ASSUME RequestTypeOK, ChannelTypeOK, NEW c \in Channels, current[c] # 0, Enqueue(c)
    PROVE  LET r == <<c, current[c]>> IN
           /\ r \in Requests
           /\ \A q \in Requests :
                /\ q # r => req'[q] = req[q]
                /\ req'[q].made = req[q].made /\ req'[q].linked = req[q].linked
                /\ req'[q].kind = req[q].kind /\ req'[q].isDone = req[q].isDone
                /\ req'[q].reply = req[q].reply /\ req'[q].outgoing = req[q].outgoing
                /\ req'[q].want = req[q].want
           /\ req'[r].jobs = req[r].jobs + 1 /\ req'[r].spent = (req[r].kind = "multipart")
           /\ queue' = Append(queue, r)
           /\ UNCHANGED <<closed, rejected, current, fifo, eof>>
           /\ collecting' = [collecting EXCEPT ![c] = FALSE]
  <1> DEFINE r == <<c, current[c]>>
  <1>1. r \in Requests
    BY RequestPair DEF ChannelTypeOK, Numbers
  <1>2. req[r] \in Request
    BY <1>1 DEF RequestTypeOK
  <1>3. req' = [req EXCEPT ![r] = [req[r] EXCEPT !.jobs = req[r].jobs + 1,
                                                !.spent = (req[r].kind = "multipart")]]
    BY <1>1 DEF Enqueue, Stays, RequestTypeOK
  <1>4. queue' = Append(queue, r) /\ collecting' = [collecting EXCEPT ![c] = FALSE]
        /\ UNCHANGED <<closed, rejected, current, fifo, eof>>
    BY DEF Enqueue
  <1> HIDE DEF r
  <1>5. \A q \in Requests :
                /\ q # r => req'[q] = req[q]
                /\ req'[q].made = req[q].made /\ req'[q].linked = req[q].linked
                /\ req'[q].kind = req[q].kind /\ req'[q].isDone = req[q].isDone
                /\ req'[q].reply = req[q].reply /\ req'[q].outgoing = req[q].outgoing
                /\ req'[q].want = req[q].want
    BY <1>1, <1>2, <1>3 DEF RequestTypeOK, Request
  <1>6. req'[r].jobs = req[r].jobs + 1 /\ req'[r].spent = (req[r].kind = "multipart")
    BY <1>1, <1>2, <1>3 DEF RequestTypeOK, Request
  <1>7. QED
    BY <1>1, <1>4, <1>5, <1>6 DEF r

\* What reading a piece of the client's bytes leaves is well-typed.
LEMMA ReceiveType ==
    ASSUME TypeOK, NEW c \in Channels, Receive(c)
    PROVE  ChannelTypeOK' /\ RequestTypeOK' /\ JobTypeOK'
  <1> DEFINE d == Head(inbuf[c])
             r == <<c, current[c]>>
  <1> USE DEF TypeOK
  <1>0. UNCHANGED <<thr, thunks, main>>
    BY ReceiveCases
  <1>a. current[c] # 0 => current[c] \in Numbers /\ r \in Requests
    BY RequestPair DEF ChannelTypeOK, Numbers
  <1>1. ASSUME d.num \in Numbers, d.kind \in Kinds, HandleRequest(c, d.num, d.kind),
               UNCHANGED closed
        PROVE  ChannelTypeOK' /\ RequestTypeOK' /\ JobTypeOK'
    <2> HIDE DEF d
    <2>1. QED
      BY <1>0, <1>1, HandleRequestType DEF JobTypeOK
  <1>2. CASE CloseWhenDone(c)
    <2>1. Len(fifo[c]) \in Nat
      BY DEF ChannelTypeOK
    <2>2. QED
      BY <1>0, <1>2, <2>1 DEF CloseWhenDone, ChannelTypeOK, RequestTypeOK, JobTypeOK
  <1>3. CASE CloseChannel(c) /\ UNCHANGED queue
    BY <1>0, <1>3, CloseChannelType DEF JobTypeOK
  <1>4. CASE current[c] # 0 /\ Enqueue(c)
    <2>1. queue' \in Seq(Requests)
      BY <1>4, <1>a, AppendProperties DEF Enqueue, JobTypeOK
    <2>2. req' = [req EXCEPT ![r] = [req[r] EXCEPT !.jobs = req[r].jobs + 1,
                                                  !.spent = Stays(req[r].kind)]]
      BY <1>4, <1>a DEF Enqueue, RequestTypeOK
    <2>3. [req[r] EXCEPT !.jobs = req[r].jobs + 1, !.spent = Stays(req[r].kind)] \in Request
      <3>1. req[r] \in Request
        BY <1>4, <1>a DEF RequestTypeOK
      <3> HIDE DEF r
      <3>2. req[r].jobs + 1 \in Nat /\ Stays(req[r].kind) \in BOOLEAN
        BY <3>1 DEF Request, Stays
      <3>3. QED
        BY <3>1, <3>2 DEF Request
    <2>4. RequestTypeOK'
      BY <2>2, <2>3 DEF RequestTypeOK
    <2>5. ChannelTypeOK'
      BY <1>4 DEF Enqueue, ChannelTypeOK
    <2>6. QED
      BY <1>0, <2>1, <2>4, <2>5 DEF JobTypeOK
  <1>5. CASE current[c] # 0 /\ NotContinued(c)
    <2>1. RequestTypeOK'
      BY <1>5, <1>a, FailedType DEF NotContinued, RequestTypeOK
    <2>2. PICK close \in BOOLEAN : AnswerOn(c, current[c], close)
      BY <1>5 DEF NotContinued
    <2>3. ChannelTypeOK'
      BY <1>5, <1>a, <2>2, AnswerOnType DEF NotContinued, ChannelTypeOK
    <2>4. QED
      BY <1>0, <1>5, <2>1, <2>3 DEF NotContinued, JobTypeOK
  <1>6. CASE UNCHANGED <<chanVars, req, queue>>
    BY <1>0, <1>6 DEF chanVars, ChannelTypeOK, RequestTypeOK, JobTypeOK
  <1>7. QED
    BY <1>1, <1>2, <1>3, <1>4, <1>5, <1>6, ReceiveCases

\* Types of the channels.
LEMMA ChannelTypeStep ==
    ASSUME TypeOK, Holding, [Next]_vars
    PROVE  ChannelTypeOK'
  <1> USE DEF TypeOK
  <1>1. ASSUME NEW c \in Channels, Receive(c) PROVE ChannelTypeOK'
    BY <1>1, ReceiveType
  <1>2. ASSUME NEW c \in Channels, ClientSend(c) \/ ClientBlank(c) \/ TimeoutError(c)
        PROVE  ChannelTypeOK'
    BY <1>2 DEF ClientSend, ClientBlank, TimeoutError, chanVars, ChannelTypeOK
  <1>3. ASSUME NEW c \in Channels, Disconnect(c) \/ TimeoutIdle(c) PROVE ChannelTypeOK'
    BY <1>3, CloseChannelType DEF Disconnect, TimeoutIdle
  <1>4. ASSUME NEW c \in Channels, Flush(c) PROVE ChannelTypeOK'
    <2>1. CASE eof[c] = 0
      BY <1>4, <2>1, CloseChannelType DEF Flush
    <2>2. CASE eof[c] # 0
      <3>1. fifo' \in [Channels -> Seq(Numbers)]
        <4>1. fifo[c] # <<>> /\ fifo' = [fifo EXCEPT ![c] = Tail(fifo[c])]
          BY <1>4, <2>2 DEF Flush
        <4>2. fifo \in [Channels -> Seq(Numbers)]
          BY DEF ChannelTypeOK
        <4>3. QED
          BY <4>1, <4>2, TailAt
      <3>2. eof' \in [Channels -> Nat \cup {NoEof}]
        <4>1. eof' = eof \/ eof' = [eof EXCEPT ![c] = eof[c] - 1]
          BY <1>4, <2>2 DEF Flush
        <4>2. eof[c] # NoEof => eof[c] - 1 \in Nat
          BY <2>2 DEF ChannelTypeOK, NoEof
        <4>3. eof[c] = NoEof => eof' = eof
          BY <1>4, <2>2 DEF Flush
        <4>4. QED
          BY <4>1, <4>2, <4>3 DEF ChannelTypeOK
      <3>3. QED
        BY <1>4, <2>2, <3>1, <3>2 DEF Flush, ChannelTypeOK
    <2>3. QED
      BY <2>1, <2>2
  <1>5. CASE TimeoutPage \/ TimeoutDone
    BY <1>5 DEF TimeoutPage, TimeoutDone, chanVars, ChannelTypeOK
  <1>6. CASE TimeoutSend
    <2>1. main.req[1] \in Channels /\ main.req[2] \in Numbers
      BY <1>6, RequestParts DEF TimeoutSend, Holding
    <2>2. AnswerOn(main.req[1], main.req[2], TRUE)
      BY <1>6 DEF TimeoutSend
    <2>3. QED
      BY <1>6, <2>1, <2>2, AnswerOnType DEF TimeoutSend, ChannelTypeOK
  <1>7. CASE RunThunk
    <2> DEFINE r == Head(thunks).req
    <2>1. r[1] \in Channels /\ r[2] \in Numbers
      <3>1. Head(thunks) \in [kind : {"done", "error"}, req : Requests]
        BY <1>7, HeadTailProperties DEF RunThunk, JobTypeOK
      <3>2. QED
        BY <3>1, RequestParts
    <2>2. CASE UNCHANGED <<closed, rejected, collecting, fifo, eof, current>>
      BY <2>2 DEF ChannelTypeOK
    <2>3. ASSUME NEW close \in BOOLEAN, AnswerOn(r[1], r[2], close),
                 UNCHANGED <<closed, rejected, collecting>>
          PROVE  ChannelTypeOK'
      BY <2>1, <2>3, AnswerOnType DEF ChannelTypeOK
    <2> HIDE DEF r
    <2>4. QED
      BY <1>7, <2>2, <2>3 DEF RunThunk, chanVars, r
  <1>8. ASSUME NEW t \in Threads, ThreadStep(t) PROVE ChannelTypeOK'
    BY <1>8 DEF ThreadStep, GetJob, BeginJob, StartResponse, SetStatus, Content,
                NextPart, PushPart, FinishJob, FailJob, threadRest, chanVars, ChannelTypeOK
  <1>9. CASE UNCHANGED vars
    BY <1>9 DEF vars, ChannelTypeOK
  <1>10. QED
    BY <1>1, <1>2, <1>3, <1>4, <1>5, <1>6, <1>7, <1>8, <1>9
       DEF Next, Client, Timeout, MainStep

\* Types of what is on the wire.
LEMMA WireTypeStep ==
    ASSUME TypeOK, [Next]_vars
    PROVE  WireTypeOK'
  <1> USE DEF TypeOK, WireTypeOK
  <1>1. ASSUME NEW c \in Channels, Flush(c) PROVE WireTypeOK'
    <2>1. CASE UNCHANGED wire
      BY <2>1
    <2>2. CASE eof[c] # 0 /\ fifo[c] # <<>>
      <3> DEFINE n == Head(fifo[c])
                 a == [num |-> n, reply |-> req[<<c, n>>].reply,
                       body |-> req[<<c, n>>].outgoing, want |-> req[<<c, n>>].want]
      <3>1. n \in Numbers
        BY <2>2 DEF ChannelTypeOK
      <3>2. req[<<c, n>>] \in Request
        BY <3>1, RequestPair DEF RequestTypeOK
      <3>3. a \in Answer
        BY <3>1, <3>2 DEF Answer, Request
      <3>4. wire' = [wire EXCEPT ![c] = Append(wire[c], a)] \/ UNCHANGED wire
        BY <1>1, <2>2 DEF Flush
      <3> HIDE DEF a
      <3>5. QED
        <4>1. [wire EXCEPT ![c] = Append(wire[c], a)] \in [Channels -> Seq(Answer)]
          BY <3>3, AppendAt
        <4>2. QED
          BY <3>4, <4>1
    <2>3. QED
      BY <1>1, <2>1, <2>2 DEF Flush
  <1>2. ASSUME NEW c \in Channels,
               \/ ClientSend(c) \/ ClientBlank(c) \/ Receive(c) \/ Disconnect(c)
               \/ TimeoutIdle(c) \/ TimeoutError(c)
        PROVE  WireTypeOK'
    BY <1>2 DEF ClientSend, ClientBlank, Receive, Disconnect, TimeoutIdle, TimeoutError
  <1>3. CASE TimeoutPage \/ TimeoutDone \/ TimeoutSend \/ RunThunk
    BY <1>3 DEF TimeoutPage, TimeoutDone, TimeoutSend, RunThunk
  <1>4. ASSUME NEW t \in Threads, ThreadStep(t) PROVE WireTypeOK'
    BY <1>4 DEF ThreadStep, GetJob, BeginJob, StartResponse, SetStatus, Content,
                NextPart, PushPart, FinishJob, FailJob, threadRest
  <1>5. CASE UNCHANGED vars
    BY <1>5 DEF vars
  <1>6. QED
    BY <1>1, <1>2, <1>3, <1>4, <1>5 DEF Next, Client, Timeout, MainStep

\* A field of one request gets a value of its type.
LEMMA RequestUpdate ==
    ASSUME RequestTypeOK, NEW r \in Requests, NEW q \in Request
    PROVE  [req EXCEPT ![r] = q] \in [Requests -> Request]
  BY DEF RequestTypeOK

\* Types of the requests.
LEMMA RequestTypeStep ==
    ASSUME TypeOK, Holding, [Next]_vars
    PROVE  RequestTypeOK'
  <1> USE DEF TypeOK
  <1>0. ASSUME NEW r \in Requests PROVE req[r] \in Request
    BY <1>0 DEF RequestTypeOK
  <1>1. ASSUME NEW c \in Channels, Receive(c) PROVE RequestTypeOK'
    BY <1>1, ReceiveType
  <1>2. ASSUME NEW c \in Channels, Disconnect(c) \/ TimeoutIdle(c) PROVE RequestTypeOK'
    BY <1>2, CloseChannelType DEF Disconnect, TimeoutIdle
  <1>3. ASSUME NEW c \in Channels, Flush(c) PROVE RequestTypeOK'
    BY <1>3, CloseChannelType DEF Flush, RequestTypeOK
  <1>4. ASSUME NEW c \in Channels, TimeoutError(c) PROVE RequestTypeOK'
    <2> DEFINE r == <<c, current[c]>>
    <2>1. r \in Requests
      BY <1>4, RequestPair DEF TimeoutError, ChannelTypeOK, Numbers
    <2>2. req' = [req EXCEPT ![r] = [req[r] EXCEPT !.outgoing = <<>>, !.reply = "zombie"]]
      BY <1>4, <2>1 DEF TimeoutError, RequestTypeOK
    <2> HIDE DEF r
    <2>3. [req[r] EXCEPT !.outgoing = <<>>, !.reply = "zombie"] \in Request
      <3>1. <<>> \in Seq(Parts)
        OBVIOUS
      <3>2. QED
        BY <1>0, <2>1, <3>1 DEF Request, Replies
    <2>4. QED
      BY <2>1, <2>2, <2>3 DEF RequestTypeOK
  <1>5. CASE TimeoutPage
    <2>1. main.req \in Requests
      BY <1>5 DEF TimeoutPage, Holding
    <2>2. req' = [req EXCEPT ![main.req] =
                   [req[main.req] EXCEPT !.outgoing = Append(req[main.req].outgoing, ErrorPage)]]
      BY <1>5, <2>1 DEF TimeoutPage, RequestTypeOK
    <2>3. Append(req[main.req].outgoing, ErrorPage) \in Seq(Parts)
      BY <1>0, <2>1, RequestCycleAssumption DEF Request, Parts, ErrorPage
    <2>4. [req[main.req] EXCEPT !.outgoing = Append(req[main.req].outgoing, ErrorPage)] \in Request
      BY <1>0, <2>1, <2>3 DEF Request
    <2>5. QED
      BY <2>1, <2>2, <2>4, RequestUpdate DEF RequestTypeOK
  <1>6. CASE TimeoutDone
    BY <1>6 DEF TimeoutDone, Holding, RequestTypeOK, Request
  <1>7. CASE TimeoutSend
    BY <1>7 DEF TimeoutSend, RequestTypeOK
  <1>8. CASE RunThunk
    <2> DEFINE r == Head(thunks).req
    <2>1. r \in Requests
      <3>1. Head(thunks) \in [kind : {"done", "error"}, req : Requests]
        BY <1>8, HeadTailProperties DEF RunThunk, JobTypeOK
      <3>2. QED
        BY <3>1
    <2>2. \/ req' = req
          \/ req' = [req EXCEPT ![r] = [req[r] EXCEPT !.isDone = TRUE]]
          \/ req' = Failed(r)
      BY <1>8, <2>1 DEF RunThunk, RequestTypeOK
    <2> HIDE DEF r
    <2>3. [req[r] EXCEPT !.isDone = TRUE] \in Request
      BY <1>0, <2>1 DEF Request
    <2>4. QED
      BY <2>1, <2>2, <2>3, RequestUpdate, FailedType DEF RequestTypeOK
  <1>9. ASSUME NEW t \in Threads, ThreadStep(t) PROVE RequestTypeOK'
    <2> DEFINE r == thr[t].job
    <2>1. CASE UNCHANGED req
      BY <2>1 DEF RequestTypeOK
    <2>2. CASE SetStatus(t)
      <3>1. r \in Requests
        BY <2>2 DEF SetStatus, Holding
      <3>2. req' = [req EXCEPT ![r] = [req[r] EXCEPT !.reply = "app"]]
        BY <2>2, <3>1 DEF SetStatus, RequestTypeOK
      <3> HIDE DEF r
      <3>3. [req[r] EXCEPT !.reply = "app"] \in Request
        BY <1>0, <3>1 DEF Request, Replies
      <3>4. QED
        BY <3>1, <3>2, <3>3, RequestUpdate DEF RequestTypeOK
    <2>3. CASE Content(t)
      <3>1. r \in Requests
        BY <2>3, ContentCases
      <3>2. \/ req' = req
            \/ \E k \in 0..MaxParts : req' = [req EXCEPT ![r] = [req[r] EXCEPT !.want = k]]
        BY <2>3, ContentCases
      <3> HIDE DEF r
      <3>3. ASSUME NEW k \in 0..MaxParts PROVE [req[r] EXCEPT !.want = k] \in Request
        BY <1>0, <3>1 DEF Request
      <3>4. QED
        BY <3>1, <3>2, <3>3, RequestUpdate DEF RequestTypeOK
    <2>4. CASE PushPart(t)
      <3>1. r \in Requests /\ thr[t].at \in Parts
        <4>1. thr[t] \in ThreadState
          BY DEF JobTypeOK
        <4>2. QED
          BY <2>4, <4>1, RequestCycleAssumption DEF PushPart, Holding, ThreadState, Parts
      <3>2. req' = [req EXCEPT ![r] =
                      [req[r] EXCEPT !.outgoing = Append(req[r].outgoing, thr[t].at)]]
        BY <2>4, <3>1 DEF PushPart, RequestTypeOK
      <3> HIDE DEF r
      <3>3. Append(req[r].outgoing, thr[t].at) \in Seq(Parts)
        BY <1>0, <3>1 DEF Request
      <3>4. [req[r] EXCEPT !.outgoing = Append(req[r].outgoing, thr[t].at)] \in Request
        BY <1>0, <3>1, <3>3 DEF Request
      <3>5. QED
        BY <3>1, <3>2, <3>4, RequestUpdate DEF RequestTypeOK
    <2>5. QED
      BY <1>9, <2>1, <2>2, <2>3, <2>4
         DEF ThreadStep, GetJob, BeginJob, StartResponse, NextPart, FinishJob, FailJob
  <1>10. ASSUME NEW c \in Channels, ClientSend(c) \/ ClientBlank(c) PROVE RequestTypeOK'
    BY <1>10 DEF ClientSend, ClientBlank, RequestTypeOK
  <1>11. CASE UNCHANGED vars
    BY <1>11 DEF vars, RequestTypeOK
  <1>12. QED
    BY <1>1, <1>2, <1>3, <1>4, <1>5, <1>6, <1>7, <1>8, <1>9, <1>10, <1>11
       DEF Next, Client, Timeout, MainStep

\* Types of the queue, the jobs and the thunks.
LEMMA JobTypeStep ==
    ASSUME TypeOK, Holding, [Next]_vars
    PROVE  JobTypeOK'
  <1> DEFINE Thunk == [kind : {"done", "error"}, req : Requests]
  <1> USE DEF TypeOK, JobTypeOK
  <1>1. ASSUME NEW c \in Channels, Receive(c) PROVE JobTypeOK'
    BY <1>1, ReceiveType
  <1>2. ASSUME NEW c \in Channels,
               \/ ClientSend(c) \/ ClientBlank(c) \/ Disconnect(c)
               \/ Flush(c) \/ TimeoutIdle(c)
        PROVE  JobTypeOK'
    BY <1>2 DEF ClientSend, ClientBlank, Disconnect, Flush, TimeoutIdle
  <1>3. ASSUME NEW c \in Channels, TimeoutError(c) PROVE JobTypeOK'
    <2>1. <<c, current[c]>> \in Requests
      BY <1>3, RequestPair DEF TimeoutError, ChannelTypeOK, Numbers
    <2>2. main' = [pc |-> "page", req |-> <<c, current[c]>>]
      BY <1>3 DEF TimeoutError
    <2>3. main' \in [pc : MainPc, req : Requests \cup {None}]
      BY <2>1, <2>2 DEF MainPc
    <2>4. QED
      BY <1>3, <2>3 DEF TimeoutError
  <1>4. CASE TimeoutPage \/ TimeoutDone \/ TimeoutSend
    <2>1. main' \in [pc : MainPc, req : Requests \cup {None}]
      <3>1. CASE TimeoutPage \/ TimeoutDone
        <4>1. main' = [main EXCEPT !.pc = "done"] \/ main' = [main EXCEPT !.pc = "send"]
          BY <3>1 DEF TimeoutPage, TimeoutDone
        <4>2. QED
          BY <4>1 DEF MainPc
      <3>2. CASE TimeoutSend
        <4>1. main' = [pc |-> "loop", req |-> None]
          BY <3>2 DEF TimeoutSend
        <4>2. QED
          BY <4>1 DEF MainPc
      <3>3. QED
        BY <1>4, <3>1, <3>2
    <2>2. UNCHANGED <<queue, thr, thunks>>
      BY <1>4 DEF TimeoutPage, TimeoutDone, TimeoutSend
    <2>3. QED
      BY <2>1, <2>2
  <1>5. CASE RunThunk
    <2>1. thunks # <<>> /\ thunks' = Tail(thunks) /\ UNCHANGED <<queue, thr, main>>
      BY <1>5 DEF RunThunk
    <2>2. thunks' \in Seq(Thunk)
      BY <2>1, HeadTailProperties
    <2>3. QED
      BY <2>1, <2>2
  <1>6. ASSUME NEW t \in Threads, ThreadStep(t) PROVE JobTypeOK'
    <2> DEFINE s == thr[t]
    <2>0. s \in ThreadState /\ UNCHANGED main
      BY <1>6 DEF ThreadStep, GetJob, BeginJob, StartResponse, SetStatus, Content,
                  NextPart, PushPart, FinishJob, FailJob, threadRest
    <2>1. Idle \in ThreadState
      BY RequestCycleAssumption DEF Idle, ThreadState, ThreadPc
    <2>2. ASSUME NEW pc \in ThreadPc
          PROVE  [s EXCEPT !.pc = pc] \in ThreadState
      BY <2>0 DEF ThreadState
    <2>3. ASSUME UNCHANGED <<queue, thunks>>,
                 NEW q \in ThreadState, thr' = [thr EXCEPT ![t] = q]
          PROVE  JobTypeOK'
      BY <2>0, <2>3
    <2>4. CASE GetJob(t)
      <3>1. Head(queue) \in Requests /\ queue' \in Seq(Requests)
        BY <2>4, HeadTailProperties DEF GetJob
      <3> DEFINE q == [Idle EXCEPT !.pc = "begin", !.job = Head(queue)]
      <3>2. q \in ThreadState
        BY <2>1, <3>1 DEF ThreadState, ThreadPc
      <3>3. thr' = [thr EXCEPT ![t] = q] /\ UNCHANGED thunks
        BY <2>4 DEF GetJob
      <3> HIDE DEF q
      <3>4. QED
        BY <2>0, <3>1, <3>2, <3>3
    <2>5. CASE BeginJob(t) \/ StartResponse(t) \/ SetStatus(t)
      <3>1. /\ UNCHANGED <<queue, thunks>>
            /\ \/ thr' = [thr EXCEPT ![t] = Idle]
               \/ \E pc \in ThreadPc : thr' = [thr EXCEPT ![t] = [s EXCEPT !.pc = pc]]
        BY <2>5 DEF BeginJob, StartResponse, SetStatus, Goto, ThreadPc
      <3> HIDE DEF s
      <3>2. QED
        BY <2>1, <2>2, <2>3, <3>1
    <2>6. CASE Content(t)
      <3>1. ASSUME NEW k \in 0..MaxParts, NEW ret \in BOOLEAN
            PROVE  [s EXCEPT !.pc = "next", !.want = k, !.returned = ret] \in ThreadState
        BY <2>0 DEF ThreadState, ThreadPc
      <3>2. /\ UNCHANGED <<queue, thunks>>
            /\ \/ thr' = [thr EXCEPT ![t] = Idle]
               \/ thr' = [thr EXCEPT ![t] = [s EXCEPT !.pc = "fail"]]
               \/ \E k \in 0..MaxParts, ret \in BOOLEAN :
                    thr' = [thr EXCEPT ![t] =
                              [s EXCEPT !.pc = "next", !.want = k, !.returned = ret]]
        BY <2>6, ContentCases
      <3> HIDE DEF s
      <3>3. QED
        BY <2>1, <2>2, <2>3, <3>1, <3>2 DEF ThreadPc
    <2>7. CASE NextPart(t) \/ PushPart(t)
      <3>1. ASSUME s.at <= s.want
            PROVE  /\ [s EXCEPT !.at = s.at + 1] \in ThreadState
                   /\ [s EXCEPT !.pc = "next", !.at = s.at + 1] \in ThreadState
        <4>1. s.at \in 1..MaxParts + 1 /\ s.want \in 0..MaxParts
          BY <2>0 DEF ThreadState
        <4>2. s.at + 1 \in 1..MaxParts + 1 /\ "next" \in ThreadPc
          BY <3>1, <4>1, RequestCycleAssumption DEF ThreadPc
        <4>3. QED
          BY <2>0, <4>2 DEF ThreadState
      <3>2. /\ UNCHANGED <<queue, thunks>>
            /\ \/ \E pc \in ThreadPc : thr' = [thr EXCEPT ![t] = [s EXCEPT !.pc = pc]]
               \/ /\ s.at <= s.want
                  /\ \/ thr' = [thr EXCEPT ![t] = [s EXCEPT !.at = s.at + 1]]
                     \/ thr' = [thr EXCEPT ![t] = [s EXCEPT !.pc = "next", !.at = s.at + 1]]
        <4>1. s.at \in Int /\ s.want \in Int
          BY <2>0 DEF ThreadState
        <4>2. CASE NextPart(t)
          BY <4>1, <4>2 DEF NextPart, Goto, ThreadPc, AllPushed
        <4>3. CASE PushPart(t)
          BY <4>3 DEF PushPart, Holding
        <4>4. QED
          BY <2>7, <4>2, <4>3
      <3> HIDE DEF s
      <3>3. QED
        BY <2>2, <2>3, <3>1, <3>2
    <2>8. CASE FinishJob(t) \/ FailJob(t)
      <3>1. s.job \in Requests
        BY <2>8 DEF FinishJob, FailJob, Holding
      <3>2. PICK kind \in {"done", "error"} :
              thunks' = Append(thunks, [kind |-> kind, req |-> s.job])
        BY <2>8 DEF FinishJob, FailJob, Wakeup
      <3>3. [kind |-> kind, req |-> s.job] \in Thunk
        BY <3>1
      <3>4. thunks' \in Seq(Thunk)
        <4>1. thunks \in Seq(Thunk)
          OBVIOUS
        <4> HIDE DEF Thunk, s
        <4>2. QED
          BY <3>2, <3>3, <4>1, AppendProperties
      <3>5. thr' = [thr EXCEPT ![t] = Idle] /\ UNCHANGED queue
        BY <2>8 DEF FinishJob, FailJob
      <3>6. QED
        BY <2>0, <2>1, <3>4, <3>5
    <2>9. QED
      BY <1>6, <2>4, <2>5, <2>6, <2>7, <2>8 DEF ThreadStep
  <1>7. CASE UNCHANGED vars
    BY <1>7 DEF vars
  <1>8. QED
    BY <1>1, <1>2, <1>3, <1>4, <1>5, <1>6, <1>7 DEF Next, Client, Timeout, MainStep

\* Every step of the program preserves the types.
THEOREM TypeStep == TypeOK /\ Holding /\ [Next]_vars => TypeOK'
  BY NetTypeStep, ChannelTypeStep, WireTypeStep, RequestTypeStep, JobTypeStep DEF TypeOK

-----------------------------------------------------------------------------
(* What the actions do to the facts the invariant speaks of.               *)

\* A step that leaves alone which requests wait for an answer.
Quiet ==
    /\ UNCHANGED <<closed, current, collecting>>
    /\ \A r \in Requests : /\ req'[r].made = req[r].made
                           /\ req'[r].linked = req[r].linked
                           /\ req'[r].isDone = req[r].isDone

\* A thread at work changes no channel and no link of a request.
LEMMA ThreadIsQuiet ==
    ASSUME TypeOK, Holding, NEW t \in Threads, ThreadStep(t)
    PROVE  Quiet /\ UNCHANGED <<main, fifo, eof>>
  <1> USE DEF TypeOK, RequestTypeOK, Quiet
  <1>1. UNCHANGED <<main, closed, current, collecting, fifo, eof>>
    BY DEF ThreadStep, GetJob, BeginJob, StartResponse, SetStatus, Content,
           NextPart, PushPart, FinishJob, FailJob, threadRest, chanVars
  <1>2. CASE SetStatus(t) \/ Content(t) \/ PushPart(t)
    <2>1. thr[t].job \in Requests
      BY <1>2 DEF SetStatus, Content, PushPart, Holding
    <2>2. CASE SetStatus(t)
      BY <1>1, <2>1, <2>2 DEF SetStatus, Request
    <2>3. CASE Content(t)
      <3> DEFINE q == thr[t].job
      <3>1. req' = req \/ \E k : req' = [req EXCEPT ![q] = [req[q] EXCEPT !.want = k]]
        BY <2>3, ContentCases
      <3>2. req[q] \in Request
        BY <2>1
      <3> HIDE DEF q
      <3>3. QED
        BY <1>1, <2>1, <3>1, <3>2 DEF Request
    <2>4. CASE PushPart(t)
      BY <1>1, <2>1, <2>4 DEF PushPart, Request
    <2>5. QED
      BY <1>2, <2>2, <2>3, <2>4
  <1>3. CASE UNCHANGED req
    BY <1>1, <1>3
  <1>4. QED
    BY <1>2, <1>3 DEF ThreadStep, GetJob, BeginJob, StartResponse, NextPart, FinishJob, FailJob

\* Whatever a step does to a request's flags, it does to its channel too.
LEMMA CurrentIsPendingStep ==
    ASSUME IInv, [Next]_vars
    PROVE  CurrentIsPending'
  <1> USE DEF IInv, TypeOK, RequestTypeOK, ChannelTypeOK
  <1> SUFFICES ASSUME NEW c \in Channels, NEW n \in Numbers
               PROVE  current'[c] = n <=>
                        /\ req'[<<c, n>>].made /\ req'[<<c, n>>].linked
                        /\ \/ ~req'[<<c, n>>].isDone
                           \/ main'.pc = "send" /\ main'.req = <<c, n>>
    BY DEF CurrentIsPending
  <1> DEFINE r == <<c, n>>
             Goal == current'[c] = n <=>
                        /\ req'[r].made /\ req'[r].linked
                        /\ \/ ~req'[r].isDone
                           \/ main'.pc = "send" /\ main'.req = r
  <1>a. r \in Requests
    BY RequestPair
  <1>b. current[c] = n <=> /\ req[r].made /\ req[r].linked
                           /\ ~req[r].isDone \/ (main.pc = "send" /\ main.req = r)
    BY DEF CurrentIsPending
  <1>c. n # 0
    BY DEF Numbers
  <1>1. ASSUME Quiet, UNCHANGED main PROVE Goal
    BY <1>1, <1>a, <1>b DEF Quiet
  <1>2. ASSUME NEW d \in Channels, CloseChannel(d), InLoop, UNCHANGED main PROVE Goal
    <2>1. CASE c = d
      <3>1. current'[c] = 0
        BY <1>2, <2>1 DEF CloseChannel, DiscardBuffers
      <3>2. CASE current[c] = n
        BY <1>2, <1>a, <1>c, <2>1, <3>1, <3>2 DEF CloseChannel
      <3>3. CASE current[c] # n
        <4>1. req'[r] = req[r]
          BY <1>2, <1>a, <2>1, <3>3 DEF CloseChannel
        <4>2. QED
          BY <1>2, <1>b, <1>c, <3>1, <3>3, <4>1 DEF InLoop
      <3>4. QED
        BY <3>2, <3>3
    <2>2. CASE c # d
      <3>1. current'[c] = current[c] /\ req'[r] = req[r]
        BY <1>2, <1>a, <2>2 DEF CloseChannel, DiscardBuffers
      <3>2. QED
        BY <1>2, <1>b, <3>1
    <2>3. QED
      BY <2>1, <2>2
  <1>3. ASSUME NEW d \in Channels, Receive(d) PROVE Goal
    <2> DEFINE m == Head(inbuf[d])
    <2>0. m \in Datum /\ InLoop /\ UNCHANGED main
      BY <1>3, ReceiveCases
    <2>1. ASSUME current[d] = 0, m.num \in Numbers, HandleRequest(d, m.num, m.kind) PROVE Goal
      <3>2. m.num \in Numbers /\ <<d, m.num>> \in Requests
        BY <2>1, RequestPair
      <3>3. \/ \E code, aborts, jobs : Refuse(d, m.num, m.kind, code, aborts, jobs)
            \/ \E jobs : Make(d, m.num, m.kind, jobs)
        BY <2>1, HandleCases
      <3> HIDE DEF m
      <3>4. /\ current' = [current EXCEPT ![d] = 0] \/ current' = [current EXCEPT ![d] = m.num]
            /\ \A q \in Requests : q # <<d, m.num>> => req'[q] = req[q]
        <4>1. ASSUME NEW code, NEW aborts, NEW jobs,
                     Refuse(d, m.num, m.kind, code, aborts, jobs)
              PROVE  /\ current' = [current EXCEPT ![d] = 0]
                     /\ \A q \in Requests : q # <<d, m.num>> => req'[q] = req[q]
          BY <3>2, <4>1 DEF Refuse, AnswerOn
        <4>2. ASSUME NEW jobs, Make(d, m.num, m.kind, jobs)
              PROVE  /\ current' = [current EXCEPT ![d] = m.num]
                     /\ \A q \in Requests : q # <<d, m.num>> => req'[q] = req[q]
          BY <3>2, <4>2 DEF Make
        <4>3. QED
          BY <3>3, <4>1, <4>2
      <3>5. CASE r # <<d, m.num>>
        <4>1. req'[r] = req[r]
          BY <1>a, <3>4, <3>5
        <4>2. current'[c] = n <=> current[c] = n
          <5>1. CASE c # d
            BY <3>4, <5>1
          <5>2. CASE c = d
            <6>1. m.num # n
              BY <3>5, <5>2
            <6>2. QED
              BY <1>c, <2>1, <3>4, <5>2, <6>1
          <5>3. QED
            BY <5>1, <5>2
        <4>3. QED
          BY <1>b, <2>0, <4>1, <4>2
      <3>6. CASE r = <<d, m.num>>
        <4>0. c = d /\ n = m.num
          BY <3>6
        <4>1. ASSUME NEW jobs, Make(d, m.num, m.kind, jobs) PROVE Goal
          BY <1>a, <4>0, <4>1 DEF Make, Unmade
        <4>2. ASSUME NEW code, NEW aborts, NEW jobs,
                     Refuse(d, m.num, m.kind, code, aborts, jobs)
              PROVE  Goal
          BY <1>a, <1>c, <2>0, <4>0, <4>2 DEF Refuse, AnswerOn, InLoop
        <4>3. QED
          BY <3>3, <4>1, <4>2
      <3>7. QED
        BY <3>5, <3>6
    <2>2. CASE CloseChannel(d)
      BY <1>2, <2>0, <2>2
    <2>3. CASE current[d] # 0 /\ Enqueue(d)
      BY <1>a, <1>b, <2>0, <2>3, EnqueueFields
    <2>4. CASE current[d] # 0 /\ NotContinued(d)
      <3> DEFINE q == <<d, current[d]>>
      <3>1. q \in Requests /\ req' = Failed(q) /\ current' = [current EXCEPT ![d] = 0]
        BY <2>4, RequestPair DEF NotContinued, AnswerOn, Numbers
      <3>2. CASE r = q
        BY <1>c, <2>0, <3>1, <3>2, FailedFields DEF InLoop
      <3>3. CASE r # q
        <4>1. req'[r] = req[r]
          BY <1>a, <3>1, <3>3, FailedFields
        <4>2. current'[c] = n <=> current[c] = n
          BY <1>c, <3>1, <3>3
        <4>3. QED
          BY <1>b, <2>0, <4>1, <4>2
      <3>4. QED
        BY <3>2, <3>3
    <2>5. CASE CloseWhenDone(d) \/ UNCHANGED <<chanVars, req, queue>>
      BY <1>b, <2>0, <2>5 DEF CloseWhenDone, chanVars
    <2>6. QED
      BY <1>3, <2>1, <2>2, <2>3, <2>4, <2>5, ReceiveCases
  <1>4. ASSUME NEW d \in Channels, Disconnect(d) \/ TimeoutIdle(d) PROVE Goal
    BY <1>2, <1>4 DEF Disconnect, TimeoutIdle
  <1>5. ASSUME NEW d \in Channels, Flush(d) PROVE Goal
    <2>1. InLoop /\ UNCHANGED main
      BY <1>5 DEF Flush
    <2>2. CASE CloseChannel(d)
      BY <1>2, <2>1, <2>2
    <2>3. CASE UNCHANGED <<current, req>>
      BY <1>b, <2>1, <2>3
    <2>4. QED
      BY <1>5, <2>2, <2>3 DEF Flush
  <1>6. ASSUME NEW d \in Channels, ClientSend(d) \/ ClientBlank(d) \/ TimeoutError(d)
        PROVE  Goal
    <2>1. CASE ClientSend(d) \/ ClientBlank(d)
      BY <1>b, <2>1 DEF ClientSend, ClientBlank, chanVars
    <2>2. CASE TimeoutError(d)
      <3>1. current' = current /\ main.pc = "loop" /\ main'.pc = "page"
        BY <2>2 DEF TimeoutError, InLoop, chanVars
      <3>2. /\ req'[r].made = req[r].made /\ req'[r].linked = req[r].linked
            /\ req'[r].isDone = req[r].isDone
        BY <1>a, <2>2 DEF TimeoutError, Request
      <3>3. QED
        BY <1>b, <3>1, <3>2
    <2>3. QED
      BY <1>6, <2>1, <2>2
  <1>7. CASE TimeoutPage
    <2>1. current' = current /\ main.pc = "page" /\ main'.pc = "done"
      BY <1>7 DEF TimeoutPage, chanVars, JobTypeOK
    <2>2. /\ req'[r].made = req[r].made /\ req'[r].linked = req[r].linked
          /\ req'[r].isDone = req[r].isDone
      BY <1>a, <1>7 DEF TimeoutPage, Request
    <2>3. QED
      BY <1>b, <2>1, <2>2
  <1>8. CASE TimeoutDone
    <2>1. /\ current' = current /\ main.pc = "done" /\ main'.pc = "send"
          /\ main'.req = main.req /\ main.req \in Requests
          /\ current[main.req[1]] = main.req[2]
      BY <1>8 DEF TimeoutDone, chanVars, JobTypeOK, Holding
    <2>2. /\ req'[r].made = req[r].made /\ req'[r].linked = req[r].linked
          /\ r # main.req => req'[r].isDone = req[r].isDone
      BY <1>a, <1>8 DEF TimeoutDone, Request
    <2>3. CASE r = main.req
      BY <1>b, <2>1, <2>2, <2>3
    <2>4. CASE r # main.req
      BY <1>b, <2>1, <2>2, <2>4
    <2>5. QED
      BY <2>3, <2>4
  <1>9. CASE TimeoutSend
    <2>1. /\ main.pc = "send" /\ main'.pc = "loop" /\ main.req \in Requests
          /\ current[main.req[1]] = main.req[2] /\ req[main.req].isDone
          /\ current' = [current EXCEPT ![main.req[1]] = 0] /\ req' = req
      BY <1>9 DEF TimeoutSend, AnswerOn, Holding
    <2>2. main.req[1] \in Channels /\ main.req = <<main.req[1], main.req[2]>>
      BY <2>1, RequestParts
    <2>3. CASE c = main.req[1]
      BY <1>b, <1>c, <2>1, <2>2, <2>3
    <2>4. CASE c # main.req[1]
      BY <1>b, <2>1, <2>2, <2>4
    <2>5. QED
      BY <2>3, <2>4
  <1>10. CASE RunThunk
    <2> DEFINE q == Head(thunks).req
    <2>1. q \in Requests /\ main.pc = "loop" /\ main' = main
      <3>1. Head(thunks) \in [kind : {"done", "error"}, req : Requests]
        BY <1>10, HeadTailProperties DEF RunThunk, JobTypeOK
      <3>2. QED
        BY <1>10, <3>1 DEF RunThunk, InLoop
    <2>2. q[1] \in Channels /\ q[2] \in Numbers /\ q = <<q[1], q[2]>>
      BY <2>1, RequestParts
    <2>3. CASE req[q].isDone
      BY <1>10, <1>b, <2>1, <2>3 DEF RunThunk, Responsable, chanVars
    <2>4. CASE ~req[q].isDone
      <3>1. /\ \A p \in Requests : p # q => req'[p] = req[p]
            /\ req'[q].isDone
            /\ IF req[q].linked THEN current' = [current EXCEPT ![q[1]] = 0]
               ELSE current' = current /\ req'[q].linked = req[q].linked
        <4>1. req' = [req EXCEPT ![q] = [req[q] EXCEPT !.isDone = TRUE]] \/ req' = Failed(q)
          BY <1>10, <2>1, <2>4 DEF RunThunk, Responsable
        <4>2. IF req[q].linked THEN current' = [current EXCEPT ![q[1]] = 0]
              ELSE current' = current
          BY <1>10, <2>1, <2>4 DEF RunThunk, Responsable, AnswerOn
        <4> HIDE DEF q
        <4>3. req[q] \in Request
          BY <2>1
        <4>4. /\ \A p \in Requests : p # q => req'[p] = req[p]
              /\ req'[q].isDone /\ req'[q].linked = req[q].linked
          <5>1. CASE req' = [req EXCEPT ![q] = [req[q] EXCEPT !.isDone = TRUE]]
            BY <2>1, <4>3, <5>1 DEF Request
          <5>2. CASE req' = Failed(q)
            BY <2>1, <5>2, FailedFields
          <5>3. QED
            BY <4>1, <5>1, <5>2
        <4>5. QED
          BY <4>2, <4>4
      <3>2. req[q].linked => current[q[1]] = q[2]
        <4> HIDE DEF q
        <4>1. current[q[1]] = q[2] <=>
                /\ req[<<q[1], q[2]>>].made /\ req[<<q[1], q[2]>>].linked
                /\ \/ ~req[<<q[1], q[2]>>].isDone
                   \/ main.pc = "send" /\ main.req = <<q[1], q[2]>>
          BY <2>2 DEF CurrentIsPending
        <4>2. QED
          BY <2>1, <2>2, <2>4, <4>1 DEF Linking
      <3> HIDE DEF q
      <3>3. CASE r = q
        <4>1. c = q[1] /\ n = q[2]
          BY <2>2, <3>3
        <4>2. QED
          BY <1>b, <1>c, <2>1, <2>2, <3>1, <3>3, <4>1
      <3>4. CASE r # q
        <4>1. req'[r] = req[r]
          BY <1>a, <3>1, <3>4
        <4>2. current'[c] = n <=> current[c] = n
          BY <1>c, <2>2, <3>1, <3>2, <3>4
        <4>3. QED
          BY <1>b, <2>1, <4>1, <4>2
      <3>5. QED
        BY <3>3, <3>4
    <2>5. QED
      BY <2>3, <2>4
  <1>11. ASSUME NEW t \in Threads, ThreadStep(t) PROVE Goal
    BY <1>1, <1>11, ThreadIsQuiet
  <1>12. CASE UNCHANGED vars
    BY <1>b, <1>12 DEF vars
  <1>13. QED
    BY <1>3, <1>4, <1>5, <1>6, <1>7, <1>8, <1>9, <1>10, <1>11, <1>12
       DEF Next, Client, Timeout, MainStep

\* A thread and the timeout go on holding the request they work on.
LEMMA HoldingStep ==
    ASSUME IInv, [Next]_vars
    PROVE  Holding'
  <1> USE DEF IInv, TypeOK, ChannelTypeOK
  <1>t. DEFINE ThreadsHold == \A t \in Threads :
                  /\ thr[t].pc # "idle" => thr[t].job \in Requests
                  /\ thr[t].pc = "push" => thr[t].at <= thr[t].want
               MainHolds == main.pc # "loop" =>
                  /\ main.req \in Requests
                  /\ current[main.req[1]] = main.req[2]
                  /\ main.pc = "send" => req[main.req].isDone
  <1>d. Holding <=> ThreadsHold /\ MainHolds
    BY DEF Holding
  <1>e. Holding' <=> ThreadsHold' /\ MainHolds'
    BY DEF Holding
  <1>1. ASSUME InLoop, UNCHANGED <<main, thr>> PROVE Holding'
    <2>1. MainHolds'
      BY <1>1 DEF InLoop
    <2>2. ThreadsHold'
      BY <1>1, <1>d
    <2>3. QED
      BY <1>e, <2>1, <2>2
  <1>2. ASSUME NEW c \in Channels, Receive(c) \/ Disconnect(c) \/ Flush(c) \/ TimeoutIdle(c)
        PROVE  Holding'
    BY <1>1, <1>2 DEF Receive, Disconnect, Flush, TimeoutIdle
  <1>3. ASSUME NEW c \in Channels, ClientSend(c) \/ ClientBlank(c) PROVE Holding'
    BY <1>3 DEF ClientSend, ClientBlank, Holding, chanVars
  <1>4. ASSUME NEW c \in Channels, TimeoutError(c) PROVE Holding'
    <2>1. <<c, current[c]>> \in Requests
      BY <1>4, RequestPair DEF TimeoutError, Numbers
    <2>2. main' = [pc |-> "page", req |-> <<c, current[c]>>] /\ UNCHANGED <<thr, current>>
      BY <1>4 DEF TimeoutError, chanVars
    <2>3. MainHolds'
      BY <2>1, <2>2
    <2>4. ThreadsHold'
      BY <1>d, <2>2
    <2>5. QED
      BY <1>e, <2>3, <2>4
  <1>5. CASE TimeoutPage
    <2>1. /\ main'.pc = "done" /\ main'.req = main.req /\ main.pc # "loop"
          /\ UNCHANGED <<thr, current>>
      BY <1>5 DEF TimeoutPage, chanVars, JobTypeOK
    <2>2. QED
      BY <1>d, <1>e, <2>1
  <1>6. CASE TimeoutDone
    <2>1. /\ main'.pc = "send" /\ main'.req = main.req /\ main.pc # "loop"
          /\ UNCHANGED <<thr, current>>
      BY <1>6 DEF TimeoutDone, chanVars, JobTypeOK
    <2>2. main.req \in Requests
      BY <1>d, <2>1
    <2>3. req'[main.req].isDone
      BY <1>6, <2>2 DEF TimeoutDone, RequestTypeOK, Request
    <2>4. QED
      BY <1>d, <1>e, <2>1, <2>3
  <1>7. CASE TimeoutSend
    <2>1. main'.pc = "loop" /\ UNCHANGED thr
      BY <1>7 DEF TimeoutSend
    <2>2. QED
      BY <1>d, <1>e, <2>1
  <1>8. CASE RunThunk
    BY <1>1, <1>8 DEF RunThunk
  <1>9. ASSUME NEW t \in Threads, ThreadStep(t) PROVE Holding'
    <2>1. Quiet /\ UNCHANGED main
      BY <1>9, ThreadIsQuiet
    <2>2. MainHolds'
      BY <1>d, <2>1 DEF Quiet
    <2>3. ASSUME NEW u \in Threads, u # t PROVE thr'[u] = thr[u]
      BY <1>9, <2>3 DEF ThreadStep, GetJob, BeginJob, StartResponse, SetStatus, Content,
           NextPart, PushPart, FinishJob, FailJob, Goto, JobTypeOK
    <2>4. /\ thr'[t].pc # "idle" => thr'[t].job \in Requests
          /\ thr'[t].pc = "push" => thr'[t].at <= thr'[t].want
      <3>0. thr[t] \in ThreadState /\ thr \in [Threads -> ThreadState]
        BY DEF JobTypeOK
      <3>j. thr[t].pc # "idle" => thr[t].job \in Requests
        BY <1>d
      <3> HIDE DEF ThreadsHold, MainHolds
      <3>1. CASE GetJob(t)
        <4>1. Head(queue) \in Requests
          BY <3>1, HeadTailProperties DEF GetJob, JobTypeOK
        <4>2. QED
          BY <3>0, <3>1, <4>1 DEF GetJob
      <3>2. CASE BeginJob(t) \/ StartResponse(t) \/ SetStatus(t)
        <4>1. thr[t].pc # "idle" /\ thr[t].job \in Requests
          BY <3>2, <3>j DEF BeginJob, StartResponse, SetStatus
        <4>2. \/ thr'[t] = Idle
              \/ thr'[t] = [thr[t] EXCEPT !.pc = "start"]
              \/ thr'[t] = [thr[t] EXCEPT !.pc = "status"]
              \/ thr'[t] = [thr[t] EXCEPT !.pc = "content"]
          BY <3>0, <3>2 DEF BeginJob, StartResponse, SetStatus, Goto
        <4>3. \/ thr'[t].pc = "idle"
              \/ thr'[t].pc \in {"start", "status", "content"} /\ thr'[t].job = thr[t].job
          <5>1. CASE thr'[t] = Idle
            BY <5>1 DEF Idle
          <5>2. CASE thr'[t] = [thr[t] EXCEPT !.pc = "start"]
            BY <3>0, <5>2 DEF ThreadState
          <5>3. CASE thr'[t] = [thr[t] EXCEPT !.pc = "status"]
            BY <3>0, <5>3 DEF ThreadState
          <5>4. CASE thr'[t] = [thr[t] EXCEPT !.pc = "content"]
            BY <3>0, <5>4 DEF ThreadState
          <5>5. QED
            BY <4>2, <5>1, <5>2, <5>3, <5>4
        <4>4. QED
          BY <4>1, <4>3
      <3>3. CASE Content(t)
        <4>1. thr[t].job \in Requests
          BY <3>j, <3>3 DEF Content
        <4>2. \/ thr'[t] = Idle
              \/ thr'[t] = [thr[t] EXCEPT !.pc = "fail"]
              \/ \E k \in 0..MaxParts, ret \in BOOLEAN :
                   thr'[t] = [thr[t] EXCEPT !.pc = "next", !.want = k, !.returned = ret]
          <5>1. \/ thr' = [thr EXCEPT ![t] = Idle]
                \/ thr' = [thr EXCEPT ![t] = [thr[t] EXCEPT !.pc = "fail"]]
                \/ \E k \in 0..MaxParts, ret \in BOOLEAN :
                     thr' = [thr EXCEPT ![t] =
                               [thr[t] EXCEPT !.pc = "next", !.want = k, !.returned = ret]]
            BY <3>3, ContentCases DEF Holding
          <5>2. \A s : thr' = [thr EXCEPT ![t] = s] => thr'[t] = s
            BY <3>0
          <5>3. QED
            BY <5>1, <5>2
        <4>3. \/ thr'[t].pc = "idle"
              \/ thr'[t].pc \in {"fail", "next"} /\ thr'[t].job = thr[t].job
          <5>1. CASE thr'[t] = Idle
            BY <5>1 DEF Idle
          <5>2. CASE thr'[t] = [thr[t] EXCEPT !.pc = "fail"]
            BY <3>0, <5>2 DEF ThreadState
          <5>3. ASSUME NEW k, NEW ret,
                       thr'[t] = [thr[t] EXCEPT !.pc = "next", !.want = k, !.returned = ret]
                PROVE  thr'[t].pc = "next" /\ thr'[t].job = thr[t].job
            BY <3>0, <5>3 DEF ThreadState
          <5>4. QED
            BY <4>2, <5>1, <5>2, <5>3
        <4>4. QED
          BY <4>1, <4>3
      <3>4. CASE NextPart(t)
        <4>1. thr[t].job \in Requests
          BY <3>j, <3>4 DEF NextPart
        <4>2. \/ thr'[t] = [thr[t] EXCEPT !.pc = "finish"]
              \/ thr'[t] = [thr[t] EXCEPT !.pc = "content"]
              \/ /\ ~AllPushed(t)
                 /\ thr'[t] = [thr[t] EXCEPT !.pc = "push"]
              \/ /\ thr[t].pc = "next"
                 /\ thr'[t] = [thr[t] EXCEPT !.at = thr[t].at + 1]
          BY <3>0, <3>4 DEF NextPart, Goto
        <4>3. thr[t].at \in Int /\ thr[t].want \in Int
          BY <3>0, RequestCycleAssumption DEF ThreadState
        <4>4. /\ thr'[t].job = thr[t].job
              /\ \/ thr'[t].pc \in {"finish", "content", "next"}
                 \/ ~AllPushed(t) /\ thr'[t].at = thr[t].at /\ thr'[t].want = thr[t].want
          BY <3>0, <4>2 DEF ThreadState
        <4>5. QED
          BY <4>1, <4>3, <4>4 DEF AllPushed
      <3>5. CASE PushPart(t)
        <4>1. thr[t].job \in Requests
          BY <3>j, <3>5 DEF PushPart
        <4>2. thr'[t] = [thr[t] EXCEPT !.pc = "next", !.at = thr[t].at + 1]
          BY <3>0, <3>5 DEF PushPart
        <4>3. QED
          BY <3>0, <4>1, <4>2 DEF ThreadState
      <3>6. CASE FinishJob(t) \/ FailJob(t)
        BY <3>0, <3>6 DEF FinishJob, FailJob, Idle
      <3>7. QED
        BY <1>9, <3>1, <3>2, <3>3, <3>4, <3>5, <3>6 DEF ThreadStep
    <2>5. ThreadsHold'
      BY <1>d, <2>3, <2>4
    <2>6. QED
      BY <1>e, <2>2, <2>5
  <1>10. CASE UNCHANGED vars
    BY <1>10 DEF vars, Holding
  <1>11. QED
    BY <1>2, <1>3, <1>4, <1>5, <1>6, <1>7, <1>8, <1>9, <1>10
       DEF Next, Client, Timeout, MainStep

\* Closing a channel takes its link from every request it had.
LEMMA CloseChannelLinks ==
    ASSUME IInv, NEW c \in Channels, CloseChannel(c)
    PROVE  Linking' /\ ClosedIsFinal'
  <1> USE DEF IInv, TypeOK, ChannelTypeOK, RequestTypeOK
  <1>1. ClosedIsFinal'
    BY DEF CloseChannel, DiscardBuffers, ClosedIsFinal
  <1>2. \A r \in Requests : req'[r].made = req[r].made /\ (req'[r].linked => req[r].linked)
    BY DEF CloseChannel, Request
  <1>3. Linking'
    BY <1>2 DEF Linking
  <1>4. QED
    BY <1>1, <1>3

\* A request is linked to a channel only after it was made.
LEMMA LinkingStep ==
    ASSUME IInv, [Next]_vars
    PROVE  Linking'
  <1> USE DEF IInv, TypeOK, RequestTypeOK
  <1>1. ASSUME \A r \in Requests : /\ req'[r].made = req[r].made
                                   /\ req'[r].linked = req[r].linked
        PROVE  Linking'
    BY <1>1 DEF Linking
  <1>2. ASSUME NEW c \in Channels, Receive(c) PROVE Linking'
    <2> DEFINE m == Head(inbuf[c])
    <2>2. CASE CloseChannel(c)
      BY <2>2, CloseChannelLinks
    <2>3. CASE UNCHANGED req
      BY <1>1, <2>3
    <2>4. ASSUME m.num \in Numbers, HandleRequest(c, m.num, m.kind) PROVE Linking'
      <3>1. <<c, m.num>> \in Requests
        BY <2>4, RequestPair
      <3> HIDE DEF m
      <3>2. ASSUME NEW code, NEW aborts, NEW jobs, Refuse(c, m.num, m.kind, code, aborts, jobs)
            PROVE  /\ \A r \in Requests : r # <<c, m.num>> => req'[r] = req[r]
                   /\ req'[<<c, m.num>>].made
        BY <3>1, <3>2 DEF Refuse
      <3>3. ASSUME NEW jobs, Make(c, m.num, m.kind, jobs)
            PROVE  /\ \A r \in Requests : r # <<c, m.num>> => req'[r] = req[r]
                   /\ req'[<<c, m.num>>].made
        BY <3>1, <3>3 DEF Make, Unmade
      <3>4. QED
        BY <2>4, <3>2, <3>3, HandleCases DEF Linking
    <2>5. CASE current[c] # 0 /\ Enqueue(c)
      BY <1>1, <2>5, EnqueueFields
    <2>6. CASE current[c] # 0 /\ NotContinued(c)
      <3>1. <<c, current[c]>> \in Requests
        BY <2>6, RequestPair DEF ChannelTypeOK, Numbers
      <3>2. QED
        BY <1>1, <2>6, <3>1, FailedFields DEF NotContinued
    <2>7. QED
      BY <1>2, <2>2, <2>3, <2>4, <2>5, <2>6, ReceiveCases DEF CloseWhenDone
  <1>3. ASSUME NEW c \in Channels, Disconnect(c) \/ TimeoutIdle(c) \/ Flush(c) PROVE Linking'
    BY <1>1, <1>3, CloseChannelLinks DEF Disconnect, TimeoutIdle, Flush
  <1>4. ASSUME NEW c \in Channels, TimeoutError(c) PROVE Linking'
    BY <1>1, <1>4 DEF TimeoutError, Request
  <1>5. CASE TimeoutPage
    BY <1>1, <1>5 DEF TimeoutPage, Request
  <1>6. CASE TimeoutDone
    BY <1>1, <1>6 DEF TimeoutDone, Request
  <1>7. CASE RunThunk
    <2> DEFINE q == Head(thunks).req
    <2>1. /\ q \in Requests
          /\ \/ UNCHANGED req
             \/ req' = [req EXCEPT ![q] = [req[q] EXCEPT !.isDone = TRUE]]
             \/ req' = Failed(q)
      <3>1. Head(thunks) \in [kind : {"done", "error"}, req : Requests]
        BY <1>7, HeadTailProperties DEF RunThunk, JobTypeOK
      <3>2. QED
        BY <1>7, <3>1 DEF RunThunk
    <2> HIDE DEF q
    <2>2. CASE UNCHANGED req
      BY <1>1, <2>2
    <2>3. CASE req' = [req EXCEPT ![q] = [req[q] EXCEPT !.isDone = TRUE]]
      BY <1>1, <2>3 DEF Request
    <2>4. CASE req' = Failed(q)
      BY <1>1, <2>1, <2>4, FailedFields
    <2>5. QED
      BY <2>1, <2>2, <2>3, <2>4
  <1>8. CASE TimeoutSend
    BY <1>1, <1>8 DEF TimeoutSend
  <1>9. ASSUME NEW t \in Threads, ThreadStep(t) PROVE Linking'
    BY <1>1, <1>9, ThreadIsQuiet DEF Quiet
  <1>10. ASSUME NEW c \in Channels, ClientSend(c) \/ ClientBlank(c) PROVE Linking'
    BY <1>1, <1>10 DEF ClientSend, ClientBlank
  <1>11. CASE UNCHANGED vars
    BY <1>1, <1>11 DEF vars
  <1>12. QED
    BY <1>2, <1>3, <1>4, <1>5, <1>6, <1>7, <1>8, <1>9, <1>10, <1>11
       DEF Next, Client, Timeout, MainStep

\* An answer is only ever put on an open channel.
LEMMA AnswerOnOpen ==
    ASSUME IInv, NEW c \in Channels, NEW n, NEW close, AnswerOn(c, n, close),
           ~closed[c], UNCHANGED closed,
           \A d \in Channels : collecting'[d] => collecting[d]
    PROVE  ClosedIsFinal'
  BY DEF IInv, TypeOK, ChannelTypeOK, ClosedIsFinal, AnswerOn, PushAnswer

\* Nothing gives a closed channel a request or an answer again.
LEMMA ClosedIsFinalStep ==
    ASSUME IInv, [Next]_vars
    PROVE  ClosedIsFinal'
  <1> USE DEF IInv, TypeOK, ChannelTypeOK
  <1>1. ASSUME UNCHANGED <<closed, current, collecting, fifo>> PROVE ClosedIsFinal'
    BY <1>1 DEF ClosedIsFinal
  <1>2. ASSUME NEW c \in Channels, Receive(c) PROVE ClosedIsFinal'
    <2> DEFINE m == Head(inbuf[c])
    <2>0. ~closed[c]
      BY <1>2 DEF Receive
    <2>1. CASE CloseChannel(c)
      BY <2>1, CloseChannelLinks
    <2>2. CASE UNCHANGED chanVars
      BY <1>1, <2>2 DEF chanVars
    <2>3. CASE current[c] # 0 /\ Enqueue(c)
      BY <2>0, <2>3 DEF Enqueue, ClosedIsFinal
    <2>4. CASE NotContinued(c)
      BY <2>0, <2>4, AnswerOnOpen DEF NotContinued
    <2>5. CASE HandleRequest(c, m.num, m.kind) /\ UNCHANGED closed
      <3> HIDE DEF m
      <3>1. ASSUME NEW code, NEW aborts \in BOOLEAN, NEW jobs,
                   Refuse(c, m.num, m.kind, code, aborts, jobs)
            PROVE  ClosedIsFinal'
        <4>1. UNCHANGED collecting /\ \E close \in BOOLEAN : AnswerOn(c, m.num, close)
          BY <3>1 DEF Refuse
        <4>2. QED
          BY <2>0, <2>5, <4>1, AnswerOnOpen
      <3>2. ASSUME NEW jobs, Make(c, m.num, m.kind, jobs),
                   collecting' = collecting \/ collecting' = [collecting EXCEPT ![c] = TRUE]
            PROVE  ClosedIsFinal'
        BY <2>0, <2>5, <3>2 DEF Make, ClosedIsFinal
      <3>3. \/ \E code \in {"error", "busy"}, aborts \in BOOLEAN, jobs \in {0, 1} :
                 Refuse(c, m.num, m.kind, code, aborts, jobs)
            \/ Make(c, m.num, m.kind, 1) /\ collecting' = collecting
            \/ Make(c, m.num, m.kind, 0) /\ collecting' = [collecting EXCEPT ![c] = TRUE]
        BY <2>5, HandleCases
      <3>4. QED
        BY <3>1, <3>2, <3>3
    <2>6. CASE CloseWhenDone(c)
      BY <1>1, <2>6 DEF CloseWhenDone
    <2>7. QED
      BY <1>2, <2>1, <2>2, <2>3, <2>4, <2>5, <2>6, ReceiveCases
  <1>3. ASSUME NEW c \in Channels, Disconnect(c) \/ TimeoutIdle(c) PROVE ClosedIsFinal'
    BY <1>3, CloseChannelLinks DEF Disconnect, TimeoutIdle
  <1>4. ASSUME NEW c \in Channels, Flush(c) PROVE ClosedIsFinal'
    <2>1. CASE CloseChannel(c)
      BY <2>1, CloseChannelLinks
    <2>2. CASE /\ ~closed[c] /\ fifo' = [fifo EXCEPT ![c] = Tail(fifo[c])]
               /\ UNCHANGED <<closed, current, collecting>>
      BY <2>2 DEF ClosedIsFinal
    <2>3. QED
      BY <1>4, <2>1, <2>2 DEF Flush
  <1>5. CASE TimeoutSend
    <2>1. /\ main.req[1] \in Channels /\ main.req[2] \in Numbers
          /\ current[main.req[1]] = main.req[2]
      BY <1>5, RequestParts DEF TimeoutSend, Holding
    <2>2. ~closed[main.req[1]]
      BY <2>1 DEF ClosedIsFinal, Numbers
    <2>3. \A d \in Channels : collecting'[d] => collecting[d]
      BY <1>5, <2>1 DEF TimeoutSend
    <2>4. QED
      BY <1>5, <2>1, <2>2, <2>3, AnswerOnOpen DEF TimeoutSend
  <1>6. CASE RunThunk
    <2> DEFINE q == Head(thunks).req
    <2>1. q \in Requests /\ main.pc = "loop"
      <3>1. Head(thunks) \in [kind : {"done", "error"}, req : Requests]
        BY <1>6, HeadTailProperties DEF RunThunk, JobTypeOK
      <3>2. QED
        BY <1>6, <3>1 DEF RunThunk, InLoop
    <2> HIDE DEF q
    <2>2. q[1] \in Channels /\ q[2] \in Numbers /\ q = <<q[1], q[2]>>
      BY <2>1, RequestParts
    <2>3. CASE ~req[q].isDone /\ req[q].linked
      <3>1. req[q].made
        BY <2>1, <2>3 DEF Linking
      <3>2. current[q[1]] = q[2]
        <4>1. current[q[1]] = q[2] <=>
                /\ req[<<q[1], q[2]>>].made /\ req[<<q[1], q[2]>>].linked
                /\ \/ ~req[<<q[1], q[2]>>].isDone
                   \/ main.pc = "send" /\ main.req = <<q[1], q[2]>>
          BY <2>2 DEF CurrentIsPending
        <4>2. QED
          BY <2>2, <2>3, <3>1, <4>1
      <3>3. ~closed[q[1]]
        BY <2>2, <3>2 DEF ClosedIsFinal, Numbers
      <3>4. /\ \E close \in BOOLEAN : AnswerOn(q[1], q[2], close)
            /\ UNCHANGED <<closed, collecting>>
        BY <1>6, <2>3 DEF RunThunk, Responsable, q
      <3>5. QED
        BY <2>2, <3>3, <3>4, AnswerOnOpen
    <2>4. CASE req[q].isDone \/ ~req[q].linked
      BY <1>1, <1>6, <2>4 DEF RunThunk, Responsable, chanVars, q
    <2>5. QED
      BY <2>3, <2>4
  <1>7. CASE TimeoutPage \/ TimeoutDone
    BY <1>1, <1>7 DEF TimeoutPage, TimeoutDone, chanVars
  <1>8. ASSUME NEW c \in Channels, ClientSend(c) \/ ClientBlank(c) \/ TimeoutError(c)
        PROVE  ClosedIsFinal'
    BY <1>1, <1>8 DEF ClientSend, ClientBlank, TimeoutError, chanVars
  <1>9. ASSUME NEW t \in Threads, ThreadStep(t) PROVE ClosedIsFinal'
    BY <1>1, <1>9, ThreadIsQuiet DEF Quiet
  <1>10. CASE UNCHANGED vars
    BY <1>1, <1>10 DEF vars
  <1>11. QED
    BY <1>2, <1>3, <1>4, <1>5, <1>6, <1>7, <1>8, <1>9, <1>10
       DEF Next, Client, Timeout, MainStep

-----------------------------------------------------------------------------
(* The theorems.                                                           *)

\* The inductive invariant holds throughout.
THEOREM Invariant == Spec => []IInv
  <1>1. Init => IInv
    BY InitIInv
  <1>2. IInv /\ [Next]_vars => IInv'
    BY TypeStep, HoldingStep, LinkingStep, CurrentIsPendingStep, ClosedIsFinalStep DEF IInv
  <1>3. QED
    BY <1>1, <1>2, PTL DEF Spec

\* Every variable keeps its shape, for any number of channels and threads.
THEOREM TypeCorrect == Spec => []TypeOK
  <1>1. IInv => TypeOK
    BY DEF IInv
  <1>2. QED
    BY <1>1, Invariant, PTL

\* A channel and the request it waits for always know each other, whatever
\* the threads, the timeouts and the client do meanwhile.
THEOREM ChannelAndRequestAgree == Spec => []CurrentIsPending
  <1>1. IInv => CurrentIsPending
    BY DEF IInv
  <1>2. QED
    BY <1>1, Invariant, PTL

\* No late thunk, thread or timeout ever revives a closed channel.
THEOREM ClosingIsFinal == Spec => []ClosedIsFinal
  <1>1. IInv => ClosedIsFinal
    BY DEF IInv
  <1>2. QED
    BY <1>1, Invariant, PTL

-----------------------------------------------------------------------------
(* The refinement of ConnectionContract.                                   *)

\* What a connection has taken is behind everything it has yet to read, and
\* the requests it has yet to read are in the order in which they were sent.
Ahead ==
    \A c \in Channels :
        /\ \A m \in Numbers : req[<<c, m>>].made => m <= sent[c]
        /\ \A j \in 1..Len(inbuf[c]) :
             /\ inbuf[c][j].num <= sent[c]
             /\ inbuf[c][j].part = "head" =>
                  /\ \A m \in Numbers : req[<<c, m>>].made => m < inbuf[c][j].num
                  /\ \A i \in 1..Len(inbuf[c]) : i < j => inbuf[c][i].num < inbuf[c][j].num

\* What a step of the server is to the client of a connection.
NothingMade == \A r \in Requests : req'[r].made = req[r].made
Unseen == NothingMade /\ UNCHANGED <<closed, current, fifo, wire>>
Takes(c) ==
    /\ ~closed[c] /\ current[c] = 0
    /\ inbuf[c] # <<>> /\ Head(inbuf[c]).part = "head"
    /\ inbuf' = [inbuf EXCEPT ![c] = Tail(inbuf[c])]
    /\ LET n == Head(inbuf[c]).num IN
       /\ \A r \in Requests : req'[r].made = (req[r].made \/ r = <<c, n>>)
       /\ \/ current' = [current EXCEPT ![c] = n] /\ fifo' = fifo
          \/ current' = current /\ fifo' = [fifo EXCEPT ![c] = Append(fifo[c], n)]
    /\ UNCHANGED <<closed, wire, sent>>
Answers(c) ==
    /\ ~closed[c] /\ current[c] # 0 /\ NothingMade
    /\ fifo' = [fifo EXCEPT ![c] = Append(fifo[c], current[c])]
    /\ current' = [current EXCEPT ![c] = 0]
    /\ UNCHANGED <<closed, wire>>
Delivers(c) ==
    /\ ~closed[c] /\ fifo[c] # <<>> /\ NothingMade
    /\ fifo' = [fifo EXCEPT ![c] = Tail(fifo[c])]
    /\ \E a \in Answer : a.num = Head(fifo[c]) /\ wire' = [wire EXCEPT ![c] = Append(wire[c], a)]
    /\ UNCHANGED <<closed, current>>
Closes(c) ==
    /\ ~closed[c] /\ NothingMade
    /\ closed' = [closed EXCEPT ![c] = TRUE]
    /\ current' = [current EXCEPT ![c] = 0]
    /\ fifo' = [fifo EXCEPT ![c] = <<>>]
    /\ UNCHANGED wire

\* A step on one request that was made, or was not, and stays so.
LEMMA StaysMade ==
    ASSUME TypeOK, NEW r \in Requests, NEW q, req' = [req EXCEPT ![r] = q], q.made = req[r].made
    PROVE  NothingMade
  BY DEF NothingMade, TypeOK, RequestTypeOK

\* http_channel.close, seen by the client.
LEMMA CloseIsSeen ==
    ASSUME IInv, NEW c \in Channels, ~closed[c], CloseChannel(c), UNCHANGED wire
    PROVE  Closes(c)
  <1>1. NothingMade
    <2>1. CASE current[c] = 0
      BY <2>1 DEF CloseChannel, NothingMade
    <2>2. CASE current[c] # 0
      <3>1. <<c, current[c]>> \in Requests
        BY <2>2, RequestPair DEF IInv, TypeOK, ChannelTypeOK, Numbers
      <3>2. QED
        BY <2>2, <3>1 DEF CloseChannel, NothingMade, IInv, TypeOK, RequestTypeOK, Request
    <2>3. QED
      BY <2>1, <2>2
  <1>2. QED
    BY <1>1 DEF CloseChannel, DiscardBuffers, Closes

\* done, seen by the client.
LEMMA AnswerIsSeen ==
    ASSUME IInv, NEW c \in Channels, NEW n \in Numbers, current[c] = n, NEW close,
           AnswerOn(c, n, close), NothingMade, UNCHANGED <<closed, wire>>
    PROVE  Answers(c)
  <1>1. current[c] # 0 /\ ~closed[c]
    BY DEF IInv, ClosedIsFinal, Numbers
  <1>2. QED
    BY <1>1 DEF AnswerOn, PushAnswer, Answers

\* A request taken with its head.
LEMMA HeadIsSeen ==
    ASSUME IInv, NEW c \in Channels, Receive(c),
           current[c] = 0, Head(inbuf[c]).part = "head"
    PROVE  Takes(c)
  <1> DEFINE d == Head(inbuf[c])
             n == d.num
             k == d.kind
  <1>1. /\ d \in Datum /\ inbuf[c] # <<>> /\ ~closed[c]
        /\ inbuf' = [inbuf EXCEPT ![c] = Tail(inbuf[c])]
        /\ HandleRequest(c, n, k) /\ UNCHANGED <<closed, wire, sent>>
    BY HeadTailProperties DEF Receive, IInv, TypeOK, NetTypeOK
  <1>2. n \in Numbers /\ <<c, n>> \in Requests
    BY <1>1, RequestPair DEF Datum, Blank
  <1>3. \/ \E code \in {"error", "busy"}, aborts \in BOOLEAN, jobs \in {0, 1} :
             Refuse(c, n, k, code, aborts, jobs)
        \/ Make(c, n, k, 1) \/ Make(c, n, k, 0)
    BY <1>1, HandleCases
  <1>4. current \in [Channels -> 0..MaxReq]
    BY DEF IInv, TypeOK, ChannelTypeOK
  <1>5. \A r \in Requests : req'[r].made = (req[r].made \/ r = <<c, n>>)
    <2> HIDE DEF n, k
    <2>1. \E q : q.made = TRUE /\ req' = [req EXCEPT ![<<c, n>>] = q]
      <3>1. ASSUME NEW jobs, Make(c, n, k, jobs)
            PROVE  \E q : q.made = TRUE /\ req' = [req EXCEPT ![<<c, n>>] = q]
        <4>1. [Unmade EXCEPT !.made = TRUE, !.kind = k, !.linked = TRUE, !.jobs = jobs].made = TRUE
          BY DEF Unmade
        <4>2. QED
          BY <3>1, <4>1 DEF Make
      <3>2. ASSUME NEW code, NEW aborts, NEW jobs, Refuse(c, n, k, code, aborts, jobs)
            PROVE  \E q : q.made = TRUE /\ req' = [req EXCEPT ![<<c, n>>] = q]
        BY <3>2 DEF Refuse
      <3>3. QED
        BY <1>3, <3>1, <3>2
    <2>2. PICK q : q.made = TRUE /\ req' = [req EXCEPT ![<<c, n>>] = q]
      BY <2>1
    <2>3. ASSUME NEW r \in Requests PROVE req'[r] = IF r = <<c, n>> THEN q ELSE req[r]
      BY <1>2, <2>2 DEF IInv, TypeOK, RequestTypeOK
    <2>4. \A r \in Requests : req[r].made \in BOOLEAN
      BY DEF IInv, TypeOK, RequestTypeOK, Request
    <2>5. ASSUME NEW r \in Requests PROVE req'[r].made = (req[r].made \/ r = <<c, n>>)
      <3>1. CASE r = <<c, n>>
        BY <2>2, <2>3, <3>1
      <3>2. CASE r # <<c, n>>
        BY <2>3, <2>4, <3>2
      <3>3. QED
        BY <3>1, <3>2
    <2>6. QED
      BY <2>5
  <1>6. \/ current' = [current EXCEPT ![c] = n] /\ fifo' = fifo
        \/ current' = current /\ fifo' = [fifo EXCEPT ![c] = Append(fifo[c], n)]
    <2> HIDE DEF n, k
    <2>1. [current EXCEPT ![c] = 0] = current
      BY <1>4
    <2>2. ASSUME NEW code, NEW aborts, NEW jobs, Refuse(c, n, k, code, aborts, jobs)
          PROVE  current' = current /\ fifo' = [fifo EXCEPT ![c] = Append(fifo[c], n)]
      BY <2>1, <2>2 DEF Refuse, AnswerOn, PushAnswer
    <2>3. ASSUME NEW jobs, Make(c, n, k, jobs)
          PROVE  current' = [current EXCEPT ![c] = n] /\ fifo' = fifo
      BY <2>3 DEF Make
    <2>4. QED
      BY <1>3, <2>2, <2>3
  <1>7. QED
    BY <1>1, <1>5, <1>6 DEF Takes

\* Every step of the server is one of these to the client of one connection.
LEMMA EveryStepIsSeen ==
    ASSUME IInv, [Next]_vars
    PROVE  \/ Unseen
           \/ \E c \in Channels : Takes(c) \/ Answers(c) \/ Delivers(c) \/ Closes(c)
  <1>1. ASSUME NEW c \in Channels, Receive(c)
        PROVE  Unseen \/ Takes(c) \/ Answers(c) \/ Closes(c)
    <2>0. ~closed[c] /\ UNCHANGED wire
      BY <1>1, ReceiveCases DEF IInv, TypeOK
    <2>1. CASE current[c] = 0 /\ Head(inbuf[c]).part = "head"
      BY <1>1, <2>1, HeadIsSeen
    <2>2. CASE CloseChannel(c)
      BY <2>0, <2>2, CloseIsSeen
    <2>3. CASE current[c] # 0 /\ Enqueue(c)
      BY <2>0, <2>3, EnqueueFields DEF IInv, TypeOK, Unseen, NothingMade
    <2>4. CASE current[c] # 0 /\ NotContinued(c)
      <3>1. current[c] \in Numbers /\ <<c, current[c]>> \in Requests
        BY <2>4, RequestPair DEF IInv, TypeOK, ChannelTypeOK, Numbers
      <3>2. NothingMade /\ UNCHANGED closed
        BY <2>4, <3>1, FailedFields DEF NotContinued, NothingMade, IInv, TypeOK
      <3>3. QED
        BY <2>0, <2>4, <3>1, <3>2, AnswerIsSeen DEF NotContinued
    <2>5. CASE CloseWhenDone(c) \/ UNCHANGED <<chanVars, req, queue>>
      BY <2>0, <2>5 DEF CloseWhenDone, chanVars, Unseen, NothingMade
    <2>6. QED
      BY <1>1, <2>1, <2>2, <2>3, <2>4, <2>5, ReceiveCases DEF IInv, TypeOK
  <1>2. ASSUME NEW c \in Channels, Disconnect(c) \/ TimeoutIdle(c) PROVE Closes(c)
    <2>1. CloseChannel(c) /\ ~closed[c] /\ UNCHANGED wire
      BY <1>2 DEF Disconnect, TimeoutIdle
    <2>2. QED
      BY <2>1, CloseIsSeen
  <1>3. ASSUME NEW c \in Channels, Flush(c) PROVE Delivers(c) \/ Closes(c)
    <2>1. CASE eof[c] = 0
      <3>1. CloseChannel(c) /\ ~closed[c] /\ UNCHANGED wire
        BY <1>3, <2>1 DEF Flush
      <3>2. QED
        BY <3>1, CloseIsSeen
    <2>2. CASE eof[c] # 0
      <3> DEFINE n == Head(fifo[c])
                 q == req[<<c, n>>]
                 a == [num |-> n, reply |-> q.reply, body |-> q.outgoing, want |-> q.want]
      <3>1. /\ ~closed[c] /\ fifo[c] # <<>> /\ UNCHANGED <<closed, current, req>>
            /\ wire' = [wire EXCEPT ![c] = Append(wire[c], a)]
            /\ fifo' = [fifo EXCEPT ![c] = Tail(fifo[c])]
        BY <1>3, <2>2 DEF Flush
      <3>2. n \in Numbers
        BY <3>1, HeadTailProperties DEF IInv, TypeOK, ChannelTypeOK
      <3>3. q \in Request
        BY <3>2, RequestPair DEF IInv, TypeOK, RequestTypeOK
      <3>4. a \in Answer /\ a.num = n
        <4> HIDE DEF n, q
        <4>1. QED
          BY <3>2, <3>3 DEF Answer, Request
      <3> HIDE DEF a
      <3>5. QED
        BY <3>1, <3>4 DEF Delivers, NothingMade
    <2>3. QED
      BY <2>1, <2>2
  <1>4. ASSUME NEW c \in Channels, ClientSend(c) \/ ClientBlank(c) PROVE Unseen
    BY <1>4 DEF ClientSend, ClientBlank, Unseen, NothingMade, chanVars
  <1>5. ASSUME NEW c \in Channels, TimeoutError(c) PROVE Unseen
    <2>1. <<c, current[c]>> \in Requests
      BY <1>5, RequestPair DEF TimeoutError, IInv, TypeOK, ChannelTypeOK, Numbers
    <2>2. NothingMade
      BY <1>5, <2>1 DEF TimeoutError, NothingMade, IInv, TypeOK, RequestTypeOK, Request
    <2>3. QED
      BY <1>5, <2>2 DEF TimeoutError, Unseen, chanVars
  <1>6. CASE TimeoutPage \/ TimeoutDone
    <2>1. main.req \in Requests
      BY <1>6 DEF TimeoutPage, TimeoutDone, IInv, Holding
    <2>2. NothingMade
      <3> DEFINE p == [req[main.req] EXCEPT !.outgoing = Append(@, ErrorPage)]
                 d == [req[main.req] EXCEPT !.isDone = TRUE]
      <3>1. p.made = req[main.req].made /\ d.made = req[main.req].made
        BY <2>1 DEF IInv, TypeOK, RequestTypeOK, Request
      <3>2. req' = [req EXCEPT ![main.req] = p] \/ req' = [req EXCEPT ![main.req] = d]
        BY <1>6 DEF TimeoutPage, TimeoutDone
      <3> HIDE DEF p, d
      <3>3. QED
        BY <2>1, <3>1, <3>2, StaysMade DEF IInv
    <2>3. QED
      BY <1>6, <2>2 DEF TimeoutPage, TimeoutDone, Unseen, chanVars
  <1>7. CASE TimeoutSend
    <2> DEFINE c == main.req[1]
               n == main.req[2]
    <2>1. c \in Channels /\ n \in Numbers /\ current[c] = n
      BY <1>7, RequestParts DEF TimeoutSend, IInv, Holding
    <2>2. AnswerOn(c, n, TRUE) /\ UNCHANGED <<closed, wire, req>>
      BY <1>7 DEF TimeoutSend
    <2> HIDE DEF c, n
    <2>3. Answers(c)
      BY <2>1, <2>2, AnswerIsSeen DEF NothingMade
    <2>4. QED
      BY <2>1, <2>3
  <1>8. CASE RunThunk
    <2> DEFINE q == Head(thunks).req
    <2>1. q \in Requests /\ main.pc = "loop"
      <3>1. Head(thunks) \in [kind : {"done", "error"}, req : Requests]
        BY <1>8, HeadTailProperties DEF RunThunk, IInv, TypeOK, JobTypeOK
      <3>2. QED
        BY <1>8, <3>1 DEF RunThunk, InLoop
    <2> HIDE DEF q
    <2>2. q[1] \in Channels /\ q[2] \in Numbers /\ q = <<q[1], q[2]>>
      BY <2>1, RequestParts
    <2>3. NothingMade /\ UNCHANGED <<closed, wire>>
      <3> DEFINE f == [req[q] EXCEPT !.isDone = TRUE]
      <3>1. req' = req \/ req' = [req EXCEPT ![q] = f] \/ req' = Failed(q)
        BY <1>8, <2>1 DEF RunThunk, q, IInv, TypeOK, RequestTypeOK
      <3>2. NothingMade
        <4>1. CASE req' = req
          BY <4>1 DEF NothingMade
        <4>2. CASE req' = [req EXCEPT ![q] = f]
          <5>1. f.made = req[q].made
            BY <2>1 DEF IInv, TypeOK, RequestTypeOK, Request
          <5> HIDE DEF f
          <5>2. QED
            BY <2>1, <4>2, <5>1, StaysMade DEF IInv
        <4>3. CASE req' = Failed(q)
          BY <2>1, <4>3, FailedFields DEF NothingMade, IInv, TypeOK
        <4>4. QED
          BY <3>1, <4>1, <4>2, <4>3
      <3>3. QED
        BY <1>8, <3>2 DEF RunThunk, chanVars
    <2>4. CASE ~req[q].isDone /\ req[q].linked
      <3>1. current[q[1]] = q[2]
        <4>1. req[q].made
          BY <2>1, <2>4 DEF IInv, Linking
        <4>2. current[q[1]] = q[2] <=>
                /\ req[<<q[1], q[2]>>].made /\ req[<<q[1], q[2]>>].linked
                /\ \/ ~req[<<q[1], q[2]>>].isDone
                   \/ main.pc = "send" /\ main.req = <<q[1], q[2]>>
          BY <2>2 DEF IInv, CurrentIsPending
        <4>3. QED
          BY <2>2, <2>4, <4>1, <4>2
      <3>2. \E close \in BOOLEAN : AnswerOn(q[1], q[2], close)
        BY <1>8, <2>4 DEF RunThunk, Responsable, q
      <3>3. QED
        BY <2>2, <2>3, <3>1, <3>2, AnswerIsSeen
    <2>5. CASE req[q].isDone \/ ~req[q].linked
      <3>1. UNCHANGED <<fifo, current>>
        BY <1>8, <2>5 DEF RunThunk, Responsable, chanVars, q
      <3>2. QED
        BY <2>3, <3>1 DEF Unseen
    <2>6. QED
      BY <2>4, <2>5
  <1>9. ASSUME NEW t \in Threads, ThreadStep(t) PROVE Unseen
    <2>1. UNCHANGED wire
      BY <1>9 DEF ThreadStep, GetJob, BeginJob, StartResponse, SetStatus, Content,
                  NextPart, PushPart, FinishJob, FailJob, threadRest
    <2>2. QED
      BY <1>9, <2>1, ThreadIsQuiet DEF IInv, Quiet, Unseen, NothingMade
  <1>10. CASE UNCHANGED vars
    BY <1>10 DEF vars, Unseen, NothingMade
  <1>11. QED
    BY <1>1, <1>2, <1>3, <1>4, <1>5, <1>6, <1>7, <1>8, <1>9, <1>10
       DEF Next, Client, Timeout, MainStep

\* Only the client adds to what a connection has to read, and only the
\* connection takes from it.
LEMMA NetStep ==
    ASSUME [Next]_vars
    PROVE  \/ \E c \in Channels : ClientSend(c) \/ ClientBlank(c)
           \/ \E c \in Channels : /\ inbuf[c] # <<>> /\ inbuf' = [inbuf EXCEPT ![c] = Tail(inbuf[c])]
                                  /\ UNCHANGED <<sent, blanks>>
           \/ UNCHANGED netVars
  <1>1. ASSUME NEW c \in Channels, Disconnect(c) \/ Flush(c) \/ TimeoutIdle(c) \/ TimeoutError(c)
        PROVE  UNCHANGED netVars
    BY <1>1 DEF Disconnect, Flush, TimeoutIdle, TimeoutError
  <1>2. CASE TimeoutPage \/ TimeoutDone \/ TimeoutSend \/ RunThunk
    BY <1>2 DEF TimeoutPage, TimeoutDone, TimeoutSend, RunThunk
  <1>3. ASSUME NEW t \in Threads, ThreadStep(t) PROVE UNCHANGED netVars
    BY <1>3 DEF ThreadStep, GetJob, BeginJob, StartResponse, SetStatus, Content,
                NextPart, PushPart, FinishJob, FailJob, threadRest
  <1>4. ASSUME NEW c \in Channels, Receive(c)
        PROVE  inbuf[c] # <<>> /\ inbuf' = [inbuf EXCEPT ![c] = Tail(inbuf[c])]
               /\ UNCHANGED <<sent, blanks>>
    BY <1>4 DEF Receive
  <1>5. CASE UNCHANGED vars
    BY <1>5 DEF vars, netVars
  <1>6. QED
    BY <1>1, <1>2, <1>3, <1>4, <1>5 DEF Next, Client, Timeout, MainStep

\* The order of what is to be read survives reading.
LEMMA AheadStep ==
    ASSUME IInv, Ahead, [Next]_vars
    PROVE  Ahead'
  <1> USE DEF IInv, TypeOK, NetTypeOK
  <1>0. /\ inbuf \in [Channels -> Seq(Datum)] /\ sent \in [Channels -> 0..MaxReq]
        /\ MaxReq \in Nat /\ \A x \in Datum : x.num \in Nat
        /\ Numbers \subseteq Nat
    <2>1. inbuf \in [Channels -> Seq(Datum)] /\ sent \in [Channels -> 0..MaxReq] /\ MaxReq \in Nat
      BY RequestCycleAssumption
    <2>2. Numbers \subseteq Nat
      BY <2>1 DEF Numbers
    <2>3. ASSUME NEW x \in Datum PROVE x.num \in Nat
      <3>1. CASE x \in [num : Numbers, kind : Kinds, part : {"head", "body"}]
        BY <2>2, <3>1
      <3>2. CASE x = Blank
        BY <3>2 DEF Blank
      <3>3. QED
        BY <2>3, <3>1, <3>2 DEF Datum
    <2>4. QED
      BY <2>1, <2>2, <2>3
  <1>1. ASSUME NEW c \in Channels, ClientSend(c) PROVE Ahead'
    <2>1. PICK kind \in Kinds :
            inbuf' = [inbuf EXCEPT ![c] = inbuf[c] \o Data(sent[c] + 1, kind)]
      BY <1>1 DEF ClientSend
    <2>2. sent' = [sent EXCEPT ![c] = sent[c] + 1] /\ UNCHANGED req
      BY <1>1 DEF ClientSend
    <2> DEFINE more == Data(sent[c] + 1, kind)
    <2>3. /\ more \in Seq(Datum) /\ Len(more) \in {1, 2}
          /\ more[1].num = sent[c] + 1
          /\ Len(more) = 2 => more[2].num = sent[c] + 1 /\ more[2].part = "body"
      <3>1. sent[c] + 1 \in Numbers
        BY <1>0, <1>1 DEF ClientSend, Numbers
      <3> DEFINE head == [num |-> sent[c] + 1, kind |-> kind, part |-> "head"]
                 body == [num |-> sent[c] + 1, kind |-> kind, part |-> "body"]
      <3>2. head \in Datum /\ body \in Datum /\ head.num = sent[c] + 1 /\ body.num = sent[c] + 1
            /\ body.part = "body"
        BY <3>1 DEF Datum
      <3>3. more = <<head>> \/ more = <<head, body>>
        BY DEF Data
      <3> HIDE DEF head, body, more
      <3>4. <<head>> \in Seq(Datum) /\ Len(<<head>>) = 1 /\ <<head>>[1] = head
        BY <3>2
      <3>5. /\ <<head, body>> \in Seq(Datum) /\ Len(<<head, body>>) = 2
            /\ <<head, body>>[1] = head /\ <<head, body>>[2] = body
        BY <3>2
      <3>6. QED
        BY <3>2, <3>3, <3>4, <3>5
    <2> HIDE DEF more
    <2> DEFINE old == inbuf[c]
               new == old \o more
    <2>4. /\ old \in Seq(Datum) /\ Len(new) = Len(old) + Len(more)
          /\ \A j \in 1..Len(new) : new[j] = IF j <= Len(old) THEN old[j] ELSE more[j - Len(old)]
      BY <1>0, <2>3, ConcatProperties
    <2>5. /\ \A d \in Channels : inbuf'[d] = IF d = c THEN new ELSE inbuf[d]
          /\ \A d \in Channels : sent'[d] = IF d = c THEN sent[c] + 1 ELSE sent[d]
      BY <1>0, <2>1, <2>2 DEF more
    <2>6. ASSUME NEW j \in 1..Len(new)
          PROVE  \/ j <= Len(old) /\ new[j] = old[j] /\ j \in 1..Len(old)
                 \/ j = Len(old) + 1 /\ new[j].num = sent[c] + 1
                 \/ new[j].num = sent[c] + 1 /\ new[j].part = "body"
      <3> HIDE DEF old, new
      <3>1. Len(old) \in Nat /\ (Len(more) = 1 \/ Len(more) = 2)
        BY <2>3, <2>4
      <3>2. CASE j <= Len(old)
        BY <2>4, <3>1, <3>2
      <3>3. CASE j = Len(old) + 1
        <4>1. j - Len(old) = 1 /\ ~(j <= Len(old))
          BY <3>1, <3>3
        <4>2. QED
          BY <2>3, <2>4, <3>3, <4>1
      <3>4. CASE j > Len(old) + 1
        <4>1. Len(new) = Len(old) + Len(more) /\ j \in Nat /\ j <= Len(new)
          BY <2>4, <3>1
        <4>2. \A x, y, z \in Nat : z \in {1, 2} /\ x > y + 1 /\ x <= y + z => z = 2 /\ x - y = 2 /\ ~(x <= y)
          OBVIOUS
        <4>3. Len(more) \in {1, 2} /\ Len(more) \in Nat /\ Len(old) \in Nat
          BY <3>1
        <4>4. Len(more) = 2 /\ j - Len(old) = 2 /\ ~(j <= Len(old))
          BY <3>4, <4>1, <4>2, <4>3
        <4>5. QED
          BY <2>3, <2>4, <4>4
      <3>5. QED
        BY <3>1, <3>2, <3>3, <3>4
    <2>7. /\ \A m \in Numbers : req[<<c, m>>].made => m <= sent[c]
          /\ \A j \in 1..Len(old) :
               /\ old[j].num <= sent[c] /\ old[j].num \in Nat
               /\ old[j].part = "head" =>
                  /\ \A m \in Numbers : req[<<c, m>>].made => m < old[j].num
                  /\ \A i \in 1..Len(old) : i < j => old[i].num < old[j].num
      BY <1>0 DEF Ahead
    <2>8. /\ \A m \in Numbers : req[<<c, m>>].made => m <= sent[c] + 1
          /\ \A j \in 1..Len(new) :
               /\ new[j].num <= sent[c] + 1
               /\ new[j].part = "head" =>
                  /\ \A m \in Numbers : req[<<c, m>>].made => m < new[j].num
                  /\ \A i \in 1..Len(new) : i < j => new[i].num < new[j].num
      <3> HIDE DEF old, new
      <3>0. sent[c] \in Nat /\ Len(old) \in Nat
        BY <1>0, <2>4
      <3>1. \A m \in Numbers : req[<<c, m>>].made => m <= sent[c] + 1 /\ m < sent[c] + 1
        BY <1>0, <2>7, <3>0
      <3>2. ASSUME NEW j \in 1..Len(new)
            PROVE  /\ new[j].num <= sent[c] + 1
                   /\ new[j].part = "head" =>
                      /\ \A m \in Numbers : req[<<c, m>>].made => m < new[j].num
                      /\ \A i \in 1..Len(new) : i < j => new[i].num < new[j].num
        <4>1. CASE j <= Len(old) /\ new[j] = old[j] /\ j \in 1..Len(old)
          <5>1. \A i \in 1..Len(new) : i < j => i \in 1..Len(old) /\ new[i] = old[i]
            BY <2>4, <3>0, <4>1
          <5>2. new[j].num <= sent[c] + 1
            BY <2>7, <3>0, <4>1
          <5>3. QED
            BY <2>7, <4>1, <5>1, <5>2
        <4>2. CASE j = Len(old) + 1 /\ new[j].num = sent[c] + 1
          <5>1. \A i \in 1..Len(new) : i < j => i \in 1..Len(old) /\ new[i] = old[i]
            BY <2>4, <3>0, <4>2
          <5>2. ASSUME NEW i \in 1..Len(new), i < j PROVE new[i].num < new[j].num
            <6>1. i \in 1..Len(old) /\ new[i] = old[i]
              BY <5>1, <5>2
            <6>2. old[i].num \in Nat /\ old[i].num <= sent[c]
              BY <2>7, <6>1
            <6>3. QED
              BY <3>0, <4>2, <6>1, <6>2
          <5>3. QED
            BY <3>0, <3>1, <4>2, <5>2
        <4>3. CASE new[j].num = sent[c] + 1 /\ new[j].part = "body"
          BY <3>0, <4>3
        <4>4. QED
          BY <2>6, <4>1, <4>2, <4>3
      <3>3. QED
        BY <3>1, <3>2
    <2>9. QED
      <3> HIDE DEF new
      <3>1. QED
        BY <2>2, <2>5, <2>8 DEF Ahead
  <1>2. ASSUME NothingMade, UNCHANGED netVars PROVE Ahead'
    <2>1. \A c \in Channels, m \in Numbers : req'[<<c, m>>].made = req[<<c, m>>].made
      BY <1>2, RequestPair DEF NothingMade
    <2>2. QED
      BY <1>2, <2>1 DEF Ahead, netVars
  <1>3. ASSUME NEW c \in Channels, inbuf[c] # <<>>, UNCHANGED sent,
               inbuf' = [inbuf EXCEPT ![c] = Tail(inbuf[c])],
               \/ NothingMade
               \/ Head(inbuf[c]).part = "head"
                  /\ \A r \in Requests : req'[r].made = (req[r].made \/ r = <<c, Head(inbuf[c]).num>>)
        PROVE  Ahead'
    <2> DEFINE old == inbuf[c]
               new == Tail(old)
    <2>1. /\ old \in Seq(Datum) /\ Len(old) > 0 /\ Len(new) = Len(old) - 1 /\ Head(old) = old[1]
          /\ \A j \in 1..Len(new) : new[j] = old[j + 1]
      BY <1>0, <1>3, HeadTailProperties
    <2>2. \A d \in Channels : inbuf'[d] = IF d = c THEN new ELSE inbuf[d]
      BY <1>0, <1>3
    <2>3. /\ \A m \in Numbers : req[<<c, m>>].made => m <= sent[c]
          /\ \A j \in 1..Len(old) :
               /\ old[j].num <= sent[c] /\ old[j].num \in Nat
               /\ old[j].part = "head" =>
                  /\ \A m \in Numbers : req[<<c, m>>].made => m < old[j].num
                  /\ \A i \in 1..Len(old) : i < j => old[i].num < old[j].num
      <3>1. \A j \in 1..Len(old) : old[j].num \in Nat
        BY <1>0, <2>1
      <3>2. QED
        BY <3>1 DEF Ahead
    <2>4. \A d \in Channels, m \in Numbers :
            \/ req'[<<d, m>>].made = req[<<d, m>>].made
            \/ d = c /\ m = Head(old).num
      <3> HIDE DEF old, new
      <3>1. ASSUME NEW d \in Channels, NEW m \in Numbers PROVE <<d, m>> \in Requests
        BY RequestPair
      <3>2. QED
        BY <1>3, <3>1 DEF NothingMade, old, RequestTypeOK, Request
    <2>5. ~NothingMade => Head(old).part = "head"
      BY <1>3
    <2> HIDE DEF old, new
    <2>6. /\ \A m \in Numbers : req'[<<c, m>>].made => m <= sent[c]
          /\ \A j \in 1..Len(new) :
               /\ new[j].num <= sent[c]
               /\ new[j].part = "head" =>
                  /\ \A m \in Numbers : req'[<<c, m>>].made => m < new[j].num
                  /\ \A i \in 1..Len(new) : i < j => new[i].num < new[j].num
      <3>0. Len(old) \in Nat /\ 1 \in 1..Len(old)
        BY <2>1
      <3>1. ASSUME NEW j \in 1..Len(new) PROVE j + 1 \in 1..Len(old) /\ new[j] = old[j + 1] /\ 1 < j + 1
        BY <2>1, <3>0
      <3>2. \A m \in Numbers : req'[<<c, m>>].made => req[<<c, m>>].made \/ m = old[1].num
        BY <2>1, <2>4
      <3>3. \A m \in Numbers : req'[<<c, m>>].made => m <= sent[c]
        BY <2>3, <3>0, <3>2
      <3>4. ASSUME NEW j \in 1..Len(new), new[j].part = "head", NEW m \in Numbers,
                   req'[<<c, m>>].made
            PROVE  m < new[j].num
        BY <2>3, <3>0, <3>1, <3>2, <3>4
      <3>5. ASSUME NEW j \in 1..Len(new), new[j].part = "head", NEW i \in 1..Len(new), i < j
            PROVE  new[i].num < new[j].num
        <4>1. i + 1 < j + 1 /\ i + 1 \in 1..Len(old) /\ j + 1 \in 1..Len(old)
          BY <3>1, <3>5
        <4>2. QED
          BY <2>3, <3>1, <3>5, <4>1
      <3>6. QED
        BY <2>3, <3>1, <3>3, <3>4, <3>5
    <2>7. ASSUME NEW d \in Channels, d # c, NEW m \in Numbers
          PROVE  req'[<<d, m>>].made = req[<<d, m>>].made
      BY <2>4, <2>7
    <2>8. ASSUME NEW d \in Channels, d # c
          PROVE  inbuf'[d] = inbuf[d] /\ sent'[d] = sent[d]
      BY <1>3, <2>2, <2>8
    <2>9. inbuf'[c] = new /\ sent'[c] = sent[c]
      BY <1>3, <2>2
    <2>10. QED
      BY <2>6, <2>7, <2>8, <2>9 DEF Ahead
  <1>4. ASSUME NEW c \in Channels, Takes(c) PROVE Ahead'
    BY <1>3, <1>4 DEF Takes
  <1>5. ASSUME NEW c \in Channels, ClientBlank(c) PROVE Ahead'
    <2> DEFINE old == inbuf[c]
               new == Append(old, Blank)
    <2>1. /\ inbuf' = [inbuf EXCEPT ![c] = new]
          /\ UNCHANGED <<sent, req>> /\ Blank \in Datum
      BY <1>5 DEF ClientBlank, Datum
    <2>2. /\ old \in Seq(Datum) /\ Len(old) \in Nat /\ Len(new) = Len(old) + 1
          /\ \A j \in 1..Len(new) : new[j] = IF j <= Len(old) THEN old[j] ELSE Blank
      BY <1>0, <2>1, AppendProperties
    <2>3. \A d \in Channels : inbuf'[d] = IF d = c THEN new ELSE inbuf[d]
      BY <1>0, <2>1
    <2>4. /\ \A m \in Numbers : req[<<c, m>>].made => m <= sent[c]
          /\ \A j \in 1..Len(old) :
               /\ old[j].num <= sent[c]
               /\ old[j].part = "head" =>
                  /\ \A m \in Numbers : req[<<c, m>>].made => m < old[j].num
                  /\ \A i \in 1..Len(old) : i < j => old[i].num < old[j].num
      BY DEF Ahead
    <2> HIDE DEF old, new
    <2>5. ASSUME NEW j \in 1..Len(new)
          PROVE  /\ new[j].num <= sent[c]
                 /\ new[j].part = "head" =>
                    /\ \A m \in Numbers : req[<<c, m>>].made => m < new[j].num
                    /\ \A i \in 1..Len(new) : i < j => new[i].num < new[j].num
      <3>1. CASE j <= Len(old)
        <4>1. j \in 1..Len(old) /\ new[j] = old[j]
          BY <2>2, <3>1
        <4>2. \A i \in 1..Len(new) : i < j => i \in 1..Len(old) /\ new[i] = old[i]
          BY <2>2, <3>1
        <4>3. QED
          BY <2>4, <4>1, <4>2
      <3>2. CASE ~(j <= Len(old))
        <4>1. new[j] = Blank /\ sent[c] \in Nat
          BY <1>0, <2>2, <3>2
        <4>2. QED
          BY <4>1 DEF Blank
      <3>3. QED
        BY <3>1, <3>2
    <2>6. QED
      BY <2>1, <2>3, <2>4, <2>5 DEF Ahead
  <1>6. CASE NothingMade
    BY <1>1, <1>2, <1>3, <1>5, <1>6, NetStep
  <1>7. QED
    BY <1>4, <1>6, EveryStepIsSeen DEF Unseen, Answers, Delivers, Closes

\* What the contract sees: open connections, requests taken, answers received.
Up == [c \in Channels |-> ~closed[c]]
Taken == [c \in Channels |-> {n \in Numbers : req[<<c, n>>].made}]
Delivered == [c \in Channels |-> [i \in 1..Len(wire[c]) |-> wire[c][i].num]]

\* One more answer on the wire of a connection.
LEMMA OneMoreDelivered ==
    ASSUME WireTypeOK, NEW c \in Channels, NEW a \in Answer,
           wire' = [wire EXCEPT ![c] = Append(wire[c], a)]
    PROVE  Delivered' = [Delivered EXCEPT ![c] = Append(Delivered[c], a.num)]
  <1> DEFINE w == wire[c]
             v == Append(w, a)
  <1>1. /\ w \in Seq(Answer) /\ Len(w) \in Nat /\ Len(v) = Len(w) + 1
        /\ \A i \in 1..Len(w) : v[i] = w[i]
        /\ v[Len(w) + 1] = a
    BY AppendProperties DEF WireTypeOK
  <1> HIDE DEF w, v
  <1>2. \A x \in Answer : x.num \in Numbers
    BY DEF Answer
  <1>3. [i \in 1..Len(w) |-> w[i].num] \in Seq(Numbers)
    BY <1>1, <1>2
  <1>4. a.num \in Numbers
    BY <1>2
  <1>5. [i \in 1..Len(v) |-> v[i].num] = Append([i \in 1..Len(w) |-> w[i].num], a.num)
    BY <1>1, <1>3, <1>4
  <1>6. \A d \in Channels : wire'[d] = IF d = c THEN v ELSE wire[d]
    BY DEF WireTypeOK, v, w
  <1>7. Delivered'[c] = Append([i \in 1..Len(w) |-> w[i].num], a.num)
    <2>1. wire'[c] = v
      BY <1>6
    <2>2. Delivered'[c] = [i \in 1..Len(v) |-> v[i].num]
      BY <2>1 DEF Delivered
    <2>3. QED
      BY <1>5, <2>2
  <1>8. \A d \in Channels : d # c => Delivered'[d] = Delivered[d]
    BY <1>6 DEF Delivered
  <1>9. Delivered[c] = [i \in 1..Len(w) |-> w[i].num]
    BY DEF Delivered, w
  <1>10. QED
    BY <1>7, <1>8, <1>9 DEF Delivered

\* Every step of the server is a step of the contract on one connection, or
\* nothing to its client.
LEMMA StepKeepsContract ==
    ASSUME IInv, Ahead, [Next]_vars
    PROVE  [\E c \in Channels : Contract!Step(c)]_(Contract!cvars)
  <1>0. /\ closed \in [Channels -> BOOLEAN] /\ current \in [Channels -> 0..MaxReq]
        /\ fifo \in [Channels -> Seq(Numbers)] /\ inbuf \in [Channels -> Seq(Datum)]
        /\ WireTypeOK
    BY DEF IInv, TypeOK, ChannelTypeOK, NetTypeOK
  <1>1. ASSUME NothingMade PROVE Taken' = Taken
    BY <1>1, RequestPair DEF Taken, NothingMade
  <1>2. ASSUME UNCHANGED closed PROVE Up' = Up
    BY <1>2 DEF Up
  <1>3. ASSUME UNCHANGED wire PROVE Delivered' = Delivered
    BY <1>3 DEF Delivered
  <1>4. CASE Unseen
    <2>1. UNCHANGED <<Up, Taken, current, fifo, Delivered>>
      BY <1>1, <1>2, <1>3, <1>4 DEF Unseen
    <2>2. QED
      BY <2>1 DEF Contract!cvars, Up, Taken, Delivered
  <1>5. ASSUME NEW c \in Channels, Takes(c) PROVE Contract!Step(c)
    <2>1. /\ 1 \in 1..Len(inbuf[c]) /\ inbuf[c][1] = Head(inbuf[c]) /\ Head(inbuf[c]) \in Datum
      <3>1. inbuf[c] # <<>> /\ inbuf[c] \in Seq(Datum)
        BY <1>0, <1>5 DEF Takes
      <3>2. QED
        BY <3>1, HeadTailProperties
    <2>2. PICK n \in Numbers : n = Head(inbuf[c]).num /\ Head(inbuf[c]).part = "head"
      BY <1>5, <2>1 DEF Takes, Datum, Blank
    <2>3. \A m \in Numbers : req[<<c, m>>].made => m < n
      BY <2>1, <2>2 DEF Ahead
    <2>4. /\ ~closed[c] /\ current[c] = 0
          /\ \A r \in Requests : req'[r].made = (req[r].made \/ r = <<c, n>>)
          /\ \/ current' = [current EXCEPT ![c] = n] /\ fifo' = fifo
             \/ current' = current /\ fifo' = [fifo EXCEPT ![c] = Append(fifo[c], n)]
          /\ UNCHANGED <<closed, wire>>
      BY <1>5, <2>2 DEF Takes
    <2>5. Taken' = [Taken EXCEPT ![c] = Taken[c] \cup {n}]
      <3>1. \A d \in Channels, m \in Numbers :
              req'[<<d, m>>].made = (req[<<d, m>>].made \/ (d = c /\ m = n))
        BY <2>4, RequestPair
      <3>2. \A d \in Channels : Taken'[d] = IF d = c THEN Taken[c] \cup {n} ELSE Taken[d]
        BY <2>2, <3>1 DEF Taken
      <3>3. QED
        BY <3>2 DEF Taken
    <2>6. UNCHANGED <<Up, Delivered>> /\ Up[c]
      BY <1>2, <1>3, <2>4 DEF Up
    <2>7. \A m \in Taken[c] : m < n
      BY <2>3 DEF Taken
    <2>8. Contract!Take(c, n) \/ Contract!TakeAndAnswer(c, n)
      BY <2>4, <2>5, <2>6, <2>7
         DEF Contract!Take, Contract!TakeAndAnswer, Contract!Fresh, Up, Taken, Delivered
    <2>9. QED
      BY <2>2, <2>8 DEF Contract!Step, Numbers
  <1>6. ASSUME NEW c \in Channels, Answers(c) PROVE Contract!Step(c)
    <2>1. UNCHANGED <<Up, Taken, Delivered>> /\ Up[c]
      BY <1>1, <1>2, <1>3, <1>6 DEF Answers, Up
    <2>2. Contract!GiveAnswer(c)
      BY <1>6, <2>1 DEF Answers, Contract!GiveAnswer, Up, Taken, Delivered
    <2>3. QED
      BY <2>2 DEF Contract!Step
  <1>7. ASSUME NEW c \in Channels, Delivers(c) PROVE Contract!Step(c)
    <2>1. UNCHANGED <<Up, Taken, current>> /\ Up[c]
      BY <1>1, <1>2, <1>7 DEF Delivers, Up
    <2>2. Delivered' = [Delivered EXCEPT ![c] = Append(Delivered[c], Head(fifo[c]))]
      BY <1>0, <1>7, OneMoreDelivered DEF Delivers
    <2>3. Contract!Deliver(c)
      BY <1>7, <2>1, <2>2 DEF Delivers, Contract!Deliver, Up, Taken, Delivered
    <2>4. QED
      BY <2>3 DEF Contract!Step
  <1>8. ASSUME NEW c \in Channels, Closes(c) PROVE Contract!Step(c)
    <2>1. UNCHANGED <<Taken, Delivered>> /\ Up[c]
      BY <1>1, <1>3, <1>8 DEF Closes, Up
    <2>2. Up' = [Up EXCEPT ![c] = FALSE]
      <3>1. \A d \in Channels : Up'[d] = IF d = c THEN FALSE ELSE Up[d]
        BY <1>0, <1>8 DEF Closes, Up
      <3>2. QED
        BY <3>1 DEF Up
    <2>3. Contract!Close(c)
      BY <1>8, <2>1, <2>2 DEF Closes, Contract!Close, Up, Taken, Delivered
    <2>4. QED
      BY <2>3 DEF Contract!Step
  <1>9. QED
    BY <1>4, <1>5, <1>6, <1>7, <1>8, EveryStepIsSeen

\* To its client the server keeps the contract of a connection: requests are
\* taken in the order they were sent, each is answered once, in that order, and
\* nothing is delivered after the connection was closed.
THEOREM ConnectionsKeepTheContract == Spec => KeepsContract
  <1>1. Init => Ahead
    <2>1. SUFFICES ASSUME Init PROVE Ahead
      OBVIOUS
    <2>2. \A c \in Channels : inbuf[c] = <<>> /\ \A m \in Numbers : ~req[<<c, m>>].made
      BY <2>1, RequestPair DEF Init, Unmade
    <2>3. QED
      BY <2>2 DEF Ahead
  <1>2. Init => Contract!Start
    <2>1. SUFFICES ASSUME Init PROVE Contract!Start
      OBVIOUS
    <2>2. \A c \in Channels, m \in Numbers : ~req[<<c, m>>].made
      BY <2>1, RequestPair DEF Init, Unmade
    <2>3. Up = [c \in Channels |-> TRUE] /\ Taken = [c \in Channels |-> {}]
      BY <2>1, <2>2 DEF Init, Up, Taken
    <2>4. Delivered = [c \in Channels |-> <<>>]
      <3>1. ASSUME NEW c \in Channels PROVE Delivered[c] = <<>>
        <4>1. wire[c] = <<>>
          BY <2>1 DEF Init
        <4>2. QED
          BY <4>1 DEF Delivered
      <3>2. QED
        BY <3>1 DEF Delivered
    <2>5. current = [c \in Channels |-> 0] /\ fifo = [c \in Channels |-> <<>>]
      BY <2>1 DEF Init
    <2>6. QED
      BY <2>3, <2>4, <2>5 DEF Contract!Start, Up, Taken, Delivered
  <1>3. IInv /\ Ahead /\ [Next]_vars => Ahead'
    BY AheadStep
  <1>4. IInv /\ Ahead /\ [Next]_vars => [\E c \in Channels : Contract!Step(c)]_(Contract!cvars)
    BY StepKeepsContract
  <1>5. QED
    BY <1>1, <1>2, <1>3, <1>4, Invariant, PTL DEF Spec, KeepsContract, Contract!Contract

-----------------------------------------------------------------------------
(* One job per request.                                                    *)

\* Where a request with a job can be.
Queued == {queue[i] : i \in 1..Len(queue)}
Running == {r \in Requests : \E t \in Threads : thr[t].job = r}
Thunked == {thunks[i].req : i \in 1..Len(thunks)}

\* An empty line that was not read yet was sent.
BlanksCounted ==
    \A c \in Channels : \A j \in 1..Len(inbuf[c]) : inbuf[c][j].part = "blank" => blanks[c] > 0

\* A request being collected has no job yet; only a multipart request keeps its
\* collector, and gets a second job, for an empty line.
Counted ==
    /\ \A r \in Requests :
         /\ ~req[r].made => req[r].jobs = 0
         /\ req[r].spent => req[r].kind = "multipart" /\ req[r].jobs > 0
         /\ req[r].jobs > 1 => req[r].kind = "multipart" /\ blanks[r[1]] > 0
    /\ \A c \in Channels :
         collecting[c] => current[c] # 0 /\ req[<<c, current[c]>>].jobs = 0

\* No request with one job is twice in one of its places, or in two of them,
\* and what is in one of them has a job.
Single(r) == req[r].jobs <= 1
OncePerPlace ==
    /\ \A i, j \in 1..Len(queue) : queue[i] = queue[j] /\ Single(queue[i]) => i = j
    /\ \A t, u \in Threads :
         thr[t].job = thr[u].job /\ thr[t].job # None /\ Single(thr[t].job) => t = u
    /\ \A i, j \in 1..Len(thunks) :
         thunks[i].req = thunks[j].req /\ Single(thunks[i].req) => i = j
OnePlace ==
    /\ \A r \in Queued : Single(r) => r \notin Running \cup Thunked
    /\ \A r \in Running : Single(r) => r \notin Thunked
HaveJobs ==
    /\ \A r \in Queued \cup Running \cup Thunked : req[r].jobs > 0
    /\ \A t \in Threads : thr[t].pc = "idle" => thr[t].job = None
Placed == OncePerPlace /\ OnePlace /\ HaveJobs

\* Every job is a request's.
LEMMA PlacesAreRequests ==
    ASSUME TypeOK
    PROVE  Queued \cup Thunked \subseteq Requests /\ None \notin Requests
  <1>1. \A i \in 1..Len(queue) : queue[i] \in Requests
    BY DEF TypeOK, JobTypeOK
  <1> DEFINE K == [kind : {"done", "error"}, req : Requests]
  <1>2. ASSUME NEW i \in 1..Len(thunks) PROVE thunks[i] \in K
    <2>1. thunks \in Seq(K)
      BY DEF TypeOK, JobTypeOK
    <2> HIDE DEF K
    <2>2. QED
      BY <2>1
  <1>3. \A i \in 1..Len(thunks) : thunks[i].req \in Requests
    BY <1>2
  <1>4. None \notin Requests
    BY RequestCycleAssumption DEF Requests, Numbers
  <1>5. QED
    BY <1>1, <1>3, <1>4 DEF Queued, Thunked

\* An empty line is counted when it is sent.
LEMMA BlanksStep ==
    ASSUME TypeOK, BlanksCounted, [Next]_vars
    PROVE  BlanksCounted' /\ \A c \in Channels : blanks[c] > 0 => blanks'[c] > 0
  <1> DEFINE Goal == BlanksCounted' /\ \A c \in Channels : blanks[c] > 0 => blanks'[c] > 0
  <1>0. /\ inbuf \in [Channels -> Seq(Datum)] /\ blanks \in [Channels -> 0..MaxBlanks]
        /\ MaxBlanks \in Nat
    BY RequestCycleAssumption DEF TypeOK, NetTypeOK
  <1>1. ASSUME NEW c \in Channels, ClientSend(c) PROVE Goal
    <2>1. PICK kind \in Kinds :
            inbuf' = [inbuf EXCEPT ![c] = inbuf[c] \o Data(sent[c] + 1, kind)]
      BY <1>1 DEF ClientSend
    <2> DEFINE more == Data(sent[c] + 1, kind)
               old == inbuf[c]
               new == old \o more
    <2>2. more \in Seq(Datum) /\ \A j \in 1..Len(more) : more[j].part # "blank"
      <3> DEFINE head == [num |-> sent[c] + 1, kind |-> kind, part |-> "head"]
                 body == [num |-> sent[c] + 1, kind |-> kind, part |-> "body"]
      <3>1. sent[c] + 1 \in Numbers
        BY <1>1, RequestCycleAssumption DEF ClientSend, Numbers, TypeOK, NetTypeOK
      <3>2. head \in Datum /\ body \in Datum
        BY <3>1 DEF Datum
      <3>3. head.part # "blank" /\ body.part # "blank"
        OBVIOUS
      <3>4. more = <<head>> \/ more = <<head, body>>
        BY DEF Data
      <3> HIDE DEF head, body, more
      <3>5. /\ <<head>> \in Seq(Datum) /\ \A j \in 1..Len(<<head>>) : <<head>>[j] = head
            /\ <<head, body>> \in Seq(Datum)
            /\ \A j \in 1..Len(<<head, body>>) : <<head, body>>[j] \in {head, body}
        BY <3>2, SeqOne, SeqTwo
      <3>6. QED
        BY <3>3, <3>4, <3>5
    <2> HIDE DEF more
    <2>3. /\ old \in Seq(Datum) /\ Len(new) = Len(old) + Len(more)
          /\ \A j \in 1..Len(new) : new[j] = IF j <= Len(old) THEN old[j] ELSE more[j - Len(old)]
      BY <1>0, <2>2, ConcatProperties
    <2>4. \A d \in Channels : inbuf'[d] = IF d = c THEN new ELSE inbuf[d]
      BY <1>0, <2>1 DEF more
    <2>5. blanks' = blanks
      BY <1>1 DEF ClientSend
    <2>6. \A j \in 1..Len(old) : old[j].part = "blank" => blanks[c] > 0
      BY DEF BlanksCounted
    <2> HIDE DEF old, new
    <2>7. ASSUME NEW j \in 1..Len(new), new[j].part = "blank" PROVE blanks[c] > 0
      <3>1. CASE j <= Len(old)
        BY <2>3, <2>6, <2>7, <3>1
      <3>2. CASE ~(j <= Len(old))
        <4>1. j - Len(old) \in 1..Len(more) /\ new[j] = more[j - Len(old)]
          BY <2>2, <2>3, <3>2
        <4>2. QED
          BY <2>2, <2>7, <4>1
      <3>3. QED
        BY <3>1, <3>2
    <2>8. QED
      BY <2>4, <2>5, <2>7 DEF BlanksCounted
  <1>2. ASSUME NEW c \in Channels, ClientBlank(c) PROVE Goal
    <2>1. blanks' = [blanks EXCEPT ![c] = blanks[c] + 1]
          /\ inbuf' = [inbuf EXCEPT ![c] = Append(inbuf[c], Blank)]
      BY <1>2 DEF ClientBlank
    <2>2. blanks'[c] > 0 /\ \A d \in Channels : d # c => blanks'[d] = blanks[d] /\ inbuf'[d] = inbuf[d]
      BY <1>0, <2>1
    <2>3. QED
      BY <2>2 DEF BlanksCounted
  <1>3. ASSUME NEW c \in Channels, inbuf[c] # <<>>,
               inbuf' = [inbuf EXCEPT ![c] = Tail(inbuf[c])], UNCHANGED blanks
        PROVE  Goal
    <2> DEFINE old == inbuf[c]
               new == Tail(old)
    <2>1. /\ old \in Seq(Datum) /\ Len(old) > 0 /\ Len(new) = Len(old) - 1
          /\ \A j \in 1..Len(new) : new[j] = old[j + 1]
      BY <1>0, <1>3, HeadTailProperties
    <2>2. \A d \in Channels : inbuf'[d] = IF d = c THEN new ELSE inbuf[d]
      BY <1>0, <1>3
    <2>3. \A j \in 1..Len(old) : old[j].part = "blank" => blanks[c] > 0
      BY DEF BlanksCounted
    <2> HIDE DEF old, new
    <2>4. \A j \in 1..Len(new) : j + 1 \in 1..Len(old)
      BY <2>1
    <2>5. \A j \in 1..Len(new) : new[j].part = "blank" => blanks[c] > 0
      BY <2>1, <2>3, <2>4
    <2>6. QED
      BY <1>3, <2>2, <2>5 DEF BlanksCounted
  <1>4. CASE UNCHANGED netVars
    BY <1>4 DEF netVars, BlanksCounted
  <1>5. QED
    BY <1>1, <1>2, <1>3, <1>4, NetStep

\* What the program remembers of a request's jobs and body, and what it collects.
FieldsStay ==
    \A r \in Requests : /\ req'[r].made = req[r].made /\ req'[r].kind = req[r].kind
                        /\ req'[r].spent = req[r].spent /\ req'[r].jobs = req[r].jobs
StillCollecting ==
    \A c \in Channels : collecting'[c] => collecting[c] /\ current'[c] = current[c]

\* A request that is made and goes to its handler.
LEMMA HandleFields ==
    ASSUME IInv, NEW c \in Channels, NEW n \in Numbers, NEW kind \in Kinds,
           HandleRequest(c, n, kind)
    PROVE  LET r == <<c, n>> IN
           /\ r \in Requests /\ \A q \in Requests : q # r => req'[q] = req[q]
           /\ req'[r].made /\ ~req'[r].spent /\ req'[r].kind = kind
           /\ req'[r].jobs \in {0, 1}
           /\ queue' = IF req'[r].jobs = 0 THEN queue ELSE Append(queue, r)
           /\ \/ /\ req'[r].isDone /\ req'[r].reply \in {"error", "busy"}
                 /\ req'[r].outgoing = <<ErrorPage>>
                 /\ current' = [current EXCEPT ![c] = 0]
                 /\ fifo' = [fifo EXCEPT ![c] = Append(fifo[c], n)]
                 /\ UNCHANGED collecting
              \/ /\ ~req'[r].isDone /\ req'[r].outgoing = <<>>
                 /\ current' = [current EXCEPT ![c] = n] /\ UNCHANGED fifo
                 /\ collecting' = IF req'[r].jobs = 0 THEN [collecting EXCEPT ![c] = TRUE]
                                  ELSE collecting
  <1> DEFINE r == <<c, n>>
  <1>1. r \in Requests /\ req \in [Requests -> Request]
    BY RequestPair DEF IInv, TypeOK, RequestTypeOK
  <1>2. ASSUME NEW code \in {"error", "busy"}, NEW aborts \in BOOLEAN, NEW jobs \in {0, 1},
               Refuse(c, n, kind, code, aborts, jobs)
        PROVE  /\ \A q \in Requests : q # r => req'[q] = req[q]
               /\ req'[r].made /\ ~req'[r].spent /\ req'[r].kind = kind /\ req'[r].jobs = jobs
               /\ req'[r].isDone /\ req'[r].reply = code /\ req'[r].outgoing = <<ErrorPage>>
               /\ current' = [current EXCEPT ![c] = 0]
               /\ fifo' = [fifo EXCEPT ![c] = Append(fifo[c], n)]
               /\ queue' = IF jobs = 0 THEN queue ELSE Append(queue, r)
               /\ UNCHANGED collecting
    BY <1>1, <1>2 DEF Refuse, AnswerOn, PushAnswer
  <1>3. ASSUME NEW jobs \in {0, 1}, Make(c, n, kind, jobs)
        PROVE  /\ \A q \in Requests : q # r => req'[q] = req[q]
               /\ req'[r].made /\ ~req'[r].spent /\ req'[r].kind = kind /\ req'[r].jobs = jobs
               /\ ~req'[r].isDone /\ req'[r].outgoing = <<>>
               /\ current' = [current EXCEPT ![c] = n] /\ UNCHANGED fifo
    BY <1>1, <1>3 DEF Make, Unmade
  <1> HIDE DEF r
  <1>4. ASSUME \/ Make(c, n, kind, 1) /\ queue' = Append(queue, r) /\ UNCHANGED collecting
               \/ /\ Make(c, n, kind, 0) /\ UNCHANGED queue
                  /\ collecting' = [collecting EXCEPT ![c] = TRUE]
        PROVE  /\ \A q \in Requests : q # r => req'[q] = req[q]
               /\ req'[r].made /\ ~req'[r].spent /\ req'[r].kind = kind
               /\ req'[r].jobs \in {0, 1}
               /\ queue' = IF req'[r].jobs = 0 THEN queue ELSE Append(queue, r)
               /\ ~req'[r].isDone /\ req'[r].outgoing = <<>>
               /\ current' = [current EXCEPT ![c] = n] /\ UNCHANGED fifo
               /\ collecting' = IF req'[r].jobs = 0 THEN [collecting EXCEPT ![c] = TRUE]
                                ELSE collecting
    <2>1. CASE Make(c, n, kind, 1) /\ queue' = Append(queue, r) /\ UNCHANGED collecting
      BY <1>3, <2>1
    <2>2. CASE /\ Make(c, n, kind, 0) /\ UNCHANGED queue
               /\ collecting' = [collecting EXCEPT ![c] = TRUE]
      BY <1>3, <2>2
    <2>3. QED
      BY <1>4, <2>1, <2>2
  <1>5. ASSUME NEW code \in {"error", "busy"}, NEW aborts \in BOOLEAN, NEW jobs \in {0, 1},
               Refuse(c, n, kind, code, aborts, jobs)
        PROVE  /\ \A q \in Requests : q # r => req'[q] = req[q]
               /\ req'[r].made /\ ~req'[r].spent /\ req'[r].kind = kind
               /\ req'[r].jobs \in {0, 1}
               /\ queue' = IF req'[r].jobs = 0 THEN queue ELSE Append(queue, r)
               /\ req'[r].isDone /\ req'[r].reply \in {"error", "busy"}
               /\ req'[r].outgoing = <<ErrorPage>>
               /\ current' = [current EXCEPT ![c] = 0]
               /\ fifo' = [fifo EXCEPT ![c] = Append(fifo[c], n)]
               /\ UNCHANGED collecting
    BY <1>2, <1>5
  <1>6. \/ \E code \in {"error", "busy"}, aborts \in BOOLEAN, jobs \in {0, 1} :
             Refuse(c, n, kind, code, aborts, jobs)
        \/ Make(c, n, kind, 1) /\ queue' = Append(queue, r) /\ UNCHANGED collecting
        \/ /\ Make(c, n, kind, 0) /\ UNCHANGED queue
           /\ collecting' = [collecting EXCEPT ![c] = TRUE]
    BY HandleCases DEF r
  <1>7. CASE \/ Make(c, n, kind, 1) /\ queue' = Append(queue, r) /\ UNCHANGED collecting
             \/ /\ Make(c, n, kind, 0) /\ UNCHANGED queue
                /\ collecting' = [collecting EXCEPT ![c] = TRUE]
    BY <1>1, <1>4, <1>7 DEF r
  <1>8. CASE \E code \in {"error", "busy"}, aborts \in BOOLEAN, jobs \in {0, 1} :
               Refuse(c, n, kind, code, aborts, jobs)
    BY <1>1, <1>5, <1>8 DEF r
  <1>9. QED
    BY <1>6, <1>7, <1>8

\* A request that is taken was not made before.
LEMMA TakenIsNew ==
    ASSUME IInv, Ahead, NEW c \in Channels, inbuf[c] # <<>>, Head(inbuf[c]).part = "head",
           Head(inbuf[c]).num \in Numbers
    PROVE  ~req[<<c, Head(inbuf[c]).num>>].made
  <1> DEFINE n == Head(inbuf[c]).num
  <1>1. 1 \in 1..Len(inbuf[c]) /\ inbuf[c][1] = Head(inbuf[c])
    BY HeadTailProperties DEF IInv, TypeOK, NetTypeOK
  <1>2. \A m \in Numbers : req[<<c, m>>].made => m < n
    BY <1>1 DEF Ahead
  <1>3. n \in Numbers /\ ~(n < n)
    BY DEF Numbers
  <1>4. QED
    BY <1>2, <1>3

\* Only a request's own head, body or empty line changes what it counts.
LEMMA ReceiveCounted ==
    ASSUME IInv, Ahead, Counted, BlanksCounted, NEW c \in Channels, Receive(c)
    PROVE  /\ Counted'
           /\ \/ FieldsStay /\ StillCollecting /\ UNCHANGED queue
              \/ \E r \in Requests :
                   /\ \A q \in Requests : q # r => req'[q].jobs = req[q].jobs
                   /\ \/ req'[r].jobs = req[r].jobs /\ UNCHANGED queue
                      \/ req'[r].jobs = req[r].jobs + 1 /\ queue' = Append(queue, r)
  <1> DEFINE d == Head(inbuf[c])
             Moves(r) ==
                   /\ \A q \in Requests : q # r => req'[q].jobs = req[q].jobs
                   /\ \/ req'[r].jobs = req[r].jobs /\ UNCHANGED queue
                      \/ req'[r].jobs = req[r].jobs + 1 /\ queue' = Append(queue, r)
  <1>0. /\ d \in Datum /\ inbuf[c] # <<>> /\ UNCHANGED blanks
        /\ RequestTypeOK /\ ChannelTypeOK /\ NetTypeOK
    BY ReceiveCases DEF Receive, IInv, TypeOK
  <1>t. /\ current \in [Channels -> 0..MaxReq] /\ collecting \in [Channels -> BOOLEAN]
        /\ \A r \in Requests : req[r].jobs \in Nat
    BY <1>0 DEF RequestTypeOK, Request, ChannelTypeOK
  <1>1. ASSUME FieldsStay, StillCollecting PROVE Counted'
    <2>1. ASSUME NEW r \in Requests
          PROVE  /\ ~req'[r].made => req'[r].jobs = 0
                 /\ req'[r].spent => req'[r].kind = "multipart" /\ req'[r].jobs > 0
                 /\ req'[r].jobs > 1 => req'[r].kind = "multipart" /\ blanks'[r[1]] > 0
      BY <1>0, <1>1, <2>1 DEF FieldsStay, Counted
    <2>2. ASSUME NEW e \in Channels, collecting'[e]
          PROVE  current'[e] # 0 /\ req'[<<e, current'[e]>>].jobs = 0
      <3>1. current'[e] = current[e] /\ current[e] # 0 /\ req[<<e, current[e]>>].jobs = 0
        BY <1>1, <2>2 DEF StillCollecting, Counted
      <3>2. <<e, current[e]>> \in Requests
        BY <1>t, <3>1, RequestPair DEF Numbers
      <3>3. QED
        BY <1>1, <3>1, <3>2 DEF FieldsStay
    <2>3. QED
      BY <2>1, <2>2 DEF Counted
  <1>2. CASE CloseChannel(c) /\ UNCHANGED queue
    <2>1. FieldsStay
      <3>1. CASE current[c] = 0
        BY <1>2, <3>1 DEF CloseChannel, FieldsStay
      <3>2. CASE current[c] # 0
        <4>1. <<c, current[c]>> \in Requests
          BY <1>t, <3>2, RequestPair DEF Numbers
        <4>2. QED
          BY <1>0, <1>2, <3>2, <4>1 DEF CloseChannel, FieldsStay, RequestTypeOK, Request
      <3>3. QED
        BY <3>1, <3>2
    <2>2. StillCollecting
      BY <1>2, <1>t DEF CloseChannel, DiscardBuffers, StillCollecting
    <2>3. QED
      BY <1>1, <1>2, <2>1, <2>2
  <1>3. CASE CloseWhenDone(c) \/ UNCHANGED <<chanVars, req, queue>>
    <2>1. FieldsStay /\ StillCollecting /\ UNCHANGED queue
      BY <1>3 DEF CloseWhenDone, chanVars, FieldsStay, StillCollecting
    <2>2. QED
      BY <1>1, <2>1
  <1>4. CASE current[c] # 0 /\ NotContinued(c)
    <2>1. <<c, current[c]>> \in Requests
      BY <1>4, <1>t, RequestPair DEF Numbers
    <2>2. FieldsStay
      BY <1>0, <1>4, <2>1, FailedFields DEF NotContinued, FieldsStay
    <2>3. StillCollecting /\ UNCHANGED queue
      BY <1>4, <1>t DEF NotContinued, AnswerOn, StillCollecting
    <2>4. QED
      BY <1>1, <2>2, <2>3
  <1>5. CASE /\ current[c] # 0 /\ Enqueue(c)
             /\ collecting[c] \/ (req[<<c, current[c]>>].spent /\ d.part = "blank")
    <2> DEFINE r == <<c, current[c]>>
    <2>1. /\ r \in Requests /\ r[1] = c
          /\ \A q \in Requests :
                /\ q # r => req'[q] = req[q]
                /\ req'[q].made = req[q].made /\ req'[q].linked = req[q].linked
                /\ req'[q].kind = req[q].kind
          /\ req'[r].jobs = req[r].jobs + 1 /\ req'[r].spent = (req[r].kind = "multipart")
          /\ queue' = Append(queue, r) /\ current' = current
          /\ collecting' = [collecting EXCEPT ![c] = FALSE]
      BY <1>0, <1>5, EnqueueFields
    <2>2. req[r].made
      <3>1. current[c] \in Numbers
        BY <1>5, <1>t DEF Numbers
      <3>2. QED
        BY <3>1 DEF IInv, CurrentIsPending
    <2>3. /\ req[r].jobs \in Nat
          /\ \/ req[r].jobs = 0
             \/ req[r].kind = "multipart" /\ req[r].jobs > 0 /\ blanks[c] > 0
      <3>1. CASE collecting[c]
        BY <1>t, <2>1, <3>1 DEF Counted
      <3>2. CASE req[r].spent /\ d.part = "blank"
        <4>1. 1 \in 1..Len(inbuf[c]) /\ inbuf[c][1] = d
          BY <1>0, HeadTailProperties DEF NetTypeOK
        <4>2. QED
          BY <1>t, <2>1, <3>2, <4>1 DEF Counted, BlanksCounted
      <3>3. QED
        BY <1>5, <3>1, <3>2
    <2>4. \A e \in Channels : e # c => <<e, current[e]>> # r
      OBVIOUS
    <2> HIDE DEF r
    <2>5. ASSUME NEW q \in Requests
          PROVE  /\ ~req'[q].made => req'[q].jobs = 0
                 /\ req'[q].spent => req'[q].kind = "multipart" /\ req'[q].jobs > 0
                 /\ req'[q].jobs > 1 => req'[q].kind = "multipart" /\ blanks'[q[1]] > 0
      <3>1. CASE q = r
        <4>1. req'[r].made /\ req'[r].jobs = req[r].jobs + 1 /\ req'[r].kind = req[r].kind
              /\ blanks'[r[1]] = blanks[c]
          BY <1>0, <2>1, <2>2
        <4>2. req'[r].spent => req[r].kind = "multipart"
          BY <2>1
        <4>3. QED
          BY <2>3, <3>1, <4>1, <4>2
      <3>2. CASE q # r
        BY <1>0, <2>1, <3>2 DEF Counted
      <3>3. QED
        BY <3>1, <3>2
    <2>6. ASSUME NEW e \in Channels, collecting'[e]
          PROVE  current'[e] # 0 /\ req'[<<e, current'[e]>>].jobs = 0
      <3>1. e # c /\ collecting[e] /\ current'[e] = current[e]
        BY <1>t, <2>1, <2>6
      <3>2. current[e] # 0 /\ req[<<e, current[e]>>].jobs = 0
        BY <3>1 DEF Counted
      <3>3. <<e, current[e]>> \in Requests /\ <<e, current[e]>> # r
        BY <1>t, <2>4, <3>1, <3>2, RequestPair DEF Numbers
      <3>4. QED
        BY <2>1, <3>1, <3>2, <3>3
    <2>7. Moves(r)
      BY <2>1
    <2>8. QED
      BY <2>1, <2>5, <2>6, <2>7 DEF Counted
  <1>6. CASE /\ current[c] = 0 /\ d.part = "head" /\ d.num \in Numbers /\ d.kind \in Kinds
             /\ HandleRequest(c, d.num, d.kind)
    <2>1. PICK n \in Numbers, kind \in Kinds : n = d.num /\ kind = d.kind
      BY <1>6
    <2> DEFINE r == <<c, n>>
    <2>2. ~req[r].made
      BY <1>0, <1>6, <2>1, TakenIsNew
    <2> HIDE DEF d
    <2>3. /\ r \in Requests /\ \A q \in Requests : q # r => req'[q] = req[q]
          /\ req'[r].made /\ ~req'[r].spent
          /\ req'[r].jobs \in {0, 1}
          /\ queue' = IF req'[r].jobs = 0 THEN queue ELSE Append(queue, r)
          /\ \/ current' = [current EXCEPT ![c] = 0] /\ UNCHANGED collecting
             \/ /\ current' = [current EXCEPT ![c] = n]
                /\ collecting' = IF req'[r].jobs = 0 THEN [collecting EXCEPT ![c] = TRUE]
                                 ELSE collecting
      BY <1>6, <2>1, HandleFields
    <2>4. req[r].jobs = 0
      BY <2>2, <2>3 DEF Counted
    <2>5. ~collecting[c]
      BY <1>6 DEF Counted
    <2>6. ASSUME NEW q \in Requests
          PROVE  /\ ~req'[q].made => req'[q].jobs = 0
                 /\ req'[q].spent => req'[q].kind = "multipart" /\ req'[q].jobs > 0
                 /\ req'[q].jobs > 1 => req'[q].kind = "multipart" /\ blanks'[q[1]] > 0
      <3>1. CASE q = r
        BY <2>3, <3>1
      <3>2. CASE q # r
        BY <1>0, <2>3, <3>2 DEF Counted
      <3>3. QED
        BY <3>1, <3>2
    <2>7. ASSUME NEW e \in Channels, collecting'[e]
          PROVE  current'[e] # 0 /\ req'[<<e, current'[e]>>].jobs = 0
      <3>1. CASE e = c
        <4>1. current'[c] = n /\ req'[r].jobs = 0
          BY <1>t, <2>3, <2>5, <2>7, <3>1
        <4>2. QED
          BY <3>1, <4>1 DEF Numbers
      <3>2. CASE e # c
        <4>1. collecting[e] /\ current'[e] = current[e]
          BY <1>t, <2>3, <2>7, <3>2
        <4>2. current[e] # 0 /\ req[<<e, current[e]>>].jobs = 0
          BY <4>1 DEF Counted
        <4>3. <<e, current[e]>> \in Requests /\ <<e, current[e]>> # r
          BY <1>t, <3>2, <4>2, RequestPair DEF Numbers
        <4>4. QED
          BY <2>3, <4>1, <4>2, <4>3
      <3>3. QED
        BY <3>1, <3>2
    <2>8. Moves(r)
      BY <2>3, <2>4
    <2> HIDE DEF r
    <2>9. QED
      BY <2>3, <2>6, <2>7, <2>8 DEF Counted
  <1>7. QED
    BY <1>0, <1>2, <1>3, <1>4, <1>5, <1>6, ReceiveCases

\* Every step of the program keeps what is known of a request's jobs, and only
\* reading a connection makes one.
LEMMA CountedStep ==
    ASSUME IInv, Ahead, Counted, Placed, BlanksCounted, [Next]_vars
    PROVE  /\ Counted'
           /\ (\A c \in Channels : ~Receive(c)) => FieldsStay /\ StillCollecting
  <1> USE DEF IInv, TypeOK
  <1>t. /\ current \in [Channels -> 0..MaxReq] /\ collecting \in [Channels -> BOOLEAN]
        /\ req \in [Requests -> Request] /\ \A r \in Requests : req[r].jobs \in Nat
    BY DEF RequestTypeOK, Request, ChannelTypeOK
  <1>1. ASSUME FieldsStay, StillCollecting PROVE Counted'
    <2>1. ASSUME NEW r \in Requests
          PROVE  /\ ~req'[r].made => req'[r].jobs = 0
                 /\ req'[r].spent => req'[r].kind = "multipart" /\ req'[r].jobs > 0
                 /\ req'[r].jobs > 1 => req'[r].kind = "multipart" /\ blanks'[r[1]] > 0
      BY <1>1, BlanksStep, RequestParts DEF FieldsStay, Counted
    <2>2. ASSUME NEW e \in Channels, collecting'[e]
          PROVE  current'[e] # 0 /\ req'[<<e, current'[e]>>].jobs = 0
      <3>1. current'[e] = current[e] /\ current[e] # 0 /\ req[<<e, current[e]>>].jobs = 0
        BY <1>1, <2>2 DEF StillCollecting, Counted
      <3>2. <<e, current[e]>> \in Requests
        BY <1>t, <3>1, RequestPair DEF Numbers
      <3>3. QED
        BY <1>1, <3>1, <3>2 DEF FieldsStay
    <2>3. QED
      BY <2>1, <2>2 DEF Counted
  <1>2. ASSUME NEW c \in Channels, CloseChannel(c) PROVE FieldsStay /\ StillCollecting
    <2>1. CASE current[c] = 0
      BY <1>2, <1>t, <2>1 DEF CloseChannel, DiscardBuffers, FieldsStay, StillCollecting
    <2>2. CASE current[c] # 0
      <3>1. <<c, current[c]>> \in Requests
        BY <1>t, <2>2, RequestPair DEF Numbers
      <3>2. QED
        BY <1>2, <1>t, <2>2, <3>1
           DEF CloseChannel, DiscardBuffers, FieldsStay, StillCollecting, Request
    <2>3. QED
      BY <2>1, <2>2
  <1>3. ASSUME NEW r \in Requests, NEW q, req' = [req EXCEPT ![r] = q],
               q.made = req[r].made, q.kind = req[r].kind, q.spent = req[r].spent,
               q.jobs = req[r].jobs
        PROVE  FieldsStay
    BY <1>3, <1>t DEF FieldsStay
  <1>4. ASSUME NEW c \in Channels, Disconnect(c) \/ TimeoutIdle(c) \/ Flush(c)
        PROVE  FieldsStay /\ StillCollecting
    BY <1>2, <1>4 DEF Disconnect, TimeoutIdle, Flush, FieldsStay, StillCollecting
  <1>5. ASSUME NEW c \in Channels, ClientSend(c) \/ ClientBlank(c) \/ TimeoutError(c)
        PROVE  FieldsStay /\ StillCollecting
    <2>1. StillCollecting
      BY <1>5 DEF ClientSend, ClientBlank, TimeoutError, chanVars, StillCollecting
    <2>2. CASE ClientSend(c) \/ ClientBlank(c)
      BY <2>1, <2>2 DEF ClientSend, ClientBlank, FieldsStay
    <2>3. CASE TimeoutError(c)
      <3>1. <<c, current[c]>> \in Requests
        BY <1>t, <2>3, RequestPair DEF TimeoutError, Numbers
      <3>2. FieldsStay
        BY <1>t, <2>3, <3>1 DEF TimeoutError, FieldsStay, Request
      <3>3. QED
        BY <2>1, <3>2
    <2>4. QED
      BY <1>5, <2>2, <2>3
  <1>6. ASSUME TimeoutPage \/ TimeoutDone PROVE FieldsStay /\ StillCollecting
    <2>1. StillCollecting /\ main.req \in Requests
      BY <1>6 DEF TimeoutPage, TimeoutDone, chanVars, StillCollecting, Holding
    <2>2. FieldsStay
      <3> DEFINE p == [req[main.req] EXCEPT !.outgoing = Append(@, ErrorPage)]
                 d == [req[main.req] EXCEPT !.isDone = TRUE]
                 Same(q) == /\ q.made = req[main.req].made /\ q.kind = req[main.req].kind
                            /\ q.spent = req[main.req].spent /\ q.jobs = req[main.req].jobs
      <3>1. Same(p) /\ Same(d)
        BY <1>t, <2>1 DEF Request
      <3>2. req' = [req EXCEPT ![main.req] = p] \/ req' = [req EXCEPT ![main.req] = d]
        BY <1>6 DEF TimeoutPage, TimeoutDone
      <3> HIDE DEF p, d
      <3>3. QED
        BY <1>3, <2>1, <3>1, <3>2
    <2>3. QED
      BY <2>1, <2>2
  <1>7. ASSUME TimeoutSend PROVE FieldsStay /\ StillCollecting
    <2> DEFINE c == main.req[1]
    <2>1. /\ c \in Channels /\ UNCHANGED req
          /\ current' = [current EXCEPT ![c] = 0]
          /\ collecting' = [collecting EXCEPT ![c] = FALSE]
      BY <1>7, RequestParts DEF TimeoutSend, AnswerOn, Holding
    <2> HIDE DEF c
    <2>2. QED
      BY <1>t, <2>1 DEF FieldsStay, StillCollecting
  <1>8. ASSUME RunThunk PROVE FieldsStay /\ StillCollecting
    <2> DEFINE q == Head(thunks).req
               K == [kind : {"done", "error"}, req : Requests]
    <2>1. q \in Requests /\ q \in Thunked
      <3>1. thunks # <<>> /\ thunks \in Seq(K)
        BY <1>8 DEF RunThunk, JobTypeOK
      <3>2. Head(thunks) \in K /\ 1 \in 1..Len(thunks) /\ Head(thunks) = thunks[1]
        <4> HIDE DEF K
        <4>1. QED
          BY <3>1, HeadTailProperties
      <3>3. QED
        BY <3>2 DEF Thunked
    <2>2. FieldsStay
      <3> DEFINE f == [req[q] EXCEPT !.isDone = TRUE]
      <3>1. req' = req \/ req' = [req EXCEPT ![q] = f] \/ req' = Failed(q)
        BY <1>8, <1>t, <2>1 DEF RunThunk
      <3>2. CASE req' = req
        BY <3>2 DEF FieldsStay
      <3>3. CASE req' = [req EXCEPT ![q] = f]
        <4>1. /\ f.made = req[q].made /\ f.kind = req[q].kind
              /\ f.spent = req[q].spent /\ f.jobs = req[q].jobs
          BY <1>t, <2>1 DEF Request
        <4> HIDE DEF f
        <4>2. QED
          BY <1>3, <2>1, <3>3, <4>1
      <3>4. CASE req' = Failed(q)
        BY <2>1, <3>4, FailedFields DEF FieldsStay
      <3>5. QED
        BY <3>1, <3>2, <3>3, <3>4
    <2>3. q[1] \in Channels /\ q[2] \in Numbers /\ q = <<q[1], q[2]>>
      BY <2>1, RequestParts
    <2>4. /\ UNCHANGED collecting
          /\ \/ UNCHANGED current
             \/ /\ ~req[q].isDone /\ req[q].linked
                /\ current' = [current EXCEPT ![q[1]] = 0]
      BY <1>8 DEF RunThunk, Responsable, AnswerOn, chanVars
    <2> HIDE DEF q
    <2>5. CASE UNCHANGED current
      BY <2>2, <2>4, <2>5 DEF StillCollecting
    <2>6. CASE ~req[q].isDone /\ req[q].linked /\ current' = [current EXCEPT ![q[1]] = 0]
      <3>1. req[q].made
        BY <2>1, <2>6 DEF Linking
      <3>2. current[q[1]] = q[2] <=>
                /\ req[<<q[1], q[2]>>].made /\ req[<<q[1], q[2]>>].linked
                /\ \/ ~req[<<q[1], q[2]>>].isDone
                   \/ main.pc = "send" /\ main.req = <<q[1], q[2]>>
        BY <2>3 DEF CurrentIsPending
      <3>3. current[q[1]] = q[2]
        BY <2>3, <2>6, <3>1, <3>2
      <3>4. req[q].jobs > 0
        BY <2>1 DEF Placed, HaveJobs
      <3>5. ~collecting[q[1]]
        BY <1>t, <2>1, <2>3, <3>3, <3>4 DEF Counted
      <3>6. QED
        BY <1>t, <2>2, <2>3, <2>4, <2>6, <3>5 DEF StillCollecting
    <2>7. QED
      BY <2>4, <2>5, <2>6
  <1>9. ASSUME NEW t \in Threads, ThreadStep(t) PROVE FieldsStay /\ StillCollecting
    <2>1. StillCollecting
      BY <1>9, ThreadIsQuiet DEF Quiet, StillCollecting
    <2> DEFINE q == thr[t].job
    <2>2. CASE UNCHANGED req
      BY <2>1, <2>2 DEF FieldsStay
    <2>3. CASE SetStatus(t)
      <3>1. q \in Requests /\ req' = [req EXCEPT ![q].reply = "app"]
        BY <2>3 DEF SetStatus, Holding
      <3>2. QED
        BY <1>t, <2>1, <3>1 DEF FieldsStay, Request
    <2>4. CASE Content(t)
      <3>1. q \in Requests /\ (req' = req \/ \E k : req' = [req EXCEPT ![q] = [req[q] EXCEPT !.want = k]])
        BY <2>4, ContentCases
      <3> HIDE DEF q
      <3>2. ASSUME NEW k, req' = [req EXCEPT ![q] = [req[q] EXCEPT !.want = k]] PROVE FieldsStay
        BY <1>t, <3>1, <3>2 DEF FieldsStay, Request
      <3>3. QED
        BY <2>1, <2>2, <3>1, <3>2
    <2>5. CASE PushPart(t)
      <3>1. q \in Requests /\ req' = [req EXCEPT ![q].outgoing = Append(@, thr[t].at)]
        BY <2>5 DEF PushPart, Holding
      <3>2. QED
        BY <1>t, <2>1, <3>1 DEF FieldsStay, Request
    <2>6. QED
      BY <1>9, <2>2, <2>3, <2>4, <2>5
         DEF ThreadStep, GetJob, BeginJob, StartResponse, NextPart, FinishJob, FailJob
  <1>10. ASSUME UNCHANGED vars PROVE FieldsStay /\ StillCollecting
    BY <1>10 DEF vars, FieldsStay, StillCollecting
  <1>11. CASE \E c \in Channels : Receive(c)
    BY <1>11, ReceiveCounted
  <1>12. CASE \A c \in Channels : ~Receive(c)
    <2>1. FieldsStay /\ StillCollecting
      BY <1>4, <1>5, <1>6, <1>7, <1>8, <1>9, <1>10, <1>12 DEF Next, Client, Timeout, MainStep
    <2>2. QED
      BY <1>1, <2>1
  <1>13. QED
    BY <1>11, <1>12

\* Jobs where they were, on the queue, the threads and the trigger.
JobsStay ==
    /\ UNCHANGED <<queue, thunks>>
    /\ \A t \in Threads : thr'[t].job = thr[t].job /\ (thr'[t].pc = "idle" => thr[t].pc = "idle")
CountsStay == \A r \in Requests : req'[r].jobs = req[r].jobs

\* A step that moves no job and makes none.
LEMMA StayPlaced ==
    ASSUME IInv, Placed, JobsStay, CountsStay
    PROVE  Placed'
  <1>1. Queued' = Queued /\ Running' = Running /\ Thunked' = Thunked
    BY DEF JobsStay, Queued, Running, Thunked
  <1>2. Queued \cup Thunked \cup Running \subseteq Requests
    BY PlacesAreRequests DEF IInv, Running
  <1>3. \A r \in Queued \cup Running \cup Thunked : req'[r].jobs = req[r].jobs
    BY <1>2 DEF CountsStay
  <1>4. OncePerPlace'
    <2>1. \A i \in 1..Len(queue) : queue[i] \in Queued
      BY DEF Queued
    <2>2. \A i \in 1..Len(thunks) : thunks[i].req \in Thunked
      BY DEF Thunked
    <2>3. \A t \in Threads : thr[t].job # None => thr[t].job \in Running
      BY DEF IInv, TypeOK, JobTypeOK, ThreadState, Running
    <2>4. QED
      BY <1>3, <2>1, <2>2, <2>3 DEF JobsStay, Placed, OncePerPlace, Single
  <1>5. OnePlace'
    BY <1>1, <1>3 DEF Placed, OnePlace, Single
  <1>6. HaveJobs'
    BY <1>1, <1>3 DEF Placed, HaveJobs, JobsStay
  <1>7. QED
    BY <1>4, <1>5, <1>6 DEF Placed

\* A request that gets a job is put on the queue with it.
LEMMA EnqueuePlaced ==
    ASSUME IInv, Placed, NEW r \in Requests, queue' = Append(queue, r),
           req'[r].jobs = req[r].jobs + 1,
           \A q \in Requests : q # r => req'[q].jobs = req[q].jobs,
           UNCHANGED <<thr, thunks>>
    PROVE  Placed'
  <1>1. /\ queue \in Seq(Requests) /\ Len(queue) \in Nat /\ Len(queue') = Len(queue) + 1
        /\ \A i \in 1..Len(queue) : queue'[i] = queue[i]
        /\ queue'[Len(queue) + 1] = r
    BY AppendProperties DEF IInv, TypeOK, JobTypeOK
  <1>2. 1..Len(queue') = 1..Len(queue) \cup {Len(queue) + 1}
    BY <1>1
  <1>3. Queued' = Queued \cup {r}
    BY <1>1, <1>2 DEF Queued
  <1>4. Running' = Running /\ Thunked' = Thunked
    BY DEF Running, Thunked
  <1>5. /\ Queued \cup Thunked \cup Running \subseteq Requests
        /\ \A q \in Requests : req[q].jobs \in Nat
    BY PlacesAreRequests DEF IInv, Running, TypeOK, RequestTypeOK, Request
  <1>6. req'[r].jobs <= 1 => r \notin Queued \cup Running \cup Thunked
    BY <1>5 DEF Placed, HaveJobs, Single
  <1>7. \A q \in Requests : q # r => (req'[q].jobs <= 1 <=> Single(q))
    BY DEF Single
  <1>8. OncePerPlace'
    <2>1. \A i \in 1..Len(queue) : queue[i] \in Queued
      BY DEF Queued
    <2>2. \A i \in 1..Len(thunks) : thunks[i].req \in Thunked
      BY DEF Thunked
    <2>3. \A t \in Threads : thr[t].job # None => thr[t].job \in Running
      BY DEF IInv, TypeOK, JobTypeOK, ThreadState, Running
    <2>4. ASSUME NEW i \in 1..Len(queue'), NEW j \in 1..Len(queue'),
                 queue'[i] = queue'[j], req'[queue'[i]].jobs <= 1
          PROVE  i = j
      <3>1. CASE queue'[i] = r
        <4>1. \A k \in 1..Len(queue) : queue[k] # r
          BY <1>6, <2>1, <2>4, <3>1 DEF Single
        <4>2. QED
          BY <1>1, <1>2, <2>4, <3>1, <4>1
      <3>2. CASE queue'[i] # r
        <4>1. i \in 1..Len(queue) /\ j \in 1..Len(queue)
          BY <1>1, <1>2, <2>4, <3>2
        <4>2. QED
          BY <1>1, <1>5, <1>7, <2>1, <2>4, <3>2, <4>1 DEF Placed, OncePerPlace
      <3>3. QED
        BY <3>1, <3>2
    <2>5. ASSUME NEW t \in Threads, NEW u \in Threads,
                 thr[t].job = thr[u].job, thr[t].job # None, req'[thr[t].job].jobs <= 1
          PROVE  t = u
      BY <1>5, <1>6, <1>7, <2>3, <2>5 DEF Placed, OncePerPlace
    <2>6. ASSUME NEW i \in 1..Len(thunks), NEW j \in 1..Len(thunks),
                 thunks[i].req = thunks[j].req, req'[thunks[i].req].jobs <= 1
          PROVE  i = j
      BY <1>5, <1>6, <1>7, <2>2, <2>6 DEF Placed, OncePerPlace
    <2>7. QED
      BY <2>4, <2>5, <2>6 DEF OncePerPlace, Single
  <1>9. OnePlace'
    BY <1>3, <1>4, <1>5, <1>6, <1>7 DEF Placed, OnePlace, Single
  <1>10. HaveJobs'
    <2>1. \A q \in Queued \cup Running \cup Thunked \cup {r} : req'[q].jobs > 0
      BY <1>5 DEF Placed, HaveJobs
    <2>2. QED
      BY <1>3, <1>4, <2>1 DEF Placed, HaveJobs
  <1>11. QED
    BY <1>8, <1>9, <1>10 DEF Placed

\* Reading a connection puts a job on the queue at most for the request it is
\* about.
LEMMA ReceivePlaced ==
    ASSUME IInv, Ahead, Counted, BlanksCounted, Placed, NEW c \in Channels, Receive(c)
    PROVE  Placed'
  <1>1. UNCHANGED <<thr, thunks>>
    BY DEF Receive
  <1>2. CASE FieldsStay /\ StillCollecting /\ UNCHANGED queue
    BY <1>1, <1>2, StayPlaced DEF FieldsStay, CountsStay, JobsStay
  <1>3. ASSUME NEW r \in Requests,
               \A q \in Requests : q # r => req'[q].jobs = req[q].jobs,
               \/ req'[r].jobs = req[r].jobs /\ UNCHANGED queue
               \/ req'[r].jobs = req[r].jobs + 1 /\ queue' = Append(queue, r)
        PROVE  Placed'
    <2>1. CASE req'[r].jobs = req[r].jobs /\ UNCHANGED queue
      <3>1. CountsStay /\ JobsStay
        BY <1>1, <1>3, <2>1 DEF CountsStay, JobsStay
      <3>2. QED
        BY <3>1, StayPlaced
    <2>2. CASE req'[r].jobs = req[r].jobs + 1 /\ queue' = Append(queue, r)
      BY <1>1, <1>3, <2>2, EnqueuePlaced
    <2>3. QED
      BY <1>3, <2>1, <2>2
  <1>4. QED
    BY <1>2, <1>3, ReceiveCounted

\* A thread takes a job off the queue, drops it, or leaves a thunk for it.
LEMMA ThreadPlaced ==
    ASSUME IInv, Placed, CountsStay, NEW t \in Threads, ThreadStep(t)
    PROVE  Placed'
  <1>1. \A r \in Requests : Single(r) => req'[r].jobs <= 1 /\ req[r].jobs <= 1
    BY DEF CountsStay, Single
  <1>2. /\ Queued \cup Thunked \subseteq Requests /\ None \notin Requests
        /\ \A r \in Requests : req'[r].jobs = req[r].jobs
    BY PlacesAreRequests DEF IInv, CountsStay
  <1>3. thr \in [Threads -> ThreadState] /\ thr[t] \in ThreadState
    BY DEF IInv, TypeOK, JobTypeOK
  <1>4. \A u \in Threads : u # t => thr'[u] = thr[u]
    BY <1>3 DEF ThreadStep, GetJob, BeginJob, StartResponse, SetStatus, Content,
           NextPart, PushPart, FinishJob, FailJob, Goto
  <1>5. thr[t].pc # "idle" => thr[t].job \in Running
    BY DEF IInv, Holding, Running
  <1>6. CASE GetJob(t)
    <2> DEFINE h == Head(queue)
    <2>1. /\ queue # <<>> /\ queue \in Seq(Requests) /\ queue' = Tail(queue)
          /\ thr'[t] = [Idle EXCEPT !.pc = "begin", !.job = h]
          /\ thr[t].job = None /\ UNCHANGED thunks
      BY <1>3, <1>6 DEF GetJob, IInv, TypeOK, JobTypeOK, Placed, HaveJobs
    <2>2. /\ h \in Requests /\ h = queue[1] /\ Len(queue) \in Nat /\ Len(queue) > 0
          /\ Len(queue') = Len(queue) - 1
          /\ \A i \in 1..Len(queue') : queue'[i] = queue[i + 1]
      BY <2>1, HeadTailProperties
    <2>3. thr'[t].job = h /\ thr'[t].pc = "begin"
      BY <2>1 DEF Idle
    <2>4. 1 \in 1..Len(queue) /\ \A i \in 1..Len(queue') : i + 1 \in 1..Len(queue) /\ i + 1 # 1
      BY <2>2
    <2> HIDE DEF h
    <2>5. h \in Queued /\ Queued' \subseteq Queued /\ (Single(h) => h \notin Queued')
      <3>1. h \in Queued /\ Queued' \subseteq Queued
        BY <2>2, <2>4 DEF Queued
      <3>2. ASSUME Single(h), NEW i \in 1..Len(queue') PROVE queue'[i] # h
        BY <2>2, <2>4, <3>2 DEF Placed, OncePerPlace
      <3>3. QED
        BY <3>1, <3>2 DEF Queued
    <2>6. Running' \subseteq Running \cup {h} /\ (Single(h) => h \notin Running \cup Thunked)
      BY <1>4, <2>3, <2>5 DEF Running, Placed, OnePlace
    <2>7. Thunked' = Thunked
      BY <2>1 DEF Thunked
    <2>8. OncePerPlace'
      <3>1. ASSUME NEW i \in 1..Len(queue'), NEW j \in 1..Len(queue'),
                   queue'[i] = queue'[j], req'[queue'[i]].jobs <= 1
            PROVE  i = j
        <4>1. queue[i + 1] = queue[j + 1] /\ queue[i + 1] \in Requests
          BY <2>1, <2>2, <2>4, <3>1
        <4>2. Single(queue[i + 1])
          BY <1>2, <2>2, <3>1, <4>1 DEF Single
        <4>3. i + 1 = j + 1
          BY <2>4, <4>1, <4>2 DEF Placed, OncePerPlace
        <4>4. QED
          BY <4>3
      <3>2. ASSUME NEW u \in Threads, NEW v \in Threads,
                   thr'[u].job = thr'[v].job, thr'[u].job # None, req'[thr'[u].job].jobs <= 1
            PROVE  u = v
        <4>1. ASSUME NEW w \in Threads, w # t, thr[w].job = h, Single(h) PROVE FALSE
          BY <2>2, <2>6, <4>1 DEF Running
        <4>2. thr'[u].job \in Requests
          BY <1>3, <1>4, <2>2, <2>3, <3>2 DEF ThreadState
        <4>3. Single(thr'[u].job)
          BY <1>2, <3>2, <4>2 DEF Single
        <4>4. CASE u = t
          BY <1>4, <2>3, <3>2, <4>1, <4>3, <4>4
        <4>5. CASE v = t
          BY <1>4, <2>3, <3>2, <4>1, <4>3, <4>5
        <4>6. CASE u # t /\ v # t
          BY <1>4, <3>2, <4>3, <4>6 DEF Placed, OncePerPlace
        <4>7. QED
          BY <4>4, <4>5, <4>6
      <3>3. ASSUME NEW i \in 1..Len(thunks), NEW j \in 1..Len(thunks),
                   thunks[i].req = thunks[j].req, req'[thunks[i].req].jobs <= 1
            PROVE  i = j
        <4>1. thunks[i].req \in Requests
          BY <1>2 DEF Thunked
        <4>2. QED
          BY <1>2, <3>3, <4>1 DEF Placed, OncePerPlace, Single
      <3>4. QED
        BY <2>1, <3>1, <3>2, <3>3 DEF OncePerPlace, Single
    <2>9. OnePlace'
      <3>1. ASSUME NEW r \in Queued', req'[r].jobs <= 1 PROVE r \notin Running' \cup Thunked'
        <4>1. Single(r) /\ r \in Queued
          BY <1>2, <2>5, <3>1 DEF Single
        <4>2. r # h
          BY <2>5, <3>1, <4>1
        <4>3. QED
          BY <2>6, <2>7, <4>1, <4>2 DEF Placed, OnePlace
      <3>2. ASSUME NEW r \in Running', req'[r].jobs <= 1 PROVE r \notin Thunked'
        <4>1. Single(r)
          BY <1>2, <3>2 DEF Single, Running
        <4>2. QED
          BY <2>6, <2>7, <3>2, <4>1 DEF Placed, OnePlace
      <3>3. QED
        BY <3>1, <3>2 DEF OnePlace, Single
    <2>10. HaveJobs'
      <3>1. \A u \in Threads : thr'[u].pc = "idle" => thr'[u].job = None
        BY <1>4, <2>3 DEF Placed, HaveJobs
      <3>2. \A r \in Queued' \cup Running' \cup Thunked' : r \in Requests /\ req[r].jobs > 0
        BY <1>2, <2>2, <2>5, <2>6, <2>7 DEF Placed, HaveJobs, Running
      <3>3. QED
        BY <1>2, <3>1, <3>2 DEF HaveJobs
    <2>11. QED
      BY <2>8, <2>9, <2>10 DEF Placed
  <1>7. ASSUME UNCHANGED <<queue, thunks>>, thr'[t].job = thr[t].job, thr'[t].pc # "idle"
        PROVE  Placed'
    <2>1. JobsStay
      BY <1>4, <1>7 DEF JobsStay
    <2>2. QED
      BY <2>1, StayPlaced
  <1>8. ASSUME UNCHANGED queue, thr'[t] = Idle, thr[t].pc # "idle",
               UNCHANGED thunks \/ \E kind \in {"done", "error"} : Wakeup(kind, thr[t].job)
        PROVE  Placed'
    <2> DEFINE q == thr[t].job
    <2>1. q \in Running /\ q \in Requests /\ thr'[t].job = None /\ thr'[t].pc = "idle"
      BY <1>5, <1>8 DEF Running, Idle
    <2>2. /\ Queued' = Queued /\ Running' \subseteq Running
          /\ Single(q) => q \notin Running' \cup Queued \cup Thunked
      <3>1. Queued' = Queued /\ Running' \subseteq Running
        BY <1>2, <1>4, <1>8, <2>1 DEF Queued, Running
      <3>2. ASSUME Single(q), NEW u \in Threads PROVE thr'[u].job # q
        BY <1>2, <1>4, <2>1, <3>2 DEF Placed, OncePerPlace
      <3>3. Single(q) => q \notin Queued \cup Thunked
        BY <2>1 DEF Placed, OnePlace
      <3>4. QED
        BY <3>1, <3>2, <3>3 DEF Running
    <2>3. /\ Thunked' \subseteq Thunked \cup {q}
          /\ \A i, j \in 1..Len(thunks') :
               thunks'[i].req = thunks'[j].req /\ Single(thunks'[i].req) => i = j
      <3>1. CASE UNCHANGED thunks
        BY <3>1 DEF Thunked, Placed, OncePerPlace
      <3>2. CASE \E kind \in {"done", "error"} : Wakeup(kind, q)
        <4>1. PICK kind \in {"done", "error"} : thunks' = Append(thunks, [kind |-> kind, req |-> q])
          BY <3>2 DEF Wakeup
        <4> DEFINE k == [kind |-> kind, req |-> q]
        <4>2. thunks \in Seq([kind : {"done", "error"}, req : Requests])
              /\ k \in [kind : {"done", "error"}, req : Requests]
              /\ k.req = q
          BY <2>1 DEF IInv, TypeOK, JobTypeOK
        <4> HIDE DEF k
        <4>3. /\ Len(thunks) \in Nat /\ Len(thunks') = Len(thunks) + 1
              /\ \A i \in 1..Len(thunks) : thunks'[i] = thunks[i]
              /\ thunks'[Len(thunks) + 1] = k
          BY <4>1, <4>2, AppendProperties DEF k
        <4>4. 1..Len(thunks') = 1..Len(thunks) \cup {Len(thunks) + 1}
          BY <4>3
        <4>5. Single(q) => \A i \in 1..Len(thunks) : thunks[i].req # q
          BY <2>2 DEF Thunked
        <4> HIDE DEF q
        <4>6. Thunked' \subseteq Thunked \cup {q}
          BY <4>2, <4>3, <4>4 DEF Thunked
        <4>7. ASSUME NEW i \in 1..Len(thunks'), NEW j \in 1..Len(thunks'),
                     thunks'[i].req = thunks'[j].req, Single(thunks'[i].req)
              PROVE  i = j
          <5>1. CASE i \in 1..Len(thunks) /\ j \in 1..Len(thunks)
            BY <4>3, <4>7, <5>1 DEF Placed, OncePerPlace
          <5>2. CASE i = Len(thunks) + 1 \/ j = Len(thunks) + 1
            BY <4>2, <4>3, <4>4, <4>5, <4>7, <5>2
          <5>3. QED
            BY <4>4, <5>1, <5>2
        <4>8. QED
          BY <4>6, <4>7
      <3>3. QED
        BY <1>8, <3>1, <3>2
    <2> HIDE DEF q
    <2>4. OnePlace'
      <3>1. ASSUME NEW r \in Queued', req'[r].jobs <= 1 PROVE r \notin Running' \cup Thunked'
        <4>1. Single(r)
          BY <1>2, <2>2, <3>1 DEF Single
        <4>2. QED
          BY <2>2, <2>3, <3>1, <4>1 DEF Placed, OnePlace
      <3>2. ASSUME NEW r \in Running', req'[r].jobs <= 1 PROVE r \notin Thunked'
        <4>1. Single(r)
          BY <1>2, <3>2 DEF Single, Running
        <4>2. QED
          BY <2>2, <2>3, <3>2, <4>1 DEF Placed, OnePlace
      <3>3. QED
        BY <3>1, <3>2 DEF OnePlace, Single
    <2>5. OncePerPlace'
      <3>1. ASSUME NEW i \in 1..Len(queue), NEW j \in 1..Len(queue),
                   queue[i] = queue[j], req'[queue[i]].jobs <= 1
            PROVE  i = j
        <4>1. queue[i] \in Requests
          BY <1>2 DEF Queued
        <4>2. QED
          BY <1>2, <3>1, <4>1 DEF Placed, OncePerPlace, Single
      <3>2. ASSUME NEW u \in Threads, NEW v \in Threads,
                   thr'[u].job = thr'[v].job, thr'[u].job # None, req'[thr'[u].job].jobs <= 1
            PROVE  u = v
        <4>1. u # t /\ v # t
          BY <2>1, <3>2
        <4>2. thr'[u].job \in Requests
          BY <1>3, <1>4, <3>2, <4>1 DEF ThreadState
        <4>3. QED
          BY <1>2, <1>4, <3>2, <4>1, <4>2 DEF Placed, OncePerPlace, Single
      <3>3. ASSUME NEW i \in 1..Len(thunks'), NEW j \in 1..Len(thunks'),
                   thunks'[i].req = thunks'[j].req, req'[thunks'[i].req].jobs <= 1
            PROVE  i = j
        <4>1. thunks'[i].req \in Requests
          BY <1>2, <2>1, <2>3 DEF Thunked
        <4>2. QED
          BY <1>2, <2>3, <3>3, <4>1 DEF Single
      <3>4. QED
        BY <1>8, <3>1, <3>2, <3>3 DEF OncePerPlace, Single
    <2>6. HaveJobs'
      <3>1. \A u \in Threads : thr'[u].pc = "idle" => thr'[u].job = None
        BY <1>4, <2>1 DEF Placed, HaveJobs
      <3>2. \A r \in Queued' \cup Running' \cup Thunked' : r \in Requests /\ req[r].jobs > 0
        BY <1>2, <2>1, <2>2, <2>3 DEF Placed, HaveJobs, Running
      <3>3. QED
        BY <1>2, <3>1, <3>2 DEF HaveJobs
    <2>7. QED
      BY <2>4, <2>5, <2>6 DEF Placed
  <1>9. CASE BeginJob(t) \/ StartResponse(t) \/ SetStatus(t)
    <2>1. UNCHANGED <<queue, thunks>> /\ thr[t].pc # "idle"
      BY <1>9 DEF BeginJob, StartResponse, SetStatus
    <2>2. \/ thr'[t] = Idle
          \/ \E pc \in {"start", "status", "content"} : thr'[t] = [thr[t] EXCEPT !.pc = pc]
      BY <1>3, <1>9 DEF BeginJob, StartResponse, SetStatus, Goto
    <2>3. thr'[t] # Idle => thr'[t].job = thr[t].job /\ thr'[t].pc # "idle"
      BY <1>3, <2>2 DEF ThreadState
    <2>4. QED
      BY <1>7, <1>8, <2>1, <2>3
  <1>10. CASE Content(t)
    <2>1. /\ UNCHANGED <<queue, thunks>> /\ thr[t].pc # "idle"
          /\ \/ \E k \in 0..MaxParts, ret \in BOOLEAN :
                  thr' = [thr EXCEPT ![t] =
                            [thr[t] EXCEPT !.pc = "next", !.want = k, !.returned = ret]]
             \/ thr' = [thr EXCEPT ![t] = [thr[t] EXCEPT !.pc = "fail"]]
             \/ thr' = [thr EXCEPT ![t] = Idle]
      <3>1. thr[t].pc # "idle"
        BY <1>10 DEF Content
      <3>2. QED
        BY <1>10, <3>1, ContentCases DEF IInv, TypeOK
    <2>2. thr'[t] # Idle => thr'[t].job = thr[t].job /\ thr'[t].pc # "idle"
      BY <1>3, <2>1 DEF ThreadState
    <2>3. QED
      BY <1>7, <1>8, <2>1, <2>2
  <1>11. CASE NextPart(t) \/ PushPart(t)
    <2>1. UNCHANGED <<queue, thunks>>
      BY <1>11 DEF NextPart, PushPart
    <2>2. \/ \E pc \in {"finish", "push", "content"} : thr'[t] = [thr[t] EXCEPT !.pc = pc]
          \/ thr[t].pc = "next" /\ thr'[t] = [thr[t] EXCEPT !.at = thr[t].at + 1]
          \/ thr'[t] = [thr[t] EXCEPT !.pc = "next", !.at = thr[t].at + 1]
      BY <1>3, <1>11 DEF NextPart, PushPart, Goto
    <2>3. thr'[t].job = thr[t].job /\ thr'[t].pc # "idle"
      BY <1>3, <2>2 DEF ThreadState
    <2>4. QED
      BY <1>7, <2>1, <2>3
  <1>12. CASE FinishJob(t) \/ FailJob(t)
    <2>1. /\ UNCHANGED queue /\ thr'[t] = Idle /\ thr[t].pc # "idle"
          /\ \E kind \in {"done", "error"} : Wakeup(kind, thr[t].job)
      BY <1>3, <1>12 DEF FinishJob, FailJob
    <2>2. QED
      BY <1>8, <2>1
  <1>13. QED
    BY <1>6, <1>9, <1>10, <1>11, <1>12 DEF ThreadStep

\* The main thread takes a thunk away.
LEMMA RunThunkPlaced ==
    ASSUME IInv, Placed, CountsStay, RunThunk
    PROVE  Placed'
  <1> DEFINE K == [kind : {"done", "error"}, req : Requests]
  <1>0. UNCHANGED <<queue, thr>>
    BY DEF RunThunk
  <1>1. /\ Len(thunks) \in Nat /\ Len(thunks) > 0
        /\ Len(thunks') = Len(thunks) - 1
        /\ \A i \in 1..Len(thunks') : thunks'[i] = thunks[i + 1]
    <2>1. thunks # <<>> /\ thunks \in Seq(K) /\ thunks' = Tail(thunks)
      BY DEF RunThunk, IInv, TypeOK, JobTypeOK
    <2> HIDE DEF K
    <2>2. QED
      BY <2>1, HeadTailProperties
  <1>2. \A i \in 1..Len(thunks') : i + 1 \in 1..Len(thunks)
    BY <1>1
  <1>3. Queued' = Queued /\ Running' = Running /\ Thunked' \subseteq Thunked
    BY <1>0, <1>1, <1>2 DEF Queued, Running, Thunked
  <1>4. /\ Queued \cup Thunked \cup Running \subseteq Requests /\ None \notin Requests
        /\ \A r \in Requests : req'[r].jobs = req[r].jobs
    BY PlacesAreRequests DEF IInv, CountsStay, Running
  <1>5. OncePerPlace'
    <2>1. ASSUME NEW i \in 1..Len(thunks'), NEW j \in 1..Len(thunks'),
                 thunks'[i].req = thunks'[j].req, req'[thunks'[i].req].jobs <= 1
          PROVE  i = j
      <3>1. thunks[i + 1].req = thunks[j + 1].req /\ thunks[i + 1].req \in Requests
        BY <1>1, <1>2, <1>4, <2>1 DEF Thunked
      <3>2. Single(thunks[i + 1].req)
        BY <1>1, <1>4, <2>1, <3>1 DEF Single
      <3>3. i + 1 = j + 1
        BY <1>2, <3>1, <3>2 DEF Placed, OncePerPlace
      <3>4. QED
        BY <3>3
    <2>2. ASSUME NEW i \in 1..Len(queue), NEW j \in 1..Len(queue),
                 queue[i] = queue[j], req'[queue[i]].jobs <= 1
          PROVE  i = j
      <3>1. queue[i] \in Requests
        BY <1>4 DEF Queued
      <3>2. QED
        BY <1>4, <2>2, <3>1 DEF Placed, OncePerPlace, Single
    <2>3. ASSUME NEW u \in Threads, NEW v \in Threads,
                 thr[u].job = thr[v].job, thr[u].job # None, req'[thr[u].job].jobs <= 1
          PROVE  u = v
      <3>1. thr[u].job \in Requests
        BY <2>3 DEF IInv, TypeOK, JobTypeOK, ThreadState
      <3>2. QED
        BY <1>4, <2>3, <3>1 DEF Placed, OncePerPlace, Single
    <2>4. QED
      BY <1>0, <2>1, <2>2, <2>3 DEF OncePerPlace, Single
  <1>6. OnePlace'
    BY <1>3, <1>4 DEF Placed, OnePlace, Single
  <1>7. HaveJobs'
    BY <1>0, <1>3, <1>4 DEF Placed, HaveJobs
  <1>8. QED
    BY <1>5, <1>6, <1>7 DEF Placed

\* Every step of the program leaves a request with one job in one place at most.
LEMMA PlacedStep ==
    ASSUME IInv, Ahead, Counted, BlanksCounted, Placed, [Next]_vars
    PROVE  Placed'
  <1>1. CASE \E c \in Channels : Receive(c)
    BY <1>1, ReceivePlaced
  <1>2. CASE \A c \in Channels : ~Receive(c)
    <2>1. CountsStay
      BY <1>2, CountedStep DEF FieldsStay, CountsStay
    <2>2. ASSUME UNCHANGED <<queue, thr, thunks>> PROVE Placed'
      BY <2>1, <2>2, StayPlaced DEF JobsStay
    <2>3. ASSUME NEW c \in Channels,
                 \/ ClientSend(c) \/ ClientBlank(c) \/ Disconnect(c)
                 \/ TimeoutIdle(c) \/ TimeoutError(c) \/ Flush(c)
          PROVE  Placed'
      BY <2>2, <2>3 DEF ClientSend, ClientBlank, Disconnect, TimeoutIdle, TimeoutError, Flush
    <2>4. CASE TimeoutPage \/ TimeoutDone \/ TimeoutSend \/ UNCHANGED vars
      BY <2>2, <2>4 DEF TimeoutPage, TimeoutDone, TimeoutSend, vars
    <2>5. QED
      BY <1>2, <2>1, <2>3, <2>4, RunThunkPlaced, ThreadPlaced DEF Next, Client, Timeout, MainStep
  <1>3. QED
    BY <1>1, <1>2

\* A set whose elements are all one and the same.
LEMMA AtMostOne ==
    ASSUME NEW S, \A x, y \in S : x = y
    PROVE  Cardinality(S) <= 1
  <1>1. CASE S = {}
    BY <1>1, FS_EmptySet
  <1>2. CASE S # {}
    <2>1. PICK x : S = {x}
      BY <1>2
    <2>2. QED
      BY <2>1, FS_Singleton
  <1>3. QED
    BY <1>1, <1>2

\* Where a request with one job is found, it is in one place.
LEMMA PlacedMeansOneJob == TypeOK /\ Counted /\ Placed => OneJobPerRequest
  <1> SUFFICES ASSUME TypeOK, Counted, Placed, NEW r \in Requests, ~(req[r].jobs > 1)
               PROVE  \A x, y \in Places(r) : x = y
    BY AtMostOne DEF OneJobPerRequest, Counted
  <1> DEFINE Q == {<<"queue", i>> : i \in {i \in 1..Len(queue) : queue[i] = r}}
             T == {<<"thread", t>> : t \in {t \in Threads : thr[t].job = r}}
             K == {<<"thunk", i>> : i \in {i \in 1..Len(thunks) : thunks[i].req = r}}
             C == IF current[r[1]] = r[2] /\ collecting[r[1]] THEN {<<"collector">>} ELSE {}
  <1>1. Places(r) = Q \cup T \cup K \cup C
    BY DEF Places
  <1>2. /\ (Q # {} => r \in Queued) /\ (T # {} => r \in Running)
        /\ (K # {} => r \in Thunked)
    BY DEF Queued, Running, Thunked
  <1>3. req[r].jobs \in Nat /\ Single(r)
    BY DEF TypeOK, RequestTypeOK, Request, Single
  <1>4. C # {} => r \notin Queued \cup Running \cup Thunked
    <2>1. ASSUME C # {} PROVE req[r].jobs = 0
      <3>1. r[1] \in Channels /\ r = <<r[1], r[2]>> /\ collecting[r[1]] /\ current[r[1]] = r[2]
        BY <2>1, RequestParts
      <3>2. req[<<r[1], r[2]>>].jobs = 0
        BY <3>1 DEF Counted
      <3>3. QED
        BY <3>1, <3>2
    <2>2. QED
      BY <2>1 DEF Placed, HaveJobs
  <1>5. /\ \A x, y \in Q : x = y
        /\ \A x, y \in T : x = y
        /\ \A x, y \in K : x = y
        /\ \A x, y \in C : x = y
    <2>1. r # None
      BY PlacesAreRequests
    <2>2. QED
      BY <1>3, <2>1 DEF Placed, OncePerPlace
  <1> HIDE DEF Q, T, K, C
  <1>6. QED
    BY <1>1, <1>2, <1>3, <1>4, <1>5 DEF Placed, OnePlace

\* What a connection has yet to read, what was counted of a request's jobs, and
\* where they are.
THEOREM ReadInOrderAndPlaced == Spec => [](IInv /\ Ahead /\ BlanksCounted /\ Counted /\ Placed)
  <1>1. Init => Ahead
    <2>1. SUFFICES ASSUME Init PROVE Ahead
      OBVIOUS
    <2>2. \A c \in Channels : inbuf[c] = <<>> /\ \A m \in Numbers : ~req[<<c, m>>].made
      BY <2>1, RequestPair DEF Init, Unmade
    <2>3. QED
      BY <2>2 DEF Ahead
  <1>2. Init => BlanksCounted /\ Counted /\ Placed
    <2>1. SUFFICES ASSUME Init PROVE BlanksCounted /\ Counted /\ Placed
      OBVIOUS
    <2>2. queue = <<>> /\ thunks = <<>> /\ \A t \in Threads : thr[t].job = None
      BY <2>1 DEF Init, Idle
    <2>3. Queued = {} /\ Running = {} /\ Thunked = {}
      BY <2>1, <2>2, RequestCycleAssumption DEF Init, Queued, Running, Thunked, Requests, Numbers
    <2>4. Placed
      BY <2>2, <2>3 DEF Placed, OncePerPlace, OnePlace, HaveJobs
    <2>5. Counted
      BY <2>1 DEF Init, Unmade, Counted
    <2>6. BlanksCounted
      BY <2>1 DEF Init, BlanksCounted
    <2>7. QED
      BY <2>4, <2>5, <2>6
  <1>3. IInv /\ Ahead /\ BlanksCounted /\ Counted /\ Placed /\ [Next]_vars
          => Ahead' /\ BlanksCounted' /\ Counted' /\ Placed'
    BY AheadStep, BlanksStep, CountedStep, PlacedStep DEF IInv
  <1>4. QED
    BY <1>1, <1>2, <1>3, Invariant, PTL DEF Spec

\* However the client, the threads, the timeouts and the main thread take
\* turns, a request gets a second job for nothing but an empty line behind its
\* multipart body; with one job it is collected, queued, worked on by one
\* thread or waiting in one thunk, never two of these.
THEOREM NoSecondJob == Spec => []OneJobPerRequest
  <1>1. IInv /\ Counted /\ Placed => OneJobPerRequest
    BY PlacedMeansOneJob DEF IInv
  <1>2. QED
    BY <1>1, ReadInOrderAndPlaced, PTL

-----------------------------------------------------------------------------
(* Whole answers.                                                          *)

\* The first n parts of the application's content.
Upto(n) == [k \in 1..n |-> k]

\* What a response holds once it is answered, while its body is collected, while
\* it waits for a thread (a refused request waits too), is worked on, and waits
\* for the main thread.
AnsweredWhole(q) ==
    /\ q.made /\ q.isDone
    /\ IF q.reply = "app" THEN q.outgoing = Upto(q.want)
       ELSE q.reply # "init" /\ q.outgoing = <<ErrorPage>>
NotBegun(q) == ~q.isDone /\ q.outgoing = <<>>
Waiting(q) == NotBegun(q) \/ AnsweredWhole(q)
Filling(th, q) ==
    /\ ~q.isDone
    /\ th.pc \in {"begin", "start", "status"} =>
         q.outgoing = <<>> /\ th.at = 1 /\ th.want = 0
    /\ th.pc = "content" =>
         q.reply = "app" /\ th.at = th.want + 1 /\ q.outgoing = Upto(th.want)
    /\ th.pc \in {"next", "push", "finish"} =>
         /\ q.reply = "app" /\ q.want = th.want
         /\ th.at \in 1..th.want + 1 /\ q.outgoing = Upto(th.at - 1)
    /\ th.pc = "push" => th.at <= th.want
    /\ th.pc = "finish" => th.at = th.want + 1
WorkedOn(th, q) ==
    \/ Filling(th, q)
    \/ AnsweredWhole(q) /\ th.pc \in {"begin", "start", "content", "fail"}
HandedOver(kind, q) ==
    \/ ~q.isDone /\ (kind = "done" => q.reply = "app" /\ q.outgoing = Upto(q.want))
    \/ AnsweredWhole(q)

\* Requests answered on a channel that has not sent the answer.
OnFifo == {r \in Requests : \E i \in 1..Len(fifo[r[1]]) : fifo[r[1]][i] = r[2]}

Whole ==
    /\ main.pc = "loop"
    /\ \A c \in Channels : collecting[c] => NotBegun(req[<<c, current[c]>>])
    /\ \A r \in Queued : Single(r) => Waiting(req[r])
    /\ \A t \in Threads :
         thr[t].pc # "idle" /\ Single(thr[t].job) => WorkedOn(thr[t], req[thr[t].job])
    /\ \A i \in 1..Len(thunks) :
         Single(thunks[i].req) => HandedOver(thunks[i].kind, req[thunks[i].req])
    /\ \A r \in OnFifo : Single(r) => AnsweredWhole(req[r])
    /\ AnswersWhole

\* A response a step leaves as it is, up to its link and its jobs.
Same(r) ==
    /\ req'[r].made = req[r].made /\ req'[r].isDone = req[r].isDone
    /\ req'[r].reply = req[r].reply /\ req'[r].outgoing = req[r].outgoing
    /\ req'[r].want = req[r].want

\* Jobs are counted up only.
StaySingle == \A r \in Requests : req'[r].jobs <= 1 => Single(r)
LEMMA JobsGrow ==
    ASSUME IInv, Ahead, Counted, BlanksCounted, Placed, [Next]_vars
    PROVE  StaySingle
  <1>0. \A r \in Requests : req[r].jobs \in Nat
    BY DEF IInv, TypeOK, RequestTypeOK, Request
  <1>1. ASSUME FieldsStay PROVE StaySingle
    BY <1>1 DEF FieldsStay, StaySingle, Single
  <1>2. ASSUME NEW r \in Requests,
               \A q \in Requests : q # r => req'[q].jobs = req[q].jobs,
               req'[r].jobs = req[r].jobs \/ req'[r].jobs = req[r].jobs + 1
        PROVE  StaySingle
    <2>1. req'[r].jobs <= 1 => req[r].jobs <= 1
      BY <1>0, <1>2
    <2>2. QED
      BY <1>2, <2>1 DEF StaySingle, Single
  <1>3. CASE \E c \in Channels : Receive(c)
    BY <1>1, <1>2, <1>3, ReceiveCounted
  <1>4. CASE \A c \in Channels : ~Receive(c)
    BY <1>1, <1>4, CountedStep
  <1>5. QED
    BY <1>3, <1>4

\* What was sent stays whole.
LEMMA SentStaysWhole ==
    ASSUME IInv, Whole, StaySingle, UNCHANGED wire
    PROVE  AnswersWhole'
  <1>1. ASSUME NEW c \in Channels, NEW i \in 1..Len(wire[c]) PROVE <<c, wire[c][i].num>> \in Requests
    <2>1. wire[c][i] \in Answer
      BY DEF IInv, TypeOK, WireTypeOK
    <2>2. QED
      BY <2>1, RequestPair DEF Answer
  <1>2. QED
    BY <1>1 DEF Whole, AnswersWhole, StaySingle, Single

\* A step has to account for the requests it changes or moves only.
LEMMA WholeStays ==
    ASSUME IInv, Whole, UNCHANGED main, StaySingle, NEW D,
           \A r \in Requests : r \notin D => Same(r),
           \A c \in Channels : collecting'[c] =>
               \/ /\ collecting[c] /\ current'[c] = current[c] /\ current[c] # 0
                  /\ <<c, current[c]>> \notin D
               \/ NotBegun(req'[<<c, current'[c]>>]),
           \A r \in Queued' : r \in Queued \ D \/ (req'[r].jobs <= 1 => Waiting(req'[r])),
           \A t \in Threads :
               \/ thr'[t].pc = "idle"
               \/ thr'[t] = thr[t] /\ thr[t].job \notin D
               \/ req'[thr'[t].job].jobs <= 1 => WorkedOn(thr'[t], req'[thr'[t].job]),
           \A i \in 1..Len(thunks') :
               \/ \E j \in 1..Len(thunks) : thunks'[i] = thunks[j] /\ thunks[j].req \notin D
               \/ req'[thunks'[i].req].jobs <= 1
                    => HandedOver(thunks'[i].kind, req'[thunks'[i].req]),
           \A r \in OnFifo' : r \in OnFifo \ D \/ (req'[r].jobs <= 1 => AnsweredWhole(req'[r])),
           AnswersWhole'
    PROVE  Whole'
  <1>1. Queued \cup Thunked \cup OnFifo \subseteq Requests
    BY PlacesAreRequests DEF IInv, OnFifo
  <1>2. \A r \in Queued' : req'[r].jobs <= 1 => Waiting(req'[r])
    <2>1. ASSUME NEW r \in Queued, r \notin D, req'[r].jobs <= 1 PROVE Waiting(req'[r])
      <3>1. r \in Requests /\ Same(r) /\ Single(r)
        BY <1>1, <2>1 DEF StaySingle
      <3>2. Waiting(req[r])
        BY <3>1 DEF Whole
      <3>3. QED
        BY <3>1, <3>2 DEF Waiting, NotBegun, AnsweredWhole, Same
    <2>2. QED
      BY <2>1
  <1>3. ASSUME NEW t \in Threads, thr'[t].pc # "idle", req'[thr'[t].job].jobs <= 1
        PROVE  WorkedOn(thr'[t], req'[thr'[t].job])
    <2>1. CASE thr'[t] = thr[t] /\ thr[t].job \notin D
      <3>1. thr[t].job \in Requests
        BY <1>3, <2>1 DEF IInv, Holding
      <3>2. Same(thr[t].job) /\ Single(thr[t].job)
        BY <1>3, <2>1, <3>1 DEF StaySingle
      <3>3. WorkedOn(thr[t], req[thr[t].job])
        BY <1>3, <2>1, <3>2 DEF Whole
      <3> DEFINE h == thr[t]
                 p == req[h.job]
                 n == req'[h.job]
      <3>4. /\ n.made = p.made /\ n.isDone = p.isDone /\ n.reply = p.reply
            /\ n.outgoing = p.outgoing /\ n.want = p.want
        BY <3>2 DEF Same
      <3>5. WorkedOn(h, p) /\ thr'[t] = h
        BY <2>1, <3>3
      <3>6. WorkedOn(thr'[t], req'[thr'[t].job]) <=> WorkedOn(h, n)
        BY <2>1
      <3> HIDE DEF h, p, n
      <3>7. Filling(h, p) => Filling(h, n)
        BY <3>4 DEF Filling
      <3>8. AnsweredWhole(p) => AnsweredWhole(n)
        BY <3>4 DEF AnsweredWhole
      <3>9. QED
        BY <3>5, <3>6, <3>7, <3>8 DEF WorkedOn
    <2>2. QED
      BY <1>3, <2>1
  <1>4. ASSUME NEW i \in 1..Len(thunks'), req'[thunks'[i].req].jobs <= 1
        PROVE  HandedOver(thunks'[i].kind, req'[thunks'[i].req])
    <2>1. ASSUME NEW j \in 1..Len(thunks), thunks'[i] = thunks[j], thunks[j].req \notin D
          PROVE  HandedOver(thunks'[i].kind, req'[thunks'[i].req])
      <3>1. thunks[j].req \in Requests
        BY <1>1 DEF Thunked
      <3>2. Same(thunks[j].req) /\ Single(thunks[j].req)
        BY <1>4, <2>1, <3>1 DEF StaySingle
      <3>3. HandedOver(thunks[j].kind, req[thunks[j].req])
        BY <3>2 DEF Whole
      <3>4. QED
        BY <2>1, <3>1, <3>2, <3>3 DEF HandedOver, AnsweredWhole, Same
    <2>2. QED
      BY <1>4, <2>1
  <1>5. \A r \in OnFifo' : req'[r].jobs <= 1 => AnsweredWhole(req'[r])
    <2>1. ASSUME NEW r \in OnFifo, r \notin D, req'[r].jobs <= 1 PROVE AnsweredWhole(req'[r])
      <3>1. r \in Requests /\ Same(r) /\ Single(r)
        BY <1>1, <2>1 DEF StaySingle
      <3>2. AnsweredWhole(req[r])
        BY <3>1 DEF Whole
      <3>3. QED
        BY <3>1, <3>2 DEF AnsweredWhole, Same
    <2>2. QED
      BY <2>1
  <1>6. ASSUME NEW c \in Channels, collecting'[c] PROVE NotBegun(req'[<<c, current'[c]>>])
    <2>1. CASE /\ collecting[c] /\ current'[c] = current[c] /\ current[c] # 0
               /\ <<c, current[c]>> \notin D
      <3>1. <<c, current[c]>> \in Requests
        BY <2>1, RequestPair DEF IInv, TypeOK, ChannelTypeOK, Numbers
      <3>2. Same(<<c, current[c]>>) /\ NotBegun(req[<<c, current[c]>>])
        BY <2>1, <3>1 DEF Whole
      <3>3. QED
        BY <2>1, <3>2 DEF Same, NotBegun
    <2>2. QED
      BY <1>6, <2>1
  <1>7. QED
    BY <1>2, <1>3, <1>4, <1>5, <1>6 DEF Whole, Single

\* A channel that is closed, or does something else with nobody's response.
LEMMA NothingHandled ==
    ASSUME IInv, Whole, Counted, StaySingle, UNCHANGED <<main, queue, thr, thunks, wire>>,
           StillCollecting, \A r \in Requests : Same(r), OnFifo' \subseteq OnFifo
    PROVE  Whole'
  <1>1. Queued' = Queued
    BY DEF Queued
  <1>2. AnswersWhole'
    BY SentStaysWhole
  <1>3. \A c \in Channels : collecting'[c] =>
               /\ collecting[c] /\ current'[c] = current[c] /\ current[c] # 0
               /\ <<c, current[c]>> \notin {}
    BY DEF StillCollecting, Counted
  <1>4. QED
    BY <1>1, <1>2, <1>3, WholeStays, Zenon

\* http_channel.close loses answers; it spoils none.
LEMMA CloseChannelWhole ==
    ASSUME IInv, Whole, Counted, StaySingle, NEW c \in Channels, CloseChannel(c),
           UNCHANGED <<main, queue, thr, thunks, wire>>
    PROVE  Whole'
  <1>1. StillCollecting
    BY DEF CloseChannel, DiscardBuffers, StillCollecting, IInv, TypeOK, ChannelTypeOK
  <1>2. OnFifo' \subseteq OnFifo
    BY RequestParts DEF CloseChannel, DiscardBuffers, OnFifo, IInv, TypeOK, ChannelTypeOK
  <1>3. \A r \in Requests : Same(r)
    <2>1. CASE current[c] = 0
      BY <2>1 DEF CloseChannel, Same
    <2>2. CASE current[c] # 0
      <3>1. <<c, current[c]>> \in Requests
        BY <2>2, RequestPair DEF IInv, TypeOK, ChannelTypeOK, Numbers
      <3>2. req' = [req EXCEPT ![<<c, current[c]>>].linked = FALSE]
        BY <2>2 DEF CloseChannel
      <3>3. QED
        BY <3>1, <3>2 DEF Same, IInv, TypeOK, RequestTypeOK, Request
    <2>3. QED
      BY <2>1, <2>2
  <1>4. QED
    BY <1>1, <1>2, <1>3, NothingHandled

\* A request the main thread has just answered joins the fifo.
LEMMA AppendOnFifo ==
    ASSUME IInv, NEW c \in Channels, NEW n \in Numbers, fifo' = [fifo EXCEPT ![c] = Append(fifo[c], n)]
    PROVE  OnFifo' \subseteq OnFifo \cup {<<c, n>>}
  <1>1. fifo' = [fifo EXCEPT ![c] = Append(fifo[c], n)] /\ fifo \in [Channels -> Seq(Numbers)]
    BY DEF IInv, TypeOK, ChannelTypeOK
  <1>2. ASSUME NEW r \in Requests, r # <<c, n>>,
               NEW i \in 1..Len(fifo'[r[1]]), fifo'[r[1]][i] = r[2]
        PROVE  \E j \in 1..Len(fifo[r[1]]) : fifo[r[1]][j] = r[2]
    <2>1. r[1] \in Channels /\ r[2] \in Numbers /\ r = <<r[1], r[2]>>
      BY RequestParts
    <2>2. CASE r[1] # c
      BY <1>1, <1>2, <2>1, <2>2
    <2>3. CASE r[1] = c
      <3>1. fifo[c] \in Seq(Numbers) /\ fifo'[c] = Append(fifo[c], n) /\ r[2] # n
        BY <1>1, <1>2, <2>1, <2>3
      <3>2. /\ Len(fifo'[c]) = Len(fifo[c]) + 1 /\ Len(fifo[c]) \in Nat
            /\ \A k \in 1..Len(fifo[c]) : fifo'[c][k] = fifo[c][k]
            /\ fifo'[c][Len(fifo[c]) + 1] = n
        BY <3>1, AppendProperties
      <3>3. i \in 1..Len(fifo[c])
        BY <1>2, <2>3, <3>1, <3>2
      <3>4. QED
        BY <1>2, <2>3, <3>2, <3>3
    <2>4. QED
      BY <2>2, <2>3
  <1>3. QED
    BY <1>2 DEF OnFifo

\* So does one that done() answers.
LEMMA AnswerOnFifo ==
    ASSUME IInv, NEW c \in Channels, NEW n \in Numbers, NEW close, AnswerOn(c, n, close)
    PROVE  OnFifo' \subseteq OnFifo \cup {<<c, n>>}
  <1>1. fifo' = [fifo EXCEPT ![c] = Append(fifo[c], n)]
    BY DEF AnswerOn, PushAnswer
  <1>2. QED
    BY <1>1, AppendOnFifo

\* Reading a connection: the refused request holds its error page, the taken
\* one has nothing yet.
LEMMA ReceiveWhole ==
    ASSUME IInv, Ahead, Counted, BlanksCounted, Placed, Whole, StaySingle,
           NEW c \in Channels, Receive(c)
    PROVE  Whole'
  <1> DEFINE d == Head(inbuf[c])
  <1>0. /\ UNCHANGED <<main, thr, thunks, wire>> /\ d \in Datum /\ inbuf[c] # <<>>
        /\ RequestTypeOK /\ ChannelTypeOK /\ NetTypeOK
    BY ReceiveCases DEF Receive, IInv, TypeOK
  <1>1. AnswersWhole'
    BY <1>0, SentStaysWhole
  <1>t. /\ current \in [Channels -> 0..MaxReq] /\ collecting \in [Channels -> BOOLEAN]
        /\ \A r \in Requests : req[r].jobs \in Nat
    BY <1>0 DEF RequestTypeOK, Request, ChannelTypeOK
  <1>2. CASE CloseChannel(c) /\ UNCHANGED queue
    BY <1>0, <1>2, CloseChannelWhole
  <1>3. CASE UNCHANGED <<chanVars, req, queue>> \/ CloseWhenDone(c)
    <2>1. /\ StillCollecting /\ (\A r \in Requests : Same(r)) /\ OnFifo' = OnFifo
          /\ UNCHANGED queue
      BY <1>3 DEF StillCollecting, Same, OnFifo, chanVars, CloseWhenDone
    <2>2. QED
      BY <1>0, <2>1, NothingHandled
  \* A request with no job is found in none of its places.
  <1>4. ASSUME NEW r \in Requests, req[r].jobs = 0
        PROVE  /\ r \notin Queued
               /\ \A t \in Threads : thr[t].pc # "idle" => thr[t].job # r
               /\ \A i \in 1..Len(thunks) : thunks[i].req # r
    <2>1. r \notin Queued \cup Running \cup Thunked
      BY <1>4 DEF Placed, HaveJobs
    <2>2. QED
      BY <2>1 DEF Running, Thunked
  <1>5. CASE /\ current[c] # 0 /\ Enqueue(c)
             /\ collecting[c] \/ (req[<<c, current[c]>>].spent /\ d.part = "blank")
    <2> DEFINE r == <<c, current[c]>>
    <2>1. /\ r \in Requests /\ \A q \in Requests : Same(q)
          /\ req'[r].jobs = req[r].jobs + 1 /\ queue' = Append(queue, r)
          /\ UNCHANGED <<current, fifo>>
          /\ collecting' = [collecting EXCEPT ![c] = FALSE]
      BY <1>0, <1>5, EnqueueFields DEF Same
    <2>2. req'[r].jobs <= 1 => NotBegun(req'[r])
      <3>1. ASSUME req'[r].jobs <= 1 PROVE NotBegun(req[r])
        <4>1. req[r].jobs = 0
          BY <1>t, <2>1, <3>1
        <4>2. collecting[c]
          BY <1>5, <2>1, <4>1 DEF Counted
        <4>3. QED
          BY <4>2 DEF Whole
      <3>2. QED
        BY <2>1, <3>1 DEF Same, NotBegun
    <2>3. \A e \in Channels : collecting'[e] =>
               /\ collecting[e] /\ current'[e] = current[e] /\ current[e] # 0
               /\ <<e, current[e]>> \notin {}
      BY <1>t, <2>1 DEF Counted
    <2>4. OnFifo' = OnFifo
      BY <2>1 DEF OnFifo
    <2> HIDE DEF r
    <2>5. Queued' \subseteq Queued \cup {r}
      <3>1. /\ Len(queue) \in Nat /\ Len(queue') = Len(queue) + 1
            /\ \A i \in 1..Len(queue) : queue'[i] = queue[i]
            /\ queue'[Len(queue) + 1] = r
        BY <2>1, AppendProperties DEF IInv, TypeOK, JobTypeOK
      <3>2. 1..Len(queue') = 1..Len(queue) \cup {Len(queue) + 1}
        BY <3>1
      <3>3. QED
        BY <3>1, <3>2 DEF Queued
    <2>6. \A q \in Queued' : q \in Queued \ {} \/ (req'[q].jobs <= 1 => Waiting(req'[q]))
      BY <2>2, <2>5 DEF Waiting
    <2>7. QED
      BY <1>0, <1>1, <2>1, <2>3, <2>4, <2>6, WholeStays, Zenon
  <1>6. CASE current[c] # 0 /\ collecting[c] /\ NotContinued(c)
    <2>0. PICK n \in Numbers : n = current[c]
      BY <1>t, <1>6 DEF Numbers
    <2> DEFINE r == <<c, n>>
    <2>1. /\ r \in Requests /\ r[1] = c /\ r[2] = n /\ req[r].jobs = 0 /\ req[r].made
          /\ UNCHANGED queue
      <3>1. r \in Requests /\ r[1] = c /\ r[2] = n
        BY RequestPair
      <3>2. req[r].jobs = 0 /\ UNCHANGED queue
        BY <1>6, <2>0 DEF Counted, NotContinued
      <3>3. req[r].made
        BY <2>0 DEF IInv, CurrentIsPending
      <3>4. QED
        BY <3>1, <3>2, <3>3
    <2>2. PICK close \in BOOLEAN : AnswerOn(c, n, close)
      BY <1>6, <2>0 DEF NotContinued
    <2>3. req' = Failed(r) /\ collecting' = [collecting EXCEPT ![c] = FALSE]
          /\ current' = [current EXCEPT ![c] = 0]
      BY <1>6, <2>0, <2>2 DEF NotContinued, AnswerOn
    <2>4. OnFifo' \subseteq OnFifo \cup {r}
      BY <2>2, AnswerOnFifo
    <2>5. \A e \in Channels : collecting'[e] =>
               /\ collecting[e] /\ current'[e] = current[e] /\ current[e] # 0
               /\ <<e, current[e]>> \notin {r}
      BY <1>t, <2>3 DEF Counted
    <2> HIDE DEF r
    <2>6. /\ \A q \in Requests : q # r => req'[q] = req[q]
          /\ AnsweredWhole(req'[r])
      BY <1>0, <2>1, <2>3, FailedFields DEF AnsweredWhole
    <2>7. \A q \in Requests : q \notin {r} => Same(q)
      BY <2>6 DEF Same
    <2>8. \A q \in OnFifo' : q \in OnFifo \ {r} \/ (req'[q].jobs <= 1 => AnsweredWhole(req'[q]))
      BY <2>4, <2>6
    <2>9. \A q \in Queued' : q \in Queued \ {r} \/ (req'[q].jobs <= 1 => Waiting(req'[q]))
      <3>1. Queued' = Queued
        BY <2>1 DEF Queued
      <3>2. QED
        BY <1>4, <2>1, <3>1
    <2>10. /\ \A t \in Threads : thr'[t].pc = "idle" \/ (thr'[t] = thr[t] /\ thr[t].job \notin {r})
           /\ \A i \in 1..Len(thunks') :
                \E j \in 1..Len(thunks) : thunks'[i] = thunks[j] /\ thunks[j].req \notin {r}
      BY <1>0, <1>4, <2>1
    <2>11. QED
      BY <1>0, <1>1, <2>5, <2>7, <2>8, <2>9, <2>10, WholeStays, Zenon
  <1>7. CASE /\ current[c] = 0 /\ d.part = "head" /\ d.num \in Numbers /\ d.kind \in Kinds
             /\ HandleRequest(c, d.num, d.kind)
    <2>1. PICK n \in Numbers, kind \in Kinds : n = d.num /\ kind = d.kind
      BY <1>7
    <2> DEFINE r == <<c, n>>
    <2>2. ~req[r].made
      BY <1>0, <1>7, <2>1, TakenIsNew
    <2> HIDE DEF d
    <2>3. /\ r \in Requests /\ \A q \in Requests : q # r => req'[q] = req[q]
          /\ req'[r].made
          /\ queue' = IF req'[r].jobs = 0 THEN queue ELSE Append(queue, r)
          /\ \/ /\ req'[r].isDone /\ req'[r].reply \in {"error", "busy"}
                /\ req'[r].outgoing = <<ErrorPage>>
                /\ current' = [current EXCEPT ![c] = 0]
                /\ fifo' = [fifo EXCEPT ![c] = Append(fifo[c], n)]
                /\ UNCHANGED collecting
             \/ /\ ~req'[r].isDone /\ req'[r].outgoing = <<>>
                /\ current' = [current EXCEPT ![c] = n] /\ UNCHANGED fifo
                /\ collecting' = IF req'[r].jobs = 0 THEN [collecting EXCEPT ![c] = TRUE]
                                 ELSE collecting
      BY <1>7, <2>1, HandleFields
    <2>4. req[r].jobs = 0 /\ ~collecting[c]
      BY <1>7, <2>2, <2>3 DEF Counted
    <2>5. r \notin OnFifo
      <3>1. Single(r) /\ ~AnsweredWhole(req[r])
        BY <2>2, <2>4 DEF Single, AnsweredWhole
      <3>2. QED
        BY <3>1 DEF Whole
    <2>6. \/ /\ AnsweredWhole(req'[r]) /\ current' = [current EXCEPT ![c] = 0]
             /\ OnFifo' \subseteq OnFifo \cup {r} /\ UNCHANGED collecting
          \/ /\ NotBegun(req'[r]) /\ current' = [current EXCEPT ![c] = n] /\ OnFifo' = OnFifo
             /\ collecting' = collecting \/ collecting' = [collecting EXCEPT ![c] = TRUE]
      <3>1. CASE /\ req'[r].isDone /\ req'[r].reply \in {"error", "busy"}
                 /\ req'[r].outgoing = <<ErrorPage>>
                 /\ current' = [current EXCEPT ![c] = 0]
                 /\ fifo' = [fifo EXCEPT ![c] = Append(fifo[c], n)]
                 /\ UNCHANGED collecting
        <4>1. OnFifo' \subseteq OnFifo \cup {<<c, n>>}
          BY <3>1, AppendOnFifo
        <4>2. AnsweredWhole(req'[r])
          BY <2>3, <3>1 DEF AnsweredWhole
        <4>3. QED
          BY <3>1, <4>1, <4>2
      <3>2. CASE /\ ~req'[r].isDone /\ req'[r].outgoing = <<>>
                 /\ current' = [current EXCEPT ![c] = n] /\ UNCHANGED fifo
                 /\ collecting' = IF req'[r].jobs = 0 THEN [collecting EXCEPT ![c] = TRUE]
                                  ELSE collecting
        BY <3>2 DEF NotBegun, OnFifo
      <3>3. QED
        BY <2>3, <3>1, <3>2
    <2>7. ASSUME NEW e \in Channels, collecting'[e]
          PROVE  \/ /\ collecting[e] /\ current'[e] = current[e] /\ current[e] # 0
                    /\ <<e, current[e]>> \notin {r}
                 \/ NotBegun(req'[<<e, current'[e]>>])
      <3>1. CASE e = c
        <4>1. NotBegun(req'[r]) /\ current'[c] = n
          BY <1>t, <2>4, <2>6, <2>7, <3>1
        <4>2. QED
          BY <3>1, <4>1
      <3>2. CASE e # c
        BY <1>t, <2>6, <2>7, <3>2 DEF Counted
      <3>3. QED
        BY <3>1, <3>2
    <2> HIDE DEF r
    <2>8. \A q \in Requests : q \notin {r} => Same(q)
      BY <2>3 DEF Same
    <2>9. \A q \in OnFifo' : q \in OnFifo \ {r} \/ (req'[q].jobs <= 1 => AnsweredWhole(req'[q]))
      BY <2>5, <2>6
    <2>10. \A q \in Queued' : q \in Queued \ {r} \/ (req'[q].jobs <= 1 => Waiting(req'[q]))
      <3>1. Queued' \subseteq Queued \cup {r}
        <4>1. CASE queue' = queue
          BY <4>1 DEF Queued
        <4>2. CASE queue' = Append(queue, r)
          <5>1. /\ Len(queue) \in Nat /\ Len(queue') = Len(queue) + 1
                /\ \A i \in 1..Len(queue) : queue'[i] = queue[i]
                /\ queue'[Len(queue) + 1] = r
            BY <2>3, <4>2, AppendProperties DEF IInv, TypeOK, JobTypeOK
          <5>2. 1..Len(queue') = 1..Len(queue) \cup {Len(queue) + 1}
            BY <5>1
          <5>3. QED
            BY <5>1, <5>2 DEF Queued
        <4>3. QED
          BY <2>3, <4>1, <4>2
      <3>2. QED
        BY <2>6, <3>1 DEF Waiting
    <2>11. /\ \A t \in Threads : thr'[t].pc = "idle" \/ (thr'[t] = thr[t] /\ thr[t].job \notin {r})
           /\ \A i \in 1..Len(thunks') :
                \E j \in 1..Len(thunks) : thunks'[i] = thunks[j] /\ thunks[j].req \notin {r}
      BY <1>0, <1>4, <2>3, <2>4
    <2>12. QED
      BY <1>0, <1>1, <2>7, <2>8, <2>9, <2>10, <2>11, WholeStays, Zenon
  <1>8. QED
    BY <1>0, <1>2, <1>3, <1>5, <1>6, <1>7, ReceiveCases

\* What goes out is an answer of the fifo.
LEMMA FlushWhole ==
    ASSUME IInv, Counted, Whole, StaySingle, NEW c \in Channels, Flush(c)
    PROVE  Whole'
  <1>1. UNCHANGED <<main, queue, thr, thunks>>
    BY DEF Flush
  <1>2. CASE CloseChannel(c) /\ UNCHANGED wire
    BY <1>1, <1>2, CloseChannelWhole
  <1>3. CASE ~(CloseChannel(c) /\ UNCHANGED wire)
    <2>0. fifo[c] # <<>> /\ fifo[c] \in Seq(Numbers) /\ fifo \in [Channels -> Seq(Numbers)]
      BY <1>3 DEF Flush, IInv, TypeOK, ChannelTypeOK
    <2>1. PICK n \in Numbers : n = Head(fifo[c])
      BY <2>0, HeadTailProperties
    <2> DEFINE r == <<c, n>>
               a == [num |-> n, reply |-> req[r].reply, body |-> req[r].outgoing, want |-> req[r].want]
    <2>2. /\ fifo' = [fifo EXCEPT ![c] = Tail(fifo[c])]
          /\ wire' = [wire EXCEPT ![c] = Append(wire[c], a)]
          /\ UNCHANGED <<collecting, current, req>>
      BY <1>3, <2>1 DEF Flush
    <2>3. /\ n = fifo[c][1] /\ Len(fifo[c]) > 0 /\ Len(fifo[c]) \in Nat
          /\ Tail(fifo[c]) \in Seq(Numbers) /\ Len(Tail(fifo[c])) = Len(fifo[c]) - 1
          /\ \A i \in 1..Len(Tail(fifo[c])) : Tail(fifo[c])[i] = fifo[c][i + 1]
      BY <2>0, <2>1, HeadTailProperties
    <2>4. r \in Requests /\ r[1] = c /\ r[2] = n
      BY RequestPair
    <2>5. 1 \in 1..Len(fifo[c]) /\ \A i \in 1..Len(Tail(fifo[c])) : i + 1 \in 1..Len(fifo[c])
      BY <2>3
    <2>6. r \in OnFifo
      BY <2>3, <2>4, <2>5 DEF OnFifo
    <2>7. OnFifo' \subseteq OnFifo
      <3>1. ASSUME NEW q \in Requests, NEW i \in 1..Len(fifo'[q[1]]), fifo'[q[1]][i] = q[2]
            PROVE  \E j \in 1..Len(fifo[q[1]]) : fifo[q[1]][j] = q[2]
        <4>1. q[1] \in Channels
          BY RequestParts
        <4>2. CASE q[1] # c
          BY <2>0, <2>2, <3>1, <4>1, <4>2
        <4>3. CASE q[1] = c
          <5>1. fifo'[q[1]] = Tail(fifo[c])
            BY <2>0, <2>2, <4>1, <4>3
          <5>2. fifo[c][i + 1] = q[2] /\ i + 1 \in 1..Len(fifo[c])
            BY <2>3, <2>5, <3>1, <5>1
          <5>3. QED
            BY <4>3, <5>2
        <4>4. QED
          BY <4>2, <4>3
      <3>2. QED
        BY <3>1 DEF OnFifo
    <2>8. Single(r) => AnsweredWhole(req[r])
      BY <2>6 DEF Whole
    <2>9. a \in Answer
      <3>1. req[r] \in Request
        BY <2>4 DEF IInv, TypeOK, RequestTypeOK
      <3>2. QED
        BY <3>1 DEF Answer, Request
    <2>10. a.num = n /\ a.reply = req[r].reply /\ a.body = req[r].outgoing /\ a.want = req[r].want
      OBVIOUS
    <2> DEFINE Fine(b) == IF b.reply = "app" THEN b.body = Upto(b.want)
                          ELSE b.reply # "init" /\ b.body = <<ErrorPage>>
    <2>11. req[<<c, a.num>>].jobs <= 1 => Fine(a)
      BY <2>8, <2>10 DEF AnsweredWhole, Single
    <2> HIDE DEF a, r
    <2>12. AnswersWhole'
      <3>1. ASSUME NEW e \in Channels, NEW i \in 1..Len(wire'[e])
            PROVE  (\E j \in 1..Len(wire[e]) : wire'[e][i] = wire[e][j]) \/ (e = c /\ wire'[e][i] = a)
        <4>1. wire \in [Channels -> Seq(Answer)] /\ wire[e] \in Seq(Answer) /\ wire[c] \in Seq(Answer)
          BY DEF IInv, TypeOK, WireTypeOK
        <4>2. CASE e # c
          BY <2>2, <3>1, <4>1, <4>2
        <4>3. CASE e = c
          <5>1. wire'[e] = Append(wire[e], a)
            BY <2>2, <4>1, <4>3
          <5>2. /\ Len(wire'[e]) = Len(wire[e]) + 1 /\ Len(wire[e]) \in Nat
                /\ \A k \in 1..Len(wire[e]) : wire'[e][k] = wire[e][k]
                /\ wire'[e][Len(wire[e]) + 1] = a
            BY <2>9, <4>1, <5>1, AppendProperties
          <5>3. i \in 1..Len(wire[e]) \/ i = Len(wire[e]) + 1
            BY <3>1, <5>2
          <5>4. QED
            BY <4>3, <5>2, <5>3
        <4>4. QED
          BY <4>2, <4>3
      <3>2. \A e \in Channels : \A j \in 1..Len(wire[e]) :
              req[<<e, wire[e][j].num>>].jobs <= 1 => Fine(wire[e][j])
        BY DEF Whole, AnswersWhole, Upto
      <3> HIDE DEF Fine
      <3>3. \A e \in Channels : \A i \in 1..Len(wire'[e]) :
              req[<<e, wire'[e][i].num>>].jobs <= 1 => Fine(wire'[e][i])
        BY <2>11, <3>1, <3>2
      <3>4. QED
        BY <2>2, <3>3 DEF AnswersWhole, Upto, Fine
    <2>13. Queued' = Queued /\ \A q \in Requests : Same(q)
      BY <1>1, <2>2 DEF Queued, Same
    <2>14. \A e \in Channels : collecting'[e] =>
               /\ collecting[e] /\ current'[e] = current[e] /\ current[e] # 0
               /\ <<e, current[e]>> \notin {}
      BY <2>2 DEF Counted
    <2>15. QED
      BY <1>1, <2>7, <2>12, <2>13, <2>14, WholeStays, Zenon
  <1>4. QED
    BY <1>2, <1>3

\* One part more of the application's content.
LEMMA UptoNext ==
    ASSUME NEW n \in 1..MaxParts
    PROVE  Append(Upto(n - 1), n) = Upto(n)
  <1> DEFINE s == Append(Upto(n - 1), n)
             u == Upto(n)
  <1>0. MaxParts \in Nat /\ n - 1 \in Nat /\ n \in Nat
    BY RequestCycleAssumption
  <1>1. \A m \in Nat : Upto(m) \in Seq(Nat) /\ Len(Upto(m)) = m /\ \A i \in 1..m : Upto(m)[i] = i
    BY DEF Upto
  <1>2. Upto(n - 1) \in Seq(Nat) /\ Len(Upto(n - 1)) = n - 1 /\ \A i \in 1..n - 1 : Upto(n - 1)[i] = i
    BY <1>0, <1>1
  <1>3. /\ s \in Seq(Nat) /\ Len(s) = n - 1 + 1
        /\ \A i \in 1..n - 1 : s[i] = Upto(n - 1)[i]
        /\ s[n - 1 + 1] = n
    BY <1>0, <1>2, AppendProperties
  <1>4. u \in Seq(Nat) /\ Len(u) = n /\ \A i \in 1..n : u[i] = i
    BY <1>0, <1>1
  <1> HIDE DEF s, u
  <1>5. n - 1 + 1 = n /\ \A i \in 1..n : i \in 1..n - 1 \/ i = n
    BY <1>0
  <1>6. \A i \in 1..n : s[i] = u[i]
    BY <1>2, <1>3, <1>4, <1>5
  <1>7. s = u
    BY <1>3, <1>4, <1>5, <1>6, SeqEqual
  <1>8. QED
    BY <1>7 DEF s, u

\* Whatever a thread does to the response of its job, it leaves it as the rest
\* of its work, or the thunk it leaves behind, expects it.
LEMMA WorkWhole ==
    ASSUME IInv, Counted, Placed, Whole, StaySingle, NEW t \in Threads, thr[t].pc # "idle",
           UNCHANGED <<main, queue, current, collecting, fifo, wire>>, CountsStay,
           \A u \in Threads : u # t => thr'[u] = thr[u],
           \A r \in Requests : r # thr[t].job => req'[r] = req[r],
           Single(thr[t].job) => UNCHANGED req \/ ~req[thr[t].job].isDone,
           \/ thr'[t].pc = "idle"
           \/ /\ thr'[t].job = thr[t].job
              /\ Single(thr[t].job) => WorkedOn(thr'[t], req'[thr[t].job]),
           \/ UNCHANGED thunks
           \/ \E kind \in {"done", "error"} :
                /\ Wakeup(kind, thr[t].job)
                /\ Single(thr[t].job) => HandedOver(kind, req'[thr[t].job])
    PROVE  Whole'
  <1> DEFINE q == thr[t].job
  <1>1. /\ q \in Requests /\ q \in Running /\ q # None
        /\ req'[q].jobs <= 1 <=> Single(q)
    BY PlacesAreRequests DEF IInv, Holding, Running, CountsStay, Single
  <1>2. Single(q) => /\ q \notin Queued \cup Thunked
                     /\ \A u \in Threads : u # t => thr[u].job # q
    BY <1>1 DEF Placed, OnePlace, OncePerPlace
  <1>3. Queued' = Queued /\ OnFifo' = OnFifo
    BY DEF Queued, OnFifo
  <1>4. AnswersWhole'
    BY SentStaysWhole
  <1>5. \A r \in Requests : r \notin {q} => Same(r)
    BY DEF Same
  <1>6. \A r \in Queued' : r \in Queued \ {q} \/ (req'[r].jobs <= 1 => Waiting(req'[r]))
    BY <1>1, <1>2, <1>3
  <1>7. ASSUME NEW u \in Threads
        PROVE  \/ thr'[u].pc = "idle"
               \/ thr'[u] = thr[u] /\ thr[u].job \notin {q}
               \/ req'[thr'[u].job].jobs <= 1 => WorkedOn(thr'[u], req'[thr'[u].job])
    <2>1. CASE u = t
      BY <1>1, <2>1
    <2>2. CASE u # t
      BY <1>1, <1>2, <2>2
    <2>3. QED
      BY <2>1, <2>2
  <1>8. ASSUME NEW i \in 1..Len(thunks')
        PROVE  \/ \E j \in 1..Len(thunks) : thunks'[i] = thunks[j] /\ thunks[j].req \notin {q}
               \/ req'[thunks'[i].req].jobs <= 1
                    => HandedOver(thunks'[i].kind, req'[thunks'[i].req])
    <2>0. ASSUME NEW j \in 1..Len(thunks), thunks'[i] = thunks[j]
          PROVE  \/ thunks'[i] = thunks[j] /\ thunks[j].req \notin {q}
                 \/ req'[thunks'[i].req].jobs <= 1
                      => HandedOver(thunks'[i].kind, req'[thunks'[i].req])
      BY <1>1, <1>2, <2>0 DEF Thunked
    <2>1. CASE UNCHANGED thunks
      BY <1>8, <2>0, <2>1
    <2>2. ASSUME NEW kind \in {"done", "error"}, Wakeup(kind, q),
                 Single(q) => HandedOver(kind, req'[q])
          PROVE  \/ \E j \in 1..Len(thunks) : thunks'[i] = thunks[j] /\ thunks[j].req \notin {q}
                 \/ req'[thunks'[i].req].jobs <= 1
                      => HandedOver(thunks'[i].kind, req'[thunks'[i].req])
      <3> DEFINE K == [kind : {"done", "error"}, req : Requests]
                 k == [kind |-> kind, req |-> q]
      <3>1. k \in K /\ k.req = q /\ k.kind = kind /\ thunks \in Seq(K) /\ thunks' = Append(thunks, k)
        BY <1>1, <2>2 DEF Wakeup, IInv, TypeOK, JobTypeOK
      <3> HIDE DEF K, k
      <3>2. /\ Len(thunks') = Len(thunks) + 1 /\ Len(thunks) \in Nat
            /\ \A j \in 1..Len(thunks) : thunks'[j] = thunks[j]
            /\ thunks'[Len(thunks) + 1] = k
        BY <3>1, AppendProperties
      <3>3. i \in 1..Len(thunks) \/ i = Len(thunks) + 1
        BY <1>8, <3>2
      <3>4. CASE i \in 1..Len(thunks)
        BY <2>0, <3>2, <3>4
      <3>5. CASE i = Len(thunks) + 1
        BY <1>1, <2>2, <3>1, <3>2, <3>5
      <3>6. QED
        BY <3>3, <3>4, <3>5
    <2>3. QED
      BY <2>1, <2>2
  <1>9. \A r \in OnFifo' : r \in OnFifo \ {q} \/ (req'[r].jobs <= 1 => AnsweredWhole(req'[r]))
    <2>1. ASSUME Single(q), q \in OnFifo PROVE AnsweredWhole(req'[q])
      <3>1. AnsweredWhole(req[q])
        BY <2>1 DEF Whole
      <3>2. UNCHANGED req
        BY <2>1, <3>1 DEF AnsweredWhole
      <3>3. QED
        BY <3>1, <3>2
    <2>2. QED
      BY <1>1, <1>3, <2>1
  <1>10. \A c \in Channels : collecting'[c] =>
               /\ collecting[c] /\ current'[c] = current[c] /\ current[c] # 0
               /\ <<c, current[c]>> \notin {q}
    <2>1. ~(req[q].jobs = 0)
      BY <1>1 DEF Placed, HaveJobs
    <2> HIDE DEF q
    <2>2. ASSUME NEW c \in Channels, collecting[c]
          PROVE  current[c] # 0 /\ <<c, current[c]>> # q
      BY <2>1, <2>2 DEF Counted
    <2>3. QED
      BY <2>2
  <1> HIDE DEF q
  <1>11. QED
    BY <1>4, <1>5, <1>6, <1>7, <1>8, <1>9, <1>10, WholeStays, Zenon

\* A thread works on the response of its job, part by part.
LEMMA ThreadWhole ==
    ASSUME IInv, Counted, Placed, Whole, StaySingle, CountsStay, NEW t \in Threads, ThreadStep(t)
    PROVE  Whole'
  <1>1. UNCHANGED <<main, current, collecting, fifo, wire>>
    BY DEF ThreadStep, GetJob, BeginJob, StartResponse, SetStatus, Content,
           NextPart, PushPart, FinishJob, FailJob, threadRest, chanVars
  <1>2. thr \in [Threads -> ThreadState] /\ thr[t] \in ThreadState
    BY DEF IInv, TypeOK, JobTypeOK
  <1>3. \A u \in Threads : u # t => thr'[u] = thr[u]
    BY <1>2 DEF ThreadStep, GetJob, BeginJob, StartResponse, SetStatus, Content,
           NextPart, PushPart, FinishJob, FailJob, Goto
  <1>4. CASE GetJob(t)
    <2> DEFINE h == Head(queue)
    <2>1. /\ queue # <<>> /\ queue \in Seq(Requests) /\ queue' = Tail(queue)
          /\ thr'[t] = [Idle EXCEPT !.pc = "begin", !.job = h]
          /\ UNCHANGED <<thunks, req>>
      BY <1>2, <1>4 DEF GetJob, IInv, TypeOK, JobTypeOK
    <2>2. /\ h \in Requests /\ h = queue[1] /\ Len(queue) \in Nat /\ Len(queue) > 0
          /\ Len(queue') = Len(queue) - 1
          /\ \A i \in 1..Len(queue') : queue'[i] = queue[i + 1]
      BY <2>1, HeadTailProperties
    <2>3. thr'[t].job = h /\ thr'[t].pc = "begin" /\ thr'[t].at = 1 /\ thr'[t].want = 0
      BY <2>1 DEF Idle
    <2>4. 1 \in 1..Len(queue) /\ \A i \in 1..Len(queue') : i + 1 \in 1..Len(queue)
      BY <2>2
    <2> HIDE DEF h
    <2>5. h \in Queued /\ Queued' \subseteq Queued
      BY <2>2, <2>4 DEF Queued
    <2>6. OnFifo' = OnFifo /\ AnswersWhole' /\ \A r \in Requests : Same(r)
      BY <1>1, <2>1, SentStaysWhole DEF OnFifo, Same
    <2>7. req'[h].jobs <= 1 => WorkedOn(thr'[t], req'[h])
      <3>1. Single(h) => Waiting(req[h])
        BY <2>5 DEF Whole
      <3>2. Waiting(req[h]) => WorkedOn(thr'[t], req[h])
        BY <2>3 DEF Waiting, NotBegun, WorkedOn, Filling
      <3>3. QED
        BY <2>1, <3>1, <3>2 DEF Single
    <2>8. \A u \in Threads :
            \/ thr'[u] = thr[u] /\ thr[u].job \notin {}
            \/ req'[thr'[u].job].jobs <= 1 => WorkedOn(thr'[u], req'[thr'[u].job])
      BY <1>3, <2>3, <2>7
    <2>9. \A c \in Channels : collecting'[c] =>
               /\ collecting[c] /\ current'[c] = current[c] /\ current[c] # 0
               /\ <<c, current[c]>> \notin {}
      BY <1>1 DEF Counted
    <2>10. QED
      BY <1>1, <2>1, <2>5, <2>6, <2>8, <2>9, WholeStays, Zenon
  <1>5. CASE ~GetJob(t)
    <2> DEFINE q == thr[t].job
    <2>0. thr[t].pc # "idle" /\ UNCHANGED queue
      BY <1>5 DEF ThreadStep, BeginJob, StartResponse, SetStatus, Content,
           NextPart, PushPart, FinishJob, FailJob
    <2>1. /\ q \in Requests /\ req[q] \in Request /\ req \in [Requests -> Request]
          /\ Single(q) => WorkedOn(thr[t], req[q])
      BY <2>0 DEF IInv, Holding, TypeOK, RequestTypeOK, Whole
    <2>2. Single(q) /\ req[q].isDone =>
            AnsweredWhole(req[q]) /\ thr[t].pc \in {"begin", "start", "content", "fail"}
      BY <2>1 DEF WorkedOn, Filling
    <2>3. Single(q) /\ ~req[q].isDone => Filling(thr[t], req[q])
      BY <2>1 DEF WorkedOn, AnsweredWhole
    <2>4. ASSUME \/ thr'[t].pc = "idle"
                 \/ thr'[t].job = q /\ (Single(q) => WorkedOn(thr'[t], req'[q])),
                 \A r \in Requests : r # q => req'[r] = req[r],
                 Single(q) => UNCHANGED req \/ ~req[q].isDone,
                 \/ UNCHANGED thunks
                 \/ \E kind \in {"done", "error"} :
                      Wakeup(kind, q) /\ (Single(q) => HandedOver(kind, req'[q]))
          PROVE  Whole'
      BY <1>1, <1>3, <2>0, <2>4, WorkWhole
    <2>5. CASE BeginJob(t) \/ StartResponse(t)
      <3>1. UNCHANGED <<req, thunks>>
        BY <2>5 DEF BeginJob, StartResponse
      <3>2. \/ thr'[t] = Idle
            \/ thr[t].pc = "begin" /\ thr'[t] = [thr[t] EXCEPT !.pc = "start"]
            \/ /\ thr[t].pc = "start" /\ ~req[q].isDone
               /\ thr'[t] = [thr[t] EXCEPT !.pc = "status"]
            \/ /\ thr[t].pc = "start" /\ req[q].isDone
               /\ thr'[t] = [thr[t] EXCEPT !.pc = "content"]
        BY <1>2, <2>5 DEF BeginJob, StartResponse, Goto, Responsable
      <3>3. \/ thr'[t].pc = "idle"
            \/ thr'[t].job = q /\ (Single(q) => WorkedOn(thr'[t], req'[q]))
        <4>1. CASE thr'[t] = Idle
          BY <4>1 DEF Idle
        <4>2. ASSUME NEW pc \in {"start", "status", "content"},
                     thr[t].pc \in {"begin", "start"},
                     pc = "status" => ~req[q].isDone, pc = "content" => req[q].isDone,
                     thr'[t] = [thr[t] EXCEPT !.pc = pc]
              PROVE  thr'[t].job = q /\ (Single(q) => WorkedOn(thr'[t], req'[q]))
          <5>1. /\ thr'[t].job = q /\ thr'[t].pc = pc
                /\ thr'[t].at = thr[t].at /\ thr'[t].want = thr[t].want
            BY <1>2, <4>2 DEF ThreadState
          <5>2. CASE req[q].isDone
            BY <2>2, <3>1, <4>2, <5>1, <5>2 DEF WorkedOn
          <5>3. CASE ~req[q].isDone
            BY <2>3, <3>1, <4>2, <5>1, <5>3 DEF WorkedOn, Filling
          <5>4. QED
            BY <5>1, <5>2, <5>3
        <4>3. QED
          BY <3>2, <4>1, <4>2
      <3>4. QED
        BY <2>4, <3>1, <3>3
    <2>6. CASE SetStatus(t)
      <3> DEFINE p == [req[q] EXCEPT !.reply = "app"]
      <3>1. /\ UNCHANGED thunks /\ req' = [req EXCEPT ![q] = p]
            /\ thr[t].pc = "status" /\ thr'[t] = [thr[t] EXCEPT !.pc = "content"]
        BY <1>2, <2>6 DEF SetStatus, Goto
      <3>2. p.reply = "app" /\ p.isDone = req[q].isDone /\ p.outgoing = req[q].outgoing
        BY <2>1 DEF Request
      <3>3. /\ thr'[t].job = q /\ thr'[t].pc = "content"
            /\ thr'[t].at = thr[t].at /\ thr'[t].want = thr[t].want
        BY <1>2, <3>1 DEF ThreadState
      <3> HIDE DEF p
      <3>4. req'[q] = p /\ \A r \in Requests : r # q => req'[r] = req[r]
        BY <2>1, <3>1
      <3>5. Single(q) => ~req[q].isDone
        BY <2>2, <3>1
      <3>6. Upto(0) = <<>>
        BY DEF Upto
      <3>7. Single(q) => WorkedOn(thr'[t], req'[q])
        BY <2>3, <3>1, <3>2, <3>3, <3>4, <3>5, <3>6 DEF WorkedOn, Filling
      <3>8. QED
        BY <2>4, <3>1, <3>3, <3>4, <3>5, <3>7
    <2>7. CASE Content(t)
      <3>0. UNCHANGED thunks /\ thr[t].pc = "content"
        BY <2>7 DEF Content
      <3>1. ASSUME NEW k \in 0..MaxParts, NEW ret \in BOOLEAN, ~req[q].isDone, thr[t].want <= k,
                   req' = [req EXCEPT ![q] = [req[q] EXCEPT !.want = k]],
                   thr' = [thr EXCEPT ![t] =
                             [thr[t] EXCEPT !.pc = "next", !.want = k, !.returned = ret]]
            PROVE  Whole'
        <4> DEFINE p == [req[q] EXCEPT !.want = k]
                   h == [thr[t] EXCEPT !.pc = "next", !.want = k, !.returned = ret]
        <4>1. req' = [req EXCEPT ![q] = p] /\ thr'[t] = h
          BY <1>2, <3>1
        <4>2. p.want = k /\ p.reply = req[q].reply /\ p.isDone = req[q].isDone /\ p.outgoing = req[q].outgoing
          BY <2>1 DEF Request
        <4>3. h.pc = "next" /\ h.at = thr[t].at /\ h.want = k /\ h.job = q
          BY <1>2 DEF ThreadState
        <4> HIDE DEF p, h
        <4>4. req'[q] = p /\ \A r \in Requests : r # q => req'[r] = req[r]
          BY <2>1, <4>1
        <4>5. ASSUME Single(q) PROVE WorkedOn(h, p)
          <5>1. /\ req[q].reply = "app" /\ thr[t].at = thr[t].want + 1
                /\ req[q].outgoing = Upto(thr[t].want)
            BY <2>3, <3>0, <3>1, <4>5 DEF Filling
          <5>2. thr[t].want \in Nat /\ k \in Nat
            BY <1>2, RequestCycleAssumption DEF ThreadState
          <5>3. thr[t].at \in 1..k + 1 /\ thr[t].at - 1 = thr[t].want
            BY <3>1, <5>1, <5>2
          <5>4. QED
            BY <3>1, <4>2, <4>3, <5>1, <5>3 DEF WorkedOn, Filling
        <4>6. QED
          BY <2>4, <3>0, <3>1, <4>1, <4>3, <4>4, <4>5
      <3>2. CASE thr' = [thr EXCEPT ![t] = [thr[t] EXCEPT !.pc = "fail"]] /\ UNCHANGED req
        <4>1. thr'[t].job = q /\ thr'[t].pc = "fail"
          BY <1>2, <3>2 DEF ThreadState
        <4>2. Single(q) => WorkedOn(thr'[t], req'[q])
          BY <2>2, <2>3, <3>2, <4>1 DEF WorkedOn, Filling
        <4>3. QED
          BY <2>4, <3>0, <3>2, <4>1, <4>2
      <3>3. CASE thr' = [thr EXCEPT ![t] = Idle] /\ UNCHANGED req
        BY <1>2, <2>4, <3>0, <3>3 DEF Idle
      <3>4. \/ \E k \in 0..MaxParts, ret \in BOOLEAN :
                   /\ ~req[q].isDone /\ thr[t].want <= k
                   /\ req' = [req EXCEPT ![q] = [req[q] EXCEPT !.want = k]]
                   /\ thr' = [thr EXCEPT ![t] =
                                [thr[t] EXCEPT !.pc = "next", !.want = k, !.returned = ret]]
            \/ thr' = [thr EXCEPT ![t] = [thr[t] EXCEPT !.pc = "fail"]] /\ UNCHANGED req
            \/ thr' = [thr EXCEPT ![t] = Idle] /\ UNCHANGED req
        BY <2>7, ContentCases DEF IInv, TypeOK
      <3>5. QED
        BY <3>1, <3>2, <3>3, <3>4
    <2>8. CASE NextPart(t)
      <3>1. UNCHANGED <<req, thunks>> /\ thr[t].pc = "next"
        BY <2>8 DEF NextPart
      <3>2. /\ thr[t].want \in Nat /\ thr[t].at \in Nat
        BY <1>2, RequestCycleAssumption DEF ThreadState
      <3>3. ASSUME Single(q)
            PROVE  ~req[q].isDone /\ Filling(thr[t], req[q]) /\ thr[t].at <= thr[t].want + 1
        <4>1. ~req[q].isDone /\ Filling(thr[t], req[q])
          BY <2>2, <2>3, <3>1, <3>3
        <4>2. thr[t].at \in 1..thr[t].want + 1
          BY <3>1, <4>1 DEF Filling
        <4>3. QED
          BY <3>2, <4>1, <4>2
      <3>4. CASE AllPushed(t)
        <4>1. PICK pc \in {"finish", "content"} : thr'[t] = [thr[t] EXCEPT !.pc = pc]
          BY <1>2, <2>8, <3>4 DEF NextPart, Goto
        <4>2. thr'[t].job = q /\ thr'[t].at = thr[t].at /\ thr'[t].want = thr[t].want
              /\ thr'[t].pc = pc
          BY <1>2, <4>1 DEF ThreadState
        <4>3. ASSUME Single(q) PROVE WorkedOn(thr'[t], req'[q])
          <5>1. /\ thr[t].at = thr[t].want + 1 /\ thr[t].at - 1 = thr[t].want
                /\ thr[t].at \in 1..thr[t].want + 1
            BY <3>2, <3>3, <3>4, <4>3 DEF AllPushed
          <5>2. /\ req[q].reply = "app" /\ req[q].want = thr[t].want /\ ~req[q].isDone
                /\ req[q].outgoing = Upto(thr[t].at - 1)
            BY <3>1, <3>3, <4>3 DEF Filling
          <5>3. QED
            BY <3>1, <4>2, <5>1, <5>2 DEF WorkedOn, Filling
        <4>4. QED
          BY <2>4, <3>1, <4>2, <4>3
      <3>5. CASE ~AllPushed(t) /\ ~req[q].isDone
        <4>1. thr'[t] = [thr[t] EXCEPT !.pc = "push"]
          BY <1>2, <2>8, <3>5 DEF NextPart, Goto, Responsable
        <4>2. thr'[t].job = q /\ thr'[t].at = thr[t].at /\ thr'[t].want = thr[t].want
              /\ thr'[t].pc = "push"
          BY <1>2, <4>1 DEF ThreadState
        <4>3. ASSUME Single(q) PROVE WorkedOn(thr'[t], req'[q])
          <5>1. thr[t].at <= thr[t].want
            BY <3>2, <3>5 DEF AllPushed
          <5>2. /\ req[q].reply = "app" /\ req[q].want = thr[t].want /\ ~req[q].isDone
                /\ thr[t].at \in 1..thr[t].want + 1 /\ req[q].outgoing = Upto(thr[t].at - 1)
            BY <3>1, <3>3, <4>3 DEF Filling
          <5>3. QED
            BY <3>1, <4>2, <5>1, <5>2 DEF WorkedOn, Filling
        <4>4. QED
          BY <2>4, <3>1, <4>2, <4>3
      <3>6. CASE ~AllPushed(t) /\ req[q].isDone
        <4>1. thr'[t] = [thr[t] EXCEPT !.at = thr[t].at + 1]
          BY <1>2, <2>8, <3>6 DEF NextPart, Responsable
        <4>2. thr'[t].job = q
          BY <1>2, <4>1 DEF ThreadState
        <4>3. ~Single(q)
          BY <3>3, <3>6
        <4>4. QED
          BY <2>4, <3>1, <4>2, <4>3
      <3>7. QED
        BY <3>4, <3>5, <3>6
    <2>9. CASE PushPart(t)
      <3> DEFINE n == thr[t].at
                 p == [req[q] EXCEPT !.outgoing = Append(req[q].outgoing, n)]
                 h == [thr[t] EXCEPT !.pc = "next", !.at = n + 1]
      <3>1. /\ UNCHANGED thunks /\ thr[t].pc = "push"
            /\ req' = [req EXCEPT ![q] = p] /\ thr'[t] = h
        BY <1>2, <2>9 DEF PushPart
      <3>2. /\ p.outgoing = Append(req[q].outgoing, n) /\ p.want = req[q].want
            /\ p.reply = req[q].reply /\ p.isDone = req[q].isDone
        BY <2>1 DEF Request
      <3>3. h.pc = "next" /\ h.at = n + 1 /\ h.want = thr[t].want /\ h.job = q
        BY <1>2 DEF ThreadState
      <3>4. Single(q) => ~req[q].isDone /\ Filling(thr[t], req[q])
        BY <2>2, <2>3, <3>1
      <3> HIDE DEF p, h, n
      <3>5. req'[q] = p /\ \A r \in Requests : r # q => req'[r] = req[r]
        BY <2>1, <3>1
      <3>6. ASSUME Single(q) PROVE WorkedOn(h, p)
        <4>1. /\ thr[t].want \in 0..MaxParts /\ n \in 1..thr[t].want /\ n \in Nat /\ MaxParts \in Nat
              /\ req[q].outgoing = Upto(n - 1)
          <5>1. /\ thr[t].at \in 1..thr[t].want + 1 /\ thr[t].at <= thr[t].want
                /\ req[q].outgoing = Upto(thr[t].at - 1)
            BY <3>1, <3>4, <3>6 DEF Filling
          <5>2. thr[t].want \in 0..MaxParts /\ MaxParts \in Nat
            BY <1>2, RequestCycleAssumption DEF ThreadState
          <5>3. QED
            BY <5>1, <5>2 DEF n
        <4>2. n \in 1..MaxParts
          BY <4>1
        <4>3. p.outgoing = Upto(n)
          BY <3>2, <4>1, <4>2, UptoNext
        <4>4. n + 1 \in 1..thr[t].want + 1 /\ n + 1 - 1 = n
          BY <4>1
        <4>5. h.at \in 1..h.want + 1 /\ p.outgoing = Upto(h.at - 1)
          <5>1. h.at - 1 = n
            BY <3>3, <4>1, <4>4
          <5>2. p.outgoing = Upto(h.at - 1)
            BY <4>3, <5>1, Zenon
          <5>3. h.at \in 1..h.want + 1
            BY <3>3, <4>4, Zenon
          <5>4. QED
            BY <5>2, <5>3
        <4>6. ~p.isDone /\ p.reply = "app" /\ p.want = h.want
          BY <3>1, <3>2, <3>3, <3>4, <3>6 DEF Filling
        <4>7. QED
          BY <3>3, <4>5, <4>6 DEF WorkedOn, Filling
      <3>7. QED
        BY <2>4, <3>1, <3>3, <3>4, <3>5, <3>6
    <2>10. CASE FinishJob(t) \/ FailJob(t)
      <3>1. UNCHANGED req /\ thr'[t].pc = "idle"
        BY <1>2, <2>10 DEF FinishJob, FailJob, Idle
      <3>2. \E kind \in {"done", "error"} :
              Wakeup(kind, q) /\ (Single(q) => HandedOver(kind, req'[q]))
        <4>1. CASE FinishJob(t)
          <5>1. ASSUME Single(q) PROVE HandedOver("done", req[q])
            <6>1. ~req[q].isDone /\ Filling(thr[t], req[q])
              BY <2>2, <2>3, <4>1, <5>1 DEF FinishJob
            <6>2. /\ thr[t].at = thr[t].want + 1 /\ req[q].reply = "app"
                  /\ req[q].want = thr[t].want /\ req[q].outgoing = Upto(thr[t].at - 1)
              BY <4>1, <6>1 DEF FinishJob, Filling
            <6>3. thr[t].at - 1 = thr[t].want
              BY <1>2, <6>2, RequestCycleAssumption DEF ThreadState
            <6>4. QED
              BY <6>1, <6>2, <6>3 DEF HandedOver
          <5>2. QED
            BY <3>1, <4>1, <5>1 DEF FinishJob
        <4>2. CASE FailJob(t)
          <5>1. Single(q) => HandedOver("error", req[q])
            BY <2>2, <2>3 DEF HandedOver
          <5>2. QED
            BY <3>1, <4>2, <5>1 DEF FailJob
        <4>3. QED
          BY <2>10, <4>1, <4>2
      <3>3. QED
        BY <2>4, <3>1, <3>2
    <2>11. QED
      BY <1>5, <2>5, <2>6, <2>7, <2>8, <2>9, <2>10 DEF ThreadStep
  <1>6. QED
    BY <1>4, <1>5

\* The main thread finishes the response a thread is done with.
LEMMA RunThunkWhole ==
    ASSUME IInv, Counted, Placed, Whole, StaySingle, FieldsStay, StillCollecting, RunThunk
    PROVE  Whole'
  <1> DEFINE K == [kind : {"done", "error"}, req : Requests]
             k == Head(thunks)
  <1>0. UNCHANGED <<main, queue, thr, wire>>
    BY DEF RunThunk
  <1>1. /\ k \in K /\ k = thunks[1] /\ Len(thunks) \in Nat /\ Len(thunks) > 0
        /\ Len(thunks') = Len(thunks) - 1
        /\ \A i \in 1..Len(thunks') : thunks'[i] = thunks[i + 1]
    <2>1. thunks # <<>> /\ thunks \in Seq(K) /\ thunks' = Tail(thunks)
      BY DEF RunThunk, IInv, TypeOK, JobTypeOK
    <2> HIDE DEF K
    <2>2. QED
      BY <2>1, HeadTailProperties
  <1>2. PICK q \in Requests : q = k.req
    BY <1>1
  <1>3. 1 \in 1..Len(thunks) /\ \A i \in 1..Len(thunks') : i + 1 \in 1..Len(thunks) /\ i + 1 # 1
    BY <1>1
  <1>4. k.kind \in {"done", "error"} /\ (Single(q) => HandedOver(k.kind, req[q]))
    BY <1>1, <1>2, <1>3 DEF Whole
  <1>5. /\ q \in Thunked /\ req[q].jobs > 0 /\ (req'[q].jobs <= 1 <=> Single(q))
        /\ Single(q) => q \notin Queued \cup Running
    <2>1. q \in Thunked
      BY <1>1, <1>2, <1>3 DEF Thunked
    <2>2. QED
      BY <2>1 DEF Placed, OnePlace, HaveJobs, FieldsStay, Single
  <1>6. req[q].made /\ req[q] \in Request
    <2>1. req[q].made
      BY <1>5 DEF Counted
    <2>2. QED
      BY <2>1 DEF IInv, TypeOK, RequestTypeOK
  <1>7. q[1] \in Channels /\ q[2] \in Numbers /\ q = <<q[1], q[2]>>
    BY RequestParts
  <1>8. /\ \A r \in Requests : r # q => req'[r] = req[r]
        /\ Single(q) /\ ~req[q].isDone => AnsweredWhole(req'[q])
        /\ req[q].isDone => UNCHANGED req
        /\ OnFifo' \subseteq OnFifo \cup {q}
        /\ req[q].isDone => OnFifo' \subseteq OnFifo
    <2>1. CASE req[q].isDone
      BY <1>2, <2>1 DEF RunThunk, Responsable, OnFifo, chanVars
    <2>2. CASE ~req[q].isDone
      <3> DEFINE f == [req[q] EXCEPT !.isDone = TRUE]
      <3>1. /\ req' = IF k.kind = "error" THEN Failed(q) ELSE [req EXCEPT ![q] = f]
            /\ \/ \E close \in BOOLEAN : AnswerOn(q[1], q[2], close)
               \/ UNCHANGED fifo
        <4>1. req' = IF k.kind = "error" THEN Failed(q) ELSE [req EXCEPT ![q].isDone = TRUE]
          BY <1>2, <2>2 DEF RunThunk, Responsable
        <4>2. [req EXCEPT ![q].isDone = TRUE] = [req EXCEPT ![q] = f]
          BY DEF IInv, TypeOK, RequestTypeOK
        <4>3. \/ \E close \in BOOLEAN : AnswerOn(q[1], q[2], close)
              \/ UNCHANGED fifo
          BY <1>2, <2>2 DEF RunThunk, Responsable
        <4> HIDE DEF f, k
        <4>4. QED
          BY <4>1, <4>2, <4>3
      <3>2. /\ f.isDone /\ f.made = req[q].made /\ f.reply = req[q].reply
            /\ f.outgoing = req[q].outgoing /\ f.want = req[q].want
        BY <1>6 DEF Request
      <3> HIDE DEF f, k, K
      <3>3. OnFifo' \subseteq OnFifo \cup {q}
        <4>1. CASE UNCHANGED fifo
          BY <4>1 DEF OnFifo
        <4>2. ASSUME NEW close \in BOOLEAN, AnswerOn(q[1], q[2], close)
              PROVE  OnFifo' \subseteq OnFifo \cup {q}
          BY <1>7, <4>2, AnswerOnFifo, Zenon
        <4>3. QED
          BY <3>1, <4>1, <4>2
      <3>4. CASE k.kind = "error"
        <4>1. req' = Failed(q) /\ RequestTypeOK
          BY <3>1, <3>4 DEF IInv, TypeOK
        <4>2. /\ \A r \in Requests : r # q => req'[r] = req[r]
              /\ AnsweredWhole(req'[q])
          BY <1>6, <4>1, FailedFields DEF AnsweredWhole
        <4>3. QED
          BY <2>2, <3>3, <4>2
      <3>5. CASE k.kind = "done"
        <4>1. req'[q] = f /\ \A r \in Requests : r # q => req'[r] = req[r]
          BY <3>1, <3>5 DEF IInv, TypeOK, RequestTypeOK
        <4>2. ASSUME Single(q) PROVE AnsweredWhole(req'[q])
          <5>1. req[q].reply = "app" /\ req[q].outgoing = Upto(req[q].want)
            BY <1>4, <2>2, <3>5, <4>2 DEF HandedOver, AnsweredWhole
          <5>2. QED
            BY <1>6, <3>2, <4>1, <5>1 DEF AnsweredWhole
        <4>3. QED
          BY <2>2, <3>3, <4>1, <4>2
      <3>6. QED
        BY <1>4, <3>4, <3>5
    <2>3. QED
      BY <2>1, <2>2
  <1> HIDE DEF K, k
  <1>9. \A r \in Requests : r \notin {q} => Same(r)
    BY <1>8 DEF Same
  <1>10. AnswersWhole' /\ Queued' = Queued
    BY <1>0, SentStaysWhole DEF Queued
  <1>11. \A c \in Channels : collecting'[c] =>
               /\ collecting[c] /\ current'[c] = current[c] /\ current[c] # 0
               /\ <<c, current[c]>> \notin {q}
    <2>1. ~(req[q].jobs = 0)
      BY <1>5
    <2>2. ASSUME NEW c \in Channels, collecting[c]
          PROVE  current[c] # 0 /\ <<c, current[c]>> # q
      BY <2>1, <2>2 DEF Counted
    <2>3. QED
      BY <2>2 DEF StillCollecting
  <1>12. \A r \in Queued' : r \in Queued \ {q} \/ (req'[r].jobs <= 1 => Waiting(req'[r]))
    BY <1>5, <1>10
  <1>13. ASSUME NEW t \in Threads
         PROVE  \/ thr'[t].pc = "idle"
                \/ thr'[t] = thr[t] /\ thr[t].job \notin {q}
                \/ req'[thr'[t].job].jobs <= 1 => WorkedOn(thr'[t], req'[thr'[t].job])
    <2>1. thr[t].job = q => q \in Running
      BY DEF Running
    <2>2. QED
      BY <1>0, <1>5, <2>1
  <1>14. ASSUME NEW i \in 1..Len(thunks')
         PROVE  \/ \E j \in 1..Len(thunks) : thunks'[i] = thunks[j] /\ thunks[j].req \notin {q}
                \/ req'[thunks'[i].req].jobs <= 1
                     => HandedOver(thunks'[i].kind, req'[thunks'[i].req])
    <2>1. thunks'[i] = thunks[i + 1] /\ i + 1 \in 1..Len(thunks)
      BY <1>1, <1>3
    <2>2. thunks[i + 1].req = q => ~Single(q)
      BY <1>1, <1>2, <1>3, <2>1 DEF Placed, OncePerPlace
    <2>3. QED
      BY <1>5, <2>1, <2>2
  <1>15. \A r \in OnFifo' : r \in OnFifo \ {q} \/ (req'[r].jobs <= 1 => AnsweredWhole(req'[r]))
    <2>1. ASSUME Single(q), q \in OnFifo' PROVE AnsweredWhole(req'[q])
      <3>1. CASE req[q].isDone
        BY <1>8, <2>1, <3>1 DEF Whole
      <3>2. QED
        BY <1>8, <2>1, <3>1
    <2>2. QED
      BY <1>5, <1>8, <2>1
  <1>16. QED
    BY <1>0, <1>9, <1>10, <1>11, <1>12, <1>13, <1>14, <1>15, WholeStays, Zenon

\* Every step of a server whose requests do not time out.
LEMMA WholeStep ==
    ASSUME ~Timeouts, IInv, Ahead, Counted, BlanksCounted, Placed, Whole, [Next]_vars
    PROVE  Whole'
  <1>1. StaySingle
    BY JobsGrow
  <1>2. CASE \E c \in Channels : Receive(c)
    BY <1>1, <1>2, ReceiveWhole
  <1>3. CASE \A c \in Channels : ~Receive(c)
    <2>1. FieldsStay /\ StillCollecting /\ CountsStay
      BY <1>3, CountedStep DEF FieldsStay, CountsStay
    <2>2. ASSUME NEW c \in Channels, Disconnect(c) PROVE Whole'
      BY <1>1, <2>2, CloseChannelWhole DEF Disconnect
    <2>3. ASSUME UNCHANGED <<closed, rejected, current, collecting, fifo, wire, req, queue, thr, thunks, main>>
          PROVE  Whole'
      <3>1. (\A r \in Requests : Same(r)) /\ OnFifo' = OnFifo
        BY <2>3 DEF Same, OnFifo
      <3>2. QED
        BY <1>1, <2>1, <2>3, <3>1, NothingHandled
    <2>4. ASSUME NEW c \in Channels, ClientSend(c) \/ ClientBlank(c) PROVE Whole'
      BY <2>3, <2>4 DEF ClientSend, ClientBlank, chanVars
    <2>5. CASE UNCHANGED vars
      BY <2>3, <2>5 DEF vars
    <2>6. CASE Timeout \/ TimeoutPage \/ TimeoutDone \/ TimeoutSend
      BY <2>6 DEF Timeout, TimeoutIdle, TimeoutError, TimeoutPage, TimeoutDone, TimeoutSend, Whole
    <2>7. QED
      BY <1>1, <1>3, <2>1, <2>2, <2>4, <2>5, <2>6, FlushWhole, RunThunkWhole, ThreadWhole
         DEF Next, Client, MainStep
  <1>4. QED
    BY <1>2, <1>3

\* Where no request times out, the answer of a request with one job reaches the
\* client whole: the application's status with every part it wrote and returned,
\* in their order, or an error with the error page alone, whatever was pushed
\* before the error; no part is lost, doubled, or sent with another request's
\* answer, however many threads fill responses.
THEOREM AnswersAreWhole ==
    ASSUME ~Timeouts
    PROVE  Spec => []AnswersWhole
  <1>1. Init => Whole
    <2>1. SUFFICES ASSUME Init PROVE Whole
      OBVIOUS
    <2>2. queue = <<>> /\ thunks = <<>> /\ \A t \in Threads : thr[t].pc = "idle"
      BY <2>1 DEF Init, Idle
    <2>3. Queued = {} /\ \A c \in Channels : ~collecting[c]
      BY <2>1, <2>2 DEF Init, Queued
    <2>4. OnFifo = {}
      BY <2>1, RequestParts DEF Init, OnFifo
    <2>5. AnswersWhole
      BY <2>1 DEF Init, AnswersWhole
    <2>6. QED
      BY <2>1, <2>2, <2>3, <2>4, <2>5 DEF Init, Whole
  <1>2. IInv /\ Ahead /\ BlanksCounted /\ Counted /\ Placed /\ Whole /\ [Next]_vars => Whole'
    BY WholeStep
  <1>3. Whole => AnswersWhole
    BY DEF Whole
  <1>4. QED
    BY <1>1, <1>2, <1>3, ReadInOrderAndPlaced, PTL DEF Spec
=============================================================================
