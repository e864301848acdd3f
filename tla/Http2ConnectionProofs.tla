----------------------- MODULE Http2ConnectionProofs -----------------------
(***************************************************************************)
(* Proofs about Http2Connection for any number of request threads, of      *)
(* streams of the client and of pushes, responses of any sizes, any        *)
(* window, any priorities, resets, closing responses and broken frames.    *)
(*                                                                         *)
(* The inductive invariant says who holds the locks (Locks), which thread  *)
(* may do what (Places), how far the job of each stream is (JobsKept),     *)
(* what of each response has been made (Responses), what holds from the    *)
(* decision to say goaway until it is said (Decided), and who will tell    *)
(* the poll of a response that is left (OnTheWay).                         *)
(***************************************************************************)
EXTENDS Http2Connection, SequenceTheorems, FiniteSetTheorems, TLAPS

FlushPath == {"flush", "window", "send", "drop", "take", "exhausted", "goaway", "shutdowned", "flag", "push"}
Opening == {"accept", "enter"}

\* _clock is held in the loop of _data_from_producers and nowhere else; the
\* loop has a producer in hand, turns left and, when it sends, a window.
Locks ==
    /\ \A a \in Actors : clock = a <=> act[a].at \in {"window", "send"}
    /\ plock = Main => act[Main].at = "terminate"
    /\ \A a \in Actors :
         /\ act[a].at \in {"window", "send"} => producers # <<>>
         /\ act[a].at = "window" => act[a].left > 0
         /\ act[a].at = "send" => window[Head(producers).s] > 0

\* A request thread only promises, opens what it promised and flushes; the main
\* thread opens what the client opened.
Places ==
    /\ \A t \in Threads :
         /\ act[t].at \in {"idle", "run", "promise"} \cup Opening \cup FlushPath
         /\ act[t].then \in Seq({"flag"})
         /\ act[t].at \in Opening => act[t].s \in Pushes
    /\ act[Main].at \in Opening => act[Main].s \in Clients
    /\ act[Main].at = "respond" => act[Main].s \in Streams

\* A job is of one thread, and a stream is given one job, after it is opened.
JobsKept ==
    /\ \A t \in Threads : act[t].at # "idle" =>
         /\ act[t].job \in Streams /\ job[act[t].job] = "running"
         /\ \A u \in Threads : act[u].at # "idle" /\ act[u].job = act[t].job => u = t
    /\ \A s \in Streams : h2[s] = "idle" => job[s] = "none"
    /\ \A a \in Actors : act[a].at \in Opening =>
         /\ h2[act[a].s] # "idle" /\ job[act[a].s] = "none"
         /\ \A b \in Actors : act[b].at \in Opening /\ act[b].s = act[a].s => b = a
    /\ act[Main].at = "respond" => job[act[Main].s] = "over"

\* The frames made for the response of a producer are those it counts.
Told(p) ==
    IF p.begun THEN /\ Cardinality(ResponseFrames(p.s)) = p.sent + 1
                    /\ \A i \in ResponseFrames(p.s) : ~made[i].fin
    ELSE ResponseFrames(p.s) = {} /\ p.sent = 0

\* A stream has one response, after its job: a producer at most, and no frame
\* and no producer before its response is handled.
Responses ==
    /\ \A i, j \in DOMAIN producers : producers[i].s = producers[j].s => i = j
    /\ \A p \in Producers : \A i \in DOMAIN producers : producers[i] = p => job[p.s] = "over" /\ Told(p)
    /\ \A s \in Streams : ResponseFrames(s) # {} => job[s] = "over"
    /\ \A s \in Streams : act[Main].at = "respond" /\ act[Main].s = s =>
         /\ ResponseFrames(s) = {}
         /\ \A i \in DOMAIN producers : producers[i].s # s

OwesClients == requests \cap Clients # {} \/ \E i \in DOMAIN producers : producers[i].s \in Clients

\* Once a flush has decided to say goaway, no request of the client enters: the
\* main thread has not accepted one, and accepts none any more.
Decided ==
    /\ act[Main].at = "enter" => ~pending /\ ~closed
    /\ \A a \in Actors : act[a].at = "goaway" => (pending \/ closed) /\ ~OwesClients

\* A response that is left is known to the poll, or a flush has yet to tell it.
OnTheWay == producers # <<>> /\ ~raised =>
    sendable \/ \E a \in Actors : act[a].at \in FlushPath \ {"push"}

IInv == TypeOK /\ Locks /\ Places /\ JobsKept /\ Responses /\ ResponsesWhole /\ Decided /\ OnTheWay

-----------------------------------------------------------------------------
(* Where a step leads its thread.                                          *)

\* Only the step's own thread moves.
Alone(a) == act' \in [Actors -> Handlers] /\ \A b \in Actors : b # a => act'[b] = act[b]
\* What a thread keeps while it goes from one place to another.
SameTask(a) == act'[a].job = act[a].job /\ act'[a].s = act[a].s /\ act'[a].then = act[a].then

LEMMA ActorsAre == Main \in Actors /\ Threads \subseteq Actors /\ Main \notin Threads /\ None \notin Actors
  BY Http2ConnectionAssumption DEF Actors

LEMMA StreamsAre ==
    /\ Streams \subseteq Nat \ {0} /\ Clients \subseteq Streams /\ Pushes \subseteq Streams
    /\ Clients \cap Pushes = {} /\ Window \in Nat \ {0} /\ Sizes \subseteq Nat
  BY Http2ConnectionAssumption DEF Streams

\* The record of a thread, replaced.
LEMMA Replaced ==
    ASSUME TypeOK, NEW a \in Actors, NEW r \in Handlers, act' = [act EXCEPT ![a] = r]
    PROVE  Alone(a) /\ act'[a] = r
  BY DEF TypeOK, Alone

LEMMA IdleIs ==
    /\ Idle \in Handlers /\ Idle.at = "idle" /\ Idle.job = 0 /\ Idle.s = 0 /\ Idle.then = <<>>
    /\ Idle.batch = <<>> /\ Idle.left = 0 /\ Idle.finished = {}
  BY DEF Idle, Handlers, States

LEMMA HandlersAre ==
    ASSUME TypeOK, NEW a \in Actors
    PROVE  /\ act[a] \in Handlers /\ act[a].at \in States
           /\ act[a].job \in Streams \cup {0} /\ act[a].s \in Streams \cup {0} /\ act[a].left \in Nat
           /\ act[a].finished \subseteq Streams /\ act[a].batch \in Seq(Frames)
           /\ act[a].then \in Seq({"flag", "flush", "close"})
  BY DEF TypeOK, Handlers

\* Goto.
LEMMA Goes ==
    ASSUME TypeOK, NEW a \in Actors, NEW at \in States, Goto(a, at)
    PROVE  /\ Alone(a) /\ SameTask(a) /\ act'[a].at = at
           /\ act'[a].left = act[a].left /\ act'[a].finished = act[a].finished
           /\ act'[a].batch = act[a].batch
  <1> DEFINE r == [act[a] EXCEPT !.at = at]
  <1>1. r \in Handlers
    BY HandlersAre DEF Handlers
  <1>2. act' = [act EXCEPT ![a] = r]
    BY DEF Goto, TypeOK
  <1>3. Alone(a) /\ act'[a] = r
    BY <1>1, <1>2, Replaced
  <1> QED
    BY <1>3, HandlersAre DEF Handlers, SameTask

\* Target.
LEMMA Targets ==
    ASSUME TypeOK, NEW a \in Actors, NEW at \in States, NEW s \in Streams, Target(a, at, s)
    PROVE  /\ Alone(a) /\ act'[a].at = at /\ act'[a].s = s
           /\ act'[a].job = act[a].job /\ act'[a].then = act[a].then
  <1> DEFINE r == [act[a] EXCEPT !.at = at, !.s = s]
  <1>1. r \in Handlers
    BY HandlersAre DEF Handlers
  <1>2. act' = [act EXCEPT ![a] = r]
    BY DEF Target, TypeOK
  <1>3. Alone(a) /\ act'[a] = r
    BY <1>1, <1>2, Replaced
  <1> QED
    BY <1>3, HandlersAre DEF Handlers

\* Return.
LEMMA Returns ==
    ASSUME TypeOK, NEW a \in Actors, Return(a)
    PROVE  /\ Alone(a) /\ act'[a].job = act[a].job
           /\ act'[a].at \in {"idle", "run", "flag", "flush", "close"}
           /\ act[a].then # <<>> => act'[a].at = Head(act[a].then) /\ act'[a].then = Tail(act[a].then)
           /\ act[a].then = <<>> => /\ act'[a].at = (IF a = Main THEN "idle" ELSE "run")
                                    /\ act'[a].then = <<>>
  <1>1. CASE act[a].then # <<>>
    <2> DEFINE r == [act[a] EXCEPT !.at = Head(act[a].then), !.then = Tail(act[a].then), !.batch = <<>>]
    <2>1. Head(act[a].then) \in {"flag", "flush", "close"} /\ Tail(act[a].then) \in Seq({"flag", "flush", "close"})
      BY <1>1, HandlersAre, HeadTailProperties
    <2>2. Head(act[a].then) \in States
      BY <2>1 DEF States
    <2>3. r \in Handlers
      <3>1. <<>> \in Seq(Frames)
        BY EmptySeq
      <3> QED
        BY <2>1, <2>2, <3>1, HandlersAre DEF Handlers
    <2>4. act' = [act EXCEPT ![a] = r]
      BY <1>1 DEF Return, TypeOK
    <2>5. Alone(a) /\ act'[a] = r
      BY <2>3, <2>4, Replaced
    <2>6. r.at = Head(act[a].then) /\ r.then = Tail(act[a].then) /\ r.job = act[a].job
      BY HandlersAre DEF Handlers
    <2> QED
      BY <1>1, <2>1, <2>5, <2>6
  <1>2. CASE act[a].then = <<>>
    <2> DEFINE r == [Idle EXCEPT !.at = IF a = Main THEN "idle" ELSE "run", !.job = act[a].job]
    <2>1. r \in Handlers
      <3>1. (IF a = Main THEN "idle" ELSE "run") \in States
        BY DEF States
      <3> QED
        BY <3>1, IdleIs, HandlersAre DEF Handlers
    <2>2. act' = [act EXCEPT ![a] = r]
      BY <1>2 DEF Return, TypeOK
    <2>3. Alone(a) /\ act'[a] = r
      BY <2>1, <2>2, Replaced
    <2> QED
      BY <1>2, <2>3 DEF Idle
  <1> QED
    BY <1>1, <1>2

\* EndJob.
LEMMA EndsJob ==
    ASSUME TypeOK, NEW a \in Actors, EndJob(a)
    PROVE  Alone(a) /\ act'[a] = Idle /\ job' = [job EXCEPT ![act[a].job] = "thunk"]
  BY IdleIs, Replaced DEF EndJob

\* Raise.
LEMMA Raises ==
    ASSUME TypeOK, NEW a \in Actors, Raise(a)
    PROVE  /\ Alone(a) /\ raised' = TRUE /\ up' \in {up, FALSE}
           /\ act'[a].then = <<>> /\ act'[a].job = 0
           /\ a = Main => act'[a].at \in {"idle", "close"} /\ job' = job
           /\ a # Main => EndJob(a) /\ act'[a].at = "idle"
  <1>1. CASE a # Main
    BY <1>1, IdleIs, EndsJob DEF Raise
  <1>2. CASE a = Main /\ act' = [act EXCEPT ![a] = Idle]
    BY <1>2, IdleIs, Replaced DEF Raise
  <1>3. CASE a = Main /\ act' = [act EXCEPT ![a] = [Idle EXCEPT !.at = "close"]]
    <2> DEFINE r == [Idle EXCEPT !.at = "close"]
    <2>1. r \in Handlers /\ r.at = "close" /\ r.then = <<>> /\ r.job = 0
      BY IdleIs DEF Handlers, States, Idle
    <2> HIDE DEF r
    <2>2. Alone(a) /\ act'[a] = r
      BY <1>3, <2>1, Replaced DEF r
    <2> QED
      BY <1>3, <2>1, <2>2 DEF Raise
  <1> QED
    BY <1>1, <1>2, <1>3 DEF Raise

\* EndLoop.
LEMMA EndsLoop ==
    ASSUME TypeOK, NEW a \in Actors, NEW f \in SUBSET Streams, EndLoop(a, f)
    PROVE  Alone(a) /\ SameTask(a) /\ act'[a].at \in {"take", "drop"} /\ clock' = None
  <1> DEFINE at == IF f = {} THEN "take" ELSE "drop"
             r == [act[a] EXCEPT !.at = at, !.finished = f]
  <1>1. r \in Handlers
    BY HandlersAre DEF Handlers, States
  <1>2. act' = [act EXCEPT ![a] = r]
    BY DEF EndLoop, TypeOK
  <1>3. Alone(a) /\ act'[a] = r
    BY <1>1, <1>2, Replaced
  <1>4. at \in {"take", "drop"} /\ clock' = None
    BY DEF EndLoop
  <1>5. r.at = at /\ r.job = act[a].job /\ r.s = act[a].s /\ r.then = act[a].then
    BY HandlersAre DEF Handlers
  <1> HIDE DEF at, r
  <1> QED
    BY <1>3, <1>4, <1>5 DEF SameTask

-----------------------------------------------------------------------------
(* What becomes of a list of producers.                                    *)

Distinct(list) == \A i, j \in DOMAIN list : list[i].s = list[j].s => i = j
\* The same response, ended or not.
SameResponse(p, q) == p.s = q.s /\ p.begun = q.begun /\ p.sent = q.sent
\* A list with nothing but producers of another.
PartOf(list, whole) == \A i \in DOMAIN list : \E j \in DOMAIN whole : SameResponse(list[i], whole[j])
Rotated(list) == IF Len(list) = 1 THEN list ELSE Append(Tail(list), Head(list))

LEMMA SeqAt ==
    ASSUME NEW S, NEW list \in Seq(S)
    PROVE  /\ DOMAIN list = 1..Len(list) /\ Len(list) \in Nat
           /\ \A i \in DOMAIN list : list[i] \in S
           /\ list # <<>> => 1 \in DOMAIN list /\ Head(list) = list[1] /\ Len(list) > 0
  OBVIOUS

LEMMA PartOfItself ==
    ASSUME NEW list
    PROVE  PartOf(list, list)
  BY DEF PartOf, SameResponse

LEMMA TailIsPart ==
    ASSUME NEW list \in Seq(Producers), list # <<>>, Distinct(list)
    PROVE  /\ Tail(list) \in Seq(Producers) /\ Distinct(Tail(list)) /\ PartOf(Tail(list), list)
           /\ \A i \in DOMAIN Tail(list) : Tail(list)[i].s # list[1].s
  <1>1. /\ Tail(list) \in Seq(Producers) /\ DOMAIN Tail(list) = 1..Len(list) - 1
        /\ DOMAIN list = 1..Len(list) /\ Len(list) \in Nat
        /\ \A i \in DOMAIN Tail(list) : Tail(list)[i] = list[i + 1]
    BY HeadTailProperties, SeqAt
  <1>2. \A i \in DOMAIN Tail(list) : i + 1 \in DOMAIN list /\ i + 1 # 1 /\ i \in Int
    BY <1>1
  <1>3. 1 \in DOMAIN list
    BY SeqAt
  <1> HIDE DEF Distinct
  <1>4. Distinct(Tail(list))
    <2> SUFFICES ASSUME NEW i \in DOMAIN Tail(list), NEW j \in DOMAIN Tail(list),
                        Tail(list)[i].s = Tail(list)[j].s
                 PROVE  i = j
      BY DEF Distinct
    <2>1. i + 1 = j + 1
      BY <1>1, <1>2 DEF Distinct
    <2> QED
      BY <2>1, <1>2
  <1>5. \A i \in DOMAIN Tail(list) : Tail(list)[i].s # list[1].s
    BY <1>1, <1>2, <1>3 DEF Distinct
  <1> QED
    BY <1>1, <1>2, <1>4, <1>5 DEF PartOf, SameResponse

LEMMA RotatedIsPart ==
    ASSUME NEW list \in Seq(Producers), list # <<>>, Distinct(list)
    PROVE  /\ Rotated(list) \in Seq(Producers) /\ Rotated(list) # <<>>
           /\ Distinct(Rotated(list)) /\ PartOf(Rotated(list), list)
  <1>1. CASE Len(list) = 1
    BY <1>1, PartOfItself DEF Rotated
  <1>2. CASE Len(list) # 1
    <2> DEFINE new == Append(Tail(list), Head(list))
    <2>1. /\ Tail(list) \in Seq(Producers) /\ Len(Tail(list)) = Len(list) - 1 /\ Len(list) \in Nat
          /\ \A i \in 1..Len(list) - 1 : Tail(list)[i] = list[i + 1]
          /\ Head(list) \in Producers /\ Head(list) = list[1] /\ 1 \in DOMAIN list
          /\ DOMAIN list = 1..Len(list)
      BY HeadTailProperties, SeqAt
    <2>2. /\ new \in Seq(Producers) /\ Len(new) = Len(list) /\ new # <<>>
          /\ \A i \in 1..Len(list) - 1 : new[i] = Tail(list)[i]
          /\ new[Len(list)] = list[1]
      <3>1. /\ new \in Seq(Producers) /\ Len(new) = Len(Tail(list)) + 1 /\ new # <<>>
            /\ \A i \in 1..Len(Tail(list)) : new[i] = Tail(list)[i]
            /\ new[Len(Tail(list)) + 1] = Head(list)
        BY <2>1, AppendProperties
      <3> QED
        BY <2>1, <3>1
    <2>3. DOMAIN new = 1..Len(list)
      BY <2>2, SeqAt
    <2> HIDE DEF new
    <2> DEFINE from(i) == IF i = Len(list) THEN 1 ELSE i + 1
    <2>4. \A i \in DOMAIN new : from(i) \in DOMAIN list /\ new[i] = list[from(i)]
      BY <2>1, <2>2, <2>3
    <2>5. \A i, j \in DOMAIN new : from(i) = from(j) => i = j
      BY <2>1, <2>3
    <2> HIDE DEF from
    <2>6. Distinct(new)
      BY <2>4, <2>5 DEF Distinct
    <2>7. PartOf(new, list)
      BY <2>4 DEF PartOf, SameResponse
    <2>8. Rotated(list) = new
      BY <1>2 DEF Rotated, new
    <2> QED
      BY <2>2, <2>6, <2>7, <2>8
  <1> QED
    BY <1>1, <1>2

LEMMA PartOfPart ==
    ASSUME NEW x, NEW y, NEW z, PartOf(x, y), PartOf(y, z)
    PROVE  PartOf(x, z)
  BY DEF PartOf, SameResponse

\* Marking producers as ended.
LEMMA EndedIsPart ==
    ASSUME NEW list \in Seq(Producers), Distinct(list), NEW new \in Seq(Producers),
           Len(new) = Len(list), \A i \in DOMAIN list : SameResponse(new[i], list[i])
    PROVE  Distinct(new) /\ PartOf(new, list)
  <1>1. DOMAIN new = DOMAIN list
    BY SeqAt
  <1> QED
    BY <1>1 DEF Distinct, PartOf, SameResponse

-----------------------------------------------------------------------------
(* Sorting the producers.                                                  *)

LEMMA UpTo ==
    ASSUME NEW n \in Nat
    PROVE  IsFiniteSet(1..n) /\ Cardinality(1..n) = n
<1>1. IsFiniteSet(1..n) /\ Cardinality(1..n) = IF 1 > n THEN 0 ELSE n - 1 + 1
  BY FS_Interval
<1> QED
  BY <1>1

LEMMA BeforeOrders ==
    /\ \A p \in Producers : ~Before(p, p)
    /\ \A p, q, r \in Producers : Before(p, q) /\ Before(q, r) => Before(p, r)
    /\ \A p, q \in Producers : p.s # q.s => Before(p, q) \/ Before(q, p)
<1>1. \A p \in Producers : p.s \in Nat
  BY StreamsAre DEF Producers
<1> QED
  BY <1>1 DEF Before

\* Two producers of different streams have different places.
LEMMA PlacesDiffer ==
    ASSUME NEW list \in Seq(Producers), Distinct(list), NEW i \in DOMAIN list
    PROVE  /\ Place(list, i) \in DOMAIN list
           /\ \A k \in DOMAIN list : Place(list, k) = Place(list, i) => k = i
<1> DEFINE D == DOMAIN list
           before(k) == {j \in D : Before(list[j], list[k])}
<1>1. D = 1..Len(list) /\ Len(list) \in Nat /\ \A k \in D : list[k] \in Producers
  BY SeqAt
<1>2. IsFiniteSet(D) /\ Cardinality(D) = Len(list)
  <2>0. Len(list) \in Nat
    BY SeqAt
  <2>1. IsFiniteSet(1..Len(list)) /\ Cardinality(1..Len(list)) = Len(list)
    BY <2>0, UpTo
  <2> HIDE DEF D
  <2> QED
    BY <1>1, <2>1
<1>3. ASSUME NEW k \in D
      PROVE  /\ IsFiniteSet(before(k)) /\ Cardinality(before(k)) \in Nat /\ k \notin before(k)
             /\ Cardinality(before(k)) < Len(list)
  <2>1. k \notin before(k) /\ before(k) \in SUBSET D
    BY <1>1, <1>3, BeforeOrders
  <2>2. IsFiniteSet(before(k)) /\ Cardinality(before(k)) <= Cardinality(D)
        /\ (Cardinality(D) = Cardinality(before(k)) => D = before(k))
    BY <1>2, <2>1, FS_Subset
  <2>3. Cardinality(before(k)) \in Nat
    BY <2>2, FS_CardinalityType
  <2> HIDE DEF before
  <2> QED
    BY <1>1, <1>2, <1>3, <2>1, <2>2, <2>3
<1>4. ASSUME NEW k \in D, NEW l \in D, Before(list[k], list[l])
      PROVE  Cardinality(before(k)) < Cardinality(before(l))
  <2>1. before(k) \cup {k} \in SUBSET before(l)
    BY <1>1, <1>4, BeforeOrders
  <2>2. IsFiniteSet(before(l)) /\ Cardinality(before(l)) \in Nat /\ IsFiniteSet(before(k))
        /\ Cardinality(before(k)) \in Nat /\ k \notin before(k)
    BY <1>3
  <2> HIDE DEF before
  <2>3. Cardinality(before(k) \cup {k}) = Cardinality(before(k)) + 1
    BY <2>2, FS_AddElement
  <2>4. Cardinality(before(k) \cup {k}) <= Cardinality(before(l))
    BY <2>1, <2>2, FS_Subset
  <2> QED
    BY <2>2, <2>3, <2>4
<1>5. \A k \in D : Place(list, k) = Cardinality(before(k)) + 1
  BY DEF Place
<1>6. Place(list, i) \in D
  <2>1. Cardinality(before(i)) \in Nat /\ Cardinality(before(i)) < Len(list)
    BY <1>3
  <2> HIDE DEF before
  <2> QED
    BY <1>1, <1>5, <2>1
<1>7. ASSUME NEW k \in D, k # i PROVE Place(list, k) # Place(list, i)
  <2>1. list[k].s # list[i].s
    BY <1>7 DEF Distinct
  <2>2. Before(list[k], list[i]) \/ Before(list[i], list[k])
    BY <1>1, <2>1, BeforeOrders
  <2>3. Cardinality(before(k)) # Cardinality(before(i))
    <3>1. Cardinality(before(k)) \in Nat /\ Cardinality(before(i)) \in Nat
      BY <1>3
    <3>2. Cardinality(before(k)) < Cardinality(before(i)) \/ Cardinality(before(i)) < Cardinality(before(k))
      BY <2>2, <1>4
    <3> HIDE DEF before
    <3> QED
      BY <3>1, <3>2
  <2>4. Cardinality(before(k)) \in Nat /\ Cardinality(before(i)) \in Nat
    BY <1>3
  <2> HIDE DEF before
  <2> QED
    BY <1>5, <2>3, <2>4
<1> QED
  BY <1>6, <1>7

\* Sorting neither adds a producer nor doubles one.
LEMMA SortedIsPart ==
    ASSUME NEW list \in Seq(Producers), Distinct(list)
    PROVE  /\ Sorted(list) \in Seq(Producers) /\ Len(Sorted(list)) = Len(list)
           /\ Distinct(Sorted(list)) /\ PartOf(Sorted(list), list)
<1> DEFINE D == DOMAIN list
           f == [i \in D |-> Place(list, i)]
           at(k) == CHOOSE i \in D : Place(list, i) = k
           new == [k \in D |-> list[at(k)]]
<1>1. D = 1..Len(list) /\ Len(list) \in Nat /\ \A k \in D : list[k] \in Producers
  BY SeqAt
<1>2. f \in Injection(D, D)
  <2>1. f \in [D -> D]
    BY PlacesDiffer
  <2>2. \A i, k \in D : f[i] = f[k] => i = k
    BY PlacesDiffer
  <2> HIDE DEF f
  <2> QED
    BY <2>1, <2>2 DEF Injection, IsInjective
<1>3. IsFiniteSet(D)
  BY <1>1, UpTo
<1>4. f \in Surjection(D, D)
  <2> HIDE DEF f
  <2> QED
    BY <1>2, <1>3, FS_Injection
<1>5. \A k \in D : \E i \in D : Place(list, i) = k
  <2>1. \A k \in D : \E i \in D : f[i] = k
    <3> HIDE DEF f
    <3> QED
      BY <1>4 DEF Surjection
  <2> QED
    BY <2>1
<1>6. \A k \in D : at(k) \in D /\ Place(list, at(k)) = k
  BY <1>5
<1>7. Sorted(list) = new
  BY DEF Sorted
<1> HIDE DEF at
<1>8. new \in Seq(Producers) /\ Len(new) = Len(list)
  <2>1. \A k \in 1..Len(list) : list[at(k)] \in Producers
    BY <1>1, <1>6
  <2>2. new \in [1..Len(list) -> Producers]
    BY <1>1, <2>1
  <2> HIDE DEF new
  <2> QED
    BY <1>1, <2>2
<1>9. DOMAIN new = D /\ \A k \in D : new[k] = list[at(k)]
  OBVIOUS
<1> HIDE DEF new
<1>10. Distinct(new)
  <2> SUFFICES ASSUME NEW k \in D, NEW l \in D, new[k].s = new[l].s
               PROVE  k = l
    BY <1>9 DEF Distinct
  <2>1. at(k) = at(l)
    BY <1>6, <1>9 DEF Distinct
  <2> QED
    BY <2>1, <1>6
<1>11. PartOf(new, list)
  BY <1>6, <1>9 DEF PartOf, SameResponse
<1> QED
  BY <1>7, <1>8, <1>10, <1>11

\* A response is handled: its producer among the others.
LEMMA AddedIsPart ==
    ASSUME NEW list \in Seq(Producers), Distinct(list), NEW s \in Streams, NEW k \in Sizes,
           \A i \in DOMAIN list : list[i].s # s
    PROVE  LET new == Sorted(Append(list, NewProducer(s, k))) IN
           /\ new \in Seq(Producers) /\ Distinct(new) /\ PartOf(new, Append(list, NewProducer(s, k)))
           /\ \A i \in DOMAIN new : new[i].s = s => ~new[i].begun /\ new[i].sent = 0
           /\ \A i \in DOMAIN new : new[i].s # s => \E j \in DOMAIN list : SameResponse(new[i], list[j])
<1> DEFINE p == NewProducer(s, k)
           more == Append(list, p)
           new == Sorted(more)
<1>1. p \in Producers /\ p.s = s /\ ~p.begun /\ p.sent = 0
  BY StreamsAre DEF NewProducer, Producers
<1> HIDE DEF p
<1>2. /\ more \in Seq(Producers) /\ Len(more) = Len(list) + 1
      /\ \A i \in 1..Len(list) : more[i] = list[i]
      /\ more[Len(list) + 1] = p
  BY <1>1, AppendProperties
<1> HIDE DEF more
<1>3. /\ DOMAIN more = 1..Len(list) + 1 /\ DOMAIN list = 1..Len(list) /\ Len(list) \in Nat
  BY <1>2, SeqAt
<1>4. Distinct(more)
  <2> SUFFICES ASSUME NEW i \in DOMAIN more, NEW j \in DOMAIN more, more[i].s = more[j].s
               PROVE  i = j
    BY DEF Distinct
  <2>1. CASE i \in DOMAIN list /\ j \in DOMAIN list
    BY <1>2, <1>3, <2>1 DEF Distinct
  <2>2. CASE i \notin DOMAIN list /\ j \notin DOMAIN list
    BY <1>3, <2>2
  <2>3. CASE i \in DOMAIN list /\ j \notin DOMAIN list
    BY <1>1, <1>2, <1>3, <2>3
  <2>4. CASE i \notin DOMAIN list /\ j \in DOMAIN list
    BY <1>1, <1>2, <1>3, <2>4
  <2> QED
    BY <2>1, <2>2, <2>3, <2>4
<1>5. new \in Seq(Producers) /\ Distinct(new) /\ PartOf(new, more)
  BY <1>2, <1>4, SortedIsPart
<1> HIDE DEF new
<1>6. ASSUME NEW i \in DOMAIN new
      PROVE  \/ \E j \in DOMAIN list : SameResponse(new[i], list[j])
             \/ SameResponse(new[i], p)
  <2>1. PICK j \in DOMAIN more : SameResponse(new[i], more[j])
    BY <1>5 DEF PartOf
  <2>2. j \in DOMAIN list \/ j = Len(list) + 1
    BY <1>3
  <2> QED
    BY <1>2, <1>3, <2>1, <2>2
<1>7. \A i \in DOMAIN new : new[i].s = s => ~new[i].begun /\ new[i].sent = 0
  BY <1>1, <1>6 DEF SameResponse
<1>8. \A i \in DOMAIN new : new[i].s # s => \E j \in DOMAIN list : SameResponse(new[i], list[j])
  BY <1>1, <1>6 DEF SameResponse
<1> QED
  BY <1>5, <1>7, <1>8 DEF new, more, p

\* A response is aborted: its producer is ended where it is.
LEMMA AbortedIsPart ==
    ASSUME NEW list \in Seq(Producers), NEW s, NEW new,
           new = [i \in DOMAIN list |-> IF list[i].s = s THEN [list[i] EXCEPT !.ended = TRUE] ELSE list[i]]
    PROVE  /\ new \in Seq(Producers) /\ Len(new) = Len(list)
           /\ Distinct(list) => Distinct(new) /\ PartOf(new, list)
<1>1. DOMAIN list = 1..Len(list) /\ Len(list) \in Nat /\ \A i \in DOMAIN list : list[i] \in Producers
  BY SeqAt
<1>2. \A i \in DOMAIN list : new[i] \in Producers /\ SameResponse(new[i], list[i])
  <2> TAKE i \in DOMAIN list
  <2>1. list[i] \in Producers
    BY <1>1
  <2>2. [list[i] EXCEPT !.ended = TRUE] \in Producers /\ SameResponse([list[i] EXCEPT !.ended = TRUE], list[i])
    BY <2>1 DEF Producers, SameResponse
  <2> QED
    BY <2>1, <2>2 DEF SameResponse
<1>3. new \in [1..Len(list) -> Producers]
  BY <1>1, <1>2
<1>4. new \in Seq(Producers) /\ Len(new) = Len(list)
  BY <1>1, <1>3
<1> QED
  BY <1>2, <1>4, EndedIsPart

-----------------------------------------------------------------------------
(* What each step of a flush does to its thread, the lock and the list.    *)

StatesAre == {"idle", "run", "window", "send", "drop", "take", "exhausted", "goaway", "shutdowned", "flag",
              "push", "flush", "accept", "enter", "remove", "abort", "respond", "close", "terminate", "promise"} \subseteq States

LEMMA AllStates == StatesAre
  BY DEF StatesAre, States

LEMMA FlushActs ==
    ASSUME TypeOK, NEW a \in Actors, Flush(a)
    PROVE  /\ Alone(a) /\ SameTask(a)
           /\ \/ act'[a].at \in {"flag", "take"} /\ clock' = clock
              \/ act'[a].at = "window" /\ clock' = a /\ producers # <<>> /\ act'[a].left > 0
<1>1. CASE Goto(a, "flag") /\ clock' = clock
  BY <1>1, AllStates, Goes DEF StatesAre
<1>2. CASE Goto(a, "take") /\ clock' = clock
  BY <1>2, AllStates, Goes DEF StatesAre
<1>3. CASE producers # <<>> /\ clock' = a
           /\ act' = [act EXCEPT ![a].at = "window", ![a].left = Len(producers)]
  <2> DEFINE r == [act[a] EXCEPT !.at = "window", !.left = Len(producers)]
  <2>1. Len(producers) \in Nat /\ Len(producers) > 0
    BY <1>3, SeqAt DEF TypeOK
  <2>2. r \in Handlers
    BY <2>1, HandlersAre, AllStates DEF Handlers, StatesAre
  <2>3. act' = [act EXCEPT ![a] = r]
    BY <1>3 DEF TypeOK
  <2>4. Alone(a) /\ act'[a] = r
    BY <2>2, <2>3, Replaced
  <2>5. r.at = "window" /\ r.left = Len(producers) /\ r.job = act[a].job /\ r.s = act[a].s /\ r.then = act[a].then
    BY HandlersAre DEF Handlers
  <2> HIDE DEF r
  <2> QED
    BY <1>3, <2>1, <2>4, <2>5 DEF SameTask
<1> QED
  BY <1>1, <1>2, <1>3 DEF Flush

LEMMA NotProducedActs ==
    ASSUME TypeOK, NEW a \in Actors, act[a].left > 0, NEW rest \in Seq(Producers), Distinct(rest),
           NEW f \in SUBSET Streams, NotProduced(a, rest, f)
    PROVE  /\ Alone(a) /\ producers' \in Seq(Producers) /\ Distinct(producers') /\ PartOf(producers', rest)
           /\ \/ Raise(a) /\ clock' = None
              \/ /\ SameTask(a) /\ UNCHANGED <<chan, job>>
                 /\ \/ act'[a].at \in {"take", "drop"} /\ clock' = None
                    \/ act'[a].at = act[a].at /\ act'[a].left > 0 /\ producers' # <<>> /\ clock' = clock
<1>1. CASE rest = <<>>
  <2>1. producers' = rest /\ clock' = None /\ Raise(a)
    BY <1>1 DEF NotProduced
  <2> QED
    BY <2>1, Raises, PartOfItself
<1>2. CASE rest # <<>>
  <2>1. producers' = Rotated(rest) /\ UNCHANGED <<chan, job>>
    BY <1>2 DEF NotProduced, Rotated
  <2>2. producers' \in Seq(Producers) /\ producers' # <<>> /\ Distinct(producers') /\ PartOf(producers', rest)
    BY <1>2, <2>1, RotatedIsPart
  <2>3. CASE act[a].left = 1
    <3>1. EndLoop(a, f)
      BY <1>2, <2>3 DEF NotProduced
    <3> QED
      BY <2>1, <2>2, <3>1, EndsLoop
  <2>4. CASE act[a].left # 1
    <3> DEFINE r == [act[a] EXCEPT !.left = @ - 1, !.finished = f]
    <3>1. act[a].left - 1 \in Nat /\ act[a].left - 1 > 0
      BY <2>4, HandlersAre
    <3>2. r \in Handlers
      BY <3>1, HandlersAre DEF Handlers
    <3>3. act' = [act EXCEPT ![a] = r] /\ clock' = clock
      BY <1>2, <2>4 DEF NotProduced, TypeOK
    <3>4. Alone(a) /\ act'[a] = r
      BY <3>2, <3>3, Replaced
    <3>5. r.at = act[a].at /\ r.left = act[a].left - 1 /\ r.job = act[a].job /\ r.s = act[a].s /\ r.then = act[a].then
      BY HandlersAre DEF Handlers
    <3> HIDE DEF r
    <3> QED
      BY <2>1, <2>2, <3>1, <3>3, <3>4, <3>5 DEF SameTask
  <2> QED
    BY <2>3, <2>4
<1> QED
  BY <1>1, <1>2

LEMMA LookActs ==
    ASSUME TypeOK, Locks, Distinct(producers), NEW a \in Actors, LookAtWindow(a)
    PROVE  /\ Alone(a) /\ producers' \in Seq(Producers) /\ Distinct(producers') /\ PartOf(producers', producers)
           /\ \/ Raise(a) /\ clock' = None
              \/ /\ SameTask(a) /\ UNCHANGED <<chan, job>>
                 /\ \/ act'[a].at \in {"take", "drop"} /\ clock' = None
                    \/ act'[a].at = "window" /\ act'[a].left > 0 /\ producers' # <<>> /\ clock' = clock
                    \/ /\ act'[a].at = "send" /\ clock' = clock /\ producers' = producers
                       /\ window[Head(producers).s] > 0
<1> DEFINE p == Head(producers)
           f == act[a].finished
<1>1. act[a].at = "window" /\ act[a].left > 0 /\ producers # <<>>
  BY DEF LookAtWindow, At, Locks
<1>2. producers \in Seq(Producers) /\ p \in Producers /\ p = producers[1] /\ f \subseteq Streams
  BY <1>1, SeqAt, HandlersAre DEF TypeOK
<1>3. CASE p.ended /\ NotProduced(a, Tail(producers), f \cup {p.s})
  <2>1. /\ Tail(producers) \in Seq(Producers) /\ Distinct(Tail(producers))
        /\ PartOf(Tail(producers), producers)
    BY <1>1, <1>2, TailIsPart
  <2>2. f \cup {p.s} \in SUBSET Streams
    BY <1>2 DEF Producers
  <2> HIDE DEF f, p
  <2>3. PartOf(producers', Tail(producers)) => PartOf(producers', producers)
    BY <2>1, PartOfPart
  <2> QED
    BY <1>1, <1>3, <2>1, <2>2, <2>3, NotProducedActs
<1>4. CASE clock' = None /\ Raise(a) /\ producers' = producers
  BY <1>2, <1>4, Raises, PartOfItself
<1>5. CASE NotProduced(a, producers, f)
  BY <1>1, <1>2, <1>5, NotProducedActs
<1>6. CASE window[p.s] > 0 /\ Goto(a, "send") /\ UNCHANGED <<clock, producers, chan, job>>
  <2>1. Alone(a) /\ SameTask(a) /\ act'[a].at = "send"
    BY <1>6, AllStates, Goes DEF StatesAre
  <2> QED
    BY <1>2, <1>6, <2>1, PartOfItself
<1>7. LookAtWindow(a) => \/ p.ended /\ NotProduced(a, Tail(producers), f \cup {p.s})
                         \/ clock' = None /\ Raise(a) /\ producers' = producers
                         \/ NotProduced(a, producers, f)
                         \/ window[p.s] > 0 /\ Goto(a, "send") /\ UNCHANGED <<clock, producers, chan, job>>
  BY Zenon DEF LookAtWindow
<1> QED
  BY <1>3, <1>4, <1>5, <1>6, <1>7

LEMMA FramesAre ==
    ASSUME NEW p \in Producers
    PROVE  /\ NextFrame(p) \in Frames /\ NextFrame(p).s = p.s
           /\ NextFrame(p).kind = (IF p.begun THEN "data" ELSE "headers")
           /\ NextFrame(p).n = (IF p.begun THEN p.sent + 1 ELSE 0)
           /\ NextFrame(p).fin \in BOOLEAN
           /\ Produced(p) \in Producers /\ Produced(p).s = p.s /\ Produced(p).begun
           /\ Produced(p).sent = (IF p.begun THEN p.sent + 1 ELSE p.sent)
           /\ p.s \in Streams /\ p.sent \in Nat /\ p.begun \in BOOLEAN
<1>1. /\ p.s \in Streams /\ p.sent \in Nat /\ p.size \in Nat /\ p.begun \in BOOLEAN /\ p.ended \in BOOLEAN
      /\ p.size \in Sizes
  BY StreamsAre DEF Producers
<1>2. CASE p.begun
  <2>1. NextFrame(p) = Data(p.s, p.sent + 1, p.sent + 1 = p.size) /\ Produced(p) = [p EXCEPT !.sent = @ + 1]
    BY <1>2 DEF NextFrame, Produced
  <2> QED
    BY <1>1, <1>2, <2>1 DEF Data, Frames, Producers
<1>3. CASE ~p.begun
  <2>1. NextFrame(p) = Headers(p.s, p.size = 0) /\ Produced(p) = [p EXCEPT !.begun = TRUE]
    BY <1>3 DEF NextFrame, Produced
  <2>2. /\ Produced(p) \in Producers /\ Produced(p).s = p.s /\ Produced(p).begun
        /\ Produced(p).sent = p.sent
    BY <1>1, <1>3, <2>1 DEF Producers
  <2>3. /\ NextFrame(p) \in Frames /\ NextFrame(p).s = p.s /\ NextFrame(p).kind = "headers"
        /\ NextFrame(p).n = 0 /\ NextFrame(p).fin \in BOOLEAN
    <3> DEFINE fin == p.size = 0
    <3>1. fin \in BOOLEAN
      OBVIOUS
    <3> HIDE DEF fin
    <3>2. NextFrame(p) = [kind |-> "headers", s |-> p.s, n |-> 0, fin |-> fin]
      BY <2>1 DEF Headers, fin
    <3> QED
      BY <1>1, <3>1, <3>2 DEF Frames
  <2> QED
    BY <1>1, <1>3, <2>2, <2>3
<1> QED
  BY <1>1, <1>2, <1>3

\* What a frame made changes.
Sent(a, p) ==
    /\ made' = Append(made, NextFrame(p)) /\ taken' = taken
    /\ window' = [window EXCEPT ![p.s] = IF NextFrame(p).kind = "data" THEN @ - 1 ELSE @]
    /\ h2' = IF NextFrame(p).fin THEN [h2 EXCEPT ![p.s] = "closed"] ELSE h2
    /\ producers' = IF NextFrame(p).fin THEN Tail(producers) ELSE [producers EXCEPT ![1] = Produced(p)]

LEMMA SendActs ==
    ASSUME TypeOK, Locks, Distinct(producers), NEW a \in Actors, Send(a)
    PROVE  /\ Alone(a) /\ producers' \in Seq(Producers) /\ Distinct(producers')
           /\ \/ /\ Raise(a) /\ clock' = None /\ UNCHANGED conn /\ PartOf(producers', producers)
              \/ /\ Sent(a, producers[1]) /\ SameTask(a) /\ UNCHANGED <<chan, job>>
                 /\ \/ /\ act'[a].at = "send" /\ clock' = clock /\ ~NextFrame(producers[1]).fin
                       /\ NextFrame(producers[1]).kind = "headers"
                    \/ act'[a].at \in {"take", "drop"} /\ clock' = None
<1> DEFINE p == Head(producers)
<1>1. act[a].at = "send" /\ producers # <<>>
  BY DEF Send, At, Locks
<1>2. /\ producers \in Seq(Producers) /\ p \in Producers /\ p = producers[1] /\ 1 \in 1..Len(producers)
      /\ DOMAIN producers = 1..Len(producers) /\ act[a].finished \subseteq Streams
  BY <1>1, SeqAt, HandlersAre DEF TypeOK
<1>3. ASSUME NEW q \in Producers, q.s = p.s
      PROVE  /\ [producers EXCEPT ![1] = q] \in Seq(Producers) /\ Distinct([producers EXCEPT ![1] = q])
             /\ (SameResponse(q, p) => PartOf([producers EXCEPT ![1] = q], producers))
  <2> DEFINE new == [producers EXCEPT ![1] = q]
  <2>1. new \in Seq(Producers) /\ Len(new) = Len(producers)
        /\ \A i \in 1..Len(producers) : new[i] = IF i = 1 THEN q ELSE producers[i]
    BY <1>2, ExceptSeq
  <2>2. DOMAIN new = DOMAIN producers /\ DOMAIN producers = 1..Len(producers)
    BY <2>1, <1>2, SeqAt
  <2> HIDE DEF new, p
  <2>3. \A i \in DOMAIN producers : new[i].s = producers[i].s
    BY <1>2, <1>3, <2>1, <2>2
  <2>4. Distinct(new)
    BY <2>2, <2>3 DEF Distinct
  <2>5. SameResponse(q, p) => \A i \in DOMAIN producers : SameResponse(new[i], producers[i])
    BY <1>2, <2>1, <2>2 DEF SameResponse
  <2>6. SameResponse(q, p) => PartOf(new, producers)
    BY <2>2, <2>5 DEF PartOf
  <2> QED
    BY <2>1, <2>4, <2>6 DEF new
<1>4. CASE /\ Dead(p.s) /\ clock' = None /\ Raise(a) /\ UNCHANGED conn
           /\ producers' = [producers EXCEPT ![1].ended = NextFrame(p).kind = "data" /\ NextFrame(p).fin]
  <2> DEFINE q == [p EXCEPT !.ended = NextFrame(p).kind = "data" /\ NextFrame(p).fin]
  <2>1. q \in Producers /\ q.s = p.s /\ SameResponse(q, p)
    <3>1. (NextFrame(p).kind = "data" /\ NextFrame(p).fin) \in BOOLEAN
      OBVIOUS
    <3> QED
      BY <1>2, <3>1 DEF Producers, SameResponse
  <2>2. producers' = [producers EXCEPT ![1] = q]
    BY <1>2, <1>4
  <2> HIDE DEF q, p
  <2> QED
    BY <1>3, <1>4, <2>1, <2>2, Raises
<1>5. CASE ~Dead(p.s) /\ Sent(a, p) /\ UNCHANGED <<chan, job>>
           /\ IF NextFrame(p).kind = "headers" /\ ~NextFrame(p).fin
              THEN Goto(a, "send") /\ UNCHANGED clock
              ELSE EndLoop(a, act[a].finished \cup (IF NextFrame(p).fin THEN {p.s} ELSE {}))
  <2>1. producers' \in Seq(Producers) /\ Distinct(producers')
    <3>1. CASE NextFrame(p).fin
      BY <1>1, <1>2, <1>5, <3>1, TailIsPart DEF Sent
    <3>2. CASE ~NextFrame(p).fin
      <4>1. Produced(p) \in Producers /\ Produced(p).s = p.s
        BY <1>2, FramesAre
      <4>2. producers' = [producers EXCEPT ![1] = Produced(p)]
        BY <1>5, <3>2 DEF Sent
      <4> HIDE DEF p
      <4> QED
        BY <1>3, <4>1, <4>2
    <3> QED
      BY <3>1, <3>2
  <2>2. act[a].finished \cup (IF NextFrame(p).fin THEN {p.s} ELSE {}) \in SUBSET Streams
    BY <1>2, FramesAre
  <2>3. CASE NextFrame(p).kind = "headers" /\ ~NextFrame(p).fin
    <3>1. Goto(a, "send") /\ clock' = clock
      BY <1>5, <2>3
    <3>2. Alone(a) /\ SameTask(a) /\ act'[a].at = "send"
      BY <3>1, AllStates, Goes DEF StatesAre
    <3> QED
      BY <1>2, <1>5, <2>1, <2>3, <3>1, <3>2
  <2>4. CASE ~(NextFrame(p).kind = "headers" /\ ~NextFrame(p).fin)
    <3>1. EndLoop(a, act[a].finished \cup (IF NextFrame(p).fin THEN {p.s} ELSE {}))
      BY <1>5, <2>4
    <3>2. Alone(a) /\ SameTask(a) /\ act'[a].at \in {"take", "drop"} /\ clock' = None
      <4> HIDE DEF p
      <4> QED
        BY <2>2, <3>1, EndsLoop
    <3> QED
      BY <1>2, <1>5, <2>1, <3>2
  <2> QED
    BY <2>3, <2>4
<1>6. Send(a) => \/ /\ Dead(p.s) /\ clock' = None /\ Raise(a) /\ UNCHANGED conn
                    /\ producers' = [producers EXCEPT ![1].ended = NextFrame(p).kind = "data" /\ NextFrame(p).fin]
                 \/ /\ ~Dead(p.s) /\ Sent(a, p) /\ UNCHANGED <<chan, job>>
                    /\ IF NextFrame(p).kind = "headers" /\ ~NextFrame(p).fin
                       THEN Goto(a, "send") /\ UNCHANGED clock
                       ELSE EndLoop(a, act[a].finished \cup (IF NextFrame(p).fin THEN {p.s} ELSE {}))
  BY Zenon DEF Send, Sent
<1> QED
  BY <1>4, <1>5, <1>6

LEMMA DropActs ==
    ASSUME TypeOK, NEW a \in Actors, Drop(a)
    PROVE  Alone(a) /\ SameTask(a) /\ act'[a].at = "take"
<1> DEFINE r == [act[a] EXCEPT !.at = "take", !.finished = {}]
<1>1. r \in Handlers
  BY HandlersAre, AllStates DEF Handlers, StatesAre
<1>2. act' = [act EXCEPT ![a] = r]
  BY DEF Drop, TypeOK
<1>3. Alone(a) /\ act'[a] = r
  BY <1>1, <1>2, Replaced
<1>4. r.at = "take" /\ r.job = act[a].job /\ r.s = act[a].s /\ r.then = act[a].then
  BY HandlersAre DEF Handlers
<1> HIDE DEF r
<1> QED
  BY <1>3, <1>4 DEF SameTask

LEMMA TakeActs ==
    ASSUME TypeOK, NEW a \in Actors, Take(a)
    PROVE  /\ Alone(a) /\ SameTask(a) /\ act'[a].at \in {"exhausted", "flag"}
<1> DEFINE bytes == SubSeq(made, taken + 1, Len(made))
           r == [act[a] EXCEPT !.at = IF bytes = <<>> THEN "exhausted" ELSE "flag", !.batch = bytes]
<1>1. bytes \in Seq(Frames)
  <2>1. made \in Seq(Frames) /\ Len(made) \in Nat /\ taken \in Nat
    BY DEF TypeOK
  <2>2. \A i \in taken + 1..Len(made) : made[i] \in Frames
    BY <2>1
  <2>3. taken + 1 \in Int /\ Len(made) \in Int
    BY <2>1
  <2> QED
    BY <2>2, <2>3, SubSeqProperties
<1> HIDE DEF bytes
<1>2. r \in Handlers
  BY <1>1, HandlersAre, AllStates DEF Handlers, StatesAre
<1>3. act' = [act EXCEPT ![a] = r]
  BY DEF Take, TypeOK, bytes
<1>4. Alone(a) /\ act'[a] = r
  BY <1>2, <1>3, Replaced
<1>5. /\ r.at \in {"exhausted", "flag"} /\ r.job = act[a].job /\ r.s = act[a].s /\ r.then = act[a].then
  BY HandlersAre DEF Handlers
<1> HIDE DEF r
<1> QED
  BY <1>4, <1>5 DEF SameTask

LEMMA ShutdownedActs ==
    ASSUME TypeOK, NEW a \in Actors, Shutdowned(a)
    PROVE  /\ Alone(a) /\ act'[a].at = "flush" /\ act'[a].job = act[a].job
           /\ act'[a].then = <<"flag">> \o act[a].then
<1> DEFINE r == [act[a] EXCEPT !.at = "flush", !.then = <<"flag">> \o @]
           S == {"flag", "flush", "close"}
<1>1. <<"flag">> \o act[a].then \in Seq(S)
  <2>1. <<"flag">> \in Seq(S) /\ act[a].then \in Seq(S)
    BY HandlersAre
  <2> HIDE DEF S
  <2> QED
    BY <2>1, ConcatProperties
<1>2. r \in Handlers
  <2> DEFINE then == <<"flag">> \o act[a].then
  <2>1. r = [act[a] EXCEPT !.at = "flush", !.then = then] /\ then \in Seq({"flag", "flush", "close"})
    BY <1>1, HandlersAre DEF Handlers
  <2> HIDE DEF then, r
  <2> QED
    BY <2>1, HandlersAre, AllStates DEF Handlers, StatesAre
<1>3. act' = [act EXCEPT ![a] = r]
  BY DEF Shutdowned, TypeOK
<1>4. Alone(a) /\ act'[a] = r
  BY <1>2, <1>3, Replaced
<1>5. r.at = "flush" /\ r.job = act[a].job /\ r.then = <<"flag">> \o act[a].then
  BY HandlersAre DEF Handlers
<1> HIDE DEF r
<1> QED
  BY <1>4, <1>5

LEMMA HandleResponseActs ==
    ASSUME TypeOK, HandleResponse
    PROVE  /\ Alone(Main) /\ act[Main].at = "respond"
           /\ \/ Return(Main) /\ producers' = producers
              \/ /\ act'[Main].at = "flush" /\ act[Main].s \in requests
                 /\ \E k \in Sizes : producers' = Sorted(Append(producers, NewProducer(act[Main].s, k)))
<1>1. CASE Return(Main) /\ producers' = producers
  BY <1>1, Returns, ActorsAre DEF HandleResponse, At
<1>2. ASSUME NEW k \in Sizes, NEW force \in Forces, act[Main].s \in requests,
             producers' = Sorted(Append(producers, NewProducer(act[Main].s, k))),
             act' = [act EXCEPT ![Main].at = "flush", ![Main].then = IF force THEN <<"close">> ELSE <<>>]
      PROVE  /\ Alone(Main) /\ act'[Main].at = "flush"
  <2> DEFINE then == IF force THEN <<"close">> ELSE <<>>
             r == [act[Main] EXCEPT !.at = "flush", !.then = then]
  <2>1. then \in Seq({"flag", "flush", "close"})
    <3>1. <<"close">> \in Seq({"flag", "flush", "close"}) /\ <<>> \in Seq({"flag", "flush", "close"})
      BY EmptySeq
    <3> QED
      BY <3>1
  <2>2. act' = [act EXCEPT ![Main] = r] /\ Main \in Actors
    BY <1>2, ActorsAre DEF TypeOK
  <2> HIDE DEF then
  <2>3. r \in Handlers /\ r.at = "flush"
    BY <2>1, <2>2, HandlersAre, AllStates DEF Handlers, StatesAre
  <2> HIDE DEF r
  <2> QED
    BY <2>2, <2>3, Replaced
<1>3. act[Main].at = "respond"
  BY DEF HandleResponse, At
<1>4. CASE \E k \in Sizes, force \in Forces :
            /\ producers' = Sorted(Append(producers, NewProducer(act[Main].s, k)))
            /\ act' = [act EXCEPT ![Main].at = "flush", ![Main].then = IF force THEN <<"close">> ELSE <<>>]
            /\ act[Main].s \in requests
  BY <1>2, <1>3, <1>4
<1> QED
  BY <1>1, <1>4 DEF HandleResponse

\* What the client's data and GOAWAY send the main thread to.
LEMMA ClosingActs ==
    ASSUME TypeOK, NEW at \in {"close", "terminate"},
           act' = [act EXCEPT ![Main] = [Idle EXCEPT !.at = at, !.then = <<"flush">>]]
    PROVE  Alone(Main) /\ act'[Main].at = at
<1> DEFINE r == [Idle EXCEPT !.at = at, !.then = <<"flush">>]
<1>1. <<"flush">> \in Seq({"flag", "flush", "close"})
  OBVIOUS
<1>2. r \in Handlers /\ r.at = at
  BY <1>1, IdleIs, AllStates DEF Handlers, StatesAre
<1> HIDE DEF r
<1> QED
  BY <1>2, Replaced, ActorsAre DEF r

LEMMA GetJobActs ==
    ASSUME TypeOK, NEW t \in Threads, NEW s \in Streams, GetJob(t, s)
    PROVE  /\ Alone(t) /\ act'[t].at = "run" /\ act'[t].job = s /\ act'[t].then = <<>>
<1> DEFINE r == [Idle EXCEPT !.at = "run", !.job = s]
<1>1. r \in Handlers /\ r.at = "run" /\ r.job = s /\ r.then = <<>>
  BY IdleIs, AllStates DEF Handlers, StatesAre, Idle
<1>2. act' = [act EXCEPT ![t] = r] /\ t \in Actors
  BY ActorsAre DEF GetJob
<1> HIDE DEF r
<1> QED
  BY <1>1, <1>2, Replaced

\* The steps that go on in the handler.
LEMMA GoingActs ==
    ASSUME TypeOK, NEW a \in Actors
    PROVE  /\ Exhausted(a) => act[a].at = "exhausted" /\ Alone(a) /\ SameTask(a) /\ act'[a].at \in {"goaway", "flag"}
           /\ SendGoaway(a) => act[a].at = "goaway" /\ Alone(a) /\ SameTask(a) /\ act'[a].at \in {"shutdowned"}
           /\ Accept(a) => act[a].at = "accept" /\ Alone(a) /\ SameTask(a) /\ act'[a].at \in {"enter", "flush"}
           /\ RemoveRequest(a) => act[a].at = "remove" /\ Alone(a) /\ SameTask(a) /\ act'[a].at \in {"abort"}
           /\ RemoveResponse(a) => act[a].at = "abort" /\ Alone(a) /\ SameTask(a) /\ act'[a].at \in {"flush"}
<1>1. ASSUME Exhausted(a) PROVE act[a].at = "exhausted" /\ Alone(a) /\ SameTask(a) /\ act'[a].at \in {"goaway", "flag"}
  <2>1. act[a].at = "exhausted" /\ (Goto(a, "goaway") \/ Goto(a, "flag"))
    BY <1>1 DEF Exhausted, At
  <2> QED
    BY <2>1, Goes, AllStates DEF StatesAre
<1>2. ASSUME SendGoaway(a) PROVE act[a].at = "goaway" /\ Alone(a) /\ SameTask(a) /\ act'[a].at \in {"shutdowned"}
  <2>1. act[a].at = "goaway" /\ Goto(a, "shutdowned")
    BY <1>2 DEF SendGoaway, At
  <2> QED
    BY <2>1, Goes, AllStates DEF StatesAre
<1>3. ASSUME Accept(a) PROVE act[a].at = "accept" /\ Alone(a) /\ SameTask(a) /\ act'[a].at \in {"enter", "flush"}
  <2>1. act[a].at = "accept" /\ (Goto(a, "enter") \/ Goto(a, "flush"))
    BY <1>3 DEF Accept, At
  <2> QED
    BY <2>1, Goes, AllStates DEF StatesAre
<1>4. ASSUME RemoveRequest(a) PROVE act[a].at = "remove" /\ Alone(a) /\ SameTask(a) /\ act'[a].at \in {"abort"}
  <2>1. act[a].at = "remove" /\ Goto(a, "abort")
    BY <1>4 DEF RemoveRequest, At
  <2> QED
    BY <2>1, Goes, AllStates DEF StatesAre
<1>5. ASSUME RemoveResponse(a) PROVE act[a].at = "abort" /\ Alone(a) /\ SameTask(a) /\ act'[a].at \in {"flush"}
  <2>1. act[a].at = "abort" /\ Goto(a, "flush")
    BY <1>5 DEF RemoveResponse, At
  <2> QED
    BY <2>1, Goes, AllStates DEF StatesAre
<1> QED
  BY <1>1, <1>2, <1>3, <1>4, <1>5

\* The steps that may leave the handler.
LEMMA LeavingActs ==
    ASSUME TypeOK, NEW a \in Actors
    PROVE  /\ Flag(a) => /\ act[a].at = "flag" /\ Alone(a)
                         /\ Return(a) \/ (SameTask(a) /\ act'[a].at = "push")
           /\ Push(a) => /\ act[a].at = "push" /\ Alone(a)
                         /\ (Return(a) /\ UNCHANGED <<chan, job>>) \/ Raise(a)
           /\ Enter(a) => /\ act[a].at = "enter" /\ Alone(a)
                          /\ \/ /\ SameTask(a) /\ act'[a].at = "flush" /\ UNCHANGED chan
                                /\ requests' = requests \cup {act[a].s}
                                /\ job' = [job EXCEPT ![act[a].s] = "queued"]
                             \/ Raise(a) /\ requests' = requests
           /\ Close(a) => /\ act[a].at = "close" /\ Alone(a)
                          /\ \/ Return(a) /\ pending' = pending
                             \/ SameTask(a) /\ act'[a].at \in {"flush", "terminate"} /\ pending' = TRUE
           /\ Terminate(a) => act[a].at = "terminate" /\ Alone(a) /\ Return(a)
<1>1. ASSUME Flag(a) PROVE act[a].at = "flag" /\ Alone(a) /\ (Return(a) \/ (SameTask(a) /\ act'[a].at = "push"))
  <2>1. act[a].at = "flag" /\ (Return(a) \/ Goto(a, "push"))
    BY <1>1 DEF Flag, At
  <2> QED
    BY <2>1, Returns, Goes, AllStates DEF StatesAre
<1>2. ASSUME Push(a) PROVE act[a].at = "push" /\ Alone(a) /\ ((Return(a) /\ UNCHANGED <<chan, job>>) \/ Raise(a))
  <2>1. act[a].at = "push" /\ ((Return(a) /\ UNCHANGED <<chan, job>>) \/ Raise(a))
    BY <1>2 DEF Push, At
  <2> QED
    BY <2>1, Returns, Raises
<1>3. ASSUME Enter(a)
      PROVE  /\ act[a].at = "enter" /\ Alone(a)
             /\ \/ /\ SameTask(a) /\ act'[a].at = "flush" /\ UNCHANGED chan
                   /\ requests' = requests \cup {act[a].s} /\ job' = [job EXCEPT ![act[a].s] = "queued"]
                \/ Raise(a) /\ requests' = requests
  <2>1. act[a].at = "enter"
    BY <1>3 DEF Enter, At
  <2>2. \/ /\ Goto(a, "flush") /\ UNCHANGED chan
           /\ requests' = requests \cup {act[a].s} /\ job' = [job EXCEPT ![act[a].s] = "queued"]
        \/ Raise(a) /\ requests' = requests
    BY <1>3 DEF Enter
  <2> QED
    BY <2>1, <2>2, Goes, Raises, AllStates DEF StatesAre
<1>4. ASSUME Close(a)
      PROVE  /\ act[a].at = "close" /\ Alone(a)
             /\ \/ Return(a) /\ pending' = pending
                \/ SameTask(a) /\ act'[a].at \in {"flush", "terminate"} /\ pending' = TRUE
  <2>1. /\ act[a].at = "close"
        /\ \/ Return(a) /\ pending' = pending
           \/ (Goto(a, "flush") \/ Goto(a, "terminate")) /\ pending' = TRUE
    BY <1>4 DEF Close, At
  <2> QED
    BY <2>1, Returns, Goes, AllStates DEF StatesAre
<1>5. ASSUME Terminate(a) PROVE act[a].at = "terminate" /\ Alone(a) /\ Return(a)
  BY <1>5, Returns DEF Terminate, At
<1> QED
  BY <1>1, <1>2, <1>3, <1>4, <1>5

\* What the main thread receives, and what it does of its own accord.
LEMMA MainActs ==
    ASSUME TypeOK
    PROVE  /\ \A s \in Streams :
                /\ OpenStream(s) => /\ act[Main].at = "idle" /\ Alone(Main)
                                    /\ act'[Main].at = "accept" /\ act'[Main].s = s
                /\ ResetByClient(s) => /\ act[Main].at = "idle" /\ Alone(Main)
                                       /\ act'[Main].at = "remove" /\ act'[Main].s = s
                /\ UpdateWindow(s) => act[Main].at = "idle" /\ Alone(Main) /\ act'[Main].at = "flush"
                /\ StrayData(s) => act[Main].at = "idle" /\ Alone(Main) /\ act'[Main].at = "close"
                /\ RunThunk(s) => /\ act[Main].at = "idle"
                                  /\ \/ /\ s \in requests /\ Alone(Main)
                                        /\ act'[Main].at = "respond" /\ act'[Main].s = s
                                     \/ act' = act
           /\ Leave => act[Main].at = "idle" /\ Alone(Main) /\ act'[Main].at = "terminate"
           /\ BreakProtocol => act[Main].at = "idle" /\ Alone(Main) /\ act'[Main].at = "terminate"
           /\ LoseChannel => act[Main].at = "idle" /\ Alone(Main) /\ act'[Main].at = "close"
           /\ EnterShutdown => act[Main].at = "idle" /\ Alone(Main) /\ act'[Main].at = "close"
           /\ Poll => act[Main].at = "idle" /\ Alone(Main) /\ act'[Main].at = "flush"
<1>0. Main \in Actors
  BY ActorsAre
<1>1. ASSUME NEW s \in Streams, OpenStream(s)
      PROVE  act[Main].at = "idle" /\ Alone(Main) /\ act'[Main].at = "accept" /\ act'[Main].s = s
  <2>1. act[Main].at = "idle" /\ Target(Main, "accept", s)
    BY <1>1 DEF OpenStream, Receiving, At
  <2> QED
    BY <1>0, <1>1, <2>1, Targets, AllStates DEF StatesAre
<1>2. ASSUME NEW s \in Streams, ResetByClient(s)
      PROVE  act[Main].at = "idle" /\ Alone(Main) /\ act'[Main].at = "remove" /\ act'[Main].s = s
  <2>1. act[Main].at = "idle" /\ Target(Main, "remove", s)
    BY <1>2 DEF ResetByClient, Receiving, At
  <2> QED
    BY <1>0, <1>2, <2>1, Targets, AllStates DEF StatesAre
<1>3. ASSUME NEW s \in Streams, UpdateWindow(s)
      PROVE  act[Main].at = "idle" /\ Alone(Main) /\ act'[Main].at = "flush"
  <2>1. act[Main].at = "idle" /\ Goto(Main, "flush")
    BY <1>3 DEF UpdateWindow, Receiving, At
  <2> QED
    BY <1>0, <1>3, <2>1, Goes, AllStates DEF StatesAre
<1>4. ASSUME NEW s \in Streams, StrayData(s)
      PROVE  act[Main].at = "idle" /\ Alone(Main) /\ act'[Main].at = "close"
  <2>1. act[Main].at = "idle" /\ act' = [act EXCEPT ![Main] = [Idle EXCEPT !.at = "close", !.then = <<"flush">>]]
    BY <1>4 DEF StrayData, Receiving, At
  <2> QED
    BY <1>0, <1>4, <2>1, ClosingActs, AllStates DEF StatesAre
<1>5. ASSUME NEW s \in Streams, RunThunk(s)
      PROVE  act[Main].at = "idle" /\ ((s \in requests /\ Alone(Main) /\ act'[Main].at = "respond" /\ act'[Main].s = s) \/ act' = act)
  <2>1. act[Main].at = "idle" /\ ((s \in requests /\ Target(Main, "respond", s)) \/ act' = act)
    BY <1>5 DEF RunThunk, Receiving, At
  <2> QED
    BY <1>0, <1>5, <2>1, Targets, AllStates DEF StatesAre
<1>6. ASSUME Leave
      PROVE  act[Main].at = "idle" /\ Alone(Main) /\ act'[Main].at = "terminate"
  <2>1. act[Main].at = "idle" /\ act' = [act EXCEPT ![Main] = [Idle EXCEPT !.at = "terminate", !.then = <<"flush">>]]
    BY <1>6 DEF Leave, Receiving, At
  <2> QED
    BY <1>0, <1>6, <2>1, ClosingActs, AllStates DEF StatesAre
<1>7. ASSUME BreakProtocol
      PROVE  act[Main].at = "idle" /\ Alone(Main) /\ act'[Main].at = "terminate"
  <2>1. act[Main].at = "idle" /\ Goto(Main, "terminate")
    BY <1>7 DEF BreakProtocol, Receiving, At
  <2> QED
    BY <1>0, <1>7, <2>1, Goes, AllStates DEF StatesAre
<1>8. ASSUME LoseChannel
      PROVE  act[Main].at = "idle" /\ Alone(Main) /\ act'[Main].at = "close"
  <2>1. act[Main].at = "idle" /\ Goto(Main, "close")
    BY <1>8 DEF LoseChannel, Receiving, At
  <2> QED
    BY <1>0, <1>8, <2>1, Goes, AllStates DEF StatesAre
<1>9. ASSUME EnterShutdown
      PROVE  act[Main].at = "idle" /\ Alone(Main) /\ act'[Main].at = "close"
  <2>1. act[Main].at = "idle" /\ Goto(Main, "close")
    BY <1>9 DEF EnterShutdown, Receiving, At
  <2> QED
    BY <1>0, <1>9, <2>1, Goes, AllStates DEF StatesAre
<1>10. ASSUME Poll
      PROVE  act[Main].at = "idle" /\ Alone(Main) /\ act'[Main].at = "flush"
  <2>1. act[Main].at = "idle" /\ Goto(Main, "flush")
    BY <1>10 DEF Poll, Receiving, At
  <2> QED
    BY <1>0, <1>10, <2>1, Goes, AllStates DEF StatesAre
<1> QED
  BY <1>1, <1>2, <1>3, <1>4, <1>5, <1>6, <1>7, <1>8, <1>9, <1>10

\* What a request thread does.
LEMMA ThreadActs ==
    ASSUME TypeOK, NEW t \in Threads
    PROVE  /\ CallPush(t) => /\ act[t].at = "run" /\ Alone(t)
                             /\ \/ EndJob(t)
                                \/ SameTask(t) /\ act'[t].at = "promise" /\ job' = job
           /\ Promise(t) => /\ act[t].at = "promise" /\ Alone(t)
                            /\ \/ EndJob(t) /\ UNCHANGED conn
                               \/ /\ \E p \in Pushes : /\ h2[p] = "idle" /\ act'[t].at = "accept" /\ act'[t].s = p
                                                       /\ h2' = [h2 EXCEPT ![p] = "open"]
                                                       /\ made' = Append(made, PushPromise(act[t].job, p))
                                  /\ act'[t].job = act[t].job /\ act'[t].then = act[t].then
                                  /\ UNCHANGED <<window, taken, job>>
           /\ FinishJob(t) => act[t].at = "run" /\ Alone(t) /\ EndJob(t)
<1>0. t \in Actors
  BY ActorsAre
<1>1. ASSUME CallPush(t)
      PROVE  /\ act[t].at = "run" /\ Alone(t)
             /\ EndJob(t) \/ (SameTask(t) /\ act'[t].at = "promise" /\ job' = job)
  <2>1. act[t].at = "run" /\ (EndJob(t) \/ (Goto(t, "promise") /\ job' = job))
    BY <1>1 DEF CallPush, At
  <2> QED
    BY <1>0, <2>1, Goes, EndsJob, AllStates DEF StatesAre
<1>2. ASSUME Promise(t)
      PROVE  /\ act[t].at = "promise" /\ Alone(t)
             /\ \/ EndJob(t) /\ UNCHANGED conn
                \/ /\ \E p \in Pushes : /\ h2[p] = "idle" /\ act'[t].at = "accept" /\ act'[t].s = p
                                        /\ h2' = [h2 EXCEPT ![p] = "open"]
                                        /\ made' = Append(made, PushPromise(act[t].job, p))
                   /\ act'[t].job = act[t].job /\ act'[t].then = act[t].then
                   /\ UNCHANGED <<window, taken, job>>
  <2>1. act[t].at = "promise"
    BY <1>2 DEF Promise, At
  <2>2. CASE EndJob(t) /\ UNCHANGED conn
    BY <1>0, <2>1, <2>2, EndsJob
  <2>3. CASE \E p \in Pushes : /\ h2[p] = "idle" /\ h2' = [h2 EXCEPT ![p] = "open"]
                              /\ made' = Append(made, PushPromise(act[t].job, p))
                              /\ Target(t, "accept", p) /\ UNCHANGED <<window, taken, job>>
    <3>1. PICK p \in Pushes : /\ h2[p] = "idle" /\ h2' = [h2 EXCEPT ![p] = "open"]
                              /\ made' = Append(made, PushPromise(act[t].job, p))
                              /\ Target(t, "accept", p) /\ UNCHANGED <<window, taken, job>>
      BY <2>3
    <3>2. p \in Streams
      BY StreamsAre
    <3>3. /\ Alone(t) /\ act'[t].at = "accept" /\ act'[t].s = p
          /\ act'[t].job = act[t].job /\ act'[t].then = act[t].then
      BY <1>0, <3>1, <3>2, Targets, AllStates DEF StatesAre
    <3> QED
      BY <2>1, <3>1, <3>3
  <2> QED
    BY <1>2, <2>2, <2>3 DEF Promise
<1>3. ASSUME FinishJob(t) PROVE act[t].at = "run" /\ Alone(t) /\ EndJob(t)
  BY <1>0, <1>3, EndsJob DEF FinishJob, At
<1> QED
  BY <1>1, <1>2, <1>3

-----------------------------------------------------------------------------
(* Types.                                                                  *)

LEMMA InitTyped == ASSUME Init PROVE TypeOK
<1>1. act \in [Actors -> Handlers]
  BY IdleIs DEF Init
<1>2. clock \in Actors \cup {None} /\ plock \in {Main, None} /\ taken = 0 /\ made = <<>> /\ wire = <<>>
      /\ producers = <<>> /\ requests \subseteq Streams
      /\ {sendable, pending, shutdowned, closed, up, raised} \subseteq BOOLEAN
  BY DEF Init
<1>3. h2 \in [Streams -> {"idle", "open", "closed", "reset"}] /\ window \in [Streams -> 0..Window]
      /\ job \in [Streams -> {"none", "queued", "running", "thunk", "over"}]
  BY StreamsAre DEF Init
<1>4. <<>> \in Seq(Frames) /\ <<>> \in Seq(Producers) /\ Len(<<>>) = 0
  BY EmptySeq
<1> QED
  BY <1>1, <1>2, <1>3, <1>4 DEF TypeOK

\* The types but for the threads' own.
Fields ==
    /\ clock \in Actors \cup {None} /\ plock \in {Main, None}
    /\ h2 \in [Streams -> {"idle", "open", "closed", "reset"}]
    /\ window \in [Streams -> 0..Window]
    /\ made \in Seq(Frames) /\ taken \in 0..Len(made) /\ wire \in Seq(Frames)
    /\ requests \subseteq Streams
    /\ producers \in Seq(Producers)
    /\ {sendable, pending, shutdowned, closed, up, raised} \subseteq BOOLEAN
    /\ job \in [Streams -> {"none", "queued", "running", "thunk", "over"}]

LEMMA FieldsTyped == TypeOK <=> act \in [Actors -> Handlers] /\ Fields
  BY DEF TypeOK, Fields

\* The thread's or the main thread's exception, and the end of a job.
LEMMA JobTyped ==
    ASSUME TypeOK, NEW a \in Actors
    PROVE  /\ EndJob(a) => job' \in [Streams -> {"none", "queued", "running", "thunk", "over"}]
           /\ Raise(a) => /\ job' \in [Streams -> {"none", "queued", "running", "thunk", "over"}]
                          /\ up' \in BOOLEAN /\ raised' \in BOOLEAN
<1>1. ASSUME EndJob(a) PROVE job' \in [Streams -> {"none", "queued", "running", "thunk", "over"}]
  BY <1>1, EndsJob DEF TypeOK
<1>2. ASSUME Raise(a)
      PROVE  /\ job' \in [Streams -> {"none", "queued", "running", "thunk", "over"}]
             /\ up' \in BOOLEAN /\ raised' \in BOOLEAN
  BY <1>1, <1>2, Raises DEF TypeOK
<1> QED
  BY <1>1, <1>2

\* One more frame.
LEMMA OneMoreFrame ==
    ASSUME Fields, NEW frame \in Frames, made' = Append(made, frame), taken' = taken
    PROVE  made' \in Seq(Frames) /\ taken' \in 0..Len(made')
<1>1. made' \in Seq(Frames) /\ Len(made') = Len(made) + 1 /\ Len(made) \in Nat
  BY AppendProperties DEF Fields
<1> QED
  BY <1>1 DEF Fields

LEMMA SentTyped ==
    ASSUME Fields, NEW p \in Producers, NEW a, Sent(a, p), window[p.s] > 0, producers' \in Seq(Producers)
    PROVE  /\ h2' \in [Streams -> {"idle", "open", "closed", "reset"}]
           /\ window' \in [Streams -> 0..Window]
           /\ made' \in Seq(Frames) /\ taken' \in 0..Len(made')
<1>1. NextFrame(p) \in Frames /\ p.s \in Streams
  BY FramesAre
<1>2. h2' \in [Streams -> {"idle", "open", "closed", "reset"}]
  BY <1>1 DEF Sent, Fields
<1>3. window' \in [Streams -> 0..Window]
  <2>1. window[p.s] \in 0..Window /\ window[p.s] - 1 \in 0..Window
    <3>1. window[p.s] \in 0..Window
      BY <1>1 DEF Fields
    <3>2. Window \in Nat
      BY StreamsAre
    <3> QED
      BY <3>1, <3>2
  <2> QED
    BY <1>1, <2>1 DEF Sent, Fields
<1> QED
  BY <1>1, <1>2, <1>3, OneMoreFrame DEF Sent

LEMMA FlushTyped ==
    ASSUME TypeOK, Locks, Distinct(producers), NEW a \in Actors, FlushStep(a)
    PROVE  TypeOK'
<1>0. Fields
  BY FieldsTyped
<1>1. CASE Flush(a)
  <2>1. Alone(a) /\ clock' \in Actors \cup {None}
    BY <1>0, <1>1, FlushActs DEF Fields
  <2>2. Fields'
    BY <1>0, <1>1, <2>1 DEF Flush, Fields, conn, close, chan
  <2> QED
    BY <2>1, <2>2, FieldsTyped DEF Alone, TypeOK, Fields
<1>2. CASE LookAtWindow(a)
  <2>1. Alone(a) /\ clock' \in Actors \cup {None} /\ producers' \in Seq(Producers)
        /\ (Raise(a) \/ UNCHANGED <<chan, job>>)
    BY <1>0, <1>2, LookActs DEF Fields
  <2>2. /\ job' \in [Streams -> {"none", "queued", "running", "thunk", "over"}]
        /\ up' \in BOOLEAN /\ raised' \in BOOLEAN
    BY <1>0, <2>1, JobTyped DEF Fields, chan
  <2>3. Fields'
    BY <1>0, <1>2, <2>1, <2>2 DEF LookAtWindow, Fields, conn, close
  <2> QED
    BY <2>1, <2>3 DEF Alone, TypeOK, Fields
<1>3. CASE Send(a)
  <2>0. act[a].at = "send" /\ producers # <<>>
    BY <1>3 DEF Send, At, Locks
  <2>1. producers[1] \in Producers /\ window[producers[1].s] > 0
    BY <1>0, <2>0, SeqAt DEF Fields, Locks
  <2>2. Alone(a) /\ clock' \in Actors \cup {None} /\ producers' \in Seq(Producers)
        /\ (Raise(a) \/ UNCHANGED <<chan, job>>) /\ (UNCHANGED conn \/ Sent(a, producers[1]))
    BY <1>0, <1>3, SendActs DEF Fields
  <2>3. /\ job' \in [Streams -> {"none", "queued", "running", "thunk", "over"}]
        /\ up' \in BOOLEAN /\ raised' \in BOOLEAN
    BY <1>0, <2>2, JobTyped DEF Fields, chan
  <2>4. /\ h2' \in [Streams -> {"idle", "open", "closed", "reset"}]
        /\ window' \in [Streams -> 0..Window]
        /\ made' \in Seq(Frames) /\ taken' \in 0..Len(made')
    BY <1>0, <2>1, <2>2, SentTyped DEF Fields, conn
  <2>5. Fields'
    BY <1>0, <1>3, <2>2, <2>3, <2>4 DEF Send, Fields, close
  <2> QED
    BY <2>2, <2>5 DEF Alone, TypeOK, Fields
<1>4. CASE Drop(a)
  <2>1. Fields'
    BY <1>0, <1>4 DEF Drop, Fields, locks, conn, close, chan
  <2> QED
    BY <1>4, <2>1, DropActs DEF Alone, TypeOK, Fields
<1>5. CASE Take(a)
  <2>1. taken' \in 0..Len(made') /\ made' = made
    BY <1>0, <1>5 DEF Take, Fields
  <2>2. Fields'
    BY <1>0, <1>5, <2>1 DEF Take, Fields, locks, close, chan
  <2> QED
    BY <1>5, <2>2, TakeActs DEF Alone, TypeOK, Fields
<1>6. CASE Exhausted(a)
  <2>1. Fields'
    BY <1>0, <1>6 DEF Exhausted, Fields, locks, conn, close, chan
  <2> QED
    BY <1>6, <2>1, GoingActs DEF Alone, TypeOK, Fields
<1>7. CASE SendGoaway(a)
  <2>1. Goaway \in Frames
    BY DEF Goaway, Frames
  <2>2. made' \in Seq(Frames) /\ taken' \in 0..Len(made')
    BY <1>0, <1>7, <2>1, OneMoreFrame DEF SendGoaway
  <2>3. Fields'
    BY <1>0, <1>7, <2>2 DEF SendGoaway, Fields, locks, close, chan
  <2> QED
    BY <1>7, <2>3, GoingActs DEF Alone, TypeOK, Fields
<1>8. CASE Shutdowned(a)
  <2>1. Fields'
    BY <1>0, <1>8 DEF Shutdowned, Fields, locks, conn, chan
  <2> QED
    BY <1>8, <2>1, ShutdownedActs DEF Alone, TypeOK, Fields
<1>9. CASE Flag(a)
  <2>1. Fields'
    BY <1>0, <1>9 DEF Flag, Fields, locks, conn, close, chan
  <2> QED
    BY <1>9, <2>1, LeavingActs DEF Alone, TypeOK, Fields
<1>10. CASE Push(a)
  <2>1. Alone(a) /\ (UNCHANGED <<chan, job>> \/ Raise(a))
    BY <1>10, LeavingActs
  <2>2. /\ job' \in [Streams -> {"none", "queued", "running", "thunk", "over"}]
        /\ up' \in BOOLEAN /\ raised' \in BOOLEAN
    BY <1>0, <2>1, JobTyped DEF Fields, chan
  <2>3. wire' \in Seq(Frames)
    <3>1. wire \o act[a].batch \in Seq(Frames)
      BY <1>0, HandlersAre, ConcatProperties DEF Fields
    <3> QED
      BY <1>0, <1>10, <3>1 DEF Push, Fields
  <2>4. Fields'
    BY <1>0, <1>10, <2>2, <2>3 DEF Push, Fields, locks, conn, close
  <2> QED
    BY <2>1, <2>4 DEF Alone, TypeOK, Fields
<1> QED
  BY <1>1, <1>2, <1>3, <1>4, <1>5, <1>6, <1>7, <1>8, <1>9, <1>10 DEF FlushStep

LEMMA HandlerTyped ==
    ASSUME TypeOK, Places, NEW a \in Actors, HandlerStep(a)
    PROVE  TypeOK'
<1>0. Fields
  BY FieldsTyped
<1>1. CASE Accept(a)
  <2>1. Fields'
    BY <1>0, <1>1 DEF Accept, Fields, locks, conn, close, chan
  <2> QED
    BY <1>1, <2>1, GoingActs DEF Alone, TypeOK, Fields
<1>2. CASE Enter(a)
  <2>1. /\ Alone(a) /\ act[a].at = "enter"
        /\ \/ /\ UNCHANGED chan /\ requests' = requests \cup {act[a].s}
              /\ job' = [job EXCEPT ![act[a].s] = "queued"]
           \/ Raise(a) /\ requests' = requests
    BY <1>2, LeavingActs
  <2>2. act[a].s \in Streams
    BY <2>1, ActorsAre, StreamsAre DEF Places, Opening, Actors
  <2>3. /\ job' \in [Streams -> {"none", "queued", "running", "thunk", "over"}]
        /\ up' \in BOOLEAN /\ raised' \in BOOLEAN /\ requests' \subseteq Streams
    BY <1>0, <2>1, <2>2, JobTyped DEF Fields, chan
  <2>4. Fields'
    BY <1>0, <1>2, <2>3 DEF Enter, Fields, locks, conn, close
  <2> QED
    BY <2>1, <2>4 DEF Alone, TypeOK, Fields
<1>3. CASE RemoveRequest(a)
  <2>1. Fields'
    BY <1>0, <1>3 DEF RemoveRequest, Fields, locks, conn, close, chan
  <2> QED
    BY <1>3, <2>1, GoingActs DEF Alone, TypeOK, Fields
<1>4. CASE RemoveResponse(a)
  <2>1. producers' \in Seq(Producers)
    BY <1>4, AbortedIsPart, FieldsTyped DEF RemoveResponse, TypeOK
  <2>2. Fields'
    BY <1>0, <1>4, <2>1 DEF RemoveResponse, Fields, locks, conn, close, chan
  <2> QED
    BY <1>4, <2>2, GoingActs DEF Alone, TypeOK, Fields
<1>5. CASE Close(a)
  <2>1. pending' \in BOOLEAN /\ Alone(a)
    BY <1>0, <1>5, LeavingActs DEF Fields
  <2>2. Fields'
    BY <1>0, <1>5, <2>1 DEF Close, Fields, locks, conn, chan
  <2> QED
    BY <2>1, <2>2 DEF Alone, TypeOK, Fields
<1>6. CASE Terminate(a)
  <2>1. Fields'
    BY <1>0, <1>6 DEF Terminate, Fields, conn, chan
  <2> QED
    BY <1>6, <2>1, LeavingActs DEF Alone, TypeOK, Fields
<1> QED
  BY <1>1, <1>2, <1>3, <1>4, <1>5, <1>6 DEF HandlerStep

LEMMA MainTyped ==
    ASSUME TypeOK, HandleResponse \/ Poll \/ EnterShutdown \/ Client \/ (\E s \in Streams : RunThunk(s)),
           act[Main].at = "respond" => act[Main].s \in Streams /\ \A i \in DOMAIN producers : producers[i].s # act[Main].s,
           Distinct(producers)
    PROVE  TypeOK'
<1>0. Fields
  BY FieldsTyped
<1>1. CASE HandleResponse
  <2>1. /\ Alone(Main) /\ act[Main].at = "respond"
        /\ \/ producers' = producers
           \/ \E k \in Sizes : producers' = Sorted(Append(producers, NewProducer(act[Main].s, k)))
    BY <1>1, HandleResponseActs
  <2>2. producers' \in Seq(Producers)
    BY <1>0, <2>1, AddedIsPart DEF Fields
  <2>3. Fields'
    BY <1>0, <1>1, <2>2 DEF HandleResponse, Fields, locks, conn, close, chan
  <2> QED
    BY <2>1, <2>3 DEF Alone, TypeOK, Fields
<1>2. CASE Poll
  <2>1. Fields'
    BY <1>0, <1>2 DEF Poll, Fields, mainRest, locks, close, chan
  <2> QED
    BY <1>2, <2>1, MainActs DEF Alone, TypeOK, Fields
<1>3. CASE EnterShutdown
  <2>1. Fields'
    BY <1>0, <1>3 DEF EnterShutdown, Fields, mainRest, locks, close, chan
  <2> QED
    BY <1>3, <2>1, MainActs DEF Alone, TypeOK, Fields
<1>4. ASSUME NEW s \in Streams, OpenStream(s) PROVE TypeOK'
  <2>1. Fields'
    BY <1>0, <1>4 DEF OpenStream, Fields, mainRest, locks, close, chan
  <2> QED
    BY <1>4, <2>1, MainActs DEF Alone, TypeOK, Fields
<1>5. ASSUME NEW s \in Streams, ResetByClient(s) PROVE TypeOK'
  <2>1. Fields'
    BY <1>0, <1>5 DEF ResetByClient, Fields, mainRest, locks, close, chan
  <2> QED
    BY <1>5, <2>1, MainActs DEF Alone, TypeOK, Fields
<1>6. ASSUME NEW s \in Streams, UpdateWindow(s) PROVE TypeOK'
  <2>1. window' \in [Streams -> 0..Window]
    <3>1. window[s] \in 0..Window /\ window[s] < Window /\ Window \in Nat
      BY <1>0, <1>6, StreamsAre DEF UpdateWindow, Fields
    <3>2. window[s] + 1 \in 0..Window
      BY <3>1
    <3> QED
      BY <1>0, <1>6, <3>2 DEF UpdateWindow, Fields
  <2>2. Fields'
    BY <1>0, <1>6, <2>1 DEF UpdateWindow, Fields, mainRest, locks, close, chan
  <2> QED
    BY <1>6, <2>2, MainActs DEF Alone, TypeOK, Fields
<1>7. ASSUME NEW s \in Streams, StrayData(s) PROVE TypeOK'
  <2>1. Fields'
    BY <1>0, <1>7 DEF StrayData, Fields, mainRest, locks, close, chan
  <2> QED
    BY <1>7, <2>1, MainActs DEF Alone, TypeOK, Fields
<1>8. CASE Leave
  <2>1. Fields'
    BY <1>0, <1>8 DEF Leave, Fields, mainRest, locks, close, chan
  <2> QED
    BY <1>8, <2>1, MainActs DEF Alone, TypeOK, Fields
<1>9. CASE BreakProtocol
  <2>1. Fields'
    BY <1>0, <1>9 DEF BreakProtocol, Fields, close, chan
  <2> QED
    BY <1>9, <2>1, MainActs DEF Alone, TypeOK, Fields
<1>10. CASE LoseChannel
  <2>1. Fields'
    BY <1>0, <1>10 DEF LoseChannel, Fields, mainRest, locks, close
  <2> QED
    BY <1>10, <2>1, MainActs DEF Alone, TypeOK, Fields
<1>11. ASSUME NEW s \in Streams, RunThunk(s) PROVE TypeOK'
  <2>1. Fields'
    BY <1>0, <1>11 DEF RunThunk, Fields, locks, conn, close, chan
  <2> QED
    BY <1>11, <2>1, MainActs DEF Alone, TypeOK, Fields
<1> QED
  BY <1>1, <1>2, <1>3, <1>4, <1>5, <1>6, <1>7, <1>8, <1>9, <1>10, <1>11 DEF Client

LEMMA ThreadTyped ==
    ASSUME TypeOK, NEW t \in Threads, JobStep(t)
    PROVE  TypeOK'
<1>0. Fields /\ t \in Actors
  BY FieldsTyped, ActorsAre
<1>1. ASSUME NEW s \in Streams, GetJob(t, s) PROVE TypeOK'
  <2>1. Fields'
    BY <1>0, <1>1 DEF GetJob, Fields, locks, conn, close, chan
  <2> QED
    BY <1>1, <2>1, GetJobActs DEF Alone, TypeOK, Fields
<1>2. CASE CallPush(t)
  <2>1. job' \in [Streams -> {"none", "queued", "running", "thunk", "over"}] /\ Alone(t)
    BY <1>0, <1>2, ThreadActs, JobTyped DEF Fields
  <2>2. Fields'
    BY <1>0, <1>2, <2>1 DEF CallPush, Fields, locks, conn, close, chan
  <2> QED
    BY <2>1, <2>2 DEF Alone, TypeOK, Fields
<1>3. CASE Promise(t)
  <2>1. Alone(t)
    BY <1>3, ThreadActs
  <2>2. CASE EndJob(t) /\ UNCHANGED conn
    <3>1. job' \in [Streams -> {"none", "queued", "running", "thunk", "over"}]
      BY <1>0, <2>2, JobTyped
    <3>2. Fields'
      BY <1>0, <1>3, <2>2, <3>1 DEF Promise, Fields, locks, conn, close, chan
    <3> QED
      BY <2>1, <3>2 DEF Alone, TypeOK, Fields
  <2>3. CASE ~(EndJob(t) /\ UNCHANGED conn)
    <3>1. PICK p \in Pushes : /\ h2' = [h2 EXCEPT ![p] = "open"]
                              /\ made' = Append(made, PushPromise(act[t].job, p))
                              /\ UNCHANGED <<window, taken, job>>
      BY <1>3, <2>3, ThreadActs
    <3>2. PushPromise(act[t].job, p) \in Frames
      BY <1>0, HandlersAre, StreamsAre DEF PushPromise, Frames
    <3>3. made' \in Seq(Frames) /\ taken' \in 0..Len(made')
      BY <1>0, <3>1, <3>2, OneMoreFrame
    <3>4. Fields'
      BY <1>0, <1>3, <3>1, <3>3 DEF Promise, Fields, locks, close, chan
    <3> QED
      BY <2>1, <3>4 DEF Alone, TypeOK, Fields
  <2> QED
    BY <2>2, <2>3
<1>4. CASE FinishJob(t)
  <2>1. job' \in [Streams -> {"none", "queued", "running", "thunk", "over"}] /\ Alone(t)
    BY <1>0, <1>4, ThreadActs, JobTyped
  <2>2. Fields'
    BY <1>0, <1>4, <2>1 DEF FinishJob, Fields, locks, conn, close, chan
  <2> QED
    BY <2>1, <2>2 DEF Alone, TypeOK, Fields
<1> QED
  BY <1>1, <1>2, <1>3, <1>4 DEF JobStep

LEMMA TypeStep ==
    ASSUME IInv, [Next]_vars
    PROVE  TypeOK'
<1>1. /\ Distinct(producers)
      /\ act[Main].at = "respond" =>
           act[Main].s \in Streams /\ \A i \in DOMAIN producers : producers[i].s # act[Main].s
  BY DEF IInv, Responses, Distinct, Places
<1>2. ASSUME NEW a \in Actors, Step(a) PROVE TypeOK'
  BY <1>1, <1>2, FlushTyped, HandlerTyped DEF IInv, Step
<1>3. ASSUME NEW t \in Threads, JobStep(t) PROVE TypeOK'
  BY <1>3, ThreadTyped DEF IInv
<1>4. CASE HandleResponse \/ Poll \/ EnterShutdown \/ Client \/ (\E s \in Streams : RunThunk(s))
  BY <1>1, <1>4, MainTyped DEF IInv
<1>5. CASE UNCHANGED vars
  BY <1>5 DEF IInv, TypeOK, vars, locks, conn, close, chan
<1> QED
  BY <1>2, <1>3, <1>4, <1>5 DEF Next

-----------------------------------------------------------------------------
(* Locks.                                                                  *)

\* What keeps Locks, of the step of one thread.
LEMMA LocksKept ==
    ASSUME TypeOK, Locks, NEW a \in Actors, Alone(a),
           clock' = clock \/ (clock = None /\ clock' = a) \/ (clock = a /\ clock' = None),
           clock' = a <=> act'[a].at \in {"window", "send"},
           producers' = producers \/ clock \in {None, a},
           clock \in {None, a} \/ \A s \in Streams : window[s] > 0 => window'[s] > 0,
           act'[a].at \in {"window", "send"} =>
               /\ producers' # <<>> /\ (act'[a].at = "window" => act'[a].left > 0)
               /\ act'[a].at = "send" => window'[Head(producers').s] > 0,
           plock' = Main => act'[Main].at = "terminate"
    PROVE  Locks'
<1>1. None \notin Actors
  BY ActorsAre
<1>2. ASSUME NEW b \in Actors, b # a
      PROVE  /\ act'[b] = act[b] /\ (clock' = b <=> clock = b)
             /\ clock = b => producers' = producers /\ \A s \in Streams : window[s] > 0 => window'[s] > 0
  BY <1>1, <1>2 DEF Alone
<1>3. producers # <<>> => Head(producers).s \in Streams
  <2>1. producers \in Seq(Producers)
    BY DEF TypeOK
  <2>2. producers # <<>> => Head(producers) \in Producers
    BY <2>1, SeqAt
  <2> QED
    BY <2>2 DEF Producers
<1>4. ASSUME NEW b \in Actors, b # a
      PROVE  /\ clock' = b <=> act'[b].at \in {"window", "send"}
             /\ act'[b].at \in {"window", "send"} => producers' # <<>>
             /\ act'[b].at = "window" => act'[b].left > 0
             /\ act'[b].at = "send" => window'[Head(producers').s] > 0
  <2>1. CASE act[b].at \in {"window", "send"}
    <3>1. clock = b
      BY <2>1 DEF Locks
    <3>2. /\ producers # <<>> /\ (act[b].at = "window" => act[b].left > 0)
          /\ (act[b].at = "send" => window[Head(producers).s] > 0)
      BY <2>1 DEF Locks
    <3> QED
      BY <1>2, <1>3, <1>4, <2>1, <3>1, <3>2
  <2>2. CASE act[b].at \notin {"window", "send"}
    <3>1. clock # b
      BY <2>2 DEF Locks
    <3> QED
      BY <1>2, <1>4, <2>2, <3>1
  <2> QED
    BY <2>1, <2>2
<1> QED
  BY <1>4 DEF Locks

\* Most steps neither take a lock nor hold one.
LEMMA LocksQuiet ==
    ASSUME TypeOK, Locks, NEW a \in Actors, Alone(a),
           clock' = clock, plock' = plock, window' = window, producers' = producers \/ clock = None,
           act[a].at \notin {"window", "send", "terminate"}, act'[a].at \notin {"window", "send"}
    PROVE  Locks'
<1>1. clock # a
  BY DEF Locks
<1>2. plock' = Main => act'[Main].at = "terminate"
  <2>1. plock = Main => act[Main].at = "terminate" /\ Main # a
    BY DEF Locks
  <2> QED
    BY <2>1, ActorsAre DEF Alone
<1> QED
  BY <1>1, <1>2, LocksKept

LEMMA RaisesTo ==
    ASSUME TypeOK, NEW a \in Actors, Raise(a)
    PROVE  Alone(a) /\ act'[a].at \in {"idle", "close"}
  BY Raises

LEMMA EndsTo ==
    ASSUME TypeOK, NEW a \in Actors, EndJob(a)
    PROVE  Alone(a) /\ act'[a].at = "idle"
  BY EndsJob, IdleIs

LEMMA LocksFlush ==
    ASSUME TypeOK, Locks, Distinct(producers), NEW a \in Actors, FlushStep(a)
    PROVE  Locks'
<1>0. plock = Main /\ a = Main => act[a].at = "terminate"
  BY DEF Locks
<1>1. CASE Flush(a)
  <2>1. /\ act[a].at = "flush" /\ clock = None /\ producers' = producers /\ window' = window /\ plock' = plock
    BY <1>1 DEF Flush, At, conn
  <2>2. /\ Alone(a)
        /\ \/ act'[a].at \in {"flag", "take"} /\ clock' = clock
           \/ act'[a].at = "window" /\ clock' = a /\ producers # <<>> /\ act'[a].left > 0
    BY <1>1, FlushActs
  <2>3. plock' = Main => act'[Main].at = "terminate"
    BY <1>0, <2>1, <2>2, ActorsAre DEF Locks, Alone
  <2>4. clock # a
    BY <2>1, ActorsAre
  <2> QED
    BY <2>1, <2>2, <2>3, <2>4, LocksKept
<1>2. CASE LookAtWindow(a)
  <2>1. /\ act[a].at = "window" /\ window' = window /\ plock' = plock
    BY <1>2 DEF LookAtWindow, At, conn
  <2>2. /\ Alone(a)
        /\ \/ act'[a].at \notin {"window", "send"} /\ clock' = None
           \/ act'[a].at = "window" /\ act'[a].left > 0 /\ producers' # <<>> /\ clock' = clock
           \/ act'[a].at = "send" /\ clock' = clock /\ producers' = producers /\ window[Head(producers).s] > 0
    BY <1>2, LookActs, RaisesTo
  <2>3. clock = a /\ producers # <<>>
    BY <2>1 DEF Locks
  <2>4. plock' = Main => act'[Main].at = "terminate"
    BY <1>0, <2>1, <2>2, ActorsAre DEF Locks, Alone
  <2>5. clock' = a <=> act'[a].at \in {"window", "send"}
    BY <2>2, <2>3, ActorsAre
  <2> QED
    BY <2>1, <2>2, <2>3, <2>4, <2>5, LocksKept
<1>3. CASE Send(a)
  <2>1. /\ act[a].at = "send" /\ plock' = plock
    BY <1>3 DEF Send, At
  <2>2. clock = a /\ producers # <<>> /\ window[producers[1].s] > 0
    BY <2>1, SeqAt DEF Locks, TypeOK
  <2>3. /\ Alone(a)
        /\ \/ act'[a].at \notin {"window", "send"} /\ clock' = None
           \/ /\ act'[a].at = "send" /\ clock' = clock /\ Sent(a, producers[1])
              /\ ~NextFrame(producers[1]).fin /\ NextFrame(producers[1]).kind = "headers"
    BY <1>3, SendActs, RaisesTo
  <2>4. act'[a].at = "send" => producers' # <<>> /\ window'[Head(producers').s] > 0
    <3> SUFFICES ASSUME act'[a].at = "send"
                 PROVE  producers' # <<>> /\ window'[Head(producers').s] > 0
      OBVIOUS
    <3> DEFINE p == producers[1]
    <3>1. p \in Producers /\ 1 \in 1..Len(producers) /\ producers \in Seq(Producers)
      BY <2>2, SeqAt DEF TypeOK
    <3>2. producers' = [producers EXCEPT ![1] = Produced(p)] /\ window' = [window EXCEPT ![p.s] = window[p.s]]
      BY <2>3 DEF Sent
    <3>3. Produced(p) \in Producers /\ Produced(p).s = p.s /\ p.s \in Streams
      BY <3>1, FramesAre
    <3>4. producers' \in Seq(Producers) /\ Len(producers') = Len(producers) /\ producers'[1] = Produced(p)
      BY <3>1, <3>2, <3>3, ExceptSeq
    <3>5. producers' # <<>> /\ Head(producers') = producers'[1]
      BY <3>1, <3>4
    <3>6. window'[p.s] = window[p.s]
      BY <3>2, <3>3 DEF TypeOK
    <3> QED
      BY <2>2, <3>3, <3>4, <3>5, <3>6
  <2>5. plock' = Main => act'[Main].at = "terminate"
    BY <1>0, <2>1, <2>3, ActorsAre DEF Locks, Alone
  <2>6. clock' = a <=> act'[a].at \in {"window", "send"}
    BY <2>2, <2>3, ActorsAre
  <2> QED
    BY <2>2, <2>3, <2>4, <2>5, <2>6, LocksKept
<1>4. CASE Drop(a)
  <2>1. act[a].at = "drop" /\ Alone(a) /\ act'[a].at = "take"
    BY <1>4, DropActs DEF Drop, At
  <2>2. UNCHANGED <<locks, producers, window>>
    BY <1>4 DEF Drop, conn
  <2> QED
    BY <2>1, <2>2, LocksQuiet DEF locks
<1>5. CASE Take(a)
  <2>1. act[a].at = "take" /\ Alone(a) /\ act'[a].at \in {"exhausted", "flag"}
    BY <1>5, TakeActs DEF Take, At
  <2>2. UNCHANGED <<locks, producers, window>>
    BY <1>5 DEF Take
  <2> QED
    BY <2>1, <2>2, LocksQuiet DEF locks
<1>6. CASE Exhausted(a)
  <2>1. UNCHANGED <<locks, producers, window>>
    BY <1>6 DEF Exhausted, conn
  <2> QED
    BY <1>6, <2>1, GoingActs, LocksQuiet DEF locks
<1>7. CASE SendGoaway(a)
  <2>1. UNCHANGED <<locks, producers, window>>
    BY <1>7 DEF SendGoaway
  <2> QED
    BY <1>7, <2>1, GoingActs, LocksQuiet DEF locks
<1>8. CASE Shutdowned(a)
  <2>1. act[a].at = "shutdowned" /\ Alone(a) /\ act'[a].at = "flush"
    BY <1>8, ShutdownedActs DEF Shutdowned, At
  <2>2. UNCHANGED <<locks, producers, window>>
    BY <1>8 DEF Shutdowned, conn
  <2> QED
    BY <2>1, <2>2, LocksQuiet DEF locks
<1>9. CASE Flag(a)
  <2>1. act[a].at = "flag" /\ Alone(a) /\ act'[a].at \notin {"window", "send"}
    BY <1>9, LeavingActs, Returns
  <2>2. UNCHANGED <<locks, producers, window>>
    BY <1>9 DEF Flag, conn
  <2> QED
    BY <2>1, <2>2, LocksQuiet DEF locks
<1>10. CASE Push(a)
  <2>1. act[a].at = "push" /\ Alone(a) /\ act'[a].at \notin {"window", "send"}
    BY <1>10, LeavingActs, Returns, RaisesTo
  <2>2. UNCHANGED <<locks, producers, window>>
    BY <1>10 DEF Push, conn
  <2> QED
    BY <2>1, <2>2, LocksQuiet DEF locks
<1> QED
  BY <1>1, <1>2, <1>3, <1>4, <1>5, <1>6, <1>7, <1>8, <1>9, <1>10 DEF FlushStep

LEMMA LocksHandler ==
    ASSUME TypeOK, Locks, NEW a \in Actors, HandlerStep(a)
    PROVE  Locks'
<1>1. CASE Accept(a)
  <2>1. UNCHANGED <<locks, producers, window>>
    BY <1>1 DEF Accept, conn
  <2> QED
    BY <1>1, <2>1, GoingActs, LocksQuiet DEF locks
<1>2. CASE Enter(a)
  <2>1. act[a].at = "enter" /\ Alone(a) /\ act'[a].at \notin {"window", "send"}
    BY <1>2, LeavingActs, RaisesTo
  <2>2. UNCHANGED <<locks, producers, window>>
    BY <1>2 DEF Enter, conn
  <2> QED
    BY <2>1, <2>2, LocksQuiet DEF locks
<1>3. CASE RemoveRequest(a)
  <2>1. UNCHANGED <<locks, producers, window>>
    BY <1>3 DEF RemoveRequest, conn
  <2> QED
    BY <1>3, <2>1, GoingActs, LocksQuiet DEF locks
<1>4. CASE RemoveResponse(a)
  <2>1. UNCHANGED <<locks, window>> /\ clock = None
    BY <1>4 DEF RemoveResponse, conn
  <2> QED
    BY <1>4, <2>1, GoingActs, LocksQuiet DEF locks
<1>5. CASE Close(a)
  <2>1. act[a].at = "close" /\ Alone(a) /\ act'[a].at \notin {"window", "send"}
    BY <1>5, LeavingActs, Returns
  <2>2. UNCHANGED <<locks, producers, window>>
    BY <1>5 DEF Close, conn
  <2> QED
    BY <2>1, <2>2, LocksQuiet DEF locks
<1>6. CASE Terminate(a)
  <2>1. act[a].at = "terminate" /\ Alone(a) /\ act'[a].at \notin {"window", "send"}
    BY <1>6, LeavingActs, Returns
  <2>2. UNCHANGED <<clock, producers, window>> /\ (plock' = IF plock = a THEN None ELSE plock)
    BY <1>6 DEF Terminate, conn
  <2>3. clock # a
    BY <2>1 DEF Locks
  <2>4. plock' = Main => act'[Main].at = "terminate"
    BY <2>1, <2>2, ActorsAre DEF Locks, Alone
  <2> QED
    BY <2>1, <2>2, <2>3, <2>4, LocksKept
<1> QED
  BY <1>1, <1>2, <1>3, <1>4, <1>5, <1>6 DEF HandlerStep

LEMMA LocksMain ==
    ASSUME TypeOK, Locks, HandleResponse \/ Poll \/ EnterShutdown \/ Client \/ (\E s \in Streams : RunThunk(s))
    PROVE  Locks'
<1>0. Main \in Actors /\ Main # None
  BY ActorsAre
<1>1. CASE HandleResponse
  <2>1. Alone(Main) /\ act[Main].at = "respond" /\ act'[Main].at \notin {"window", "send"}
    BY <1>0, <1>1, HandleResponseActs, Returns
  <2>2. UNCHANGED <<locks, window>> /\ clock = None
    BY <1>1 DEF HandleResponse, conn
  <2> QED
    BY <1>0, <2>1, <2>2, LocksQuiet DEF locks
<1>2. CASE Poll
  <2>1. UNCHANGED <<locks, producers, window>>
    BY <1>2 DEF Poll, mainRest
  <2> QED
    BY <1>0, <1>2, <2>1, MainActs, LocksQuiet DEF locks
<1>3. CASE EnterShutdown
  <2>1. UNCHANGED <<locks, producers, window>>
    BY <1>3 DEF EnterShutdown, mainRest
  <2> QED
    BY <1>0, <1>3, <2>1, MainActs, LocksQuiet DEF locks
<1>4. ASSUME NEW s \in Streams, OpenStream(s) \/ ResetByClient(s) \/ StrayData(s) PROVE Locks'
  <2>1. UNCHANGED <<locks, producers, window>>
    BY <1>4 DEF OpenStream, ResetByClient, StrayData, mainRest
  <2>2. act[Main].at = "idle" /\ Alone(Main) /\ act'[Main].at \in {"accept", "remove", "close"}
    BY <1>4, MainActs
  <2> QED
    BY <1>0, <2>1, <2>2, LocksQuiet DEF locks
<1>5. ASSUME NEW s \in Streams, UpdateWindow(s) PROVE Locks'
  <2>1. UNCHANGED <<locks, producers>> /\ window' = [window EXCEPT ![s] = @ + 1]
    BY <1>5 DEF UpdateWindow, mainRest
  <2>2. act[Main].at = "idle" /\ Alone(Main) /\ act'[Main].at = "flush"
    BY <1>5, MainActs
  <2>3. clock # Main /\ plock # Main
    BY <1>0, <2>2 DEF Locks
  <2>4. \A r \in Streams : window[r] > 0 => window'[r] > 0
    <3>1. \A r \in Streams : window[r] \in 0..Window
      BY DEF TypeOK
    <3>2. \A r \in Streams : window'[r] = window[r] \/ window'[r] = window[r] + 1
      BY <2>1 DEF TypeOK
    <3> QED
      BY <3>1, <3>2
  <2> QED
    BY <1>0, <2>1, <2>2, <2>3, <2>4, LocksKept DEF locks
<1>6. CASE Leave
  <2>1. UNCHANGED <<locks, producers, window>>
    BY <1>6 DEF Leave, mainRest
  <2> QED
    BY <1>0, <1>6, <2>1, MainActs, LocksQuiet DEF locks
<1>7. CASE BreakProtocol
  <2>1. UNCHANGED <<clock, producers, window>>
    BY <1>7 DEF BreakProtocol
  <2>2. act[Main].at = "idle" /\ Alone(Main) /\ act'[Main].at = "terminate"
    BY <1>7, MainActs
  <2>3. clock # Main
    BY <1>0, <2>2 DEF Locks
  <2> QED
    BY <1>0, <2>1, <2>2, <2>3, LocksKept
<1>8. CASE LoseChannel
  <2>1. UNCHANGED <<locks, producers, window>>
    BY <1>8 DEF LoseChannel, mainRest
  <2> QED
    BY <1>0, <1>8, <2>1, MainActs, LocksQuiet DEF locks
<1>9. ASSUME NEW s \in Streams, RunThunk(s) PROVE Locks'
  <2>1. UNCHANGED <<locks, producers, window>>
    BY <1>9 DEF RunThunk, conn
  <2>2. CASE act' = act
    BY <2>1, <2>2 DEF Locks, locks
  <2>3. CASE act[Main].at = "idle" /\ Alone(Main) /\ act'[Main].at = "respond"
    BY <1>0, <2>1, <2>3, LocksQuiet DEF locks
  <2> QED
    BY <1>9, <2>2, <2>3, MainActs
<1> QED
  BY <1>1, <1>2, <1>3, <1>4, <1>5, <1>6, <1>7, <1>8, <1>9 DEF Client

LEMMA LocksThread ==
    ASSUME TypeOK, Locks, NEW t \in Threads, JobStep(t)
    PROVE  Locks'
<1>0. t \in Actors
  BY ActorsAre
<1>1. UNCHANGED <<locks, producers, window>>
  BY DEF JobStep, GetJob, CallPush, Promise, FinishJob, conn
<1>2. ASSUME NEW s \in Streams, GetJob(t, s) PROVE Locks'
  <2>1. act[t].at = "idle" /\ Alone(t) /\ act'[t].at = "run"
    BY <1>2, GetJobActs DEF GetJob, At
  <2> QED
    BY <1>0, <1>1, <2>1, LocksQuiet DEF locks
<1>3. CASE CallPush(t) \/ Promise(t) \/ FinishJob(t)
  <2>1. act[t].at \in {"run", "promise"} /\ Alone(t) /\ act'[t].at \in {"idle", "promise", "accept"}
    BY <1>0, <1>3, ThreadActs, EndsTo
  <2> QED
    BY <1>0, <1>1, <2>1, LocksQuiet DEF locks
<1> QED
  BY <1>2, <1>3 DEF JobStep

LEMMA LocksStep ==
    ASSUME IInv, [Next]_vars
    PROVE  Locks'
<1>1. Distinct(producers)
  BY DEF IInv, Responses, Distinct
<1>2. ASSUME NEW a \in Actors, Step(a) PROVE Locks'
  BY <1>1, <1>2, LocksFlush, LocksHandler DEF IInv, Step
<1>3. ASSUME NEW t \in Threads, JobStep(t) PROVE Locks'
  BY <1>3, LocksThread DEF IInv
<1>4. CASE HandleResponse \/ Poll \/ EnterShutdown \/ Client \/ (\E s \in Streams : RunThunk(s))
  BY <1>4, LocksMain DEF IInv
<1>5. CASE UNCHANGED vars
  BY <1>5 DEF IInv, Locks, vars, locks, conn
<1> QED
  BY <1>2, <1>3, <1>4, <1>5 DEF Next


-----------------------------------------------------------------------------
(* The steps of flush and of the handlers, by what they do.                *)

\* Where a step leads its thread, and what it does to the jobs.
LEMMA StepActs ==
    ASSUME TypeOK, Locks, Places, Distinct(producers), NEW a \in Actors, Step(a)
    PROVE  /\ Alone(a)
           /\ act[a].at \in FlushPath \cup Opening \cup {"remove", "abort", "close", "terminate"}
           /\ \/ SameTask(a) /\ act'[a].at \in FlushPath /\ (act'[a].at # "push" \/ Flag(a))
              \/ SameTask(a) /\ act[a].at = "accept" /\ act'[a].at = "enter"
              \/ /\ act'[a].at = "flush" /\ act'[a].job = act[a].job
                 /\ act'[a].then = <<"flag">> \o act[a].then
              \/ Return(a) /\ (Flag(a) \/ act[a].at \in {"push", "close", "terminate"})
              \/ Raise(a)
              \/ a = Main /\ act[a].at \in {"remove", "close"} /\ act'[a].at \in {"abort", "terminate"}
           /\ \/ job' = job \/ Raise(a)
              \/ act[a].at = "enter" /\ job' = [job EXCEPT ![act[a].s] = "queued"]
<1>0. act[a].at \in {"remove", "abort", "close", "terminate"} => a = Main
  BY DEF Places, Actors, Opening, FlushPath
<1>1. CASE Flush(a)
  <2>1. act[a].at = "flush" /\ job' = job
    BY <1>1 DEF Flush, At
  <2> QED
    BY <1>1, <2>1, FlushActs DEF FlushPath
<1>2. CASE LookAtWindow(a)
  <2>1. act[a].at = "window"
    BY <1>2 DEF LookAtWindow, At
  <2>2. Alone(a) /\ (Raise(a) \/ (SameTask(a) /\ act'[a].at \in FlushPath \ {"push"} /\ job' = job))
    BY <1>2, LookActs DEF FlushPath, chan
  <2> QED
    BY <2>1, <2>2 DEF FlushPath
<1>3. CASE Send(a)
  <2>1. act[a].at = "send"
    BY <1>3 DEF Send, At
  <2>2. Alone(a) /\ (Raise(a) \/ (SameTask(a) /\ act'[a].at \in FlushPath \ {"push"} /\ job' = job))
    BY <1>3, SendActs DEF FlushPath
  <2> QED
    BY <2>1, <2>2 DEF FlushPath
<1>4. CASE Drop(a)
  <2>1. act[a].at = "drop" /\ job' = job
    BY <1>4 DEF Drop, At
  <2> QED
    BY <1>4, <2>1, DropActs DEF FlushPath
<1>5. CASE Take(a)
  <2>1. act[a].at = "take" /\ job' = job
    BY <1>5 DEF Take, At
  <2> QED
    BY <1>5, <2>1, TakeActs DEF FlushPath
<1>6. CASE Exhausted(a)
  <2>1. job' = job
    BY <1>6 DEF Exhausted
  <2> QED
    BY <1>6, <2>1, GoingActs DEF FlushPath
<1>7. CASE SendGoaway(a)
  <2>1. job' = job
    BY <1>7 DEF SendGoaway
  <2> QED
    BY <1>7, <2>1, GoingActs DEF FlushPath
<1>8. CASE Shutdowned(a)
  <2>1. act[a].at = "shutdowned" /\ job' = job
    BY <1>8 DEF Shutdowned, At
  <2> QED
    BY <1>8, <2>1, ShutdownedActs DEF FlushPath
<1>9. CASE Flag(a)
  <2>1. job' = job
    BY <1>9 DEF Flag
  <2> QED
    BY <1>9, <2>1, LeavingActs DEF FlushPath
<1>10. CASE Push(a)
  <2>1. Raise(a) \/ job' = job
    BY <1>10 DEF Push
  <2> QED
    BY <1>10, <2>1, LeavingActs DEF FlushPath
<1>11. CASE Accept(a)
  <2>1. job' = job
    BY <1>11 DEF Accept
  <2> QED
    BY <1>11, <2>1, GoingActs DEF FlushPath, Opening
<1>12. CASE Enter(a)
  BY <1>12, LeavingActs DEF FlushPath, Opening
<1>13. CASE RemoveRequest(a)
  <2>1. job' = job
    BY <1>13 DEF RemoveRequest
  <2> QED
    BY <1>0, <1>13, <2>1, GoingActs
<1>14. CASE RemoveResponse(a)
  <2>1. job' = job
    BY <1>14 DEF RemoveResponse
  <2> QED
    BY <1>0, <1>14, <2>1, GoingActs DEF FlushPath
<1>15. CASE Close(a)
  <2>1. job' = job
    BY <1>15 DEF Close
  <2> QED
    BY <1>0, <1>15, <2>1, LeavingActs DEF FlushPath
<1>16. CASE Terminate(a)
  <2>1. job' = job
    BY <1>16 DEF Terminate
  <2> QED
    BY <1>16, <2>1, LeavingActs
<1> QED
  BY <1>1, <1>2, <1>3, <1>4, <1>5, <1>6, <1>7, <1>8, <1>9, <1>10, <1>11, <1>12, <1>13, <1>14, <1>15, <1>16
  DEF Step, FlushStep, HandlerStep

\* What a step does to the frames, the producers and the streams.
LEMMA StepFrames ==
    ASSUME TypeOK, Locks, Distinct(producers), NEW a \in Actors, Step(a)
    PROVE  /\ Distinct(producers')
           /\ \/ /\ PartOf(producers', producers) /\ h2' = h2
                 /\ made' = made \/ (SendGoaway(a) /\ made' = Append(made, Goaway))
              \/ producers # <<>> /\ producers[1] \in Producers /\ Sent(a, producers[1]) /\ UNCHANGED job
<1>0. producers \in Seq(Producers)
  BY DEF TypeOK
<1>1. CASE producers' = producers /\ h2' = h2 /\ (made' = made \/ (SendGoaway(a) /\ made' = Append(made, Goaway)))
  BY <1>1, PartOfItself
<1>2. CASE LookAtWindow(a)
  <2>1. UNCHANGED conn
    BY <1>2 DEF LookAtWindow
  <2> QED
    BY <1>2, <2>1, LookActs DEF conn
<1>3. CASE Send(a)
  <2>1. producers # <<>>
    BY <1>3 DEF Send, At, Locks
  <2>2. producers[1] \in Producers
    BY <1>0, <2>1, SeqAt
  <2> QED
    BY <1>3, <2>1, <2>2, SendActs DEF conn
<1>4. CASE RemoveResponse(a)
  <2>1. /\ UNCHANGED conn
        /\ producers' = [i \in DOMAIN producers |->
             IF producers[i].s = act[a].s THEN [producers[i] EXCEPT !.ended = TRUE] ELSE producers[i]]
    BY <1>4 DEF RemoveResponse
  <2> QED
    BY <1>0, <2>1, AbortedIsPart DEF conn
<1>5. CASE SendGoaway(a)
  BY <1>1, <1>5 DEF SendGoaway
<1>6. CASE Flush(a) \/ Drop(a) \/ Take(a) \/ Exhausted(a) \/ Shutdowned(a)
  BY <1>1, <1>6 DEF Flush, Drop, Take, Exhausted, Shutdowned, conn
<1>7. CASE Flag(a) \/ Push(a) \/ Accept(a) \/ Enter(a) \/ RemoveRequest(a)
  BY <1>1, <1>7 DEF Flag, Push, Accept, Enter, RemoveRequest, conn
<1>8. CASE Close(a) \/ Terminate(a)
  BY <1>1, <1>8 DEF Close, Terminate, conn
<1> QED
  BY <1>2, <1>3, <1>4, <1>5, <1>6, <1>7, <1>8 DEF Step, FlushStep, HandlerStep

-----------------------------------------------------------------------------
(* Places.                                                                 *)

\* What keeps Places, of the step of one thread.
LEMMA PlacesKept ==
    ASSUME Places, NEW a \in Actors, Alone(a),
           a # Main => /\ act'[a].at \in {"idle", "run", "promise"} \cup Opening \cup FlushPath
                       /\ act'[a].then \in Seq({"flag"})
                       /\ act'[a].at \in Opening => act'[a].s \in Pushes,
           a = Main => /\ act'[a].at \in Opening => act'[a].s \in Clients
                       /\ act'[a].at = "respond" => act'[a].s \in Streams
    PROVE  Places'
<1>1. \A t \in Threads : t \in Actors /\ t # Main
  BY ActorsAre
<1>2. Main \in Actors
  BY ActorsAre
<1> QED
  BY <1>1, <1>2 DEF Places, Alone

LEMMA PlacesOfStep ==
    ASSUME TypeOK, Locks, Places, Distinct(producers), NEW a \in Actors, Step(a)
    PROVE  Places'
<1>1. /\ Alone(a)
      /\ \/ SameTask(a) /\ act'[a].at \in FlushPath
         \/ SameTask(a) /\ act[a].at = "accept" /\ act'[a].at = "enter"
         \/ /\ act'[a].at = "flush" /\ act'[a].job = act[a].job
            /\ act'[a].then = <<"flag">> \o act[a].then
         \/ Return(a) \/ Raise(a)
         \/ a = Main /\ act'[a].at \in {"abort", "terminate"}
  BY StepActs
<1>2. a # Main => a \in Threads
  BY DEF Actors
<1>3. a # Main => act[a].then \in Seq({"flag"}) /\ (act[a].at \in Opening => act[a].s \in Pushes)
  BY <1>2 DEF Places
<1>4. <<>> \in Seq({"flag"})
  OBVIOUS
<1>5. CASE SameTask(a) /\ act'[a].at \in FlushPath
  BY <1>1, <1>3, <1>5, PlacesKept DEF SameTask, FlushPath, Opening
<1>6. CASE SameTask(a) /\ act[a].at = "accept" /\ act'[a].at = "enter"
  <2>1. a = Main => act'[a].s \in Clients
    BY <1>6 DEF Places, SameTask, Opening
  <2> QED
    BY <1>1, <1>3, <1>6, <2>1, PlacesKept DEF SameTask, Opening
<1>7. CASE act'[a].at = "flush" /\ act'[a].then = <<"flag">> \o act[a].then
  <2>1. a # Main => act'[a].then \in Seq({"flag"})
    BY <1>3, <1>7, ConcatProperties
  <2> QED
    BY <1>1, <1>7, <2>1, PlacesKept DEF FlushPath, Opening
<1>8. CASE Return(a)
  <2>1. act'[a].at \in {"idle", "run", "flag", "flush", "close"}
    BY <1>8, Returns
  <2>2. a # Main => act'[a].at \in {"run", "flag"} /\ act'[a].then \in Seq({"flag"})
    <3>1. CASE act[a].then = <<>>
      BY <1>4, <1>8, <3>1, Returns
    <3>2. CASE act[a].then # <<>>
      <4>1. act'[a].at = Head(act[a].then) /\ act'[a].then = Tail(act[a].then)
        BY <1>8, <3>2, Returns
      <4> QED
        BY <1>3, <3>2, <4>1, HeadTailProperties
    <3> QED
      BY <3>1, <3>2
  <2> QED
    BY <1>1, <2>1, <2>2, PlacesKept DEF FlushPath, Opening
<1>9. CASE Raise(a)
  <2>1. act'[a].then = <<>> /\ act'[a].at \in {"idle", "close"} /\ (a # Main => act'[a].at = "idle")
    BY <1>9, Raises
  <2> QED
    BY <1>1, <1>4, <2>1, PlacesKept DEF FlushPath, Opening
<1>10. CASE a = Main /\ act'[a].at \in {"abort", "terminate"}
  BY <1>1, <1>10, PlacesKept DEF Opening
<1> QED
  BY <1>1, <1>5, <1>6, <1>7, <1>8, <1>9, <1>10

LEMMA PlacesStep ==
    ASSUME IInv, [Next]_vars
    PROVE  Places'
<1>0. TypeOK /\ Locks /\ Places /\ Distinct(producers) /\ Main \in Actors
  BY ActorsAre DEF IInv, Responses, Distinct
<1>1. ASSUME NEW a \in Actors, Step(a) PROVE Places'
  BY <1>0, <1>1, PlacesOfStep
<1>2. ASSUME NEW t \in Threads, JobStep(t) PROVE Places'
  <2>0. t \in Actors /\ t # Main /\ act[t].then \in Seq({"flag"}) /\ <<>> \in Seq({"flag"})
    BY <1>0, ActorsAre DEF Places
  <2>1. ASSUME NEW s \in Streams, GetJob(t, s) PROVE Places'
    BY <1>0, <2>0, <2>1, GetJobActs, PlacesKept DEF Opening
  <2>2. CASE EndJob(t) /\ Alone(t)
    BY <1>0, <2>0, <2>2, EndsJob, IdleIs, PlacesKept DEF Opening
  <2>3. CASE CallPush(t)
    <3>1. CASE SameTask(t) /\ act'[t].at = "promise" /\ Alone(t)
      BY <1>0, <2>0, <3>1, PlacesKept DEF Opening, SameTask
    <3> QED
      BY <1>0, <2>2, <2>3, <3>1, ThreadActs
  <2>4. CASE Promise(t)
    <3>1. CASE Alone(t) /\ act'[t].at = "accept" /\ act'[t].s \in Pushes /\ act'[t].then = act[t].then
      BY <1>0, <2>0, <3>1, PlacesKept DEF Opening
    <3> QED
      BY <1>0, <2>2, <2>4, <3>1, ThreadActs
  <2>5. CASE FinishJob(t)
    BY <1>0, <2>2, <2>5, ThreadActs
  <2> QED
    BY <1>2, <2>1, <2>3, <2>4, <2>5 DEF JobStep
<1>3. CASE HandleResponse
  <2>1. act'[Main].at \notin Opening \cup {"respond"} /\ Alone(Main)
    BY <1>0, <1>3, HandleResponseActs, Returns DEF Opening
  <2> QED
    BY <1>0, <2>1, PlacesKept
<1>4. CASE Poll \/ EnterShutdown \/ Leave \/ BreakProtocol \/ LoseChannel
  <2>1. act'[Main].at \in {"flush", "close", "terminate"} /\ Alone(Main)
    BY <1>0, <1>4, MainActs
  <2> QED
    BY <1>0, <2>1, PlacesKept DEF Opening
<1>5. ASSUME NEW s \in Streams, OpenStream(s) \/ ResetByClient(s) \/ UpdateWindow(s) \/ StrayData(s) PROVE Places'
  <2>1. act'[Main].at = "accept" => act'[Main].s \in Clients
    BY <1>0, <1>5, MainActs DEF OpenStream
  <2>2. act'[Main].at \in {"accept", "remove", "flush", "close"} /\ Alone(Main)
    BY <1>0, <1>5, MainActs
  <2> QED
    BY <1>0, <2>1, <2>2, PlacesKept DEF Opening
<1>6. ASSUME NEW s \in Streams, RunThunk(s) PROVE Places'
  <2>1. CASE act' = act
    BY <1>0, <2>1 DEF Places
  <2>2. CASE Alone(Main) /\ act'[Main].at = "respond" /\ act'[Main].s = s
    BY <1>0, <2>2, PlacesKept DEF Opening
  <2> QED
    BY <1>0, <1>6, <2>1, <2>2, MainActs
<1>7. CASE UNCHANGED vars
  BY <1>0, <1>7 DEF Places, vars
<1> QED
  BY <1>1, <1>2, <1>3, <1>4, <1>5, <1>6, <1>7 DEF Next, Client

-----------------------------------------------------------------------------
(* The jobs.                                                               *)

\* A step that neither begins nor ends a job, nor opens a stream.
LEMMA JobsQuiet ==
    ASSUME JobsKept, NEW a \in Actors, Alone(a), job' = job,
           \A s \in Streams : h2'[s] = "idle" => h2[s] = "idle",
           act'[a].s = act[a].s \/ act'[a].at \notin Opening,
           act'[a].at \in Opening => act[a].at \in Opening /\ act[a].s \in Streams,
           a # Main /\ act'[a].at # "idle" => act[a].at # "idle" /\ act'[a].job = act[a].job,
           a = Main => act'[a].at # "respond",
           \A b \in Actors : act[b].at \in Opening => act[b].s \in Streams
    PROVE  JobsKept'
<1>0. Main \in Actors /\ \A t \in Threads : t \in Actors /\ t # Main
  BY ActorsAre
<1>1. ASSUME NEW t \in Threads, act'[t].at # "idle"
      PROVE  act[t].at # "idle" /\ act'[t].job = act[t].job
  BY <1>0, <1>1 DEF Alone
<1>2. ASSUME NEW b \in Actors, act'[b].at \in Opening
      PROVE  act[b].at \in Opening /\ act'[b].s = act[b].s
  BY <1>2 DEF Alone
<1>3. ASSUME NEW t \in Threads, act'[t].at # "idle"
      PROVE  /\ act'[t].job \in Streams /\ job'[act'[t].job] = "running"
             /\ \A u \in Threads : act'[u].at # "idle" /\ act'[u].job = act'[t].job => u = t
  BY <1>1, <1>3 DEF JobsKept
<1>4. \A s \in Streams : h2'[s] = "idle" => job'[s] = "none"
  BY DEF JobsKept
<1>5. ASSUME NEW b \in Actors, act'[b].at \in Opening
      PROVE  /\ h2'[act'[b].s] # "idle" /\ job'[act'[b].s] = "none"
             /\ \A c \in Actors : act'[c].at \in Opening /\ act'[c].s = act'[b].s => c = b
  <2>1. act[b].at \in Opening /\ act'[b].s = act[b].s /\ act[b].s \in Streams
    BY <1>2, <1>5
  <2> QED
    BY <1>2, <2>1 DEF JobsKept
<1>6. act'[Main].at = "respond" => job'[act'[Main].s] = "over"
  BY <1>0 DEF JobsKept, Alone
<1> QED
  BY <1>3, <1>4, <1>5, <1>6 DEF JobsKept

\* A thread ends its own job.
LEMMA JobsEnded ==
    ASSUME TypeOK, JobsKept, NEW t \in Threads, act[t].at # "idle", EndJob(t),
           \A s \in Streams : h2'[s] = "idle" => h2[s] = "idle",
           \A b \in Actors : act[b].at \in Opening => act[b].s \in Streams,
           act[Main].at = "respond" => act[Main].s \in Streams
    PROVE  JobsKept'
<1>0. Main \in Actors /\ t \in Actors /\ t # Main /\ \A u \in Threads : u \in Actors
  BY ActorsAre
<1>1. /\ Alone(t) /\ act'[t].at = "idle" /\ job' = [job EXCEPT ![act[t].job] = "thunk"]
      /\ act[t].job \in Streams /\ job[act[t].job] = "running"
  BY <1>0, EndsJob, IdleIs DEF JobsKept
<1>2. \A s \in Streams : s # act[t].job => job'[s] = job[s]
  BY <1>1 DEF TypeOK
<1>3. \A b \in Actors : b # t => act'[b] = act[b]
  BY <1>1 DEF Alone
<1>4. ASSUME NEW u \in Threads, act'[u].at # "idle"
      PROVE  /\ act'[u].job \in Streams /\ job'[act'[u].job] = "running"
             /\ \A w \in Threads : act'[w].at # "idle" /\ act'[w].job = act'[u].job => w = u
  <2>1. u # t /\ act'[u] = act[u] /\ act[u].at # "idle"
    BY <1>0, <1>1, <1>3, <1>4
  <2>2. act[u].job # act[t].job /\ act[u].job \in Streams /\ job[act[u].job] = "running"
    BY <2>1 DEF JobsKept
  <2>3. \A w \in Threads : act'[w].at # "idle" => act'[w] = act[w] /\ act[w].at # "idle"
    BY <1>0, <1>1, <1>3
  <2> QED
    BY <1>2, <2>1, <2>2, <2>3 DEF JobsKept
<1>5. \A s \in Streams : h2'[s] = "idle" => job'[s] = "none"
  BY <1>1, <1>2 DEF JobsKept
<1>6. ASSUME NEW b \in Actors, act'[b].at \in Opening
      PROVE  /\ h2'[act'[b].s] # "idle" /\ job'[act'[b].s] = "none"
             /\ \A c \in Actors : act'[c].at \in Opening /\ act'[c].s = act'[b].s => c = b
  <2>1. \A c \in Actors : act'[c].at \in Opening => c # t /\ act'[c] = act[c]
    BY <1>1, <1>3 DEF Opening
  <2>2. act'[b] = act[b] /\ act[b].at \in Opening /\ act[b].s \in Streams
    BY <1>6, <2>1
  <2>3. job[act[b].s] = "none" /\ h2[act[b].s] # "idle"
    BY <2>2 DEF JobsKept
  <2> QED
    BY <1>1, <1>2, <2>1, <2>2, <2>3 DEF JobsKept
<1>7. act'[Main].at = "respond" => job'[act'[Main].s] = "over"
  <2>1. act'[Main] = act[Main]
    BY <1>0, <1>3
  <2> QED
    BY <1>1, <1>2, <2>1 DEF JobsKept
<1> QED
  BY <1>4, <1>5, <1>6, <1>7 DEF JobsKept

\* A stream of its own is opened.
LEMMA JobsOpened ==
    ASSUME TypeOK, JobsKept, NEW a \in Actors, Alone(a), NEW p \in Streams, h2[p] = "idle",
           h2' = [h2 EXCEPT ![p] = "open"], job' = job, act'[a].at = "accept", act'[a].s = p,
           a # Main => act[a].at # "idle" /\ act'[a].job = act[a].job,
           \A b \in Actors : act[b].at \in Opening => act[b].s \in Streams
    PROVE  JobsKept'
<1>0. Main \in Actors /\ \A t \in Threads : t \in Actors /\ t # Main
  BY ActorsAre
<1>1. h2'[p] = "open" /\ (\A s \in Streams : s # p => h2'[s] = h2[s]) /\ job'[p] = "none"
  BY DEF TypeOK, JobsKept
<1>2. \A b \in Actors : b # a => act'[b] = act[b]
  BY DEF Alone
<1>3. ASSUME NEW t \in Threads, act'[t].at # "idle"
      PROVE  /\ act'[t].job \in Streams /\ job'[act'[t].job] = "running"
             /\ \A u \in Threads : act'[u].at # "idle" /\ act'[u].job = act'[t].job => u = t
  <2>1. \A u \in Threads : act'[u].at # "idle" => act[u].at # "idle" /\ act'[u].job = act[u].job
    BY <1>0, <1>2
  <2> QED
    BY <1>3, <2>1 DEF JobsKept
<1>4. \A s \in Streams : h2'[s] = "idle" => job'[s] = "none"
  BY <1>1 DEF JobsKept
<1>5. \A b \in Actors : b # a /\ act'[b].at \in Opening =>
          act[b].at \in Opening /\ act'[b].s = act[b].s /\ act[b].s # p /\ h2[act[b].s] # "idle"
  BY <1>2 DEF JobsKept
<1>6. ASSUME NEW b \in Actors, act'[b].at \in Opening
      PROVE  /\ h2'[act'[b].s] # "idle" /\ job'[act'[b].s] = "none"
             /\ \A c \in Actors : act'[c].at \in Opening /\ act'[c].s = act'[b].s => c = b
  <2>1. CASE b = a
    BY <1>1, <1>5, <2>1
  <2>2. CASE b # a
    <3>1. act[b].at \in Opening /\ act'[b].s = act[b].s /\ act[b].s # p /\ h2[act[b].s] # "idle"
      BY <1>5, <1>6, <2>2
    <3>2. h2'[act[b].s] # "idle" /\ job'[act[b].s] = "none"
      BY <1>1, <3>1 DEF JobsKept
    <3> QED
      BY <1>5, <2>2, <3>1, <3>2 DEF JobsKept
  <2> QED
    BY <2>1, <2>2
<1>7. act'[Main].at = "respond" => job'[act'[Main].s] = "over"
  BY <1>0, <1>2 DEF JobsKept
<1> QED
  BY <1>3, <1>4, <1>6, <1>7 DEF JobsKept

\* A stream that a thread opens gets its job queued.
LEMMA JobsEntered ==
    ASSUME TypeOK, JobsKept, NEW a \in Actors, Alone(a), act[a].at \in Opening, act'[a].at = "flush",
           act'[a].job = act[a].job, job' = [job EXCEPT ![act[a].s] = "queued"],
           \A s \in Streams : h2'[s] = "idle" => h2[s] = "idle",
           \A b \in Actors : act[b].at \in Opening => act[b].s \in Streams,
           act[Main].at = "respond" => act[Main].s \in Streams
    PROVE  JobsKept'
<1>0. Main \in Actors /\ \A t \in Threads : t \in Actors /\ t # Main
  BY ActorsAre
<1>1. act[a].s \in Streams /\ job[act[a].s] = "none" /\ h2[act[a].s] # "idle"
  BY DEF JobsKept
<1>2. \A s \in Streams : s # act[a].s => job'[s] = job[s]
  BY DEF TypeOK
<1>3. \A b \in Actors : b # a => act'[b] = act[b]
  BY DEF Alone
<1>4. ASSUME NEW t \in Threads, act'[t].at # "idle"
      PROVE  /\ act'[t].job \in Streams /\ job'[act'[t].job] = "running"
             /\ \A u \in Threads : act'[u].at # "idle" /\ act'[u].job = act'[t].job => u = t
  <2>1. \A u \in Threads : act'[u].at # "idle" => act[u].at # "idle" /\ act'[u].job = act[u].job
    BY <1>0, <1>3 DEF Opening
  <2>2. act[t].job \in Streams /\ job[act[t].job] = "running"
    BY <1>4, <2>1 DEF JobsKept
  <2>3. job'[act[t].job] = "running"
    BY <1>1, <1>2, <2>2
  <2> QED
    BY <1>4, <2>1, <2>2, <2>3 DEF JobsKept
<1>5. \A s \in Streams : h2'[s] = "idle" => job'[s] = "none"
  BY <1>1, <1>2 DEF JobsKept
<1>6. ASSUME NEW b \in Actors, act'[b].at \in Opening
      PROVE  /\ h2'[act'[b].s] # "idle" /\ job'[act'[b].s] = "none"
             /\ \A c \in Actors : act'[c].at \in Opening /\ act'[c].s = act'[b].s => c = b
  <2>1. \A c \in Actors : act'[c].at \in Opening => c # a /\ act'[c] = act[c]
    BY <1>3 DEF Opening
  <2>2. act'[b] = act[b] /\ act[b].at \in Opening /\ act[b].s \in Streams /\ b # a
    BY <1>6, <2>1
  <2>3. act[b].s # act[a].s /\ h2[act[b].s] # "idle" /\ job[act[b].s] = "none"
    BY <2>2 DEF JobsKept
  <2> QED
    BY <1>2, <2>1, <2>2, <2>3 DEF JobsKept
<1>7. act'[Main].at = "respond" => job'[act'[Main].s] = "over"
  <2>1. act'[Main].at = "respond" => act'[Main] = act[Main]
    BY <1>0, <1>3
  <2> QED
    BY <1>1, <1>2, <2>1 DEF JobsKept
<1> QED
  BY <1>4, <1>5, <1>6, <1>7 DEF JobsKept

\* The streams in hand.
LEMMA InHand ==
    ASSUME Places
    PROVE  /\ \A b \in Actors : act[b].at \in Opening => act[b].s \in Streams
           /\ act[Main].at = "respond" => act[Main].s \in Streams
  BY StreamsAre DEF Places, Actors

LEMMA JobsOfStep ==
    ASSUME TypeOK, Locks, Places, JobsKept, Distinct(producers), NEW a \in Actors, Step(a)
    PROVE  JobsKept'
<1>1. /\ Alone(a)
      /\ act[a].at \in FlushPath \cup Opening \cup {"remove", "abort", "close", "terminate"}
      /\ \/ SameTask(a) /\ act'[a].at \in FlushPath
         \/ SameTask(a) /\ act[a].at = "accept" /\ act'[a].at = "enter"
         \/ /\ act'[a].at = "flush" /\ act'[a].job = act[a].job
            /\ act'[a].then = <<"flag">> \o act[a].then
         \/ Return(a) \/ Raise(a)
         \/ a = Main /\ act'[a].at \in {"abort", "terminate"}
      /\ \/ job' = job \/ Raise(a)
         \/ act[a].at = "enter" /\ job' = [job EXCEPT ![act[a].s] = "queued"]
  BY StepActs
<1>2. a # Main => a \in Threads
  BY DEF Actors
<1>3. act[a].at # "idle"
  BY <1>1 DEF FlushPath, Opening
<1>4. \A s \in Streams : h2'[s] = "idle" => h2[s] = "idle"
  <2>1. CASE h2' = h2
    BY <2>1
  <2>2. CASE producers[1] \in Producers /\ Sent(a, producers[1])
    <3>1. producers[1].s \in Streams
      BY <2>2, FramesAre
    <3>2. h2' = h2 \/ h2' = [h2 EXCEPT ![producers[1].s] = "closed"]
      BY <2>2 DEF Sent
    <3> QED
      BY <3>1, <3>2 DEF TypeOK
  <2> QED
    BY <2>1, <2>2, StepFrames
<1>5. /\ \A b \in Actors : act[b].at \in Opening => act[b].s \in Streams
      /\ act[Main].at = "respond" => act[Main].s \in Streams
  BY InHand
<1>6. CASE Raise(a)
  <2>1. CASE a = Main
    <3>1. job' = job /\ act'[a].at \in {"idle", "close"}
      BY <1>6, <2>1, Raises
    <3> QED
      BY <1>1, <1>4, <1>5, <2>1, <3>1, JobsQuiet DEF Opening
  <2>2. CASE a # Main
    <3>1. EndJob(a) /\ a \in Threads
      BY <1>2, <1>6, <2>2, Raises
    <3> QED
      BY <1>3, <1>4, <1>5, <3>1, JobsEnded
  <2> QED
    BY <2>1, <2>2
<1>7. CASE act[a].at = "enter" /\ job' = [job EXCEPT ![act[a].s] = "queued"] /\ job' # job /\ ~Raise(a)
  <2>1. Enter(a)
    <3>1. \A at \in States : at # "enter" => ~At(a, at)
      BY <1>7 DEF At
    <3> QED
      BY <1>7 DEF Step, FlushStep, HandlerStep, Flush, LookAtWindow, Send, Drop, Take, Exhausted, SendGoaway,
                  Shutdowned, Flag, Push, Accept, RemoveRequest, RemoveResponse, Close, Terminate, At
  <2>2. SameTask(a) /\ act'[a].at = "flush"
    BY <1>7, <2>1, LeavingActs
  <2> QED
    BY <1>1, <1>4, <1>5, <1>7, <2>2, JobsEntered DEF SameTask, Opening
<1>8. CASE job' = job /\ SameTask(a) /\ act'[a].at \in FlushPath
  BY <1>1, <1>3, <1>4, <1>5, <1>8, JobsQuiet DEF SameTask, FlushPath, Opening
<1>9. CASE job' = job /\ SameTask(a) /\ act[a].at = "accept" /\ act'[a].at = "enter"
  BY <1>1, <1>3, <1>4, <1>5, <1>9, JobsQuiet DEF SameTask, Opening
<1>10. CASE job' = job /\ act'[a].at = "flush" /\ act'[a].job = act[a].job
  BY <1>1, <1>3, <1>4, <1>5, <1>10, JobsQuiet DEF Opening
<1>11. CASE job' = job /\ Return(a)
  <2>1. act'[a].at \in {"idle", "run", "flag", "flush", "close"} /\ act'[a].job = act[a].job
    BY <1>11, Returns
  <2> QED
    BY <1>1, <1>3, <1>4, <1>5, <1>11, <2>1, JobsQuiet DEF Opening
<1>12. CASE job' = job /\ a = Main /\ act'[a].at \in {"abort", "terminate"}
  BY <1>1, <1>4, <1>5, <1>12, JobsQuiet DEF Opening
<1> QED
  BY <1>1, <1>6, <1>7, <1>8, <1>9, <1>10, <1>11, <1>12

\* A thread takes a queued job.
LEMMA JobsGot ==
    ASSUME TypeOK, Places, JobsKept, NEW t \in Threads, NEW s \in Streams, GetJob(t, s)
    PROVE  JobsKept'
<1>0. Main \in Actors /\ t \in Actors /\ t # Main /\ \A u \in Threads : u \in Actors
  BY ActorsAre
<1>1. /\ job[s] = "queued" /\ job' = [job EXCEPT ![s] = "running"] /\ h2' = h2
      /\ Alone(t) /\ act'[t].at = "run" /\ act'[t].job = s
  BY GetJobActs DEF GetJob, conn
<1>2. job'[s] = "running" /\ \A r \in Streams : r # s => job'[r] = job[r]
  BY <1>1 DEF TypeOK
<1>3. \A b \in Actors : b # t => act'[b] = act[b]
  BY <1>1 DEF Alone
<1>4. \A u \in Threads : u # t /\ act'[u].at # "idle" =>
        /\ act'[u] = act[u] /\ act[u].at # "idle" /\ act[u].job \in Streams /\ job[act[u].job] = "running"
        /\ act[u].job # s
  BY <1>0, <1>1, <1>3 DEF JobsKept
<1>5. ASSUME NEW u \in Threads, act'[u].at # "idle"
      PROVE  /\ act'[u].job \in Streams /\ job'[act'[u].job] = "running"
             /\ \A w \in Threads : act'[w].at # "idle" /\ act'[w].job = act'[u].job => w = u
  <2>1. CASE u = t
    BY <1>1, <1>2, <1>4, <2>1
  <2>2. CASE u # t
    <3>1. /\ act'[u] = act[u] /\ act[u].at # "idle" /\ act[u].job \in Streams /\ job[act[u].job] = "running"
          /\ act[u].job # s
      BY <1>4, <1>5, <2>2
    <3>2. \A w \in Threads : act[w].at # "idle" /\ act[w].job = act[u].job => w = u
      BY <3>1 DEF JobsKept
    <3> QED
      BY <1>1, <1>2, <1>4, <2>2, <3>1, <3>2
  <2> QED
    BY <2>1, <2>2
<1>6. \A r \in Streams : h2'[r] = "idle" => job'[r] = "none"
  BY <1>1, <1>2 DEF JobsKept
<1>7. ASSUME NEW b \in Actors, act'[b].at \in Opening
      PROVE  /\ h2'[act'[b].s] # "idle" /\ job'[act'[b].s] = "none"
             /\ \A c \in Actors : act'[c].at \in Opening /\ act'[c].s = act'[b].s => c = b
  <2>1. \A c \in Actors : act'[c].at \in Opening => act'[c] = act[c] /\ act[c].at \in Opening /\ act[c].s \in Streams
    BY <1>1, <1>3, InHand DEF Opening
  <2>2. act'[b] = act[b] /\ act[b].at \in Opening /\ act[b].s \in Streams
    BY <1>7, <2>1
  <2>3. h2[act[b].s] # "idle" /\ job[act[b].s] = "none"
    BY <2>2 DEF JobsKept
  <2> QED
    BY <1>1, <1>2, <2>1, <2>2, <2>3 DEF JobsKept
<1>8. act'[Main].at = "respond" => job'[act'[Main].s] = "over"
  <2>1. act'[Main] = act[Main]
    BY <1>0, <1>3
  <2> QED
    BY <1>1, <1>2, <2>1, InHand DEF JobsKept
<1> QED
  BY <1>5, <1>6, <1>7, <1>8 DEF JobsKept

\* The thunk of a job that is over.
LEMMA JobsThunk ==
    ASSUME TypeOK, Places, JobsKept, NEW s \in Streams, RunThunk(s)
    PROVE  JobsKept'
<1>0. Main \in Actors /\ \A u \in Threads : u \in Actors /\ u # Main
  BY ActorsAre
<1>1. job[s] = "thunk" /\ job' = [job EXCEPT ![s] = "over"] /\ h2' = h2 /\ act[Main].at = "idle"
  BY DEF RunThunk, At, conn
<1>2. job'[s] = "over" /\ \A r \in Streams : r # s => job'[r] = job[r]
  BY <1>1 DEF TypeOK
<1>3. /\ \A b \in Actors : b # Main => act'[b] = act[b]
      /\ act'[Main].at = "idle" \/ (act'[Main].at = "respond" /\ act'[Main].s = s)
  <2>1. \/ Alone(Main) /\ act'[Main].at = "respond" /\ act'[Main].s = s
        \/ act' = act
    BY MainActs
  <2> QED
    BY <1>1, <2>1 DEF Alone
<1>4. \A u \in Threads : act'[u] = act[u]
  BY <1>0, <1>3
<1>5. ASSUME NEW u \in Threads, act'[u].at # "idle"
      PROVE  /\ act'[u].job \in Streams /\ job'[act'[u].job] = "running"
             /\ \A w \in Threads : act'[w].at # "idle" /\ act'[w].job = act'[u].job => w = u
  <2>1. act[u].job \in Streams /\ job[act[u].job] = "running" /\ act'[u] = act[u]
    BY <1>4, <1>5 DEF JobsKept
  <2>2. job'[act[u].job] = "running"
    BY <1>1, <1>2, <2>1
  <2> QED
    BY <1>4, <1>5, <2>1, <2>2 DEF JobsKept
<1>6. \A r \in Streams : h2'[r] = "idle" => job'[r] = "none"
  BY <1>1, <1>2 DEF JobsKept
<1>7. ASSUME NEW b \in Actors, act'[b].at \in Opening
      PROVE  /\ h2'[act'[b].s] # "idle" /\ job'[act'[b].s] = "none"
             /\ \A c \in Actors : act'[c].at \in Opening /\ act'[c].s = act'[b].s => c = b
  <2>1. \A c \in Actors : act'[c].at \in Opening => act'[c] = act[c] /\ act[c].at \in Opening /\ act[c].s \in Streams
    BY <1>3, InHand DEF Opening
  <2>2. act'[b] = act[b] /\ act[b].at \in Opening /\ act[b].s \in Streams
    BY <1>7, <2>1
  <2>3. h2[act[b].s] # "idle" /\ job[act[b].s] = "none"
    BY <2>2 DEF JobsKept
  <2> QED
    BY <1>1, <1>2, <2>1, <2>2, <2>3 DEF JobsKept
<1> QED
  BY <1>2, <1>3, <1>5, <1>6, <1>7 DEF JobsKept

\* The main thread's own steps, but for the thunks.
LEMMA JobsMain ==
    ASSUME TypeOK, Places, JobsKept, HandleResponse \/ Poll \/ EnterShutdown \/ Client
    PROVE  JobsKept'
<1>0. Main \in Actors /\ \A b \in Actors : act[b].at \in Opening => act[b].s \in Streams
  BY ActorsAre, InHand
<1>1. ASSUME Alone(Main), job' = job, \A s \in Streams : h2'[s] = "idle" => h2[s] = "idle",
             act'[Main].at \notin Opening \cup {"respond"}
      PROVE  JobsKept'
  BY <1>0, <1>1, JobsQuiet
<1>2. CASE HandleResponse
  <2>1. act'[Main].at \notin Opening \cup {"respond"} /\ Alone(Main)
    BY <1>0, <1>2, HandleResponseActs, Returns DEF Opening
  <2>2. job' = job /\ h2' = h2
    BY <1>2 DEF HandleResponse, conn
  <2> QED
    BY <1>1, <2>1, <2>2
<1>3. CASE Poll \/ EnterShutdown \/ Leave \/ BreakProtocol \/ LoseChannel
  <2>1. act'[Main].at \in {"flush", "close", "terminate"} /\ Alone(Main)
    BY <1>3, MainActs
  <2>2. job' = job /\ h2' = h2
    BY <1>3 DEF Poll, EnterShutdown, Leave, BreakProtocol, LoseChannel, mainRest
  <2> QED
    BY <1>1, <2>1, <2>2 DEF Opening
<1>4. ASSUME NEW s \in Streams, ResetByClient(s) \/ UpdateWindow(s) \/ StrayData(s) PROVE JobsKept'
  <2>1. act'[Main].at \in {"remove", "flush", "close"} /\ Alone(Main)
    BY <1>4, MainActs
  <2>2. job' = job /\ (h2' = h2 \/ h2' = [h2 EXCEPT ![s] = "reset"])
    BY <1>4 DEF ResetByClient, UpdateWindow, StrayData, mainRest
  <2>3. \A r \in Streams : h2'[r] = "idle" => h2[r] = "idle"
    BY <2>2 DEF TypeOK
  <2> QED
    BY <1>1, <2>1, <2>2, <2>3 DEF Opening
<1>5. ASSUME NEW s \in Streams, OpenStream(s) PROVE JobsKept'
  <2>1. act'[Main].at = "accept" /\ act'[Main].s = s /\ Alone(Main)
    BY <1>5, MainActs
  <2>2. job' = job /\ h2[s] = "idle" /\ h2' = [h2 EXCEPT ![s] = "open"]
    BY <1>5 DEF OpenStream, mainRest
  <2> QED
    BY <1>0, <2>1, <2>2, JobsOpened
<1> QED
  BY <1>2, <1>3, <1>4, <1>5 DEF Client

LEMMA JobsStep ==
    ASSUME IInv, [Next]_vars
    PROVE  JobsKept'
<1>0. TypeOK /\ Locks /\ Places /\ JobsKept /\ Distinct(producers)
  BY DEF IInv, Responses, Distinct
<1>1. ASSUME NEW a \in Actors, Step(a) PROVE JobsKept'
  BY <1>0, <1>1, JobsOfStep
<1>2. ASSUME NEW t \in Threads, JobStep(t) PROVE JobsKept'
  <2>0. t \in Actors /\ t # Main /\ \A b \in Actors : act[b].at \in Opening => act[b].s \in Streams
    BY <1>0, ActorsAre, InHand
  <2>1. CASE EndJob(t) /\ h2' = h2 /\ act[t].at # "idle"
    BY <1>0, <2>0, <2>1, InHand, JobsEnded
  <2>2. CASE CallPush(t)
    <3>1. act[t].at = "run" /\ h2' = h2 /\ Alone(t)
      BY <1>0, <2>2, ThreadActs DEF CallPush, conn
    <3>2. CASE SameTask(t) /\ act'[t].at = "promise" /\ job' = job
      BY <1>0, <2>0, <3>1, <3>2, JobsQuiet DEF SameTask, Opening
    <3> QED
      BY <1>0, <2>1, <2>2, <3>1, <3>2, ThreadActs
  <2>3. CASE Promise(t)
    <3>1. act[t].at = "promise" /\ Alone(t)
      BY <1>0, <2>3, ThreadActs
    <3>2. ASSUME NEW p \in Pushes, h2[p] = "idle", act'[t].at = "accept", act'[t].s = p,
                 h2' = [h2 EXCEPT ![p] = "open"], act'[t].job = act[t].job, job' = job
          PROVE  JobsKept'
      BY <1>0, <2>0, <3>1, <3>2, StreamsAre, JobsOpened
    <3> QED
      BY <1>0, <2>1, <2>3, <3>1, <3>2, ThreadActs DEF conn
  <2>4. CASE FinishJob(t)
    <3>1. EndJob(t) /\ h2' = h2 /\ act[t].at = "run"
      BY <1>0, <2>4, ThreadActs DEF FinishJob, conn
    <3> QED
      BY <2>1, <3>1
  <2> QED
    BY <1>0, <1>2, <2>2, <2>3, <2>4, JobsGot DEF JobStep
<1>3. CASE HandleResponse \/ Poll \/ EnterShutdown \/ Client
  BY <1>0, <1>3, JobsMain
<1>4. ASSUME NEW s \in Streams, RunThunk(s) PROVE JobsKept'
  BY <1>0, <1>4, JobsThunk
<1>5. CASE UNCHANGED vars
  BY <1>0, <1>5 DEF JobsKept, vars, conn
<1> QED
  BY <1>1, <1>2, <1>3, <1>4, <1>5 DEF Next

-----------------------------------------------------------------------------
(* The frames of the responses.                                            *)

\* The frames of the response of a stream are the same after the step.
SameFrames(s) == /\ ResponseFrames(s)' = ResponseFrames(s)
                 /\ \A i \in ResponseFrames(s) : made'[i] = made[i]

LEMMA FramesFinite ==
    ASSUME TypeOK, NEW s
    PROVE  /\ ResponseFrames(s) \subseteq 1..Len(made) /\ Len(made) \in Nat
           /\ IsFiniteSet(ResponseFrames(s)) /\ Cardinality(ResponseFrames(s)) \in Nat
<1>1. DOMAIN made = 1..Len(made) /\ Len(made) \in Nat
  BY SeqAt DEF TypeOK
<1>2. ResponseFrames(s) \subseteq 1..Len(made)
  BY <1>1 DEF ResponseFrames
<1>3. IsFiniteSet(1..Len(made))
  BY <1>1, UpTo
<1>4. IsFiniteSet(ResponseFrames(s))
  BY <1>2, <1>3, FS_Subset
<1> QED
  BY <1>1, <1>2, <1>4, FS_CardinalityType

LEMMA AnotherFrame ==
    ASSUME TypeOK, NEW f \in Frames, made' = Append(made, f)
    PROVE  /\ DOMAIN made = 1..Len(made) /\ Len(made) \in Nat /\ DOMAIN made' = 1..Len(made) + 1
           /\ Len(made) + 1 \notin DOMAIN made
           /\ DOMAIN made' = DOMAIN made \cup {Len(made) + 1}
           /\ \A i \in DOMAIN made : made'[i] = made[i]
           /\ made'[Len(made) + 1] = f
<1>1. made \in Seq(Frames)
  BY DEF TypeOK
<1>2. DOMAIN made = 1..Len(made) /\ Len(made) \in Nat
  BY <1>1, SeqAt
<1>3. /\ made' \in Seq(Frames) /\ Len(made') = Len(made) + 1
      /\ \A i \in 1..Len(made) : made'[i] = made[i]
      /\ made'[Len(made) + 1] = f
  BY <1>1, AppendProperties
<1>4. DOMAIN made' = 1..Len(made')
  BY <1>3, SeqAt
<1> QED
  BY <1>2, <1>3, <1>4

\* A frame that is not of a response.
LEMMA OtherFrame ==
    ASSUME TypeOK, NEW f \in Frames, f.kind \notin {"headers", "data"}, made' = Append(made, f)
    PROVE  \A s : SameFrames(s)
<1> TAKE s
<1>1. \A i \in DOMAIN made' : made'[i].s = s /\ made'[i].kind \in {"headers", "data"} => i \in DOMAIN made
  BY AnotherFrame
<1>2. ResponseFrames(s)' = ResponseFrames(s)
  BY <1>1, AnotherFrame DEF ResponseFrames
<1>3. \A i \in ResponseFrames(s) : made'[i] = made[i]
  BY AnotherFrame DEF ResponseFrames
<1> QED
  BY <1>2, <1>3 DEF SameFrames

LEMMA NoFrame ==
    ASSUME made' = made
    PROVE  \A s : SameFrames(s)
  BY DEF SameFrames, ResponseFrames

\* A frame of a response.
LEMMA ResponseFrame ==
    ASSUME TypeOK, NEW f \in Frames, f.kind \in {"headers", "data"}, made' = Append(made, f)
    PROVE  /\ \A s : s # f.s => SameFrames(s)
           /\ ResponseFrames(f.s)' = ResponseFrames(f.s) \cup {Len(made) + 1}
           /\ Len(made) + 1 \notin ResponseFrames(f.s)
           /\ \A i \in ResponseFrames(f.s) : made'[i] = made[i] /\ i < Len(made) + 1 /\ i \in Int
           /\ made'[Len(made) + 1] = f
<1>1. ASSUME NEW s, s # f.s PROVE SameFrames(s)
  <2>1. ResponseFrames(s)' = ResponseFrames(s)
    BY <1>1, AnotherFrame DEF ResponseFrames
  <2>2. \A i \in ResponseFrames(s) : made'[i] = made[i]
    BY AnotherFrame DEF ResponseFrames
  <2> QED
    BY <2>1, <2>2 DEF SameFrames
<1>2. ResponseFrames(f.s)' = ResponseFrames(f.s) \cup {Len(made) + 1}
  BY AnotherFrame DEF ResponseFrames
<1>3. Len(made) + 1 \notin ResponseFrames(f.s)
  BY AnotherFrame DEF ResponseFrames
<1>4. \A i \in ResponseFrames(f.s) : made'[i] = made[i] /\ i < Len(made) + 1 /\ i \in Int
  BY AnotherFrame DEF ResponseFrames
<1> QED
  BY <1>1, <1>2, <1>3, <1>4, AnotherFrame

\* What a frame of a response has to be, among those of its stream.
Whole(s) == \A i \in ResponseFrames(s) :
                LET earlier == {j \in ResponseFrames(s) : j < i} IN
                /\ made[i].n = Cardinality(earlier)
                /\ made[i].kind = IF earlier = {} THEN "headers" ELSE "data"
                /\ \A j \in earlier : ~made[j].fin

LEMMA WholeSame ==
    ASSUME NEW s, SameFrames(s), Whole(s)
    PROVE  Whole(s)'
<1> SUFFICES ASSUME NEW i \in ResponseFrames(s)'
             PROVE  LET earlier == {j \in ResponseFrames(s)' : j < i} IN
                    /\ made'[i].n = Cardinality(earlier)
                    /\ made'[i].kind = IF earlier = {} THEN "headers" ELSE "data"
                    /\ \A j \in earlier : ~made'[j].fin
  BY DEF Whole
<1> DEFINE earlier == {j \in ResponseFrames(s) : j < i}
<1>1. i \in ResponseFrames(s) /\ made'[i] = made[i] /\ {j \in ResponseFrames(s)' : j < i} = earlier
  BY DEF SameFrames
<1>2. /\ made[i].n = Cardinality(earlier)
      /\ made[i].kind = IF earlier = {} THEN "headers" ELSE "data"
      /\ \A j \in earlier : ~made[j].fin
  BY <1>1 DEF Whole
<1>3. \A j \in earlier : made'[j] = made[j]
  BY DEF SameFrames
<1> QED
  BY <1>1, <1>2, <1>3

\* The next frame of a producer is the one that its response goes on with.
LEMMA WholeSent ==
    ASSUME TypeOK, NEW p \in Producers, Told(p), made' = Append(made, NextFrame(p)), Whole(p.s)
    PROVE  Whole(p.s)'
<1> DEFINE f == NextFrame(p)
           R == ResponseFrames(p.s)
           new == Len(made) + 1
<1>1. /\ f \in Frames /\ f.s = p.s /\ f.kind = (IF p.begun THEN "data" ELSE "headers")
      /\ f.n = (IF p.begun THEN p.sent + 1 ELSE 0) /\ p.sent \in Nat /\ p.begun \in BOOLEAN
  BY FramesAre
<1>2. /\ ResponseFrames(p.s)' = R \cup {new} /\ new \notin R
      /\ \A i \in R : made'[i] = made[i] /\ i < new /\ i \in Int
      /\ made'[new] = f
  BY <1>1, ResponseFrame
<1>3. new \in Int
  BY FramesFinite
<1>4. /\ p.begun => Cardinality(R) = p.sent + 1 /\ \A i \in R : ~made[i].fin
      /\ ~p.begun => R = {}
  BY DEF Told
<1>5. Cardinality({}) = 0
  BY FS_EmptySet
<1>6. f.n = Cardinality(R) /\ f.kind = (IF R = {} THEN "headers" ELSE "data") /\ \A j \in R : ~made[j].fin
  <2> HIDE DEF f, new, R
  <2>1. p.begun => R # {}
    <3> SUFFICES ASSUME p.begun, R = {} PROVE FALSE
      OBVIOUS
    <3>1. Cardinality(R) = p.sent + 1 /\ p.sent \in Nat
      BY <1>1, <1>4
    <3> QED
      BY <1>5, <3>1
  <2> QED
    BY <1>1, <1>4, <1>5, <2>1
<1> HIDE DEF f, new, R
<1>7. ASSUME NEW i \in R \cup {new}
      PROVE  LET earlier == {j \in R \cup {new} : j < i} IN
             /\ made'[i].n = Cardinality(earlier)
             /\ made'[i].kind = IF earlier = {} THEN "headers" ELSE "data"
             /\ \A j \in earlier : ~made'[j].fin
  <2>1. CASE i = new
    <3>0. ~(new < new) /\ \A j \in R : j < new
      BY <1>2, <1>3
    <3>1. {j \in R \cup {new} : j < i} = R
      BY <2>1, <3>0, Zenon
    <3> QED
      BY <1>2, <1>6, <2>1, <3>1
  <2>2. CASE i \in R
    <3> DEFINE earlier == {j \in R : j < i}
    <3>1. {j \in R \cup {new} : j < i} = earlier
      BY <1>2, <1>3, <2>2
    <3>2. /\ made[i].n = Cardinality(earlier)
          /\ made[i].kind = IF earlier = {} THEN "headers" ELSE "data"
          /\ \A j \in earlier : ~made[j].fin
      BY <2>2 DEF Whole, R
    <3>3. made'[i] = made[i] /\ \A j \in earlier : made'[j] = made[j]
      BY <1>2, <2>2
    <3> QED
      BY <3>1, <3>2, <3>3
  <2> QED
    BY <2>1, <2>2
<1> QED
  BY <1>2, <1>7 DEF Whole

LEMMA WholeIs == ResponsesWhole <=> \A s \in Streams : Whole(s)
  BY DEF ResponsesWhole, Whole

LEMMA WholeWas == ResponsesWhole' <=> \A s \in Streams : Whole(s)'
  BY DEF ResponsesWhole, Whole

\* What a producer counts stays true as long as it sends nothing.
LEMMA ToldSame ==
    ASSUME NEW p, NEW q, SameResponse(p, q), SameFrames(q.s), Told(q)
    PROVE  Told(p)'
  BY DEF Told, SameResponse, SameFrames

\* And when it sends a frame that is not its last.
LEMMA ToldSent ==
    ASSUME TypeOK, NEW p \in Producers, Told(p), made' = Append(made, NextFrame(p)), ~NextFrame(p).fin
    PROVE  Told(Produced(p))'
<1> DEFINE f == NextFrame(p)
           R == ResponseFrames(p.s)
           new == Len(made) + 1
           q == Produced(p)
<1>1. /\ f \in Frames /\ f.s = p.s /\ f.kind \in {"headers", "data"}
      /\ q.s = p.s /\ q.begun /\ q.sent = (IF p.begun THEN p.sent + 1 ELSE p.sent) /\ p.sent \in Nat
  BY FramesAre
<1>2. /\ ResponseFrames(p.s)' = R \cup {new} /\ new \notin R
      /\ \A i \in R : made'[i] = made[i]
      /\ made'[new] = f
  BY <1>1, ResponseFrame
<1>3. /\ p.begun => Cardinality(R) = p.sent + 1 /\ \A i \in R : ~made[i].fin
      /\ ~p.begun => R = {} /\ p.sent = 0
  BY DEF Told
<1>4. IsFiniteSet(R) /\ Cardinality({}) = 0 /\ ~f.fin
  BY FramesFinite, FS_EmptySet
<1> HIDE DEF f, R, new, q
<1>5. Cardinality(R \cup {new}) = Cardinality(R) + 1
  BY <1>2, <1>4, FS_AddElement
<1>6. Cardinality(R \cup {new}) = q.sent + 1
  BY <1>1, <1>3, <1>4, <1>5
<1>7. \A i \in R \cup {new} : ~made'[i].fin
  BY <1>2, <1>3, <1>4
<1> QED
  BY <1>1, <1>2, <1>6, <1>7 DEF Told, q

-----------------------------------------------------------------------------
(* The responses.                                                          *)

LEMMA ProducersAre ==
    ASSUME TypeOK
    PROVE  /\ producers \in Seq(Producers)
           /\ \A i \in DOMAIN producers : producers[i] \in Producers /\ producers[i].s \in Streams
           /\ producers # <<>> => 1 \in DOMAIN producers
<1>1. producers \in Seq(Producers)
  BY DEF TypeOK
<1>2. \A i \in DOMAIN producers : producers[i] \in Producers
  BY <1>1, SeqAt
<1> QED
  BY <1>1, <1>2, SeqAt DEF Producers

LEMMA ResponsesKept ==
    ASSUME TypeOK, Responses, \A s : SameFrames(s),
           producers' \in Seq(Producers), Distinct(producers'), PartOf(producers', producers),
           \A s \in Streams : job[s] = "over" => job'[s] = "over",
           act'[Main].at = "respond" => act'[Main] = act[Main],
           act[Main].at = "respond" => act[Main].s \in Streams
    PROVE  Responses'
<1>1. \A i \in DOMAIN producers : producers[i] \in Producers /\ producers[i].s \in Streams
  BY ProducersAre
<1>2. \A i, j \in DOMAIN producers' : producers'[i].s = producers'[j].s => i = j
  BY DEF Distinct
<1>3. ASSUME NEW p \in Producers, NEW i \in DOMAIN producers', producers'[i] = p
      PROVE  job'[p.s] = "over" /\ Told(p)'
  <2>1. PICK j \in DOMAIN producers : SameResponse(p, producers[j])
    BY <1>3 DEF PartOf
  <2>2. PICK q \in Producers : q = producers[j]
    BY <1>1
  <2>3. job[q.s] = "over" /\ Told(q) /\ q.s \in Streams /\ SameResponse(p, q)
    BY <1>1, <2>1, <2>2 DEF Responses
  <2>4. Told(p)'
    BY <2>3, ToldSame
  <2> QED
    BY <2>3, <2>4 DEF SameResponse
<1>4. \A s \in Streams : ResponseFrames(s)' # {} => job'[s] = "over"
  BY DEF Responses, SameFrames
<1>5. ASSUME NEW s \in Streams, act'[Main].at = "respond", act'[Main].s = s
      PROVE  /\ ResponseFrames(s)' = {}
             /\ \A i \in DOMAIN producers' : producers'[i].s # s
  <2>1. ResponseFrames(s) = {} /\ \A i \in DOMAIN producers : producers[i].s # s
    BY <1>5 DEF Responses
  <2> QED
    BY <2>1 DEF SameFrames, PartOf, SameResponse
<1> QED
  BY <1>2, <1>3, <1>4, <1>5 DEF Responses

\* The first producer sends its next frame.
LEMMA ResponsesSent ==
    ASSUME TypeOK, Responses, NEW a, producers # <<>>, Sent(a, producers[1]), job' = job,
           producers' \in Seq(Producers), Distinct(producers'),
           act'[Main].at = "respond" => act'[Main] = act[Main]
    PROVE  Responses'
<1>0. producers \in Seq(Producers) /\ 1 \in DOMAIN producers /\ producers[1] \in Producers
  BY ProducersAre
<1> PICK p \in Producers : p = producers[1]
  BY <1>0
<1> DEFINE f == NextFrame(p)
<1>1. /\ producers \in Seq(Producers) /\ p = producers[1] /\ 1 \in DOMAIN producers /\ Distinct(producers)
      /\ p \in Producers
  BY <1>0 DEF Responses, Distinct
<1>2. p.s \in Streams /\ job[p.s] = "over" /\ Told(p)
  BY <1>1, FramesAre DEF Responses
<1>3. /\ f \in Frames /\ f.s = p.s /\ f.kind \in {"headers", "data"} /\ made' = Append(made, f)
  BY <1>1, FramesAre DEF Sent
<1>4. \A s : s # p.s => SameFrames(s)
  BY <1>3, ResponseFrame
<1>5. \A i, j \in DOMAIN producers' : producers'[i].s = producers'[j].s => i = j
  BY DEF Distinct
<1>6. producers' = IF f.fin THEN Tail(producers) ELSE [producers EXCEPT ![1] = Produced(p)]
  BY DEF Sent
<1> HIDE DEF f
<1>7. ASSUME NEW i \in DOMAIN producers'
      PROVE  \/ ~f.fin /\ producers'[i] = Produced(p)
             \/ \E j \in DOMAIN producers : producers'[i] = producers[j] /\ producers[j].s # p.s
  <2>1. CASE f.fin
    <3>1. producers' = Tail(producers)
      BY <1>6, <2>1
    <3>2. i \in 1..Len(producers) - 1 /\ Tail(producers)[i] = producers[i + 1] /\ Len(producers) \in Nat
          /\ DOMAIN producers = 1..Len(producers)
      <4>1. DOMAIN Tail(producers) = 1..Len(Tail(producers)) /\ Len(Tail(producers)) = Len(producers) - 1
        BY <1>1, HeadTailProperties, SeqAt
      <4> QED
        BY <1>1, <3>1, <4>1, HeadTailProperties, SeqAt
    <3>3. i + 1 \in DOMAIN producers /\ i + 1 # 1
      BY <3>2
    <3>4. producers[i + 1].s # producers[1].s
      BY <1>1, <3>3 DEF Distinct
    <3> QED
      BY <3>1, <3>2, <3>3, <3>4, <1>1
  <2>2. CASE ~f.fin
    <3>1. producers' = [producers EXCEPT ![1] = Produced(p)]
      BY <1>6, <2>2
    <3>2. i \in DOMAIN producers
      BY <3>1
    <3>3. CASE i = 1
      BY <1>1, <2>2, <3>1, <3>3
    <3>4. CASE i # 1
      <4>1. producers'[i] = producers[i]
        BY <3>1, <3>2, <3>4
      <4>2. producers[i].s # producers[1].s
        BY <1>1, <3>2, <3>4 DEF Distinct
      <4> QED
        BY <3>2, <4>1, <4>2, <1>1
    <3> QED
      BY <3>3, <3>4
  <2> QED
    BY <2>1, <2>2
<1>8. ASSUME NEW r \in Producers, NEW i \in DOMAIN producers', producers'[i] = r
      PROVE  job'[r.s] = "over" /\ Told(r)'
  <2>1. CASE ~f.fin /\ r = Produced(p)
    <3>1. Told(Produced(p))'
      BY <1>1, <1>2, <1>3, <2>1, ToldSent DEF f
    <3>2. Produced(p).s = p.s
      BY <1>1, FramesAre
    <3>3. Told(r)'
      BY <2>1, <3>1 DEF Told
    <3> QED
      BY <1>2, <2>1, <3>2, <3>3
  <2>2. ASSUME NEW j \in DOMAIN producers, r = producers[j], producers[j].s # p.s
        PROVE  job'[r.s] = "over" /\ Told(r)'
    <3>1. job[r.s] = "over" /\ Told(r) /\ SameFrames(r.s)
      BY <1>4, <2>2 DEF Responses
    <3>2. Told(r)'
      BY <3>1, ToldSame DEF SameResponse
    <3> QED
      BY <3>1, <3>2
  <2> QED
    BY <1>7, <1>8, <2>1, <2>2
<1>9. \A s \in Streams : ResponseFrames(s)' # {} => job'[s] = "over"
  BY <1>2, <1>4 DEF Responses, SameFrames
<1>10. ASSUME NEW s \in Streams, act'[Main].at = "respond", act'[Main].s = s
       PROVE  /\ ResponseFrames(s)' = {}
              /\ \A i \in DOMAIN producers' : producers'[i].s # s
  <2>1. ResponseFrames(s) = {} /\ \A i \in DOMAIN producers : producers[i].s # s
    BY <1>10 DEF Responses
  <2>2. s # p.s /\ Produced(p).s = p.s
    BY <1>1, <2>1, FramesAre
  <2>3. \A i \in DOMAIN producers' : producers'[i].s # s
    BY <1>7, <2>1, <2>2
  <2>4. ResponseFrames(s)' = {}
    BY <1>4, <2>1, <2>2 DEF SameFrames
  <2> QED
    BY <2>3, <2>4
<1> QED
  BY <1>5, <1>8, <1>9, <1>10 DEF Responses

\* No job that is over is anything else again.
LEMMA OverKept ==
    ASSUME TypeOK, Locks, Places, JobsKept, Distinct(producers), NEW a \in Actors, Step(a)
    PROVE  \A s \in Streams : job[s] = "over" => job'[s] = "over"
<1>1. /\ \/ job' = job \/ Raise(a)
         \/ act[a].at = "enter" /\ job' = [job EXCEPT ![act[a].s] = "queued"]
      /\ act[a].at \in FlushPath \cup Opening \cup {"remove", "abort", "close", "terminate"}
  BY StepActs
<1>2. CASE Raise(a) /\ a = Main
  BY <1>2, Raises
<1>3. CASE Raise(a) /\ a # Main
  <2>1. job' = [job EXCEPT ![act[a].job] = "thunk"]
    BY <1>3, Raises, EndsJob
  <2>2. a \in Threads /\ act[a].at # "idle"
    BY <1>1, <1>3 DEF Actors, FlushPath, Opening
  <2>3. job[act[a].job] = "running"
    BY <2>2 DEF JobsKept
  <2> QED
    BY <2>1, <2>3 DEF TypeOK
<1>4. CASE act[a].at = "enter" /\ job' = [job EXCEPT ![act[a].s] = "queued"]
  <2>1. job[act[a].s] = "none"
    BY <1>4 DEF JobsKept, Opening
  <2> QED
    BY <1>4, <2>1 DEF TypeOK
<1> QED
  BY <1>1, <1>2, <1>3, <1>4

\* The steps of flush and of the handlers do not go on to a response.
LEMMA NotToRespond ==
    ASSUME TypeOK, Locks, Places, Distinct(producers), NEW a \in Actors, Step(a)
    PROVE  act'[Main].at = "respond" => act'[Main] = act[Main]
<1>1. /\ Alone(a)
      /\ \/ SameTask(a) /\ act'[a].at \in FlushPath
         \/ SameTask(a) /\ act[a].at = "accept" /\ act'[a].at = "enter"
         \/ /\ act'[a].at = "flush" /\ act'[a].job = act[a].job
            /\ act'[a].then = <<"flag">> \o act[a].then
         \/ Return(a) \/ Raise(a)
         \/ a = Main /\ act'[a].at \in {"abort", "terminate"}
  BY StepActs
<1>2. act'[a].at # "respond"
  BY <1>1, Returns, RaisesTo DEF FlushPath
<1> QED
  BY <1>1, <1>2, ActorsAre DEF Alone

LEMMA ResponsesOfStep ==
    ASSUME TypeOK, TypeOK', Locks, Places, JobsKept, Responses, ResponsesWhole, NEW a \in Actors, Step(a)
    PROVE  Responses' /\ ResponsesWhole'
<1>0. Distinct(producers) /\ producers' \in Seq(Producers)
  BY DEF Responses, Distinct, TypeOK
<1>1. /\ Distinct(producers')
      /\ \/ /\ PartOf(producers', producers) /\ h2' = h2
            /\ made' = made \/ (SendGoaway(a) /\ made' = Append(made, Goaway))
         \/ producers # <<>> /\ producers[1] \in Producers /\ Sent(a, producers[1]) /\ UNCHANGED job
  BY <1>0, StepFrames
<1>2. /\ \A s \in Streams : job[s] = "over" => job'[s] = "over"
      /\ act'[Main].at = "respond" => act'[Main] = act[Main]
      /\ act[Main].at = "respond" => act[Main].s \in Streams
  BY <1>0, OverKept, NotToRespond, InHand
<1>3. CASE PartOf(producers', producers) /\ (made' = made \/ made' = Append(made, Goaway))
  <2>1. Goaway \in Frames /\ Goaway.kind \notin {"headers", "data"}
    BY DEF Goaway, Frames
  <2>2. \A s : SameFrames(s)
    BY <1>3, <2>1, NoFrame, OtherFrame
  <2>3. Responses'
    BY <1>0, <1>1, <1>2, <1>3, <2>2, ResponsesKept
  <2>4. ResponsesWhole'
    BY <2>2, WholeSame, WholeIs, WholeWas
  <2> QED
    BY <2>3, <2>4
<1>4. CASE producers # <<>> /\ Sent(a, producers[1]) /\ UNCHANGED job
  <2>1. Responses'
    BY <1>0, <1>1, <1>2, <1>4, ResponsesSent
  <2>2. PICK p \in Producers : p = producers[1]
    BY <1>4, ProducersAre
  <2>3. Told(p) /\ made' = Append(made, NextFrame(p)) /\ p.s \in Streams
    BY <1>4, <2>2, ProducersAre DEF Responses, Sent
  <2>4. Whole(p.s)'
    BY <2>3, WholeSent, WholeIs
  <2>5. \A s : s # p.s => SameFrames(s)
    BY <2>3, FramesAre, ResponseFrame
  <2>6. ASSUME NEW s \in Streams PROVE Whole(s)'
    <3>1. CASE s = p.s
      BY <2>4, <3>1 DEF Whole
    <3>2. CASE s # p.s
      BY <2>5, <3>2, WholeSame, WholeIs
    <3> QED
      BY <3>1, <3>2
  <2> QED
    BY <2>1, <2>6, WholeWas
<1> QED
  BY <1>1, <1>3, <1>4

\* A response is handled: its producer among the others.
LEMMA ResponsesHandled ==
    ASSUME TypeOK, TypeOK', Places, JobsKept, Responses, ResponsesWhole, HandleResponse
    PROVE  Responses' /\ ResponsesWhole'
<1>0. Distinct(producers) /\ producers' \in Seq(Producers) /\ producers \in Seq(Producers)
  BY DEF Responses, Distinct, TypeOK
<1>1. made' = made /\ job' = job
  BY DEF HandleResponse, conn
<1>2. \A s : SameFrames(s)
  BY <1>1, NoFrame
<1>3. ResponsesWhole'
  BY <1>2, WholeSame, WholeIs, WholeWas
<1>4. act[Main].at = "respond" /\ act'[Main].at # "respond" /\ act[Main].s \in Streams
  BY HandleResponseActs, Returns, InHand, ActorsAre
<1>5. CASE producers' = producers
  <2>1. Distinct(producers') /\ PartOf(producers', producers)
    BY <1>0, <1>5, PartOfItself
  <2>2. Responses'
    BY <1>0, <1>1, <1>2, <1>4, <2>1, ResponsesKept
  <2> QED
    BY <1>3, <2>2
<1>6. ASSUME NEW k \in Sizes, producers' = Sorted(Append(producers, NewProducer(act[Main].s, k)))
      PROVE  Responses'
  <2>1. PICK s \in Streams : s = act[Main].s
    BY <1>4
  <2>2. job[s] = "over" /\ ResponseFrames(s) = {} /\ \A i \in DOMAIN producers : producers[i].s # s
    BY <1>4, <2>1 DEF JobsKept, Responses
  <2>3. /\ Distinct(producers')
        /\ \A i \in DOMAIN producers' : producers'[i].s = s => ~producers'[i].begun /\ producers'[i].sent = 0
        /\ \A i \in DOMAIN producers' : producers'[i].s # s =>
             \E j \in DOMAIN producers : SameResponse(producers'[i], producers[j])
    BY <1>0, <1>6, <2>1, <2>2, AddedIsPart
  <2>4. \A i, j \in DOMAIN producers' : producers'[i].s = producers'[j].s => i = j
    BY <2>3 DEF Distinct
  <2>5. ASSUME NEW p \in Producers, NEW i \in DOMAIN producers', producers'[i] = p
        PROVE  job'[p.s] = "over" /\ Told(p)'
    <3>1. CASE p.s = s
      <4>1. ResponseFrames(s)' = {}
        BY <1>2, <2>2 DEF SameFrames
      <4> QED
        BY <1>1, <2>2, <2>3, <2>5, <3>1, <4>1 DEF Told
    <3>2. CASE p.s # s
      <4>1. PICK j \in DOMAIN producers : SameResponse(p, producers[j])
        BY <2>3, <2>5, <3>2
      <4>2. PICK q \in Producers : q = producers[j]
        BY ProducersAre
      <4>3. job[q.s] = "over" /\ Told(q) /\ SameResponse(p, q)
        BY <4>1, <4>2 DEF Responses
      <4>4. Told(p)'
        BY <1>2, <4>3, ToldSame
      <4> QED
        BY <1>1, <4>3, <4>4 DEF SameResponse
    <3> QED
      BY <3>1, <3>2
  <2>6. \A r \in Streams : ResponseFrames(r)' # {} => job'[r] = "over"
    BY <1>1, <1>2 DEF Responses, SameFrames
  <2> QED
    BY <1>4, <2>4, <2>5, <2>6 DEF Responses
<1> QED
  BY <1>3, <1>5, <1>6, HandleResponseActs

\* The steps that make no frame of a response and handle none.
LEMMA ResponsesQuiet ==
    ASSUME TypeOK, Places, Responses, ResponsesWhole, \A s : SameFrames(s), producers' = producers,
           \A s \in Streams : job[s] = "over" => job'[s] = "over",
           act'[Main].at = "respond" => act'[Main] = act[Main]
    PROVE  Responses' /\ ResponsesWhole'
<1>1. producers' \in Seq(Producers) /\ Distinct(producers') /\ PartOf(producers', producers)
  BY PartOfItself, ProducersAre DEF Responses, Distinct
<1>2. Responses'
  BY <1>1, InHand, ResponsesKept
<1> QED
  BY <1>2, WholeSame, WholeIs, WholeWas

LEMMA ResponsesThunk ==
    ASSUME TypeOK, Places, Responses, ResponsesWhole, NEW s \in Streams, RunThunk(s)
    PROVE  Responses' /\ ResponsesWhole'
<1>1. /\ job[s] = "thunk" /\ job' = [job EXCEPT ![s] = "over"] /\ producers' = producers /\ made' = made
      /\ act[Main].at = "idle"
  BY DEF RunThunk, conn, At
<1>2. \A r : SameFrames(r)
  BY <1>1, NoFrame
<1>3. ResponsesWhole'
  BY <1>2, WholeSame, WholeIs, WholeWas
<1>4. \A r \in Streams : job[r] = "over" => job'[r] = "over"
  BY <1>1 DEF TypeOK
<1>5. act'[Main].at = "respond" => act'[Main].s = s
  BY <1>1, MainActs
<1>6. \A i, j \in DOMAIN producers' : producers'[i].s = producers'[j].s => i = j
  BY <1>1 DEF Responses
<1>7. ASSUME NEW p \in Producers, NEW i \in DOMAIN producers', producers'[i] = p
      PROVE  job'[p.s] = "over" /\ Told(p)'
  <2>1. job[p.s] = "over" /\ Told(p)
    BY <1>1, <1>7 DEF Responses
  <2>2. Told(p)'
    BY <1>2, <2>1, ToldSame DEF SameResponse
  <2> QED
    BY <1>1, <1>4, <1>7, <2>1, <2>2, ProducersAre
<1>8. \A r \in Streams : ResponseFrames(r)' # {} => job'[r] = "over"
  BY <1>2, <1>4 DEF Responses, SameFrames
<1>9. ResponseFrames(s) = {} /\ \A i \in DOMAIN producers : producers[i].s # s
  BY <1>1, ProducersAre DEF Responses
<1>10. ASSUME NEW r \in Streams, act'[Main].at = "respond", act'[Main].s = r
       PROVE  ResponseFrames(r)' = {} /\ \A i \in DOMAIN producers' : producers'[i].s # r
  BY <1>1, <1>2, <1>5, <1>9, <1>10 DEF SameFrames
<1> QED
  BY <1>3, <1>6, <1>7, <1>8, <1>10 DEF Responses

LEMMA ResponsesThread ==
    ASSUME TypeOK, Places, JobsKept, Responses, ResponsesWhole, NEW t \in Threads, JobStep(t)
    PROVE  Responses' /\ ResponsesWhole'
<1>0. t \in Actors /\ t # Main /\ Main \in Actors
  BY ActorsAre
<1>1. ASSUME Alone(t) PROVE act'[Main].at = "respond" => act'[Main] = act[Main]
  BY <1>0, <1>1 DEF Alone
<1>2. ASSUME EndJob(t), act[t].at # "idle", made' = made, producers' = producers
      PROVE  Responses' /\ ResponsesWhole'
  <2>1. Alone(t) /\ job' = [job EXCEPT ![act[t].job] = "thunk"] /\ job[act[t].job] = "running"
    BY <1>0, <1>2, EndsJob DEF JobsKept
  <2>2. \A s \in Streams : job[s] = "over" => job'[s] = "over"
    BY <2>1 DEF TypeOK
  <2> QED
    BY <1>1, <1>2, <2>1, <2>2, NoFrame, ResponsesQuiet
<1>3. ASSUME NEW s \in Streams, GetJob(t, s) PROVE Responses' /\ ResponsesWhole'
  <2>1. job[s] = "queued" /\ job' = [job EXCEPT ![s] = "running"] /\ made' = made /\ producers' = producers
    BY <1>3 DEF GetJob, conn
  <2>2. \A r \in Streams : job[r] = "over" => job'[r] = "over"
    BY <2>1 DEF TypeOK
  <2> QED
    BY <1>1, <1>3, <2>1, <2>2, GetJobActs, NoFrame, ResponsesQuiet
<1>4. CASE CallPush(t)
  <2>1. act[t].at = "run" /\ Alone(t) /\ made' = made /\ producers' = producers /\ (EndJob(t) \/ job' = job)
    BY <1>4, ThreadActs DEF CallPush, conn
  <2>2. CASE job' = job
    BY <1>1, <2>1, <2>2, NoFrame, ResponsesQuiet
  <2> QED
    BY <1>2, <2>1, <2>2
<1>5. CASE Promise(t)
  <2>1. act[t].at = "promise" /\ Alone(t) /\ producers' = producers
    BY <1>5, ThreadActs DEF Promise
  <2>2. ASSUME NEW p \in Pushes, made' = Append(made, PushPromise(act[t].job, p)), job' = job
        PROVE  Responses' /\ ResponsesWhole'
    <3>1. PushPromise(act[t].job, p) \in Frames /\ PushPromise(act[t].job, p).kind \notin {"headers", "data"}
      BY <1>0, HandlersAre, StreamsAre DEF PushPromise, Frames
    <3>2. \A s : SameFrames(s)
      BY <2>2, <3>1, OtherFrame
    <3> QED
      BY <1>1, <2>1, <2>2, <3>2, ResponsesQuiet
  <2>3. CASE EndJob(t) /\ UNCHANGED conn
    BY <1>2, <2>1, <2>3 DEF conn
  <2> QED
    BY <1>5, <2>2, <2>3, ThreadActs
<1>6. CASE FinishJob(t)
  <2>1. act[t].at = "run" /\ EndJob(t) /\ made' = made /\ producers' = producers
    BY <1>6, ThreadActs DEF FinishJob, conn
  <2> QED
    BY <1>2, <2>1
<1> QED
  BY <1>3, <1>4, <1>5, <1>6 DEF JobStep

LEMMA ResponsesStep ==
    ASSUME IInv, [Next]_vars
    PROVE  Responses' /\ ResponsesWhole'
<1>0. TypeOK /\ TypeOK' /\ Locks /\ Places /\ JobsKept /\ Responses /\ ResponsesWhole
  BY TypeStep DEF IInv
<1>1. ASSUME NEW a \in Actors, Step(a) PROVE Responses' /\ ResponsesWhole'
  BY <1>0, <1>1, ResponsesOfStep
<1>2. ASSUME NEW t \in Threads, JobStep(t) PROVE Responses' /\ ResponsesWhole'
  BY <1>0, <1>2, ResponsesThread
<1>3. ASSUME NEW s \in Streams, RunThunk(s) PROVE Responses' /\ ResponsesWhole'
  BY <1>0, <1>3, ResponsesThunk
<1>4. CASE HandleResponse
  BY <1>0, <1>4, ResponsesHandled
<1>5. CASE Poll \/ EnterShutdown \/ Client
  <2>1. made' = made /\ producers' = producers /\ job' = job
    BY <1>5 DEF Poll, EnterShutdown, Client, OpenStream, ResetByClient, UpdateWindow, StrayData, Leave,
                BreakProtocol, LoseChannel, mainRest
  <2>2. act'[Main].at # "respond"
    BY <1>0, <1>5, MainActs DEF Client
  <2> QED
    BY <1>0, <2>1, <2>2, NoFrame, ResponsesQuiet
<1>6. CASE UNCHANGED vars
  <2>1. made' = made /\ producers' = producers /\ job' = job /\ act' = act
    BY <1>6 DEF vars, conn
  <2> QED
    BY <1>0, <2>1, NoFrame, ResponsesQuiet
<1> QED
  BY <1>1, <1>2, <1>3, <1>4, <1>5, <1>6 DEF Next

-----------------------------------------------------------------------------
(* The decision to say goaway, and who tells the poll.                     *)

\* What a step does to the handler's other fields.
LEMMA StepFields ==
    ASSUME TypeOK, Places, NEW a \in Actors, Step(a)
    PROVE  /\ Flag(a) \/ sendable' = sendable
           /\ raised' = raised \/ raised' = TRUE
           /\ a = Main \/ UNCHANGED <<pending, closed>>
           /\ pending \/ closed => pending' \/ closed'
           /\ requests' \subseteq requests \/ Enter(a)
<1>0. act[a].at \in {"close", "terminate"} => a = Main
  BY DEF Places, Actors, Opening, FlushPath
<1>1. Raise(a) => raised' = TRUE
  BY DEF Raise
<1>2. CASE LookAtWindow(a) \/ Send(a)
  <2>1. UNCHANGED <<requests, sendable, close>>
    BY <1>2 DEF LookAtWindow, Send
  <2>2. raised' = raised \/ raised' = TRUE
    <3>1. \/ Raise(a) \/ UNCHANGED chan
      BY <1>2, <1>1 DEF LookAtWindow, Send, NotProduced
    <3> QED
      BY <1>1, <3>1 DEF chan
  <2> QED
    BY <2>1, <2>2 DEF close
<1>3. CASE Flush(a) \/ Drop(a) \/ Take(a) \/ Exhausted(a) \/ SendGoaway(a) \/ Shutdowned(a) \/ Flag(a)
  BY <1>3 DEF Flush, Drop, Take, Exhausted, SendGoaway, Shutdowned, Flag, close, chan
<1>4. CASE Push(a)
  BY <1>1, <1>4 DEF Push, close, chan
<1>5. CASE Accept(a) \/ RemoveRequest(a) \/ RemoveResponse(a)
  BY <1>5 DEF Accept, RemoveRequest, RemoveResponse, close, chan
<1>6. CASE Enter(a)
  BY <1>1, <1>6 DEF Enter, close, chan
<1>7. CASE Close(a)
  BY <1>0, <1>7 DEF Close, chan, At
<1>8. CASE Terminate(a)
  BY <1>0, <1>8 DEF Terminate, chan, At
<1> QED
  BY <1>2, <1>3, <1>4, <1>5, <1>6, <1>7, <1>8 DEF Step, FlushStep, HandlerStep

\* No producer of a stream that had none.
NoNewStream == \A i \in DOMAIN producers' : \E j \in DOMAIN producers : producers'[i].s = producers[j].s

LEMMA SentStreams ==
    ASSUME TypeOK, NEW a, producers # <<>>, producers[1] \in Producers, Sent(a, producers[1])
    PROVE  NoNewStream
<1>1. producers \in Seq(Producers) /\ 1 \in DOMAIN producers
  BY ProducersAre
<1>2. producers' = Tail(producers) \/ producers' = [producers EXCEPT ![1] = Produced(producers[1])]
  BY DEF Sent
<1>3. CASE producers' = Tail(producers)
  <2>1. /\ Len(Tail(producers)) = Len(producers) - 1 /\ Tail(producers) \in Seq(Producers)
        /\ \A i \in 1..Len(producers) - 1 : Tail(producers)[i] = producers[i + 1]
        /\ DOMAIN producers = 1..Len(producers) /\ Len(producers) \in Nat
    BY <1>1, HeadTailProperties, SeqAt
  <2>2. DOMAIN producers' = 1..Len(producers) - 1
    BY <1>3, <2>1, SeqAt
  <2>3. \A i \in DOMAIN producers' : i + 1 \in DOMAIN producers /\ producers'[i] = producers[i + 1]
    BY <1>3, <2>1, <2>2
  <2> QED
    BY <2>3 DEF NoNewStream
<1>4. CASE producers' = [producers EXCEPT ![1] = Produced(producers[1])]
  <2>1. Produced(producers[1]).s = producers[1].s
    BY FramesAre
  <2>2. \A i \in DOMAIN producers' : i \in DOMAIN producers /\ producers'[i].s = producers[i].s
    BY <1>1, <1>4, <2>1
  <2> QED
    BY <2>2 DEF NoNewStream
<1> QED
  BY <1>2, <1>3, <1>4

\* What the client is owed does not grow.
LEMMA OwesNoMore ==
    ASSUME NoNewStream, requests' \cap Clients \subseteq requests, ~OwesClients
    PROVE  ~OwesClients'
<1>1. requests' \cap Clients = {}
  BY DEF OwesClients
<1>2. \A i \in DOMAIN producers' : producers'[i].s \notin Clients
  BY DEF OwesClients, NoNewStream
<1> QED
  BY <1>1, <1>2 DEF OwesClients

\* What keeps Decided, of the step of one thread.
LEMMA DecidedKept ==
    ASSUME Decided, NEW a \in Actors, Alone(a),
           pending \/ closed => pending' \/ closed',
           a = Main \/ UNCHANGED <<pending, closed>>,
           a = Main /\ act'[a].at = "enter" => ~pending' /\ ~closed',
           act'[a].at = "goaway" => (pending' \/ closed') /\ ~OwesClients',
           \A b \in Actors : b # a /\ act[b].at = "goaway" => ~OwesClients'
    PROVE  Decided'
<1>0. Main \in Actors
  BY ActorsAre
<1>1. act'[Main].at = "enter" => ~pending' /\ ~closed'
  BY <1>0 DEF Decided, Alone
<1>2. ASSUME NEW b \in Actors, act'[b].at = "goaway"
      PROVE  (pending' \/ closed') /\ ~OwesClients'
  <2>1. CASE b = a
    BY <1>2, <2>1
  <2>2. CASE b # a
    BY <1>2, <2>2 DEF Decided, Alone
  <2> QED
    BY <2>1, <2>2
<1> QED
  BY <1>1, <1>2 DEF Decided

\* A step that goes to neither place, and owes the client no more.
LEMMA DecidedQuiet ==
    ASSUME Decided, NEW a \in Actors, Alone(a),
           pending \/ closed => pending' \/ closed',
           a = Main \/ UNCHANGED <<pending, closed>>,
           a = Main => act'[a].at # "enter",
           act'[a].at # "goaway",
           NoNewStream, requests' \cap Clients \subseteq requests
    PROVE  Decided'
<1>1. \A b \in Actors : act[b].at = "goaway" => ~OwesClients'
  BY OwesNoMore DEF Decided
<1> QED
  BY <1>1, DecidedKept

LEMMA DecidedOfStep ==
    ASSUME TypeOK, Locks, Places, Decided, Distinct(producers), NEW a \in Actors, Step(a)
    PROVE  Decided'
<1>1. /\ Alone(a)
      /\ \/ SameTask(a) /\ act'[a].at \in FlushPath
         \/ SameTask(a) /\ act[a].at = "accept" /\ act'[a].at = "enter"
         \/ act'[a].at = "flush" \/ Return(a) \/ Raise(a)
         \/ act'[a].at \in {"abort", "terminate"}
  BY StepActs
<1>2. /\ a = Main \/ UNCHANGED <<pending, closed>>
      /\ pending \/ closed => pending' \/ closed'
      /\ requests' \subseteq requests \/ Enter(a)
  BY StepFields
<1>3. NoNewStream
  <2>1. PartOf(producers', producers) => NoNewStream
    BY DEF PartOf, SameResponse, NoNewStream
  <2> QED
    BY <2>1, StepFrames, SentStreams
<1>4. CASE Accept(a)
  <2>1. /\ act'[a].at = "enter" => ~pending /\ ~closed
        /\ UNCHANGED <<pending, closed, requests>>
    BY <1>4, Goes, AllStates DEF Accept, Acceptable, close, StatesAre
  <2>2. act'[a].at # "goaway"
    BY <1>4, GoingActs
  <2>3. \A b \in Actors : act[b].at = "goaway" => ~OwesClients'
    BY <1>3, <2>1, OwesNoMore DEF Decided
  <2> QED
    BY <1>1, <2>1, <2>2, <2>3, DecidedKept
<1>5. CASE Enter(a)
  <2>1. act[a].at = "enter" /\ act'[a].at \in {"flush", "idle", "close"}
    BY <1>5, LeavingActs, RaisesTo
  <2>2. requests' \subseteq requests \cup {act[a].s}
    BY <1>5 DEF Enter
  <2>3. CASE a = Main
    <3>1. ~pending /\ ~closed
      BY <2>1, <2>3 DEF Decided
    <3>2. \A b \in Actors : act[b].at # "goaway"
      BY <3>1 DEF Decided
    <3> QED
      BY <1>1, <1>2, <2>1, <3>2, DecidedKept
  <2>4. CASE a # Main
    <3>1. act[a].s \in Pushes
      BY <2>1, <2>4 DEF Places, Actors, Opening
    <3>2. requests' \cap Clients \subseteq requests
      BY <2>2, <3>1, StreamsAre
    <3> QED
      BY <1>1, <1>2, <1>3, <2>1, <3>2, DecidedQuiet
  <2> QED
    BY <2>3, <2>4
<1>6. CASE Exhausted(a)
  <2>1. /\ act'[a].at = "goaway" => pending /\ producers = <<>> /\ requests = {}
        /\ UNCHANGED <<pending, closed, requests, producers>>
    BY <1>6, Goes, AllStates DEF Exhausted, close, StatesAre
  <2>2. act'[a].at = "goaway" => ~OwesClients'
    BY <2>1 DEF OwesClients
  <2>3. act'[a].at # "enter"
    BY <1>6, GoingActs
  <2>4. \A b \in Actors : act[b].at = "goaway" => ~OwesClients'
    BY <1>3, <2>1, OwesNoMore DEF Decided
  <2> QED
    BY <1>1, <2>1, <2>2, <2>3, <2>4, DecidedKept
<1>7. CASE ~Accept(a) /\ ~Enter(a) /\ ~Exhausted(a)
  <2>1. act'[a].at \notin {"goaway", "enter"}
    <3>1. CASE Return(a) \/ Raise(a)
      BY <3>1, Returns, RaisesTo
    <3>2. CASE Flush(a) \/ LookAtWindow(a) \/ Send(a)
      BY <3>2, FlushActs, LookActs, SendActs, RaisesTo
    <3>3. CASE Drop(a) \/ Take(a) \/ SendGoaway(a) \/ Shutdowned(a)
      BY <3>3, DropActs, TakeActs, GoingActs, ShutdownedActs
    <3>4. CASE Flag(a) \/ Push(a) \/ Close(a) \/ Terminate(a)
      BY <3>1, <3>4, LeavingActs
    <3>5. CASE RemoveRequest(a) \/ RemoveResponse(a)
      BY <3>5, GoingActs
    <3> QED
      BY <1>7, <3>2, <3>3, <3>4, <3>5 DEF Step, FlushStep, HandlerStep
  <2>2. requests' \cap Clients \subseteq requests
    BY <1>2, <1>7
  <2> QED
    BY <1>1, <1>2, <1>3, <2>1, <2>2, DecidedQuiet
<1> QED
  BY <1>4, <1>5, <1>6, <1>7

LEMMA DecidedMain ==
    ASSUME TypeOK, Places, Responses, Decided,
           HandleResponse \/ Poll \/ EnterShutdown \/ Client \/ (\E s \in Streams : RunThunk(s))
    PROVE  Decided'
<1>0. Main \in Actors
  BY ActorsAre
<1>1. CASE HandleResponse
  <2>1. UNCHANGED <<pending, closed, requests>> /\ Alone(Main) /\ act'[Main].at \notin {"enter", "goaway"}
    BY <1>0, <1>1, HandleResponseActs, Returns DEF HandleResponse, close
  <2>2. CASE producers' = producers
    BY <1>0, <2>1, <2>2, DecidedQuiet DEF NoNewStream
  <2>3. ASSUME NEW k \in Sizes, producers' = Sorted(Append(producers, NewProducer(act[Main].s, k))),
               act[Main].s \in requests
        PROVE  Decided'
    <3>1. act[Main].at = "respond" /\ act[Main].s \in Streams
      BY <1>1, HandleResponseActs, InHand
    <3>2. producers \in Seq(Producers) /\ Distinct(producers) /\ \A i \in DOMAIN producers : producers[i].s # act[Main].s
      BY <3>1, ProducersAre DEF Responses, Distinct
    <3>3. \A i \in DOMAIN producers' : producers'[i].s = act[Main].s \/
               \E j \in DOMAIN producers : SameResponse(producers'[i], producers[j])
      BY <2>3, <3>1, <3>2, AddedIsPart
    <3>4. ASSUME ~OwesClients PROVE ~OwesClients'
      <4>1. act[Main].s \notin Clients
        BY <2>3, <3>4 DEF OwesClients
      <4>2. \A i \in DOMAIN producers' : producers'[i].s \notin Clients
        BY <3>3, <3>4, <4>1 DEF OwesClients, SameResponse
      <4> QED
        BY <2>1, <3>4, <4>2 DEF OwesClients
    <3> QED
      BY <1>0, <2>1, <3>4, DecidedKept DEF Decided
  <2> QED
    BY <1>1, <2>2, <2>3, HandleResponseActs
<1>2. CASE Poll \/ EnterShutdown \/ Client
  <2>1. UNCHANGED <<pending, closed, requests, producers>>
    BY <1>2 DEF Poll, EnterShutdown, Client, OpenStream, ResetByClient, UpdateWindow, StrayData, Leave,
                BreakProtocol, LoseChannel, mainRest, close
  <2>2. act'[Main].at \notin {"enter", "goaway"} /\ Alone(Main)
    BY <1>2, MainActs DEF Client
  <2> QED
    BY <1>0, <2>1, <2>2, DecidedQuiet DEF NoNewStream
<1>3. ASSUME NEW s \in Streams, RunThunk(s) PROVE Decided'
  <2>1. UNCHANGED <<pending, closed, requests, producers>>
    BY <1>3 DEF RunThunk, close
  <2>2. CASE act' = act
    BY <2>1, <2>2 DEF Decided, OwesClients
  <2>3. CASE Alone(Main) /\ act'[Main].at = "respond"
    BY <1>0, <2>1, <2>3, DecidedQuiet DEF NoNewStream
  <2> QED
    BY <1>3, <2>2, <2>3, MainActs
<1> QED
  BY <1>1, <1>2, <1>3

LEMMA DecidedStep ==
    ASSUME IInv, [Next]_vars
    PROVE  Decided'
<1>0. TypeOK /\ Locks /\ Places /\ Responses /\ Decided /\ Distinct(producers)
  BY DEF IInv, Responses, Distinct
<1>1. ASSUME NEW a \in Actors, Step(a) PROVE Decided'
  BY <1>0, <1>1, DecidedOfStep
<1>2. ASSUME NEW t \in Threads, JobStep(t) PROVE Decided'
  <2>1. UNCHANGED <<pending, closed, requests, producers>> /\ t \in Actors
    BY <1>2, ActorsAre DEF JobStep, GetJob, CallPush, Promise, FinishJob, close
  <2>2. Alone(t) /\ act'[t].at \in {"run", "promise", "accept", "idle"} /\ t # Main
    BY <1>0, <1>2, <2>1, ActorsAre, GetJobActs, ThreadActs, EndsTo DEF JobStep
  <2> QED
    BY <1>0, <2>1, <2>2, DecidedQuiet DEF NoNewStream
<1>3. CASE HandleResponse \/ Poll \/ EnterShutdown \/ Client \/ (\E s \in Streams : RunThunk(s))
  BY <1>0, <1>3, DecidedMain
<1>4. CASE UNCHANGED vars
  BY <1>0, <1>4 DEF Decided, OwesClients, vars, close
<1> QED
  BY <1>1, <1>2, <1>3, <1>4 DEF Next

\* What keeps OnTheWay, of the step of one thread.
LEMMA OnTheWayKept ==
    ASSUME OnTheWay, NEW a \in Actors, Alone(a), sendable' = sendable,
           raised' = raised, producers' # <<>> => producers # <<>>,
           act[a].at \notin FlushPath \ {"push"} \/ act'[a].at \in FlushPath \ {"push"}
    PROVE  OnTheWay'
<1> SUFFICES ASSUME producers' # <<>>, ~raised', ~sendable'
             PROVE  \E b \in Actors : act'[b].at \in FlushPath \ {"push"}
  BY DEF OnTheWay
<1>1. PICK b \in Actors : act[b].at \in FlushPath \ {"push"}
  BY DEF OnTheWay
<1>2. act'[b].at \in FlushPath \ {"push"}
  BY <1>1 DEF Alone
<1> QED
  BY <1>2

LEMMA OnTheWayStep ==
    ASSUME IInv, [Next]_vars
    PROVE  OnTheWay'
<1>0. TypeOK /\ Locks /\ Places /\ Responses /\ OnTheWay /\ Distinct(producers) /\ Main \in Actors
  BY ActorsAre DEF IInv, Responses, Distinct
<1>1. ASSUME NEW a \in Actors, Step(a) PROVE OnTheWay'
  <2>1. /\ Alone(a)
        /\ \/ act'[a].at \in FlushPath /\ (act'[a].at # "push" \/ Flag(a))
           \/ act[a].at = "accept"
           \/ act'[a].at = "flush"
           \/ Return(a) /\ (Flag(a) \/ act[a].at \in {"push", "close", "terminate"})
           \/ Raise(a)
           \/ act[a].at \in {"remove", "close"}
    BY <1>0, <1>1, StepActs
  <2>2. (Flag(a) \/ sendable' = sendable) /\ (raised' = raised \/ raised' = TRUE)
    BY <1>0, <1>1, StepFields
  <2>3. producers' # <<>> => producers # <<>>
    <3>1. producers' \in Seq(Producers) /\ producers \in Seq(Producers)
      BY <1>1, TypeStep, <1>0 DEF TypeOK, Next
    <3>2. CASE PartOf(producers', producers)
      BY <3>1, <3>2, SeqAt DEF PartOf
    <3> QED
      BY <1>0, <1>1, <3>2, StepFrames
  <2>4. CASE Flag(a)
    <3>1. sendable' = (producers # <<>>) /\ producers' = producers
      BY <2>4 DEF Flag
    <3> QED
      BY <3>1 DEF OnTheWay
  <2>5. CASE raised' = TRUE
    BY <2>5 DEF OnTheWay
  <2>6. CASE raised' = raised /\ ~Flag(a)
    <3>1. act[a].at \notin FlushPath \ {"push"} \/ act'[a].at \in FlushPath \ {"push"} \/ Raise(a)
      BY <2>1, <2>6 DEF FlushPath
    <3>2. Raise(a) => raised' = TRUE
      BY DEF Raise
    <3> QED
      BY <1>0, <2>1, <2>2, <2>3, <2>5, <2>6, <3>1, <3>2, OnTheWayKept
  <2> QED
    BY <2>2, <2>4, <2>5, <2>6
<1>2. ASSUME NEW t \in Threads, JobStep(t) PROVE OnTheWay'
  <2>1. UNCHANGED <<sendable, raised, producers>> /\ t \in Actors
    BY <1>2, ActorsAre DEF JobStep, GetJob, CallPush, Promise, FinishJob, chan
  <2>2. Alone(t)
    BY <1>0, <1>2, GetJobActs, ThreadActs DEF JobStep
  <2>3. act[t].at \in {"idle", "run", "promise"}
    BY <1>2 DEF JobStep, GetJob, CallPush, Promise, FinishJob, At
  <2> QED
    BY <1>0, <2>1, <2>2, <2>3, OnTheWayKept DEF FlushPath
<1>3. CASE HandleResponse
  <2>1. Alone(Main) /\ act[Main].at = "respond" /\ (act'[Main].at = "flush" \/ producers' = producers)
    BY <1>0, <1>3, HandleResponseActs
  <2>2. UNCHANGED <<sendable, raised>>
    BY <1>3 DEF HandleResponse, chan
  <2>3. CASE act'[Main].at = "flush"
    BY <1>0, <2>3 DEF OnTheWay, FlushPath
  <2>4. CASE producers' = producers
    BY <1>0, <2>1, <2>2, <2>4, OnTheWayKept DEF FlushPath
  <2> QED
    BY <2>1, <2>3, <2>4
<1>4. CASE Poll \/ EnterShutdown \/ Client
  <2>1. UNCHANGED <<sendable, raised, producers>>
    BY <1>4 DEF Poll, EnterShutdown, Client, OpenStream, ResetByClient, UpdateWindow, StrayData, Leave,
                BreakProtocol, LoseChannel, mainRest, chan
  <2>2. act[Main].at = "idle" /\ Alone(Main)
    BY <1>0, <1>4, MainActs DEF Client
  <2> QED
    BY <1>0, <2>1, <2>2, OnTheWayKept DEF FlushPath
<1>5. ASSUME NEW s \in Streams, RunThunk(s) PROVE OnTheWay'
  <2>1. UNCHANGED <<sendable, raised, producers>>
    BY <1>5 DEF RunThunk, chan
  <2>2. CASE act' = act
    BY <1>0, <2>1, <2>2 DEF OnTheWay
  <2>3. CASE act[Main].at = "idle" /\ Alone(Main)
    BY <1>0, <2>1, <2>3, OnTheWayKept DEF FlushPath
  <2> QED
    BY <1>0, <1>5, <2>2, <2>3, MainActs
<1>6. CASE UNCHANGED vars
  BY <1>0, <1>6 DEF OnTheWay, vars, chan
<1> QED
  BY <1>1, <1>2, <1>3, <1>4, <1>5, <1>6 DEF Next

-----------------------------------------------------------------------------
(* The theorems.                                                           *)

LEMMA InitInvariant == ASSUME Init PROVE IInv
<1>0. Main \in Actors /\ None \notin Actors /\ Main # None /\ <<>> \in Seq({"flag"}) /\ Threads \subseteq Actors
  BY ActorsAre
<1>1. TypeOK
  BY InitTyped
<1>2. /\ \A a \in Actors : act[a] = Idle
      /\ clock = None /\ plock = None /\ made = <<>> /\ producers = <<>>
      /\ job = [s \in Streams |-> "none"]
  BY DEF Init
<1>3. \A a \in Actors : act[a].at = "idle" /\ act[a].then = <<>>
  BY <1>2, IdleIs
<1>4. Locks
  BY <1>0, <1>2, <1>3 DEF Locks
<1>5. Places
  BY <1>0, <1>3 DEF Places, Opening
<1>6. JobsKept
  BY <1>0, <1>2, <1>3 DEF JobsKept, Opening
<1>7. \A s : ResponseFrames(s) = {}
  BY <1>2 DEF ResponseFrames
<1>8. DOMAIN producers = {}
  BY <1>2
<1>9. Responses
  BY <1>0, <1>3, <1>7, <1>8 DEF Responses
<1>10. ResponsesWhole
  BY <1>7 DEF ResponsesWhole
<1>11. Decided /\ OnTheWay
  BY <1>0, <1>2, <1>3 DEF Decided, OnTheWay
<1> QED
  BY <1>1, <1>4, <1>5, <1>6, <1>9, <1>10, <1>11 DEF IInv

LEMMA InvariantStep ==
    ASSUME IInv, [Next]_vars
    PROVE  IInv'
  BY TypeStep, LocksStep, PlacesStep, JobsStep, ResponsesStep, DecidedStep, OnTheWayStep DEF IInv

\* Every reachable state satisfies the inductive invariant: the two locks are held
\* where http2_connection_handler holds them, each stream is given one job and one
\* response, and its frames are those its producer counts.
THEOREM Invariant == Spec => []IInv
<1>1. Init => IInv
  BY InitInvariant
<1>2. IInv /\ [Next]_vars => IInv'
  BY InvariantStep
<1> QED
  BY <1>1, <1>2, PTL DEF Spec

\* The handler's fields, the H2Connection and the threads keep their types: no
\* thread is left in a place no code of http2_connection_handler leads to.
THEOREM TypeCorrect == Spec => []TypeOK
<1>1. IInv => TypeOK
  BY DEF IInv
<1> QED
  BY <1>1, Invariant, PTL

\* Every response is made whole: headers, every piece once and in order, nothing
\* after the frame that ends its stream, however many threads call produce in
\* turn and however the producers are sorted and rotated in between.
THEOREM ResponsesMadeWhole == Spec => []ResponsesWhole
<1>1. IInv => ResponsesWhole
  BY DEF IInv
<1> QED
  BY <1>1, Invariant, PTL

\* A response that is not sent completely is known to the poll when every thread
\* has left the handler, although _has_sendables is read and set by flushes that
\* overlap.
THEOREM ResponsesNotForgotten == Spec => []NoStuckResponse
<1>1. IInv => NoStuckResponse
  BY DEF IInv, OnTheWay, NoStuckResponse, AtRest, FlushPath
<1> QED
  BY <1>1, Invariant, PTL

\* The steps that say no goaway.
LEMMA NotGone ==
    ASSUME TypeOK, NEW f \in Frames, f # Goaway, made' = Append(made, f), ~Gone
    PROVE  ~Gone'
<1>1. made' \in Seq(Frames) /\ made \in Seq(Frames)
  BY AppendProperties DEF TypeOK
<1>2. \A i \in 1..Len(made) : made[i] # Goaway
  BY DEF Gone
<1>3. DOMAIN made' = 1..Len(made') /\ DOMAIN made = 1..Len(made)
  BY <1>1, SeqAt
<1>4. \A i \in 1..Len(made') : made'[i] # Goaway
  BY <1>2, <1>3, AnotherFrame
<1> QED
  BY <1>4 DEF Gone

LEMMA GoneStep ==
    ASSUME IInv, [Next]_vars, Gone', ~Gone
    PROVE  ~OwesClients
<1>0. TypeOK /\ Locks /\ Places /\ Decided /\ Distinct(producers)
  BY DEF IInv, Responses, Distinct
<1>1. made' # made
  BY DEF Gone
<1>2. ASSUME NEW a \in Actors, Step(a) PROVE ~OwesClients
  <2>1. CASE SendGoaway(a)
    BY <1>0, <2>1, GoingActs DEF Decided
  <2>2. CASE producers[1] \in Producers /\ Sent(a, producers[1])
    <3>1. NextFrame(producers[1]) \in Frames /\ NextFrame(producers[1]) # Goaway
      <4>1. NextFrame(producers[1]).kind \in {"headers", "data"} /\ Goaway.kind = "goaway"
        BY <2>2, FramesAre DEF Goaway
      <4> QED
        BY <2>2, <4>1, FramesAre
    <3>2. made' = Append(made, NextFrame(producers[1]))
      BY <2>2 DEF Sent
    <3> QED
      BY <1>0, <3>1, <3>2, NotGone
  <2> QED
    BY <1>0, <1>1, <1>2, <2>1, <2>2, StepFrames
<1>3. ASSUME NEW t \in Threads, JobStep(t) PROVE ~OwesClients
  <2>1. PICK p \in Pushes : made' = Append(made, PushPromise(act[t].job, p))
    <3>1. CASE Promise(t)
      BY <1>0, <1>1, <3>1, ThreadActs DEF conn
    <3>2. ~Promise(t) => made' = made
      BY <1>3 DEF JobStep, GetJob, CallPush, FinishJob, conn
    <3> QED
      BY <1>1, <3>1, <3>2
  <2>2. PushPromise(act[t].job, p) \in Frames
    BY <1>0, HandlersAre, StreamsAre, ActorsAre DEF PushPromise, Frames
  <2>3. PushPromise(act[t].job, p) # Goaway
    <3>1. PushPromise(act[t].job, p).kind = "promise" /\ Goaway.kind = "goaway"
      BY DEF PushPromise, Goaway
    <3> QED
      BY <3>1
  <2> QED
    BY <1>0, <2>1, <2>2, <2>3, NotGone
<1>4. ~HandleResponse /\ ~Poll /\ ~EnterShutdown /\ ~Client /\ ~(\E s \in Streams : RunThunk(s)) /\ ~UNCHANGED vars
  BY <1>1 DEF HandleResponse, Poll, EnterShutdown, Client, OpenStream, ResetByClient, UpdateWindow, StrayData,
              Leave, BreakProtocol, LoseChannel, RunThunk, mainRest, conn, vars
<1> QED
  BY <1>2, <1>3, <1>4 DEF Next

\* The connection is told to go away only when no request of the client is owed an
\* answer and none of its answers is half sent: between the look of _data_exhausted
\* and the GOAWAY of _proceed_shutdown no request of the client can enter.
THEOREM GoawayInTime == Spec => GoawayCutsNoneOff
<1>1. IInv /\ [Next]_vars =>
        [Gone' /\ ~Gone => /\ requests \cap Clients = {}
                           /\ \A i \in DOMAIN producers : producers[i].s \notin Clients]_vars
  BY GoneStep DEF OwesClients
<1> QED
  BY <1>1, Invariant, PTL DEF Spec, GoawayCutsNoneOff
=============================================================================
