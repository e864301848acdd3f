----------------------- MODULE GracefulShutdownProofs -----------------------
(***************************************************************************)
(* Proofs about GracefulShutdown for any number of connections, of threads *)
(* that ask for the shutdown and of requests for it, any time limits, with *)
(* and without early signals and interrupts.                               *)
(*                                                                         *)
(* The inductive invariant says where in its phases a stopping worker is:  *)
(* which phase the loop can be in (Phases), when the listener is gone and  *)
(* a channel rejected (Quieted), and which channels the sweep of phase 3   *)
(* has yet to ask (AllAsked).                                              *)
(***************************************************************************)
EXTENDS GracefulShutdown, SequenceTheorems, TLAPS

Objects == Channels \cup {"listener", "quic"}
InMap == {map[i] : i \in 1..Len(map)}
ToAsk == {todo[i] : i \in 1..Len(todo)}
Open(c) == chan[c] \in {"idle", "busy", "ready"}

Phases ==
    /\ main \in {"boot", "life"} => phase \in {0, 1}
    /\ main \in {"sweep", "judge", "poll"} => phase < LastPhase
    /\ main = "bump" => phase < LastPhase /\ next >= 1 /\ next >= phase
Asking == \A a \in Askers : asker[a].pc # "out" => asker[a].limit \in Limits
OneListener == \A i, j \in 1..Len(map) : map[i] = "listener" /\ map[j] = "listener" => i = j
Quieted ==
    /\ veto \/ main = "poll" \/ phase >= 3 => "listener" \notin InMap
    /\ main = "judge" /\ phase = 2 => "listener" \notin InMap
    /\ main = "bump" /\ next >= 3 => "listener" \notin InMap
    /\ main = "sweep" /\ phase = 2 => "listener" \notin InMap \ ToAsk
    /\ veto \/ main = "poll" => \E d \in Channels : rejected[d] /\ chan[d] # "free"
AllAsked ==
    /\ \A c \in Channels : Open(c) => c \in InMap
    /\ main = "sweep" /\ phase = 3 /\ ~veto => \A c \in Channels : Open(c) => c \in ToAsk
    /\ main = "judge" /\ phase = 3 /\ ~veto => \A c \in Channels : ~Open(c)
IInv == TypeOK /\ Phases /\ Asking /\ OneListener /\ Quieted /\ AllAsked

\* A sequence that loses one element keeps the others.
LEMMA RemoveAtKeeps ==
    ASSUME NEW S, NEW s \in Seq(S), NEW k \in 1..Len(s)
    PROVE  /\ RemoveAt(s, k) \in Seq(S)
           /\ Len(RemoveAt(s, k)) = Len(s) - 1
           /\ \A i \in 1..Len(s) - 1 :
                RemoveAt(s, k)[i] = IF i < k THEN s[i] ELSE s[i + 1]
  <1> DEFINE a == SubSeq(s, 1, k - 1)
             b == SubSeq(s, k + 1, Len(s))
  <1>0. Len(s) \in Nat /\ k \in Nat /\ k >= 1 /\ k <= Len(s)
    OBVIOUS
  <1>1. a \in Seq(S) /\ Len(a) = k - 1 /\ \A i \in 1..k - 1 : a[i] = s[i]
    <2>1. \A i \in 1..k - 1 : s[i] \in S
      BY <1>0
    <2>2. /\ a \in Seq(S)
          /\ Len(a) = IF 1 <= k - 1 THEN k - 1 - 1 + 1 ELSE 0
          /\ \A i \in 1..k - 1 - 1 + 1 : a[i] = s[1 + i - 1]
      BY <1>0, <2>1, SubSeqProperties
    <2>3. k - 1 - 1 + 1 = k - 1 /\ \A i \in 1..k - 1 : 1 + i - 1 = i
      BY <1>0
    <2> HIDE DEF a
    <2>4. Len(a) = k - 1
      BY <1>0, <2>2
    <2>5. ASSUME NEW i \in 1..k - 1 PROVE a[i] = s[i]
      <3>1. a[i] = s[1 + i - 1]
        BY <2>2, <2>3
      <3>2. QED
        BY <2>3, <3>1, Zenon
    <2>6. QED
      BY <2>2, <2>4, <2>5
  <1>2. b \in Seq(S) /\ Len(b) = Len(s) - k /\ \A i \in 1..Len(s) - k : b[i] = s[k + i]
    <2>1. \A i \in k + 1..Len(s) : s[i] \in S
      BY <1>0
    <2>2. /\ b \in Seq(S)
          /\ Len(b) = IF k + 1 <= Len(s) THEN Len(s) - (k + 1) + 1 ELSE 0
          /\ \A i \in 1..Len(s) - (k + 1) + 1 : b[i] = s[k + 1 + i - 1]
      BY <1>0, <2>1, SubSeqProperties
    <2>3. Len(s) - (k + 1) + 1 = Len(s) - k /\ \A i \in 1..Len(s) - k : k + 1 + i - 1 = k + i
      BY <1>0
    <2> HIDE DEF b
    <2>4. Len(b) = Len(s) - k
      BY <1>0, <2>2
    <2>5. ASSUME NEW i \in 1..Len(s) - k PROVE b[i] = s[k + i]
      <3>1. b[i] = s[k + 1 + i - 1]
        BY <2>2, <2>3
      <3>2. QED
        BY <2>3, <3>1, Zenon
    <2>6. QED
      BY <2>2, <2>4, <2>5
  <1> DEFINE r == a \o b
  <1>3. RemoveAt(s, k) = r
    BY DEF RemoveAt
  <1> HIDE DEF a, b
  <1>4. /\ r \in Seq(S) /\ Len(r) = Len(a) + Len(b)
        /\ \A i \in 1..Len(r) : r[i] = IF i <= Len(a) THEN a[i] ELSE b[i - Len(a)]
    <2>1. a \in Seq(S) /\ b \in Seq(S)
      BY <1>1, <1>2
    <2>2. /\ r \in Seq(S) /\ Len(r) = Len(a) + Len(b)
          /\ \A i \in 1..Len(a) + Len(b) : r[i] = IF i <= Len(a) THEN a[i] ELSE b[i - Len(a)]
      BY <2>1, ConcatProperties, Zenon
    <2> QED
      BY <2>2
  <1> HIDE DEF r
  <1>5. Len(r) = Len(s) - 1
    BY <1>0, <1>1, <1>2, <1>4
  <1>6. ASSUME NEW i \in 1..Len(s) - 1 PROVE r[i] = IF i < k THEN s[i] ELSE s[i + 1]
    <2>1. CASE i < k
      <3>1. i <= Len(a) /\ i \in 1..k - 1 /\ i \in 1..Len(r)
        BY <1>0, <1>1, <1>5, <2>1
      <3>2. QED
        BY <1>1, <1>4, <2>1, <3>1
    <2>2. CASE ~(i < k)
      <3>1. /\ ~(i <= Len(a)) /\ i - Len(a) \in 1..Len(s) - k /\ i \in 1..Len(r)
            /\ k + (i - Len(a)) = i + 1
        BY <1>0, <1>1, <1>5, <2>2
      <3>2. r[i] = b[i - Len(a)] /\ b[i - Len(a)] = s[k + (i - Len(a))]
        BY <1>2, <1>4, <3>1
      <3>3. QED
        BY <2>2, <3>1, <3>2
    <2>3. QED
      BY <2>1, <2>2
  <1>7. QED
    BY <1>3, <1>4, <1>5, <1>6

\* What leaves the socket map leaves everything else there.
LEMMA LeaveKeeps ==
    ASSUME map \in Seq(Objects), NEW o \in Objects, Leave(o)
    PROVE  /\ map' \in Seq(Objects)
           /\ InMap' \subseteq InMap /\ InMap \ {o} \subseteq InMap'
           /\ OneListener => OneListener' /\ (o = "listener" => "listener" \notin InMap')
  <1>1. PICK k \in 1..Len(map) : map[k] = o /\ map' = RemoveAt(map, k)
    BY DEF Leave
  <1>2. /\ map' \in Seq(Objects) /\ Len(map') = Len(map) - 1 /\ Len(map) \in Nat /\ k \in Nat
        /\ \A i \in 1..Len(map) - 1 : map'[i] = IF i < k THEN map[i] ELSE map[i + 1]
    <2>1. /\ RemoveAt(map, k) \in Seq(Objects) /\ Len(RemoveAt(map, k)) = Len(map) - 1
          /\ \A i \in 1..Len(map) - 1 :
               RemoveAt(map, k)[i] = IF i < k THEN map[i] ELSE map[i + 1]
      BY RemoveAtKeeps
    <2>2. Len(map) \in Nat /\ k \in Nat
      BY <1>1
    <2>3. map' = RemoveAt(map, k)
      BY <1>1
    <2>4. QED
      BY <2>1, <2>2, <2>3, Zenon
  <1> DEFINE At(i) == IF i < k THEN i ELSE i + 1
  <1>3. /\ \A i \in 1..Len(map') : At(i) \in 1..Len(map) /\ At(i) # k
        /\ \A i \in 1..Len(map') : map'[i] = map[At(i)]
        /\ \A i, j \in 1..Len(map') : At(i) = At(j) => i = j
    <2>1. \A i \in 1..Len(map') : At(i) \in 1..Len(map) /\ At(i) # k
      BY <1>1, <1>2
    <2>2. \A i \in 1..Len(map') : map'[i] = map[At(i)]
      BY <1>1, <1>2
    <2>3. \A i, j \in 1..Len(map') : At(i) = At(j) => i = j
      BY <1>1, <1>2
    <2>4. QED
      BY <2>1, <2>2, <2>3
  <1>4. ASSUME NEW i \in 1..Len(map), i # k PROVE \E j \in 1..Len(map') : At(j) = i
    <2>1. CASE i < k
      BY <1>1, <1>2, <1>4, <2>1
    <2>2. CASE i > k
      <3>1. i - 1 \in 1..Len(map') /\ ~(i - 1 < k) /\ i - 1 + 1 = i
        BY <1>1, <1>2, <2>2
      <3>2. QED
        BY <3>1
    <2>3. QED
      BY <1>1, <1>2, <1>4, <2>1, <2>2
  <1> HIDE DEF At
  <1>5. InMap' \subseteq InMap
    BY <1>3 DEF InMap
  <1>6. InMap \ {o} \subseteq InMap'
    <2>1. ASSUME NEW i \in 1..Len(map), map[i] # o PROVE \E j \in 1..Len(map') : map'[j] = map[i]
      <3>1. PICK j \in 1..Len(map') : At(j) = i
        BY <1>1, <1>4, <2>1
      <3>2. QED
        BY <1>3, <3>1
    <2>2. QED
      BY <2>1 DEF InMap
  <1>7. ASSUME OneListener PROVE OneListener' /\ (o = "listener" => "listener" \notin InMap')
    <2>1. OneListener'
      BY <1>3, <1>7 DEF OneListener
    <2>2. ASSUME o = "listener", NEW i \in 1..Len(map') PROVE map'[i] # "listener"
      BY <1>1, <1>3, <1>7, <2>2 DEF OneListener
    <2>3. QED
      BY <2>1, <2>2 DEF InMap
  <1>8. QED
    BY <1>2, <1>5, <1>6, <1>7

\* The states of a connection, and of an application thread in shutdown.
ChanStates == {"free", "idle", "busy", "ready", "closed"}
AskerStates == [pc : {"out", "test", "again", "code", "phase", "limit", "back"},
                code : Codes \cup {0}, limit : Limits \cup {0}]

\* Steps of a signal or of an application thread: the phase becomes 1 at most.
Asks ==
    /\ phase' \in {phase, 1}
    /\ UNCHANGED <<main, next, elapsed, netVars, todo, veto>>

\* Whoever asks for the shutdown leaves the loop where it is.
LEMMA AskStep ==
    ASSUME TypeOK, Asking,
           \/ \E e \in Codes, l \in Limits : Signal(e, l)
           \/ \E a \in Askers : ThreadStep(a)
    PROVE  Asks /\ TypeOK' /\ Asking'
  <1>1. ASSUME NEW e \in Codes, NEW l \in Limits, Signal(e, l) PROVE Asks /\ TypeOK' /\ Asking'
    <2>1. Asks /\ UNCHANGED asker
      BY <1>1 DEF Signal, Ask, Enter, Asks, globals, netVars
    <2>2. phase' \in 0..LastPhase /\ code' \in Codes \cup {0} /\ limit' \in Limits \cup {1, DefaultLimit}
      BY <1>1 DEF Signal, Ask, Enter, globals, TypeOK, LastPhase
    <2>3. asks' \in 0..MaxAsks
      BY <1>1, GracefulShutdownAssumption DEF Signal, TypeOK
    <2>4. QED
      BY <2>1, <2>2, <2>3 DEF Asks, TypeOK, Asking, netVars
  <1>2. ASSUME NEW a \in Askers, ThreadStep(a) PROVE Asks /\ TypeOK' /\ Asking'
    <2>0. asker \in [Askers -> AskerStates] /\ asker[a] \in AskerStates
      BY DEF TypeOK, AskerStates
    <2>1. Asks /\ UNCHANGED asks
      BY <1>2 DEF ThreadStep, ThreadCalls, ThreadTests, ThreadTestsAgain, ThreadSetsCode,
           ThreadSetsPhase, ThreadSetsLimit, Asks, askRest, globals
    <2>2. \E s \in AskerStates : s.limit \in Limits /\ asker' = [asker EXCEPT ![a] = s]
      <3>1. ASSUME NEW e \in Codes, NEW l \in Limits, ThreadCalls(a, e, l)
            PROVE  \E s \in AskerStates : s.limit \in Limits /\ asker' = [asker EXCEPT ![a] = s]
        BY <3>1 DEF ThreadCalls, AskerStates
      <3>2. ASSUME NEW pc \in {"back", "again", "code", "phase", "limit"}, Goto(a, pc),
                     asker[a].pc # "out"
            PROVE  \E s \in AskerStates : s.limit \in Limits /\ asker' = [asker EXCEPT ![a] = s]
        <4> DEFINE s == [asker[a] EXCEPT !.pc = pc]
        <4>1. s \in AskerStates /\ s.limit = asker[a].limit /\ asker[a].limit \in Limits
          BY <2>0, <3>2 DEF AskerStates, Asking
        <4>2. asker' = [asker EXCEPT ![a] = s]
          BY <2>0, <3>2 DEF Goto
        <4> HIDE DEF s
        <4>3. QED
          BY <4>1, <4>2
      <3>3. QED
        BY <1>2, <3>1, <3>2 DEF ThreadStep, ThreadTests, ThreadTestsAgain, ThreadSetsCode,
             ThreadSetsPhase, ThreadSetsLimit
    <2>3. asker' \in [Askers -> AskerStates] /\ Asking'
      BY <2>0, <2>2 DEF Asking
    <2>4. phase' \in 0..LastPhase
      BY <2>1 DEF Asks, TypeOK, LastPhase
    <2>5. code' \in Codes \cup {0}
      BY <1>2, <2>0 DEF ThreadStep, ThreadCalls, ThreadTests, ThreadTestsAgain, ThreadSetsCode,
           ThreadSetsPhase, ThreadSetsLimit, globals, AskerStates, TypeOK
    <2>6. limit' \in Limits \cup {1, DefaultLimit}
      <3>1. limit' = limit \/ (asker[a].pc # "out" /\ limit' = asker[a].limit)
        BY <1>2 DEF ThreadStep, ThreadCalls, ThreadTests, ThreadTestsAgain, ThreadSetsCode,
             ThreadSetsPhase, ThreadSetsLimit, globals
      <3>2. QED
        BY <3>1 DEF TypeOK, Asking
    <2>7. QED
      BY <2>1, <2>3, <2>4, <2>5, <2>6 DEF Asks, TypeOK, netVars, AskerStates
  <1>3. QED
    BY <1>1, <1>2

\* What the sweep asks is in the map it began with.
LEMMA ToAskIn == TypeOK => ToAsk \subseteq Objects /\ InMap \subseteq Objects
  BY DEF TypeOK, ToAsk, InMap, Objects

\* Asking for the shutdown keeps the invariant.
LEMMA AskKeeps ==
    ASSUME IInv, Asks, TypeOK', Asking'
    PROVE  IInv'
  <1>1. InMap' = InMap /\ ToAsk' = ToAsk /\ \A c : Open(c)' = Open(c)
    BY DEF Asks, netVars, InMap, ToAsk, Open
  <1>2. phase \in Int /\ next \in Int
    BY DEF IInv, TypeOK, LastPhase
  <1>3. Phases'
    BY <1>2 DEF IInv, Phases, Asks, LastPhase
  <1>4. OneListener'
    BY DEF IInv, OneListener, Asks, netVars
  <1>5. Quieted'
    BY <1>1, <1>2 DEF IInv, Quieted, Asks, netVars
  <1>6. AllAsked'
    BY <1>1, <1>2 DEF IInv, AllAsked, Asks, netVars
  <1>7. QED
    BY <1>3, <1>4, <1>5, <1>6 DEF IInv

\* What the network does to connections while the worker polls.
Polled ==
    /\ Polling
    /\ UNCHANGED <<main, globals, next, elapsed, todo, veto, asker, asks, rejected>>
    /\ chan' \in [Channels -> ChanStates]
    /\ \A c \in Channels : chan[c] # "free" => chan'[c] # "free"

\* Connections come, are served and go: nothing puts the listener back, and
\* every open connection is in the map.
LEMMA NetworkStep ==
    ASSUME TypeOK, Network
    PROVE  /\ Polled /\ map' \in Seq(Objects)
           /\ "listener" \notin InMap => "listener" \notin InMap'
           /\ OneListener => OneListener'
           /\ (\A c \in Channels : Open(c) => c \in InMap) => \A c \in Channels : Open(c)' => c \in InMap'
  <1>0. chan \in [Channels -> ChanStates] /\ map \in Seq(Objects)
    BY DEF TypeOK, ChanStates, Objects
  <1>1. ASSUME NEW c \in Channels, Accept(c)
        PROVE  /\ Polled /\ map' \in Seq(Objects)
               /\ "listener" \notin InMap => "listener" \notin InMap'
               /\ OneListener => OneListener'
               /\ (\A d \in Channels : Open(d) => d \in InMap) => \A d \in Channels : Open(d)' => d \in InMap'
    <2>1. Polled /\ map' = Append(map, c) /\ chan' = [chan EXCEPT ![c] = "idle"] /\ c \in Objects
      BY <1>0, <1>1 DEF Accept, Polled, pollRest, ChanStates, Objects, globals
    <2>2. /\ map' \in Seq(Objects) /\ Len(map) \in Nat /\ Len(map') = Len(map) + 1
          /\ \A i \in 1..Len(map) : map'[i] = map[i]
          /\ map'[Len(map) + 1] = c
      BY <1>0, <2>1, AppendProperties
    <2>3. 1..Len(map') = 1..Len(map) \cup {Len(map) + 1}
      BY <2>2
    <2>4. InMap' = InMap \cup {c}
      BY <2>2, <2>3 DEF InMap
    <2>5. c # "listener"
      BY GracefulShutdownAssumption
    <2>6. OneListener => OneListener'
      BY <2>2, <2>3, <2>5 DEF OneListener
    <2>7. \A d \in Channels : Open(d)' => d = c \/ Open(d)
      BY <1>0, <2>1 DEF Open
    <2>8. QED
      BY <2>1, <2>2, <2>4, <2>5, <2>6, <2>7
  <1>2. ASSUME NEW c \in Channels, Receive(c) \/ Answer(c) \/ Write(c)
        PROVE  /\ Polled /\ UNCHANGED map /\ \A d \in Channels : Open(d)' => Open(d)
    <2>1. /\ Polling /\ UNCHANGED <<map, rejected, pollRest>>
          /\ \E s \in {"idle", "busy", "ready"} : chan' = [chan EXCEPT ![c] = s]
          /\ Open(c)
      BY <1>2 DEF Receive, Answer, Write, Open
    <2>2. chan' \in [Channels -> ChanStates] /\ (\A d \in Channels : chan[d] # "free" => chan'[d] # "free")
          /\ \A d \in Channels : Open(d)' => Open(d)
      BY <1>0, <2>1 DEF ChanStates, Open
    <2>3. QED
      BY <2>1, <2>2 DEF Polled, pollRest, globals
  <1>3. ASSUME NEW c \in Channels, Hangup(c)
        PROVE  /\ Polled /\ map' \in Seq(Objects)
               /\ "listener" \notin InMap => "listener" \notin InMap'
               /\ OneListener => OneListener'
               /\ (\A d \in Channels : Open(d) => d \in InMap) => \A d \in Channels : Open(d)' => d \in InMap'
    <2>1. Leave(c) /\ chan' = [chan EXCEPT ![c] = "closed"] /\ c \in Objects
      BY <1>3 DEF Hangup, Drop, Objects
    <2>2. /\ map' \in Seq(Objects) /\ InMap' \subseteq InMap /\ InMap \ {c} \subseteq InMap'
          /\ OneListener => OneListener'
      BY <1>0, <2>1, LeaveKeeps
    <2>3. Polled
      BY <1>0, <1>3, <2>1 DEF Hangup, Polled, pollRest, ChanStates, globals
    <2>4. \A d \in Channels : Open(d)' => d # c /\ Open(d)
      BY <1>0, <2>1 DEF Open
    <2>5. QED
      BY <2>2, <2>3, <2>4
  <1>4. ASSUME UNCHANGED map PROVE InMap' = InMap /\ (OneListener => OneListener') /\ map' \in Seq(Objects)
    BY <1>0, <1>4 DEF InMap, OneListener
  <1>5. QED
    BY <1>1, <1>2, <1>3, <1>4 DEF Network

\* The network keeps the invariant.
LEMMA NetworkKeeps ==
    ASSUME IInv, Network
    PROVE  IInv'
  <1>1. /\ Polled /\ map' \in Seq(Objects)
        /\ "listener" \notin InMap => "listener" \notin InMap'
        /\ OneListener'
        /\ \A c \in Channels : Open(c)' => c \in InMap'
    BY NetworkStep DEF IInv, AllAsked
  <1>2. TypeOK'
    BY <1>1 DEF IInv, TypeOK, Polled, globals, Objects, ChanStates
  <1>3. Phases' /\ Asking'
    BY <1>1 DEF IInv, Phases, Asking, Polled, globals
  <1>4. Quieted'
    <2>1. main \in {"life", "poll"} /\ main' = main /\ veto' = veto /\ phase' = phase
      BY <1>1 DEF Polled, Polling, globals
    <2>2. veto \/ main = "poll" => \E d \in Channels : rejected'[d] /\ chan'[d] # "free"
      BY <1>1 DEF IInv, Quieted, Polled
    <2>3. veto \/ main = "poll" \/ phase >= 3 => "listener" \notin InMap'
      BY <1>1 DEF IInv, Quieted
    <2>4. QED
      BY <2>1, <2>2, <2>3 DEF Quieted
  <1>5. AllAsked'
    BY <1>1 DEF AllAsked, Polled, Polling
  <1>6. QED
    BY <1>1, <1>2, <1>3, <1>4, <1>5 DEF IInv

\* A step of the loop that begins or ends a sweep, a poll or a phase.
LEMMA LoopKeeps ==
    ASSUME IInv,
           BeginLoop \/ EndLife \/ Interrupt \/ EndSweep \/ Judge \/ Bump \/ EndPoll \/ Exit
    PROVE  IInv'
  <1>1. UNCHANGED <<map, chan, rejected, asker, asks>>
    BY DEF BeginLoop, EndLife, Interrupt, EndSweep, Judge, Bump, EndPoll, Exit, mainRest, netVars
  <1>2. InMap' = InMap /\ \A c : Open(c)' = Open(c)
    BY <1>1 DEF InMap, Open
  <1>3. todo' = map => ToAsk' = InMap
    BY DEF InMap, ToAsk
  <1>4. todo' = todo => ToAsk' = ToAsk
    BY DEF ToAsk
  <1>5. phase \in 0..4 /\ next \in 0..4 /\ LastPhase = 4
    BY DEF IInv, TypeOK, LastPhase
  <1>6. OneListener' /\ Asking'
    BY <1>1 DEF IInv, OneListener, Asking
  <1>7. TypeOK' /\ Phases' /\ Quieted' /\ AllAsked'
    <2> USE <1>1, <1>2, <1>3, <1>4, <1>5 DEF IInv, TypeOK, Phases, globals
    <2>1. CASE BeginLoop
      <3>1. TypeOK' /\ Phases'
        <4>1. TypeOK'
          BY <2>1 DEF BeginLoop
        <4>2. Phases'
          BY <2>1 DEF BeginLoop
        <4>3. QED
          BY <4>1, <4>2
      <3>2. Quieted' /\ AllAsked'
        <4>1. Quieted'
          BY <2>1 DEF BeginLoop, Quieted, AllAsked
        <4>2. AllAsked'
          BY <2>1 DEF BeginLoop, Quieted, AllAsked
        <4>3. QED
          BY <4>1, <4>2
      <3>3. QED
        BY <3>1, <3>2
    <2>2. CASE EndLife
      <3>1. TypeOK' /\ Phases'
        <4>1. TypeOK'
          BY <2>2 DEF EndLife, Sweep
        <4>2. Phases'
          BY <2>2 DEF EndLife, Sweep
        <4>3. QED
          BY <4>1, <4>2
      <3>2. Quieted' /\ AllAsked'
        <4>1. Quieted'
          BY <2>2 DEF EndLife, Sweep, Quieted, AllAsked
        <4>2. AllAsked'
          BY <2>2 DEF EndLife, Sweep, Quieted, AllAsked
        <4>3. QED
          BY <4>1, <4>2
      <3>3. QED
        BY <3>1, <3>2
    <2>3. CASE Interrupt
      <3>1. TypeOK' /\ Phases'
        <4>1. TypeOK'
          <5>1. elapsed' \in Nat /\ todo' \in Seq(Objects) /\ veto' \in BOOLEAN
            <6>1. elapsed' \in Nat
              BY <2>3 DEF Interrupt
            <6>2. todo' = map \/ todo' = todo
              BY <2>3 DEF Interrupt, Sweep
            <6>3. veto' \in BOOLEAN
              BY <2>3 DEF Interrupt, Sweep
            <6>4. map \in Seq(Objects) /\ todo \in Seq(Objects)
              BY DEF Objects
            <6>5. QED
              BY <6>1, <6>2, <6>3, <6>4, Zenon
          <5>2. main' \in {"sweep", "close"} /\ limit' \in Limits \cup {1, DefaultLimit}
            BY <2>3 DEF Interrupt, Sweep
          <5>3. UNCHANGED <<phase, code, next>>
            BY <2>3 DEF Interrupt, Sweep
          <5>4. QED
            BY <5>1, <5>2, <5>3 DEF Objects
        <4>2. Phases'
          BY <2>3 DEF Interrupt, Sweep
        <4>3. QED
          BY <4>1, <4>2
      <3>2. Quieted' /\ AllAsked'
        BY <2>3 DEF Interrupt, Sweep, Quieted, AllAsked
      <3>3. QED
        BY <3>1, <3>2
    <2>4. CASE EndSweep
      <3>0. ToAsk = {}
        BY <2>4 DEF EndSweep, ToAsk
      <3>1. TypeOK' /\ Phases'
        <4>1. TypeOK'
          BY <2>4 DEF EndSweep
        <4>2. Phases'
          BY <2>4 DEF EndSweep
        <4>3. QED
          BY <4>1, <4>2
      <3>2. Quieted' /\ AllAsked'
        BY <2>4, <3>0 DEF EndSweep, Quieted, AllAsked
      <3>3. QED
        BY <3>1, <3>2
    <2>5. CASE Judge
      <3>1. TypeOK' /\ Phases'
        <4>1. TypeOK'
          BY <2>5 DEF Judge
        <4>2. Phases'
          BY <2>5 DEF Judge
        <4>3. QED
          BY <4>1, <4>2
      <3>2. Quieted' /\ AllAsked'
        BY <2>5 DEF Judge, Quieted, AllAsked
      <3>3. QED
        BY <3>1, <3>2
    <2>6. CASE Bump
      <3>1. TypeOK' /\ Phases'
        <4>1. TypeOK'
          BY <2>6 DEF Bump, Sweep
        <4>2. Phases'
          BY <2>6 DEF Bump, Sweep
        <4>3. QED
          BY <4>1, <4>2
      <3>2. Quieted' /\ AllAsked'
        <4>1. Quieted'
          BY <2>6 DEF Bump, Sweep, Quieted, AllAsked
        <4>2. AllAsked'
          BY <2>6 DEF Bump, Sweep, Quieted, AllAsked
        <4>3. QED
          BY <4>1, <4>2
      <3>3. QED
        BY <3>1, <3>2
    <2>7. CASE EndPoll
      <3>1. TypeOK' /\ Phases'
        <4>1. TypeOK'
          <5>1. elapsed' \in Nat /\ todo' \in Seq(Objects) /\ veto' \in BOOLEAN
            <6>1. elapsed' \in Nat
              BY <2>7 DEF EndPoll
            <6>2. todo' = map \/ todo' = todo
              BY <2>7 DEF EndPoll, Sweep
            <6>3. veto' \in BOOLEAN
              BY <2>7 DEF EndPoll, Sweep
            <6>4. map \in Seq(Objects) /\ todo \in Seq(Objects)
              BY DEF Objects
            <6>5. QED
              BY <6>1, <6>2, <6>3, <6>4, Zenon
          <5>2. main' \in {"sweep", "close"} /\ limit' \in Limits \cup {1, DefaultLimit}
            BY <2>7 DEF EndPoll, Sweep
          <5>3. UNCHANGED <<phase, code, next>>
            BY <2>7 DEF EndPoll, Sweep
          <5>4. QED
            BY <5>1, <5>2, <5>3 DEF Objects
        <4>2. Phases'
          BY <2>7 DEF EndPoll, Sweep
        <4>3. QED
          BY <4>1, <4>2
      <3>2. Quieted' /\ AllAsked'
        BY <2>7 DEF EndPoll, Sweep, Quieted, AllAsked
      <3>3. QED
        BY <3>1, <3>2
    <2>8. CASE Exit
      <3>1. TypeOK' /\ Phases'
        <4>1. TypeOK'
          BY <2>8 DEF Exit
        <4>2. Phases'
          BY <2>8 DEF Exit
        <4>3. QED
          BY <4>1, <4>2
      <3>2. Quieted' /\ AllAsked'
        BY <2>8 DEF Exit, Quieted, AllAsked
      <3>3. QED
        BY <3>1, <3>2
    <2>9. QED
      BY <2>1, <2>2, <2>3, <2>4, <2>5, <2>6, <2>7, <2>8
  <1>8. QED
    BY <1>6, <1>7 DEF IInv

\* One object less to ask.
LEMMA AskedOne ==
    ASSUME TypeOK, SweepOne
    PROVE  \E h \in Objects :
             /\ todo' \in Seq(Objects)
             /\ h = Head(todo) /\ ToAsk \subseteq ToAsk' \cup {h}
  <1>1. todo \in Seq(Objects) /\ todo # <<>> /\ todo' = Tail(todo)
    BY DEF SweepOne, TypeOK, Objects
  <1>2. /\ Head(todo) \in Objects /\ Head(todo) = todo[1] /\ todo' \in Seq(Objects)
        /\ Len(todo') = Len(todo) - 1 /\ Len(todo) \in Nat
        /\ \A i \in 1..Len(todo') : todo'[i] = todo[i + 1]
    BY <1>1, HeadTailProperties
  <1>3. ASSUME NEW i \in 1..Len(todo), i # 1 PROVE todo[i] \in ToAsk'
    <2>1. i - 1 \in 1..Len(todo') /\ i - 1 + 1 = i
      BY <1>2, <1>3
    <2>2. todo'[i - 1] = todo[i]
      BY <1>2, <2>1
    <2>3. QED
      BY <2>1, <2>2 DEF ToAsk
  <1>4. ToAsk \subseteq ToAsk' \cup {Head(todo)}
    BY <1>2, <1>3 DEF ToAsk
  <1>5. QED
    BY <1>2, <1>4

\* Asking one object keeps the invariant.
LEMMA SweepKeeps ==
    ASSUME IInv, SweepOne
    PROVE  IInv'
  <1>1. PICK h \in Objects : todo' \in Seq(Objects) /\ h = Head(todo) /\ ToAsk \subseteq ToAsk' \cup {h}
    BY AskedOne DEF IInv
  <1>2. /\ main = "sweep" /\ UNCHANGED <<main, phase, code, limit, next, elapsed, asker, asks>>
        /\ IF veto THEN UNCHANGED <<veto, map, chan, rejected>> ELSE Control(h)
    BY <1>1 DEF SweepOne, globals, netVars
  <1>3. /\ chan \in [Channels -> ChanStates] /\ rejected \in [Channels -> BOOLEAN]
        /\ map \in Seq(Objects) /\ phase \in 0..4 /\ veto \in BOOLEAN
    BY DEF IInv, TypeOK, ChanStates, Objects, LastPhase
  <1>4. h \in Channels \/ h = "listener" \/ h = "quic"
    BY DEF Objects
  <1>5. "listener" \notin Channels /\ "quic" \notin Channels
    BY GracefulShutdownAssumption
  <1>6. Asking' /\ Phases'
    BY <1>2 DEF IInv, Asking, Phases
  <1>7. CASE veto
    <2>1. UNCHANGED <<veto, map, chan, rejected>>
      BY <1>2, <1>7
    <2>2. InMap' = InMap /\ \A c : Open(c)' = Open(c)
      BY <2>1 DEF InMap, Open
    <2>3. TypeOK'
      BY <1>1, <1>2, <2>1 DEF IInv, TypeOK, Objects
    <2>4. OneListener'
      BY <2>1 DEF IInv, OneListener
    <2>5. Quieted'
      BY <1>2, <1>7, <2>1, <2>2 DEF IInv, Quieted
    <2>6. AllAsked'
      BY <1>2, <1>7, <2>1, <2>2 DEF IInv, AllAsked
    <2>7. QED
      BY <1>6, <2>3, <2>4, <2>5, <2>6 DEF IInv
  <1>8. CASE ~veto
    <2>1. Control(h) /\ veto' = Vetoes(h)
      BY <1>2, <1>8 DEF Control
    <2>2. rejected' = IF h \in Channels /\ phase = 3 THEN [rejected EXCEPT ![h] = TRUE] ELSE rejected
      BY <2>1 DEF Control
    <2>3. /\ rejected' \in [Channels -> BOOLEAN] /\ veto' \in BOOLEAN
          /\ \A d \in Channels : rejected[d] => rejected'[d]
      BY <1>3, <2>1, <2>2 DEF Vetoes
    <2>4. /\ map' \in Seq(Objects) /\ InMap' \subseteq InMap /\ OneListener'
          /\ InMap \ {h} \subseteq InMap'
          /\ Closes(h) /\ h = "listener" => "listener" \notin InMap'
          /\ ~Closes(h) => InMap' = InMap
      <3>1. CASE Closes(h)
        <4>1. Leave(h)
          BY <2>1, <3>1 DEF Control, Drop
        <4>2. QED
          BY <1>3, <3>1, <4>1, LeaveKeeps DEF IInv
      <3>2. CASE ~Closes(h)
        <4>1. UNCHANGED map
          BY <2>1, <3>2 DEF Control
        <4>2. QED
          BY <1>3, <3>2, <4>1 DEF InMap, IInv, OneListener
      <3>3. QED
        BY <3>1, <3>2
    <2>5. /\ chan' \in [Channels -> ChanStates]
          /\ \A d \in Channels : chan[d] # "free" => chan'[d] # "free"
          /\ \A d \in Channels : Open(d)' => Open(d) /\ (Closes(h) => d # h)
      <3>1. CASE Closes(h) /\ h \in Channels
        <4>1. chan' = [chan EXCEPT ![h] = "closed"]
          BY <2>1, <3>1 DEF Control, Drop
        <4>2. QED
          BY <1>3, <4>1 DEF ChanStates, Open
      <3>2. CASE ~(Closes(h) /\ h \in Channels)
        <4>1. UNCHANGED chan
          BY <2>1, <3>2 DEF Control
        <4>2. QED
          BY <1>3, <3>2, <4>1 DEF Open
      <3>3. QED
        BY <3>1, <3>2
    <2>6. veto' => h \in Channels /\ phase = 3 /\ chan[h] = "ready" /\ rejected'[h]
      BY <1>3, <1>5, <2>1, <2>2 DEF Vetoes, Closes
    <2>7. TypeOK'
      <3>1. todo' \in Seq(Objects) /\ map' \in Seq(Objects)
        BY <1>1, <2>4
      <3>2. UNCHANGED <<main, phase, code, limit, next, elapsed, asker, asks>>
        BY <1>2
      <3>3. QED
        BY <2>3, <2>5, <3>1, <3>2 DEF IInv, TypeOK, ChanStates, Objects
    <2>8. Quieted'
      <3>1. veto' \/ main' = "poll" \/ phase' >= 3 => "listener" \notin InMap'
        BY <1>2, <1>3, <2>4, <2>6 DEF IInv, Quieted
      <3>2. main' = "sweep" /\ phase' = 2 => "listener" \notin InMap' \ ToAsk'
        <4>1. CASE h = "listener" /\ phase = 2
          BY <2>4, <4>1 DEF Closes
        <4>2. CASE h # "listener" /\ phase = 2
          BY <1>1, <1>2, <2>4, <4>2 DEF IInv, Quieted
        <4>3. QED
          BY <1>2, <4>1, <4>2
      <3>3. veto' \/ main' = "poll" => \E d \in Channels : rejected'[d] /\ chan'[d] # "free"
        BY <1>2, <2>5, <2>6
      <3>4. QED
        BY <1>2, <3>1, <3>2, <3>3 DEF Quieted
    <2>9. AllAsked'
      <3>1. \A c \in Channels : Open(c)' => c \in InMap'
        BY <2>4, <2>5 DEF IInv, AllAsked
      <3>2. ASSUME phase = 3, ~veto', NEW c \in Channels, Open(c)' PROVE c \in ToAsk'
        <4>1. c \in ToAsk
          BY <1>2, <1>8, <2>5, <3>2 DEF IInv, AllAsked
        <4>2. c # h
          BY <2>1, <2>5, <3>2 DEF Vetoes
        <4>3. QED
          BY <1>1, <4>1, <4>2
      <3>3. QED
        BY <1>2, <3>1, <3>2 DEF AllAsked
    <2>10. QED
      BY <1>6, <2>4, <2>7, <2>8, <2>9 DEF IInv
  <1>9. QED
    BY <1>3, <1>7, <1>8

\* The worker boots with its two listeners and no connection.
LEMMA InitKeeps == Init => IInv
  <1> SUFFICES ASSUME Init PROVE IInv
    OBVIOUS
  <1>1. map \in Seq(Objects) /\ Len(map) = 2 /\ map[1] = "quic" /\ map[2] = "listener"
    BY DEF Init, Objects
  <1>2. <<>> \in Seq(Objects)
    OBVIOUS
  <1>3. TypeOK
    <2>1. map \in Seq(Objects) /\ todo \in Seq(Objects)
      BY <1>1, <1>2 DEF Init
    <2>2. asker \in [Askers -> AskerStates]
      BY DEF Init, AskerStates
    <2>3. phase \in 0..LastPhase /\ next \in 0..LastPhase /\ elapsed \in Nat /\ asks \in 0..MaxAsks
      BY GracefulShutdownAssumption DEF Init, LastPhase
    <2>4. /\ main = "boot" /\ code = 0 /\ limit = DefaultLimit /\ veto = FALSE
          /\ chan \in [Channels -> {"free", "idle", "busy", "ready", "closed"}]
          /\ rejected \in [Channels -> BOOLEAN]
      BY DEF Init
    <2>5. QED
      BY <2>1, <2>2, <2>3, <2>4 DEF TypeOK, AskerStates, Objects
  <1>4. OneListener
    BY <1>1 DEF OneListener
  <1>5. Phases /\ Asking /\ Quieted /\ AllAsked
    BY DEF Init, Phases, Asking, Quieted, AllAsked, Open
  <1>6. QED
    BY <1>3, <1>4, <1>5 DEF IInv

\* Every step of the worker, of its clients and of whoever stops it.
LEMMA NextKeeps == IInv /\ [Next]_vars => IInv'
  <1>1. CASE UNCHANGED vars
    <2>1. UNCHANGED <<main, globals, next, elapsed, map, todo, veto, chan, rejected, asker, asks>>
      BY <1>1 DEF vars
    <2>2. QED
      BY <2>1 DEF globals, IInv, TypeOK, Phases, Asking, OneListener, Quieted, AllAsked, InMap, ToAsk, Open
  <1>2. QED
    BY <1>1, AskStep, AskKeeps, NetworkKeeps, LoopKeeps, SweepKeeps DEF Next, MainStep, IInv

\* The inductive invariant holds throughout.
THEOREM Invariant == Spec => []IInv
  BY InitKeeps, NextKeeps, PTL DEF Spec

\* Whatever order signals, threads and interrupts ask in, the globals of
\* lifetime and the socket map keep the shape the shutdown loop expects.
THEOREM TypeCorrect == Spec => []TypeOK
  <1>1. IInv => TypeOK
    BY DEF IInv
  <1>2. QED
    BY <1>1, Invariant, PTL

\* The first request for the shutdown decides the exit code, and no later one
\* takes the worker back to an earlier phase, unless an application thread had
\* found the phase 0 before.
THEOREM TheFirstAskStands == Spec => FirstAskStands
  <1> DEFINE A == /\ phase # 0 /\ main # "boot"
                  /\ \A a \in Askers : asker[a].pc \notin {"code", "phase"}
                  => code' = code /\ phase' >= phase
  <1>1. ASSUME IInv, [Next]_vars, phase # 0, main # "boot",
               \A a \in Askers : asker[a].pc \notin {"code", "phase"}
        PROVE  code' = code /\ phase' >= phase
    <2>0. phase \in Int /\ phase >= phase
      BY <1>1 DEF IInv, TypeOK
    <2>1. ASSUME UNCHANGED <<code, phase>> PROVE code' = code /\ phase' >= phase
      BY <2>0, <2>1
    <2>2. CASE UNCHANGED vars
      BY <2>1, <2>2 DEF vars, globals
    <2>3. CASE Network
      BY <2>1, <2>3 DEF Network, Accept, Receive, Answer, Write, Hangup, pollRest, globals
    <2>4. ASSUME NEW e \in Codes, NEW l \in Limits, Signal(e, l) PROVE code' = code /\ phase' >= phase
      BY <1>1, <2>1, <2>4 DEF Signal, Ask, globals
    <2>5. ASSUME NEW a \in Askers, ThreadStep(a) PROVE code' = code /\ phase' >= phase
      BY <1>1, <2>1, <2>5 DEF ThreadStep, ThreadCalls, ThreadTests, ThreadTestsAgain, ThreadSetsCode,
           ThreadSetsPhase, ThreadSetsLimit, globals
    <2>6. CASE BeginLoop \/ EndLife \/ Interrupt \/ SweepOne \/ EndSweep \/ Judge \/ EndPoll \/ Exit
      BY <1>1, <2>1, <2>6 DEF BeginLoop, EndLife, Interrupt, SweepOne, EndSweep, Judge, EndPoll, Exit, globals
    <2>7. CASE Bump
      BY <1>1, <2>0, <2>7 DEF Bump, IInv, Phases
    <2>8. QED
      BY <1>1, <2>2, <2>3, <2>4, <2>5, <2>6, <2>7 DEF Next, MainStep
  <1>2. IInv /\ [Next]_vars => [A]_vars
    BY <1>1
  <1>3. QED
    BY <1>2, Invariant, PTL DEF Spec, FirstAskStands

\* No sweep closes a channel that has something to write, and phase 3 does not
\* end before its time while a channel is open, although a veto hides the
\* channels behind it, and whatever other threads do to the phase meanwhile.
THEOREM ReadyAnswersStay == Spec => ReadyAnswersAreWritten
  <1> DEFINE A == \A c \in Channels :
                    /\ main = "sweep" /\ chan[c] = "ready" => chan'[c] = "ready"
                    /\ main = "judge" /\ main' = "bump" /\ phase = 3 /\ ~TimeUp =>
                          chan[c] \in {"free", "closed"}
  <1>1. ASSUME IInv, [Next]_vars, NEW c \in Channels, main = "sweep", chan[c] = "ready"
        PROVE  chan'[c] = "ready"
    <2>1. chan \in [Channels -> ChanStates]
      BY <1>1 DEF IInv, TypeOK, ChanStates
    <2>2. CASE SweepOne
      <3>1. \/ UNCHANGED chan
            \/ \E o \in Channels : chan[o] # "ready" /\ chan' = [chan EXCEPT ![o] = "closed"]
        <4>1. CASE veto
          BY <2>2, <4>1 DEF SweepOne, netVars
        <4>2. CASE ~veto
          <5>1. Control(Head(todo))
            BY <2>2, <4>2 DEF SweepOne
          <5>2. QED
            BY <5>1, GracefulShutdownAssumption DEF Control, Drop, Closes
        <4>3. QED
          BY <4>1, <4>2
      <3>2. QED
        BY <1>1, <2>1, <3>1
    <2>3. CASE ~SweepOne
      <3>1. CASE UNCHANGED vars
        BY <1>1, <3>1 DEF vars, netVars
      <3>2. ~Network
        BY <1>1 DEF Network, Accept, Receive, Answer, Write, Hangup, Polling
      <3>3. CASE \E a \in Askers : ThreadStep(a)
        BY <1>1, <3>3 DEF ThreadStep, ThreadCalls, ThreadTests, ThreadTestsAgain, ThreadSetsCode,
             ThreadSetsPhase, ThreadSetsLimit, askRest, netVars
      <3>4. CASE \E e \in Codes, l \in Limits : Signal(e, l)
        BY <1>1, <3>4 DEF Signal, netVars
      <3>5. CASE BeginLoop \/ EndLife \/ Interrupt \/ EndSweep \/ Judge \/ Bump \/ EndPoll \/ Exit
        BY <1>1, <3>5 DEF BeginLoop, EndLife, Interrupt, EndSweep, Judge, Bump, EndPoll, Exit, mainRest, netVars
      <3>6. QED
        BY <1>1, <2>3, <3>1, <3>2, <3>3, <3>4, <3>5 DEF Next, MainStep
    <2>4. QED
      BY <2>2, <2>3
  <1>2. ASSUME IInv, [Next]_vars, NEW c \in Channels,
               main = "judge", main' = "bump", phase = 3, ~TimeUp
        PROVE  chan[c] \in {"free", "closed"}
    <2>1. CASE Judge
      <3>1. ~veto
        BY <1>2, <2>1 DEF Judge
      <3>2. ~Open(c)
        BY <1>2, <3>1 DEF IInv, AllAsked
      <3>3. QED
        BY <1>2, <3>2 DEF IInv, TypeOK, Open
    <2>2. CASE ~Judge
      <3>1. main' # "bump"
        <4>1. CASE UNCHANGED vars
          BY <1>2, <4>1 DEF vars
        <4>2. CASE Network
          BY <1>2, <4>2 DEF Network, Accept, Receive, Answer, Write, Hangup, pollRest
        <4>3. CASE \E a \in Askers : ThreadStep(a)
          BY <1>2, <4>3 DEF ThreadStep, ThreadCalls, ThreadTests, ThreadTestsAgain, ThreadSetsCode,
               ThreadSetsPhase, ThreadSetsLimit, askRest
        <4>4. CASE \E e \in Codes, l \in Limits : Signal(e, l)
          BY <1>2, <4>4 DEF Signal
        <4>5. CASE BeginLoop \/ EndLife \/ Interrupt \/ SweepOne \/ EndSweep \/ Bump \/ EndPoll \/ Exit
          BY <1>2, <4>5 DEF BeginLoop, EndLife, Interrupt, SweepOne, EndSweep, Bump, EndPoll, Exit, Sweep
        <4>6. QED
          BY <1>2, <2>2, <4>1, <4>2, <4>3, <4>4, <4>5 DEF Next, MainStep
      <3>2. QED
        BY <1>2, <3>1
    <2>3. QED
      BY <2>1, <2>2
  <1>3. IInv /\ [Next]_vars => [A]_vars
    BY <1>1, <1>2
  <1>4. QED
    BY <1>3, Invariant, PTL DEF Spec, ReadyAnswersAreWritten

\* Once the listener is closed no connection is taken, and only a channel that
\* the veto of another kept from being rejected begins a request.
THEOREM QuietStays == Spec => NothingNewWhileQuiet
  <1> DEFINE A == \A c \in Channels :
                    main # "life" /\ chan[c] \in {"free", "idle"}
                      /\ chan'[c] \in {"idle", "busy"} /\ chan'[c] # chan[c]
                    => /\ chan[c] = "idle"
                       /\ \E d \in Channels : d # c /\ rejected[d] /\ chan[d] # "free"
  <1>1. ASSUME IInv, [Next]_vars, NEW c \in Channels, main # "life", chan[c] \in {"free", "idle"},
               chan'[c] \in {"idle", "busy"}, chan'[c] # chan[c]
        PROVE  /\ chan[c] = "idle"
               /\ \E d \in Channels : d # c /\ rejected[d] /\ chan[d] # "free"
    <2>1. chan \in [Channels -> ChanStates]
      BY <1>1 DEF IInv, TypeOK, ChanStates
    <2>2. Network
      <3>1. ~UNCHANGED chan
        BY <1>1
      <3>2. CASE SweepOne
        <4>1. UNCHANGED chan \/ \E o \in Channels : chan' = [chan EXCEPT ![o] = "closed"]
          BY <3>2 DEF SweepOne, netVars, Control, Drop
        <4>2. QED
          BY <1>1, <2>1, <4>1
      <3>3. ~UNCHANGED vars
        BY <3>1 DEF vars
      <3>4. ~\E a \in Askers : ThreadStep(a)
        BY <3>1 DEF ThreadStep, ThreadCalls, ThreadTests, ThreadTestsAgain, ThreadSetsCode,
             ThreadSetsPhase, ThreadSetsLimit, askRest, netVars
      <3>5. ~\E e \in Codes, l \in Limits : Signal(e, l)
        BY <3>1 DEF Signal, netVars
      <3>6. ~(BeginLoop \/ EndLife \/ Interrupt \/ EndSweep \/ Judge \/ Bump \/ EndPoll \/ Exit)
        BY <3>1 DEF BeginLoop, EndLife, Interrupt, EndSweep, Judge, Bump, EndPoll, Exit, mainRest, netVars
      <3>7. QED
        BY <1>1, <3>2, <3>3, <3>4, <3>5, <3>6 DEF Next, MainStep
    <2>3. main = "poll"
      BY <1>1, <2>2 DEF Network, Accept, Receive, Answer, Write, Hangup, Polling
    <2>4. "listener" \notin InMap /\ \E d \in Channels : rejected[d] /\ chan[d] # "free"
      BY <1>1, <2>3 DEF IInv, Quieted
    <2>5. ~Contains(map, "listener")
      BY <2>4 DEF Contains, InMap
    <2>6. chan[c] = "idle" /\ ~rejected[c]
      <3>1. \A d \in Channels : ~Accept(d)
        BY <2>5 DEF Accept
      <3>2. ASSUME NEW d \in Channels, Answer(d) \/ Write(d) \/ Hangup(d) PROVE FALSE
        <4>1. \/ chan[d] = "busy" /\ chan' = [chan EXCEPT ![d] = "ready"]
              \/ chan[d] = "ready" /\ chan' = [chan EXCEPT ![d] = "idle"]
              \/ chan' = [chan EXCEPT ![d] = "closed"]
          BY <3>2 DEF Answer, Write, Hangup, Drop
        <4>2. QED
          BY <1>1, <2>1, <4>1
      <3>3. PICK d \in Channels : Receive(d)
        BY <2>2, <3>1, <3>2 DEF Network
      <3>4. chan[d] = "idle" /\ ~rejected[d] /\ chan' = [chan EXCEPT ![d] = "busy"]
        BY <3>3 DEF Receive
      <3>5. d = c
        BY <1>1, <2>1, <3>4
      <3>6. QED
        BY <3>4, <3>5
    <2>7. QED
      BY <2>4, <2>6
  <1>2. IInv /\ [Next]_vars => [A]_vars
    BY <1>1
  <1>3. QED
    BY <1>2, Invariant, PTL DEF Spec, NothingNewWhileQuiet
=============================================================================
