----------------------------- MODULE Http3Connections -----------------------------
(***************************************************************************)
(* One QUIC connection and the channels its datagrams come by.  Every      *)
(* address has a channel with a socket and a handler of its own; the first *)
(* datagram from a new address makes one, and a connection whose client    *)
(* has moved is found by its id, taken from the channel it had, and shared *)
(* by two handlers: the old one still has a timer.  Whoever is called next *)
(* gets the events of the connection.                                      *)
(*                                                                         *)
(* All of this runs on the main thread, one handler after the other; the   *)
(* steps of a handler are actions of their own, because it may raise       *)
(* between them.  QuicConnection is aioquic's.  Streams are left out: what *)
(* is done with them is module Http2Connection's.                          *)
(***************************************************************************)
EXTENDS Naturals, Sequences, FiniteSets

CONSTANTS
    Addresses,  \* 1..n, the client's addresses; each has a channel at most once
    Ids         \* the ids the connection may be given later

VARIABLES
    chan,       \* the channel of each address
    has,        \* its handler has the connection: self.quic
    timer,      \* its handler's timer is set
    linked,     \* conn._linked_channel, or None
    conns,      \* the ids by which the connection is found
    quic,       \* the connection
    news,       \* events of the connection nobody has taken
    main        \* the handler the main thread is in, and where

quicVars == <<chan, has, timer, linked, conns, quic, news, main>>

None == 0
First == "first"     \* the id a connection is born with
Idle == [pc |-> "idle", at |-> None, first |-> FALSE]
IsOpen(a) == chan[a] \in {"open", "stuck", "closing"}

Init ==
    /\ chan = [a \in Addresses |-> "none"] /\ has = [a \in Addresses |-> FALSE]
    /\ timer = [a \in Addresses |-> FALSE]
    /\ linked = None /\ conns = {}
    /\ quic = [state |-> "none", unissued |-> Ids, live |-> {First}] /\ news = <<>>
    /\ main = Idle

-----------------------------------------------------------------------------
(* The channel.                                                            *)

\* A datagram: the server's socket makes the channel, which then has them all.
Datagram(a) ==
    /\ main = Idle /\ chan[a] \in {"none", "open"}
    /\ chan' = [chan EXCEPT ![a] = "open"]
    /\ main' = [pc |-> IF has[a] THEN "receive" ELSE "make", at |-> a, first |-> chan[a] = "none"]
    /\ UNCHANGED <<has, timer, linked, conns, quic, news>>

\* An exception closes the channel; but in the constructor it reaches the
\* server's handle_error, and the channel stays, not connected.
Raised(a) == [chan EXCEPT ![a] = IF main.first THEN "stuck" ELSE "closed"]

\* Zombie timeout, a refused datagram, or what close_when_done waited for.
CloseChannel(a) ==
    /\ main = Idle /\ IsOpen(a)
    /\ chan' = [chan EXCEPT ![a] = "closed"]
    /\ UNCHANGED <<has, timer, linked, conns, quic, news, main>>

-----------------------------------------------------------------------------
(* _make_connection.                                                       *)

\* A retry, another version, a packet of no connection.
Ignore ==
    /\ main.pc = "make" /\ main' = Idle
    /\ UNCHANGED <<chan, has, timer, linked, conns, quic, news>>
NewConnection ==
    /\ main.pc = "make" /\ quic.state = "none"
    /\ quic' = [quic EXCEPT !.state = "up"]
    /\ has' = [has EXCEPT ![main.at] = TRUE]
    /\ linked' = main.at
    /\ main' = [main EXCEPT !.pc = "receive"]
    /\ UNCHANGED <<chan, timer, conns, news>>
\* The client has moved: its old channel closes.
UnlinkedWhenDone == [chan EXCEPT ![linked] = IF IsOpen(linked) THEN "closing" ELSE @]
Unlinked == [chan EXCEPT ![linked] = "closed"]
Migrate ==
    /\ main.pc = "make" /\ conns # {} /\ linked # None
    /\ chan' = Unlinked
    /\ linked' = main.at
    /\ has' = [has EXCEPT ![main.at] = TRUE]
    /\ main' = [main EXCEPT !.pc = "receive"]
    /\ UNCHANGED <<timer, conns, quic, news>>
\* An id that was retired took the link with it: None has no close.
MigrateFails ==
    /\ main.pc = "make" /\ conns # {} /\ linked = None
    /\ chan' = Raised(main.at) /\ main' = Idle
    /\ UNCHANGED <<has, timer, linked, conns, quic, news>>

-----------------------------------------------------------------------------
(* The connection's events: ids issued and retired, and the end.           *)

\* The connection ends, by a datagram or by its timer.
Ends ==
    /\ quic.state = "up"
    /\ quic' = [quic EXCEPT !.state = "terminated"]
    /\ news' = Append(news, <<"terminated">>)
\* A datagram retires ids, at most two of them.
Retires(i, j) ==
    /\ quic.state = "up"
    /\ quic' = [quic EXCEPT !.live = @ \ {i, j}]
    /\ news' = news \o (IF i = j THEN <<<<"retired", i>>>> ELSE <<<<"retired", i>>, <<"retired", j>>>>)
\* What it makes of being asked what to send: a new id is sent, and issued.
Issues(i) ==
    /\ quic.state = "up"
    /\ quic' = [quic EXCEPT !.unissued = @ \ {i}, !.live = @ \cup {i}]
    /\ news' = Append(news, <<"issued", i>>)

Receive ==
    /\ main.pc = "receive"
    /\ Ends \/ (\E i, j \in quic.live : Retires(i, j)) \/ UNCHANGED <<quic, news>>
    /\ main' = [main EXCEPT !.pc = "events"]
    /\ UNCHANGED <<chan, has, timer, linked, conns>>
\* The timer of any handler, also of one whose channel is closed.
HandleTimer(a) ==
    /\ main = Idle /\ timer[a]
    /\ timer' = [timer EXCEPT ![a] = FALSE]
    /\ Ends \/ UNCHANGED <<quic, news>>
    /\ main' = [pc |-> "events", at |-> a, first |-> FALSE]
    /\ UNCHANGED <<chan, has, linked, conns>>

IsEvent(e) == main.pc = "events" /\ news # <<>> /\ Head(news)[1] = e
Issued ==
    /\ IsEvent("issued") /\ news' = Tail(news)
    /\ conns' = conns \cup {Head(news)[2]}
    /\ UNCHANGED <<chan, has, timer, linked, quic, main>>
Retired ==
    /\ IsEvent("retired") /\ Head(news)[2] \in conns /\ news' = Tail(news)
    /\ conns' = conns \ {Head(news)[2]} /\ linked' = None
    /\ UNCHANGED <<chan, has, timer, quic, main>>
\* The connection's first id has never been in conns: KeyError.
RetiredFirst ==
    /\ IsEvent("retired") /\ Head(news)[2] \notin conns /\ news' = Tail(news)
    /\ chan' = Raised(main.at) /\ main' = Idle
    /\ UNCHANGED <<has, timer, linked, conns, quic>>
Terminated ==
    /\ IsEvent("terminated") /\ news' = Tail(news)
    /\ linked' = IF conns = {} THEN linked ELSE None
    /\ conns' = {}
    /\ chan' = [chan EXCEPT ![main.at] = IF @ = "open" THEN "closing" ELSE @]
    /\ UNCHANGED <<has, timer, quic, main>>
\* flush: what there is to send sets the timer, if the channel is there.
Flush ==
    /\ main.pc = "events" /\ news = <<>>
    /\ \/ UNCHANGED <<timer, quic, news>>
       \/ /\ chan[main.at] # "closed"
          /\ timer' = [timer EXCEPT ![main.at] = TRUE]
          /\ UNCHANGED <<quic, news>> \/ \E i \in quic.unissued : Issues(i)
    /\ main' = Idle
    /\ UNCHANGED <<chan, has, linked, conns>>

-----------------------------------------------------------------------------
ConnectionStep ==
    \/ Ignore \/ NewConnection \/ Migrate \/ MigrateFails
    \/ Receive \/ Issued \/ Retired \/ RetiredFirst \/ Terminated \/ Flush
Next == ConnectionStep \/ \E a \in Addresses : Datagram(a) \/ CloseChannel(a) \/ HandleTimer(a)

Spec == Init /\ [][Next]_quicVars

-----------------------------------------------------------------------------
(* Properties.                                                             *)

TypeOK ==
    /\ chan \in [Addresses -> {"none", "open", "stuck", "closing", "closed"}]
    /\ has \in [Addresses -> BOOLEAN] /\ timer \in [Addresses -> BOOLEAN]
    /\ linked \in {None} \cup Addresses /\ conns \subseteq Ids
    /\ quic.state \in {"none", "up", "terminated"}
    /\ quic.unissued \subseteq Ids /\ quic.live \subseteq Ids \cup {First}
    /\ main.pc \in {"idle", "make", "receive", "events"} /\ main.at \in {None} \cup Addresses

\* However often the client moves and whichever handler has taken the
\* connection's events, at most one open channel has the connection, and it is
\* the one the connection is linked to, but for a link an id's end has cut.
OneOpenChannel ==
    \A a, b \in Addresses :
        has[a] /\ IsOpen(a) =>
            /\ has[b] /\ IsOpen(b) => a = b
            /\ linked \in {None, a}
=============================================================================
