------------------------- MODULE ConnectionContract -------------------------
(***************************************************************************)
(* What a connection promises its client, without threads, queues, thunks  *)
(* or timeouts: requests are taken one at a time and in the order they     *)
(* were sent, every request is answered at most once, answers arrive in    *)
(* the order of the requests, and nothing arrives once the connection is   *)
(* closed.  A connection may close at any time and then owes nothing.      *)
(***************************************************************************)
EXTENDS Naturals, Sequences

CONSTANTS Channels, MaxReq

VARIABLES
    open,       \* the connection is up
    taken,      \* numbers of the requests taken
    pending,    \* the request being worked on, 0 for none
    owed,       \* requests answered whose answer is still to be delivered
    delivered   \* requests whose answer the client has, oldest first

cvars == <<open, taken, pending, owed, delivered>>

Start ==
    /\ open = [c \in Channels |-> TRUE]
    /\ taken = [c \in Channels |-> {}]
    /\ pending = [c \in Channels |-> 0]
    /\ owed = [c \in Channels |-> <<>>]
    /\ delivered = [c \in Channels |-> <<>>]

\* Requests are taken in the order they were sent, some may be passed over.
Fresh(c, n) == \A m \in taken[c] : m < n

Take(c, n) ==
    /\ open[c] /\ pending[c] = 0 /\ Fresh(c, n)
    /\ taken' = [taken EXCEPT ![c] = @ \cup {n}]
    /\ pending' = [pending EXCEPT ![c] = n]
    /\ UNCHANGED <<open, owed, delivered>>

\* A request answered the moment it is taken.
TakeAndAnswer(c, n) ==
    /\ open[c] /\ pending[c] = 0 /\ Fresh(c, n)
    /\ taken' = [taken EXCEPT ![c] = @ \cup {n}]
    /\ owed' = [owed EXCEPT ![c] = Append(@, n)]
    /\ UNCHANGED <<open, pending, delivered>>

GiveAnswer(c) ==
    /\ open[c] /\ pending[c] # 0
    /\ owed' = [owed EXCEPT ![c] = Append(@, pending[c])]
    /\ pending' = [pending EXCEPT ![c] = 0]
    /\ UNCHANGED <<open, taken, delivered>>

Deliver(c) ==
    /\ open[c] /\ owed[c] # <<>>
    /\ delivered' = [delivered EXCEPT ![c] = Append(@, Head(owed[c]))]
    /\ owed' = [owed EXCEPT ![c] = Tail(@)]
    /\ UNCHANGED <<open, taken, pending>>

Close(c) ==
    /\ open[c]
    /\ open' = [open EXCEPT ![c] = FALSE]
    /\ pending' = [pending EXCEPT ![c] = 0]
    /\ owed' = [owed EXCEPT ![c] = <<>>]
    /\ UNCHANGED <<taken, delivered>>

Step(c) == \/ \E n \in 1..MaxReq : Take(c, n) \/ TakeAndAnswer(c, n)
           \/ GiveAnswer(c) \/ Deliver(c) \/ Close(c)

Contract == Start /\ [][\E c \in Channels : Step(c)]_cvars
=============================================================================
