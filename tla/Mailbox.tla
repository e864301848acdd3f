------------------------------ MODULE Mailbox ------------------------------
(***************************************************************************)
(* What the trigger promises: a thunk put in by any thread is run by the   *)
(* main thread, once, in the order in which the thunks were put in.        *)
(***************************************************************************)
EXTENDS Naturals, Sequences

CONSTANT Thunks

VARIABLES
    box,    \* thunks put in and not yet run
    ran     \* thunks run, oldest first

bvars == <<box, ran>>

Empty == box = <<>> /\ ran = <<>>

Put(x) ==
    /\ \A i \in 1..Len(box \o ran) : (box \o ran)[i] # x
    /\ box' = Append(box, x)
    /\ UNCHANGED ran

Run ==
    /\ box # <<>>
    /\ ran' = Append(ran, Head(box))
    /\ box' = Tail(box)

Delivery == Empty /\ [][(\E x \in Thunks : Put(x)) \/ Run]_bvars
=============================================================================
