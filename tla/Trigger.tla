------------------------------ MODULE Trigger ------------------------------
(***************************************************************************)
(* backbone/threaded/select_trigger: how a thread gets the main thread to  *)
(* run a thunk.  pull_trigger appends the thunk to a list under a lock and *)
(* then writes a byte to a pipe; the main thread, whose poll finds the     *)
(* pipe readable, reads up to 4096 bytes, takes the whole list under the   *)
(* lock and runs it.  Between any two of these steps any other thread may  *)
(* do one of its own.                                                      *)
(***************************************************************************)
EXTENDS Integers, Sequences

CONSTANTS
    Writers,    \* the threads that call wakeup (the main thread may be one)
    Main,       \* the main thread
    MaxPulls,   \* bound: calls of wakeup per writer
    PipeSize,   \* bytes the pipe holds (65536); a write to a full pipe blocks
    RecvSize    \* bytes one recv takes (4096)

ASSUME TriggerAssumption ==
    /\ MaxPulls \in Nat
    /\ PipeSize \in Nat \ {0}
    /\ RecvSize \in Nat \ {0}

VARIABLES
    thunks,     \* base_trigger.thunks
    pipe,       \* bytes in the pipe
    pulled,     \* thunks each writer has handed over
    shutting,   \* writers between append and os.write
    main,       \* "poll", or in handle_read: "swap", "run"
    batch,      \* the list handle_read took
    ran         \* thunks run (history)

vars == <<thunks, pipe, pulled, shutting, main, batch, ran>>

\* The k-th thunk of a writer.
Thunks == Writers \X (1..MaxPulls)

Init ==
    /\ thunks = <<>> /\ pipe = 0
    /\ pulled = [w \in Writers |-> 0]
    /\ shutting = {}
    /\ main = "poll" /\ batch = <<>> /\ ran = <<>>

\* The main thread pulls the trigger from another handler or from a thunk.
MayPull(w) == w \notin shutting /\ (w = Main => main \in {"poll", "run"})

AppendThunk(w) ==
    /\ pulled' = [pulled EXCEPT ![w] = @ + 1]
    /\ thunks' = Append(thunks, <<w, pulled[w] + 1>>)

PullUnlessAwake(w) ==
    /\ MayPull(w) /\ pulled[w] < MaxPulls
    /\ AppendThunk(w)
    /\ shutting' = IF main = "poll" THEN shutting \cup {w} ELSE shutting
    /\ UNCHANGED <<pipe, main, batch, ran>>

\* pull_trigger(thunk): the append.
Pull(w) ==
    /\ MayPull(w) /\ pulled[w] < MaxPulls
    /\ AppendThunk(w)
    /\ shutting' = shutting \cup {w}
    /\ UNCHANGED <<pipe, main, batch, ran>>

\* pull_trigger(): wakeselect only wants the poll to return.
PullEmpty(w) ==
    /\ MayPull(w)
    /\ shutting' = shutting \cup {w}
    /\ UNCHANGED <<thunks, pipe, pulled, main, batch, ran>>

\* shut: the byte.
Shut(w) ==
    /\ w \in shutting /\ pipe < PipeSize
    /\ pipe' = pipe + 1
    /\ shutting' = shutting \ {w}
    /\ UNCHANGED <<thunks, pulled, main, batch, ran>>

\* handle_read: recv.
Recv ==
    /\ main = "poll" /\ Main \notin shutting /\ pipe > 0
    /\ pipe' = IF pipe > RecvSize THEN pipe - RecvSize ELSE 0
    /\ main' = "swap"
    /\ UNCHANGED <<thunks, pulled, shutting, batch, ran>>

SwapKeeps ==
    /\ main = "swap"
    /\ batch' = thunks
    /\ main' = "run"
    /\ UNCHANGED <<thunks, pipe, pulled, shutting, ran>>

\* handle_read: thunks, self.thunks = self.thunks, [].
Swap ==
    /\ main = "swap"
    /\ batch' = thunks /\ thunks' = <<>>
    /\ main' = "run"
    /\ UNCHANGED <<pipe, pulled, shutting, ran>>

\* handle_read: the next thunk of the batch; what it raises is logged.
RunThunk ==
    /\ main = "run" /\ Main \notin shutting /\ batch # <<>>
    /\ ran' = Append(ran, Head(batch))
    /\ batch' = Tail(batch)
    /\ UNCHANGED <<thunks, pipe, pulled, shutting, main>>

EndRead ==
    /\ main = "run" /\ Main \notin shutting /\ batch = <<>>
    /\ main' = "poll"
    /\ UNCHANGED <<thunks, pipe, pulled, shutting, batch, ran>>

Next == \/ \E w \in Writers : Pull(w) \/ PullEmpty(w) \/ Shut(w)
        \/ Recv \/ Swap \/ RunThunk \/ EndRead

Spec == Init /\ [][Next]_vars

\* The poll reports a readable pipe, handle_read runs to its end, and a
\* thread that has appended its thunk goes on to the write.  Nobody has to
\* pull the trigger again.
Fairness ==
    /\ WF_vars(Recv) /\ WF_vars(Swap) /\ WF_vars(RunThunk) /\ WF_vars(EndRead)
    /\ \A w \in Writers : WF_vars(Shut(w))

FairSpec == Spec /\ Fairness
-----------------------------------------------------------------------------
(* Properties.                                                             *)

TypeOK ==
    /\ thunks \in Seq(Thunks) /\ batch \in Seq(Thunks) /\ ran \in Seq(Thunks)
    /\ pipe \in 0..PipeSize
    /\ pulled \in [Writers -> 0..MaxPulls]
    /\ shutting \subseteq Writers
    /\ main \in {"poll", "swap", "run"}

\* No wakeup is lost: while a thunk waits in the list, the pipe is readable,
\* or a thread is about to write to it, or the main thread is about to take
\* the list.  (The recv must come before the swap for this.)
NoLostWakeup ==
    thunks # <<>> => pipe > 0 \/ shutting # {} \/ main = "swap"

\* The list and the batch are one mailbox.
Box == INSTANCE Mailbox WITH box <- batch \o thunks
DeliversThunks == Box!Delivery

\* Every thunk handed over is run, unless the main thread blocks for good: a
\* handler that pulls the trigger while the pipe is full waits for a reader,
\* and it is the reader.
MainBlocks == Main \in shutting /\ pipe = PipeSize
EveryThunkRuns ==
    \A w \in Writers : \A k \in 1..MaxPulls :
        pulled[w] >= k ~> MainBlocks \/ \E i \in 1..Len(ran) : ran[i] = <<w, k>>
=============================================================================
