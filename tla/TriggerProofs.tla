--------------------------- MODULE TriggerProofs ---------------------------
(***************************************************************************)
(* Proofs about Trigger for any number of threads and thunks and a pipe of *)
(* any size: no wakeup is lost, and the list, the pipe and the batch       *)
(* implement Mailbox.                                                      *)
(***************************************************************************)
EXTENDS Trigger, SequenceTheorems, TLAPS

\* Appending to the second part of a concatenation.
LEMMA ConcatAppend ==
    ASSUME NEW S, NEW s \in Seq(S), NEW t \in Seq(S), NEW a \in S
    PROVE  s \o Append(t, a) = Append(s \o t, a)
  <1>1. <<a>> \in Seq(S) /\ s \o t \in Seq(S)
    BY ConcatProperties
  <1>2. Append(t, a) = t \o <<a>> /\ Append(s \o t, a) = (s \o t) \o <<a>>
    BY <1>1, AppendIsConcat
  <1>3. (s \o t) \o <<a>> = s \o (t \o <<a>>)
    BY <1>1, ConcatAssociative
  <1>4. QED
    BY <1>2, <1>3

\* Taking the first element of the first part of a concatenation.
LEMMA ConcatTail ==
    ASSUME NEW S, NEW s \in Seq(S), NEW t \in Seq(S), s # <<>>
    PROVE  /\ s \o t # <<>>
           /\ Head(s \o t) = Head(s)
           /\ Tail(s \o t) = Tail(s) \o t
  <1> DEFINE u == Tail(s \o t)
             v == Tail(s) \o t
  <1>1. /\ s \o t \in Seq(S) /\ Len(s \o t) = Len(s) + Len(t) /\ Len(s) > 0
        /\ s \o t # <<>> /\ Len(t) >= 0
    BY ConcatProperties
  <1>2. Tail(s) \in Seq(S) /\ Len(Tail(s)) = Len(s) - 1
    BY HeadTailProperties
  <1>3. u \in Seq(S) /\ Len(u) = Len(s) + Len(t) - 1
    BY <1>1, HeadTailProperties
  <1>4. v \in Seq(S) /\ Len(v) = Len(s) + Len(t) - 1
    BY <1>2, ConcatProperties
  <1>5. ASSUME NEW i \in 1..Len(u) PROVE u[i] = v[i]
    <2>1. u[i] = (s \o t)[i + 1]
      BY <1>1, <1>3, HeadTailProperties
    <2>2. v[i] = IF i <= Len(s) - 1 THEN Tail(s)[i] ELSE t[i - (Len(s) - 1)]
      BY <1>2, <1>3, <1>4, ConcatProperties
    <2>3. i <= Len(s) - 1 => Tail(s)[i] = s[i + 1]
      BY <1>2, HeadTailProperties
    <2>4. (s \o t)[i + 1] = IF i + 1 <= Len(s) THEN s[i + 1] ELSE t[i + 1 - Len(s)]
      BY <1>1, <1>3, ConcatProperties
    <2>5. i - (Len(s) - 1) = i + 1 - Len(s) /\ (i <= Len(s) - 1 <=> i + 1 <= Len(s))
      BY <1>1
    <2>6. QED
      BY <2>1, <2>2, <2>3, <2>4, <2>5
  <1> HIDE DEF u, v
  <1>6. u = v
    BY <1>3, <1>4, <1>5, SeqEqual
  <1>7. Head(s \o t) = Head(s)
    BY <1>1, ConcatProperties
  <1>8. QED
    BY <1>1, <1>6, <1>7 DEF u, v

\* The batch belongs to a handle_read that is running it.
BatchIsRunning == main # "run" => batch = <<>>

\* Only thunks already handed over are anywhere.
HandedOver(s) == \A i \in 1..Len(s) : s[i][2] <= pulled[s[i][1]]
AllHandedOver == HandedOver(thunks) /\ HandedOver(batch) /\ HandedOver(ran)

IInv == TypeOK /\ NoLostWakeup /\ BatchIsRunning /\ AllHandedOver

\* Nothing has been handed over at the start.
THEOREM InitIInv == Init => IInv
  <1> SUFFICES ASSUME Init PROVE IInv
    OBVIOUS
  <1>1. <<>> \in Seq(Thunks)
    OBVIOUS
  <1>2. TypeOK
    BY <1>1, TriggerAssumption DEF Init, TypeOK
  <1>3. NoLostWakeup /\ BatchIsRunning /\ AllHandedOver
    BY DEF Init, NoLostWakeup, BatchIsRunning, AllHandedOver, HandedOver
  <1>4. QED
    BY <1>2, <1>3 DEF IInv

\* The next thunk of a writer is one of the thunks.
LEMMA NewThunk ==
    ASSUME TypeOK, NEW w \in Writers, pulled[w] < MaxPulls
    PROVE  /\ <<w, pulled[w] + 1>> \in Thunks
           /\ pulled[w] + 1 \in 0..MaxPulls
  BY TriggerAssumption DEF TypeOK, Thunks

\* A thunk names its writer and its number.
LEMMA ThunkParts ==
    ASSUME NEW s \in Seq(Thunks), NEW i \in 1..Len(s)
    PROVE  s[i][1] \in Writers /\ s[i][2] \in Nat
  <1>1. s[i] \in Thunks
    OBVIOUS
  <1>2. QED
    BY <1>1, TriggerAssumption DEF Thunks

\* Handing over one more thunk leaves those handed over what they are.
LEMMA StillHandedOver ==
    ASSUME TypeOK, NEW w \in Writers, NEW s \in Seq(Thunks), HandedOver(s),
           pulled' = [pulled EXCEPT ![w] = pulled[w] + 1]
    PROVE  \A i \in 1..Len(s) : s[i][2] <= pulled'[s[i][1]]
  BY ThunkParts, TriggerAssumption DEF TypeOK, HandedOver

\* Appending a thunk preserves the invariant.
LEMMA PullStep ==
    ASSUME IInv, NEW w \in Writers, Pull(w)
    PROVE  IInv'
  <1> USE DEF IInv
  <1>1. /\ <<w, pulled[w] + 1>> \in Thunks
        /\ pulled[w] + 1 \in 0..MaxPulls
        /\ thunks' = Append(thunks, <<w, pulled[w] + 1>>)
        /\ pulled' = [pulled EXCEPT ![w] = pulled[w] + 1]
        /\ shutting' = shutting \cup {w}
        /\ UNCHANGED <<pipe, main, batch, ran>>
    BY NewThunk DEF Pull, AppendThunk
  <1>2. TypeOK'
    <2>1. thunks' \in Seq(Thunks)
      BY <1>1, AppendProperties DEF TypeOK
    <2>2. QED
      BY <1>1, <2>1 DEF TypeOK
  <1>3. NoLostWakeup'
    BY <1>1 DEF NoLostWakeup
  <1>4. BatchIsRunning'
    BY <1>1 DEF BatchIsRunning
  <1>5. AllHandedOver'
    <2>1. HandedOver(batch)' /\ HandedOver(ran)'
      BY <1>1, StillHandedOver DEF AllHandedOver, HandedOver, TypeOK
    <2>2. ASSUME NEW i \in 1..Len(thunks') PROVE thunks'[i][2] <= pulled'[thunks'[i][1]]
      <3>0. thunks \in Seq(Thunks) /\ Len(thunks') = Len(thunks) + 1
        BY <1>1, AppendProperties DEF TypeOK
      <3>1. CASE i <= Len(thunks)
        <4>1. thunks'[i] = thunks[i]
          BY <1>1, <3>0, <3>1, AppendProperties
        <4>2. \A j \in 1..Len(thunks) : thunks[j][2] <= pulled'[thunks[j][1]]
          BY <1>1, <3>0, StillHandedOver DEF AllHandedOver
        <4>3. i \in 1..Len(thunks)
          BY <3>0, <3>1
        <4>4. QED
          BY <4>1, <4>2, <4>3
      <3>2. CASE i = Len(thunks) + 1
        <4>1. thunks'[i] = <<w, pulled[w] + 1>>
          BY <1>1, <3>0, <3>2, AppendProperties
        <4>2. QED
          BY <1>1, <4>1 DEF TypeOK
      <3>3. QED
        BY <3>0, <3>1, <3>2
    <2>3. QED
      BY <2>1, <2>2 DEF AllHandedOver, HandedOver
  <1>6. QED
    BY <1>2, <1>3, <1>4, <1>5

\* Running the first thunk of the batch preserves the invariant.
LEMMA RunThunkStep ==
    ASSUME IInv, RunThunk
    PROVE  IInv'
  <1> USE DEF IInv
  <1>1. /\ Head(batch) \in Thunks /\ Tail(batch) \in Seq(Thunks)
        /\ Len(Tail(batch)) = Len(batch) - 1 /\ Len(batch) > 0
        /\ Head(batch) = batch[1]
        /\ \A i \in 1..Len(Tail(batch)) : Tail(batch)[i] = batch[i + 1]
    BY HeadTailProperties DEF RunThunk, TypeOK
  <1>2. TypeOK'
    <2>1. ran' \in Seq(Thunks)
      BY <1>1, AppendProperties DEF RunThunk, TypeOK
    <2>2. QED
      BY <1>1, <2>1 DEF RunThunk, TypeOK
  <1>3. NoLostWakeup' /\ BatchIsRunning'
    BY DEF RunThunk, NoLostWakeup, BatchIsRunning
  <1>4. HandedOver(thunks)' /\ UNCHANGED pulled
    BY DEF RunThunk, AllHandedOver, HandedOver
  <1>5. HandedOver(batch)'
    <2>1. batch' = Tail(batch)
      BY DEF RunThunk
    <2>2. QED
      BY <1>1, <1>4, <2>1 DEF AllHandedOver, HandedOver
  <1>6. HandedOver(ran)'
    <2>0. ran \in Seq(Thunks)
      BY DEF TypeOK
    <2>1. ran' = Append(ran, Head(batch))
      BY DEF RunThunk
    <2>2. Len(ran') = Len(ran) + 1
      BY <1>1, <2>0, <2>1, AppendProperties
    <2>3. \A i \in 1..Len(ran) : ran'[i] = ran[i]
      BY <1>1, <2>0, <2>1, AppendProperties
    <2>4. ran'[Len(ran) + 1] = batch[1]
      BY <1>1, <2>0, <2>1, AppendProperties
    <2>5. QED
      BY <1>1, <1>4, <2>0, <2>2, <2>3, <2>4 DEF AllHandedOver, HandedOver
  <1>7. QED
    BY <1>2, <1>3, <1>4, <1>5, <1>6 DEF AllHandedOver

\* Every step of the threads and of handle_read preserves the invariant.
THEOREM NextIInv == IInv /\ [Next]_vars => IInv'
  <1> SUFFICES ASSUME IInv, [Next]_vars PROVE IInv'
    OBVIOUS
  <1> USE TriggerAssumption DEF IInv, TypeOK
  <1>1. ASSUME NEW w \in Writers, PullEmpty(w) PROVE IInv'
    BY <1>1 DEF PullEmpty, NoLostWakeup, BatchIsRunning, AllHandedOver, HandedOver
  <1>2. ASSUME NEW w \in Writers, Shut(w) PROVE IInv'
    <2>1. pipe' \in 1..PipeSize
      BY <1>2 DEF Shut
    <2>2. TypeOK' /\ NoLostWakeup' /\ BatchIsRunning'
      BY <1>2, <2>1 DEF Shut, NoLostWakeup, BatchIsRunning
    <2>3. AllHandedOver'
      BY <1>2 DEF Shut, AllHandedOver, HandedOver
    <2>4. QED
      BY <2>2, <2>3
  <1>3. CASE Recv
    BY <1>3 DEF Recv, NoLostWakeup, BatchIsRunning, AllHandedOver, HandedOver
  <1>4. CASE Swap
    <2>1. <<>> \in Seq(Thunks)
      OBVIOUS
    <2>2. TypeOK' /\ NoLostWakeup' /\ BatchIsRunning'
      BY <1>4, <2>1 DEF Swap, NoLostWakeup, BatchIsRunning
    <2>3. batch' = thunks /\ Len(thunks') = 0 /\ UNCHANGED <<pulled, ran>>
      BY <1>4 DEF Swap
    <2>4. AllHandedOver'
      BY <2>3 DEF AllHandedOver, HandedOver
    <2>5. QED
      BY <2>2, <2>4
  <1>5. CASE EndRead
    BY <1>5 DEF EndRead, NoLostWakeup, BatchIsRunning, AllHandedOver, HandedOver
  <1>6. CASE UNCHANGED vars
    BY <1>6 DEF vars, NoLostWakeup, BatchIsRunning, AllHandedOver, HandedOver
  <1>7. QED
    BY <1>1, <1>2, <1>3, <1>4, <1>5, <1>6, PullStep, RunThunkStep DEF Next

\* The inductive invariant holds throughout.
THEOREM Invariant == Spec => []IInv
  BY InitIInv, NextIInv, PTL DEF Spec

\* The list, the pipe, the batch and the thunks run keep their types.
THEOREM TypeCorrect == Spec => []TypeOK
  <1>1. IInv => TypeOK
    BY DEF IInv
  <1>2. QED
    BY <1>1, Invariant, PTL

\* No wakeup is lost, for any number of threads.
THEOREM WakeupsAreKept == Spec => []NoLostWakeup
  <1>1. IInv => NoLostWakeup
    BY DEF IInv
  <1>2. QED
    BY <1>1, Invariant, PTL

-----------------------------------------------------------------------------
(* The refinement.                                                         *)

\* Every step of the trigger is a Put, a Run or nothing to the mailbox.
LEMMA StepRefines ==
    ASSUME IInv, [Next]_vars
    PROVE  [(\E x \in Thunks : Box!Put(x)) \/ Box!Run]_(Box!bvars)
  <1> USE DEF IInv
  <1>0. thunks \in Seq(Thunks) /\ batch \in Seq(Thunks) /\ ran \in Seq(Thunks)
    BY DEF TypeOK
  <1>1. ASSUME UNCHANGED <<thunks, batch, ran>> PROVE UNCHANGED Box!bvars
    BY <1>1 DEF Box!bvars
  <1>2. ASSUME NEW w \in Writers, Pull(w) PROVE \E x \in Thunks : Box!Put(x)
    <2> DEFINE x == <<w, pulled[w] + 1>>
               all == (batch \o thunks) \o ran
    <2>1. x \in Thunks /\ pulled[w] \in Nat
      BY <1>2, NewThunk, TriggerAssumption DEF Pull, TypeOK
    <2>2. thunks' = Append(thunks, x) /\ UNCHANGED <<batch, ran>>
      BY <1>2 DEF Pull, AppendThunk
    <2>3. batch' \o thunks' = Append(batch \o thunks, x)
      <3> HIDE DEF x
      <3>1. batch \o Append(thunks, x) = Append(batch \o thunks, x)
        BY <1>0, <2>1, ConcatAppend
      <3>2. QED
        BY <2>2, <3>1
    <2>4. ASSUME NEW i \in 1..Len(all) PROVE all[i] # x
      <3>1. batch \o thunks \in Seq(Thunks) /\ Len(batch \o thunks) = Len(batch) + Len(thunks)
        BY <1>0, ConcatProperties
      <3>2. /\ Len(all) = Len(batch) + Len(thunks) + Len(ran)
            /\ all[i] = IF i <= Len(batch \o thunks) THEN (batch \o thunks)[i]
                        ELSE ran[i - Len(batch \o thunks)]
        BY <1>0, <3>1, ConcatProperties
      <3>3. i <= Len(batch) + Len(thunks) =>
              (batch \o thunks)[i] = IF i <= Len(batch) THEN batch[i] ELSE thunks[i - Len(batch)]
        BY <1>0, <3>1, ConcatProperties
      <3> HIDE DEF all
      <3>4. Len(batch) \in Nat /\ Len(thunks) \in Nat /\ Len(ran) \in Nat
        BY <1>0
      <3>5. \/ \E j \in 1..Len(batch) : all[i] = batch[j]
            \/ \E j \in 1..Len(thunks) : all[i] = thunks[j]
            \/ \E j \in 1..Len(ran) : all[i] = ran[j]
        <4>1. CASE i <= Len(batch)
          BY <3>1, <3>2, <3>3, <3>4, <4>1
        <4>2. CASE i > Len(batch) /\ i <= Len(batch) + Len(thunks)
          <5>1. i - Len(batch) \in 1..Len(thunks) /\ all[i] = thunks[i - Len(batch)]
            BY <3>1, <3>2, <3>3, <3>4, <4>2
          <5>2. QED
            BY <5>1
        <4>3. CASE i > Len(batch) + Len(thunks)
          <5>1. /\ i - (Len(batch) + Len(thunks)) \in 1..Len(ran)
                /\ all[i] = ran[i - (Len(batch) + Len(thunks))]
            BY <3>1, <3>2, <3>4, <4>3
          <5>2. QED
            BY <5>1
        <4>4. QED
          BY <3>2, <3>4, <4>1, <4>2, <4>3
      <3>6. all[i][2] <= pulled[all[i][1]]
        BY <3>5 DEF AllHandedOver, HandedOver
      <3>7. QED
        BY <2>1, <3>6
    <2>5. Box!Put(x)
      <3> HIDE DEF x
      <3>1. QED
        BY <2>2, <2>3, <2>4 DEF Box!Put
    <2>6. QED
      BY <2>1, <2>5
  <1>3. CASE Swap
    <2>1. batch = <<>> /\ batch' = thunks /\ thunks' = <<>> /\ ran' = ran
      BY <1>3 DEF Swap, BatchIsRunning
    <2>2. batch' \o thunks' = batch \o thunks
      BY <1>0, <2>1, ConcatEmptySeq
    <2>3. QED
      BY <2>1, <2>2 DEF Box!bvars
  <1>4. CASE RunThunk
    <2>1. /\ batch # <<>> /\ batch' = Tail(batch) /\ thunks' = thunks
          /\ ran' = Append(ran, Head(batch))
      BY <1>4 DEF RunThunk
    <2>2. /\ batch \o thunks # <<>>
          /\ Head(batch \o thunks) = Head(batch)
          /\ Tail(batch \o thunks) = Tail(batch) \o thunks
      BY <1>0, <2>1, ConcatTail
    <2>3. Box!Run
      BY <2>1, <2>2 DEF Box!Run
    <2>4. QED
      BY <2>3
  <1>5. ASSUME NEW w \in Writers, PullEmpty(w) \/ Shut(w) PROVE UNCHANGED Box!bvars
    BY <1>1, <1>5 DEF PullEmpty, Shut
  <1>6. CASE Recv \/ EndRead \/ UNCHANGED vars
    BY <1>1, <1>6 DEF Recv, EndRead, vars
  <1>7. QED
    BY <1>2, <1>3, <1>4, <1>5, <1>6 DEF Next

\* The trigger is a mailbox: each thunk is run once, in the order in which
\* the threads handed them over.
THEOREM TriggerIsMailbox == Spec => DeliversThunks
  <1>1. Init => Box!Empty
    BY ConcatEmptySeq DEF Init, Box!Empty
  <1>2. IInv /\ [Next]_vars => [(\E x \in Thunks : Box!Put(x)) \/ Box!Run]_(Box!bvars)
    BY StepRefines
  <1>3. QED
    BY <1>1, <1>2, Invariant, PTL DEF Spec, DeliversThunks, Box!Delivery
=============================================================================
