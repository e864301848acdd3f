----------------------- MODULE WorkerSupervisorProofs -----------------------
(***************************************************************************)
(* Proofs about WorkerSupervisor for any number of workers, processes,     *)
(* deaths and signals: the type invariant, every child has a slot, hCHLD   *)
(* never waits for nothing, never more than numworker children exist, and  *)
(* ACTIVE_WORKERS agrees with the slots.                                   *)
(***************************************************************************)
EXTENDS WorkerSupervisor, SequenceTheorems, FiniteSetTheorems, TLAPS

\* From its choice of a slot to the entry of the child nobody else takes it.
SlotIsReserved ==
    master.pc \in {"fork", "install", "look", "enter", "occupy"} =>
        master.slot \in Slots /\ ids[master.slot] = None
HasPid == Entering => master.pid \in Pids

\* Once the server is stopping SIGCHLD is ignored, and then none is pending.
StoppingIgnores == (~survail => ignored) /\ (ignored => ~chld)

\* Pids are given out in order.
NotYetForked == \A p \in Pids : p > forks => proc[p] = "unborn"

Rest == /\ SlotIsReserved /\ HasPid /\ NotYetForked /\ SlotsCoverChildren
        /\ StoppingIgnores /\ WaitpidReturns
IInv == TypeOK /\ Rest

\* A set of processes has a size.
LEMMA PidsFinite == \A S \in SUBSET Pids : IsFiniteSet(S) /\ Cardinality(S) \in Nat
  <1>1. IsFiniteSet(Pids)
    BY FS_Interval, WorkerSupervisorAssumption DEF Pids
  <1>2. QED
    BY <1>1, FS_Subset, FS_CardinalityType

\* The initial state has no process and all slots free.
THEOREM InitIInv == Init => IInv
  <1> SUFFICES ASSUME Init PROVE IInv
    OBVIOUS
  <1>1. TypeOK
    <2>1. /\ master \in [pc : MasterPc, slot : 0..NumWorkers, pid : 0..MaxPids, count : Int]
          /\ frames \in Seq(Int) /\ overwritten \in BOOLEAN
          /\ forks \in 0..MaxPids /\ deaths \in 0..MaxDeaths /\ hups \in 0..MaxHups
      <3>1. <<>> \in Seq(Int)
        BY EmptySeq
      <3>2. frames = <<>> /\ overwritten = FALSE
        BY Zenon DEF Init
      <3>3. /\ master \in [pc : MasterPc, slot : 0..NumWorkers, pid : 0..MaxPids, count : Int]
            /\ forks \in 0..MaxPids /\ deaths \in 0..MaxDeaths /\ hups \in 0..MaxHups
        BY WorkerSupervisorAssumption DEF Init, AtLoop, MasterPc
      <3>4. QED
        BY <3>1, <3>2, <3>3
    <2>2. /\ survail \in BOOLEAN /\ installed \in BOOLEAN /\ ignored \in BOOLEAN
          /\ chld \in BOOLEAN
      BY DEF Init
    <2>3. /\ active \in Int /\ tomaster \subseteq Signals
          /\ ids \in [Slots -> Pids \cup {None}]
          /\ table \in [Pids -> {"absent", "live", "none"}]
      BY DEF Init
    <2>4. /\ proc \in [Pids -> ProcStates] /\ tell \in [Pids -> SUBSET Signals]
          /\ copy \in [Pids -> SUBSET Pids] /\ status \in [Pids -> Statuses]
      <3>1. "unborn" \in ProcStates /\ "crash" \in Statuses
        BY DEF ProcStates, Statuses
      <3>2. {} \in SUBSET Signals /\ {} \in SUBSET Pids
        OBVIOUS
      <3>3. QED
        BY <3>1, <3>2 DEF Init
    <2>5. QED
      BY <2>1, <2>2, <2>3, <2>4 DEF TypeOK
  <1>2. SlotIsReserved /\ HasPid /\ NotYetForked
    BY DEF Init, SlotIsReserved, HasPid, Entering, AtLoop, NotYetForked
  <1>3. SlotsCoverChildren
    BY DEF Init, SlotsCoverChildren, Alive
  <1>4. StoppingIgnores /\ WaitpidReturns
    <2> SUFFICES WaitpidReturns
      BY DEF Init, StoppingIgnores
    <2>1. Zombies \in SUBSET Pids
      BY DEF Zombies
    <2>2. Cardinality(Zombies) \in Nat
      BY <2>1, PidsFinite
    <2>3. frames = <<>> /\ ~chld
      BY DEF Init
    <2>4. Len(frames) = 0
      BY <2>3
    <2>5. QED
      BY <2>2, <2>3, <2>4 DEF WaitpidReturns
  <1>5. QED
    BY <1>1, <1>2, <1>3, <1>4 DEF IInv, Rest

-----------------------------------------------------------------------------
(* Each kind of step preserves the types.                                  *)

\* The master's own steps preserve the types.
LEMMA MasterTypes ==
    ASSUME TypeOK, HasPid, SlotIsReserved, MasterStep
    PROVE  TypeOK'
  <1> USE WorkerSupervisorAssumption DEF TypeOK, MasterPc, Slots, Pids, ProcStates, Alive
  <1>1. CASE BeginFork
    <2>1. PICK i \in Slots : master' = [AtLoop EXCEPT !.pc = "fork", !.slot = i]
      BY <1>1 DEF BeginFork
    <2>2. master' \in [pc : MasterPc, slot : 0..NumWorkers, pid : 0..MaxPids, count : Int]
      <3>1. master' = [pc |-> "fork", slot |-> i, pid |-> 0, count |-> 0]
        BY <2>1 DEF AtLoop
      <3>2. i \in 0..NumWorkers /\ 0 \in 0..MaxPids
        OBVIOUS
      <3>3. QED
        BY <3>1, <3>2
    <2>3. QED
      BY <1>1, <2>2 DEF BeginFork, masterVars, workerVars, bounds
  <1>2. CASE Fork
    <2>1. forks + 1 \in Pids
      BY <1>2 DEF Fork
    <2>2. Entered \in SUBSET Pids
      BY DEF Entered
    <2>3. master' \in [pc : MasterPc, slot : 0..NumWorkers, pid : 0..MaxPids, count : Int]
      <3>1. master' = [master EXCEPT !.pc = "install", !.pid = forks + 1]
        BY <1>2 DEF Fork
      <3>2. "install" \in MasterPc /\ forks + 1 \in 0..MaxPids
        BY <2>1
      <3>3. QED
        BY <3>1, <3>2
    <2>4. copy' \in [Pids -> SUBSET Pids]
      BY <1>2, <2>1, <2>2 DEF Fork
    <2>5. proc' \in [Pids -> ProcStates]
      BY <1>2, <2>1 DEF Fork
    <2>6. forks' \in 0..MaxPids
      BY <1>2, <2>1 DEF Fork
    <2>7. QED
      BY <1>2, <2>3, <2>4, <2>5, <2>6 DEF Fork, bounds
  <1>3. CASE Install
    BY <1>3 DEF Install, workerVars, bounds
  <1>4. CASE Look
    BY <1>4 DEF Look, masterVars, workerVars, bounds
  <1>5. CASE Enter
    <2>1. master.pid \in Pids
      BY <1>5 DEF Enter, HasPid, Entering
    <2>2. QED
      BY <1>5, <2>1 DEF Enter, workerVars, bounds
  <1>6. CASE Occupy
    <2>1. master.pid \in Pids /\ master.slot \in Slots
      BY <1>6 DEF Occupy, HasPid, Entering, SlotIsReserved
    <2>2. QED
      BY <1>6, <2>1 DEF Occupy, workerVars, bounds
  <1>7. CASE Load
    BY <1>7 DEF Load, masterVars, workerVars, bounds
  <1>8. CASE Store
    <2>1. master.count + 1 \in Int
      OBVIOUS
    <2>2. QED
      BY <1>8, <2>1 DEF Store, AtLoop, workerVars, bounds
  <1>9. CASE Leave
    BY <1>9 DEF Leave, KillChildren, masterVars, bounds
  <1>10. QED
    BY <1>1, <1>2, <1>3, <1>4, <1>5, <1>6, <1>7, <1>8, <1>9 DEF MasterStep

\* Telling workers a signal leaves a set of signals for each.
LEMMA TellTypes ==
    ASSUME TypeOK, NEW sig \in Signals, NEW ps, Tell(ps, sig)
    PROVE  tell' \in [Pids -> SUBSET Signals]
  BY DEF TypeOK, Tell

\* One hCHLD more runs: its count is the last of the frames.
LEMMA FramesPush ==
    ASSUME TypeOK, frames' = Append(frames, active)
    PROVE  /\ frames' \in Seq(Int) /\ Len(frames') = Len(frames) + 1 /\ Len(frames) \in Nat
           /\ \A i \in 1..Len(frames) : frames'[i] = frames[i]
           /\ frames'[Len(frames) + 1] = active
           /\ \A i \in 1..Len(frames) : frames[i] \in Int
  <1>1. frames \in Seq(Int) /\ active \in Int
    BY DEF TypeOK
  <1>2. QED
    BY <1>1, AppendProperties

\* An hCHLD ends: it was the last to begin.
LEMMA FramesPop ==
    ASSUME TypeOK, frames # <<>>, frames' = SubSeq(frames, 1, Len(frames) - 1)
    PROVE  /\ frames' \in Seq(Int) /\ Len(frames') = Len(frames) - 1
           /\ Len(frames) \in Nat \ {0} /\ frames[Len(frames)] \in Int
           /\ frames[Len(frames)] - 1 \in Int
           /\ \A i \in 1..Len(frames) : frames[i] \in Int
           /\ \A i \in 1..(Len(frames) - 1) : frames'[i] = frames[i]
  <1>1. frames \in Seq(Int)
    BY DEF TypeOK
  <1>2. Len(frames) \in Nat \ {0} /\ \A i \in 1..Len(frames) : frames[i] \in Int
    BY <1>1, EmptySeq, LenProperties, ElementOfSeq
  <1>3. 1 \in Int /\ Len(frames) - 1 \in Int /\ \A i \in 1..(Len(frames) - 1) : frames[i] \in Int
    BY <1>2
  <1>4. /\ frames' \in Seq(Int)
        /\ Len(frames') = Len(frames) - 1
        /\ \A i \in 1..(Len(frames) - 1) : frames'[i] = frames[i]
    <2> DEFINE k == Len(frames) - 1
    <2>1. /\ SubSeq(frames, 1, k) \in Seq(Int)
          /\ Len(SubSeq(frames, 1, k)) = IF 1 <= k THEN k - 1 + 1 ELSE 0
          /\ \A i \in 1..(k - 1 + 1) : SubSeq(frames, 1, k)[i] = frames[1 + i - 1]
      BY <1>3, SubSeqProperties
    <2>2. k \in Nat /\ \A i \in 1..k : i \in 1..(k - 1 + 1) /\ 1 + i - 1 = i
      BY <1>2
    <2>3. \A i \in 1..(Len(frames) - 1) : frames'[i] = frames[i]
      BY <2>1, <2>2
    <2>4. Len(frames') = k
      <3>1. frames' = SubSeq(frames, 1, k) /\ k = Len(frames) - 1
        OBVIOUS
      <3> HIDE DEF k
      <3>2. QED
        BY <2>1, <2>2, <3>1
    <2>5. QED
      BY <2>1, <2>3, <2>4
  <1>5. QED
    BY <1>2, <1>4

\* The signal handlers preserve the types.
LEMMA HandlerTypes ==
    ASSUME TypeOK, Handler
    PROVE  TypeOK'
  <1> USE WorkerSupervisorAssumption DEF TypeOK
  <1>1. CASE EndChild
    <2>1. PICK p \in Pids :
            /\ proc' = [proc EXCEPT ![p] = "gone"]
            /\ \/ survail' = FALSE /\ DoShutdown("TERM") /\ UNCHANGED <<table, ids>>
               \/ /\ table' = [table EXCEPT ![p] = "none"] /\ FreeSlot(p)
                  /\ UNCHANGED <<survail, ignored, chld, tell>>
      BY <1>1 DEF EndChild, CountOut
    <2>2. /\ proc' \in [Pids -> ProcStates]
          /\ UNCHANGED <<master, installed, tomaster, forks, overwritten, copy, status, deaths, hups>>
      BY <1>1, <2>1 DEF EndChild, ProcStates, bounds
    <2>3. active' \in Int /\ frames' \in Seq(Int)
      BY <1>1, FramesPop DEF EndChild, CountOut
    <2>4. CASE survail' = FALSE /\ DoShutdown("TERM") /\ UNCHANGED <<table, ids>>
      <3>1. tell' \in [Pids -> SUBSET Signals]
        BY <2>4, TellTypes DEF DoShutdown, Signals
      <3>2. QED
        BY <2>2, <2>3, <2>4, <3>1 DEF DoShutdown
    <2>5. CASE /\ table' = [table EXCEPT ![p] = "none"] /\ FreeSlot(p)
               /\ UNCHANGED <<survail, ignored, chld, tell>>
      <3>1. ids' \in [Slots -> Pids \cup {None}]
        BY <2>5 DEF FreeSlot
      <3>2. QED
        BY <2>2, <2>3, <2>5, <3>1
    <2>6. QED
      BY <2>1, <2>4, <2>5
  <1>2. CASE HandleTerm
    <2>1. tell' \in [Pids -> SUBSET Signals]
      BY <1>2, TellTypes DEF HandleTerm, DoShutdown, Signals
    <2>2. QED
      BY <1>2, <2>1 DEF HandleTerm, DoShutdown, bounds
  <1>3. CASE HandleQuit
    <2>1. tell' \in [Pids -> SUBSET Signals]
      BY <1>3, TellTypes DEF HandleQuit, DoShutdown, Signals
    <2>2. QED
      BY <1>3, <2>1 DEF HandleQuit, DoShutdown, bounds
  <1>4. CASE HandleHup
    <2>1. tell' \in [Pids -> SUBSET Signals]
      BY <1>4, TellTypes DEF HandleHup, Signals
    <2>2. QED
      BY <1>4, <2>1 DEF HandleHup, bounds
  <1>5. CASE BeginChild
    <2>1. frames' \in Seq(Int) /\ overwritten' \in BOOLEAN
      BY <1>5, FramesPush DEF BeginChild
    <2>2. QED
      BY <1>5, <2>1 DEF BeginChild, workerVars, bounds
  <1>6. QED
    BY <1>1, <1>2, <1>3, <1>4, <1>5 DEF Handler

\* How a process ends, as far as the types go.
LEMMA EndTypes ==
    ASSUME TypeOK, NEW p \in Pids, NEW how \in Statuses, End(p, how), UNCHANGED hups,
           deaths' \in 0..MaxDeaths
    PROVE  TypeOK'
  BY DEF TypeOK, End, ProcStates

\* The workers preserve the types.
LEMMA WorkerTypes ==
    ASSUME TypeOK, NEW p \in Pids, WorkerStep(p) \/ Fail(p)
    PROVE  TypeOK'
  <1> USE DEF TypeOK
  <1>1. CASE SetHandlers(p)
    BY <1>1 DEF SetHandlers, ProcStates, Alive, masterVars, bounds
  <1>2. CASE Serve(p)
    BY <1>2 DEF Serve, ProcStates, Alive, masterVars, bounds
  <1>3. CASE Stop(p)
    <2>1. status[p] \in Statuses /\ End(p, status[p]) /\ UNCHANGED hups /\ deaths' = deaths
      BY <1>3 DEF Stop, bounds
    <2>2. QED
      BY <2>1, EndTypes
  <1>4. ASSUME NEW sig \in Signals, HearAsMaster(p, sig) PROVE TypeOK'
    BY <1>4 DEF HearAsMaster, masterVars, bounds
  <1>5. ASSUME NEW sig \in Signals, DieOfSignal(p, sig) PROVE TypeOK'
    <2>1. "crash" \in Statuses /\ End(p, "crash") /\ UNCHANGED hups /\ deaths' = deaths
      BY <1>5 DEF DieOfSignal, Statuses, bounds
    <2>2. QED
      BY <2>1, EndTypes
  <1>6. ASSUME NEW sig \in Signals, Hear(p, sig) PROVE TypeOK'
    <2>1. tell' \in [Pids -> SUBSET Signals]
      BY <1>6 DEF Hear
    <2>2. proc' \in [Pids -> ProcStates] /\ status' \in [Pids -> Statuses]
      BY <1>6 DEF Hear, ProcStates, Alive, Statuses
    <2>3. QED
      BY <1>6, <2>1, <2>2 DEF Hear, masterVars, bounds
  <1>7. CASE Fail(p)
    <2>1. deaths' \in 0..MaxDeaths /\ UNCHANGED hups
      BY <1>7, WorkerSupervisorAssumption DEF Fail
    <2>2. \E how \in Statuses : End(p, how)
      BY <1>7 DEF Fail, Statuses
    <2>3. QED
      BY <2>1, <2>2, EndTypes
  <1>8. QED
    BY <1>1, <1>2, <1>3, <1>4, <1>5, <1>6, <1>7 DEF WorkerStep, Start, HearSignal

\* The operator's signals preserve the types.
LEMMA SignalTypes ==
    ASSUME TypeOK, NEW sig \in Signals, Signal(sig)
    PROVE  TypeOK'
  BY WorkerSupervisorAssumption DEF TypeOK, Signal, workerVars

-----------------------------------------------------------------------------
(* The rest of the invariant.                                              *)

\* A child that is forked gets the slot the master has reserved; nobody else
\* loses one.
LEMMA MasterRest ==
    ASSUME IInv, MasterStep
    PROVE  Rest'
  <1> USE DEF IInv, Rest
  <1>1. CASE BeginFork
    <2>1. PICK i \in Slots : ids[i] = None /\ master' = [AtLoop EXCEPT !.pc = "fork", !.slot = i]
      BY <1>1 DEF BeginFork, FirstFree
    <2>2. /\ master.pc = "loop" /\ master'.pc = "fork" /\ master'.slot = i
          /\ UNCHANGED <<frames, survail, ids, ignored, chld, proc, forks>>
      BY <1>1, <2>1 DEF BeginFork, masterVars, workerVars, AtLoop
    <2>3. QED
      BY <2>1, <2>2 DEF SlotIsReserved, HasPid, NotYetForked, Entering, SlotsCoverChildren,
                        HasSlot, StoppingIgnores, WaitpidReturns, Zombies
  <1>2. CASE Fork
    <2>1. /\ master.pc = "fork" /\ master'.pc = "install" /\ master'.pid = forks + 1
          /\ master'.slot = master.slot /\ forks + 1 \in Pids /\ forks' = forks + 1
          /\ UNCHANGED <<frames, survail, ids, ignored, chld>>
          /\ proc' = [proc EXCEPT ![forks + 1] = "forked"]
      BY <1>2, WorkerSupervisorAssumption DEF Fork, TypeOK, Pids
    <2>2. SlotIsReserved' /\ HasPid' /\ StoppingIgnores'
      BY <2>1 DEF SlotIsReserved, HasPid, StoppingIgnores
    <2>3. NotYetForked'
      BY <2>1 DEF NotYetForked, TypeOK, Pids
    <2>4. SlotsCoverChildren'
      BY <2>1 DEF SlotsCoverChildren, HasSlot, Entering, TypeOK, SlotIsReserved
    <2>5. WaitpidReturns'
      <3>1. proc[forks + 1] = "unborn"
        BY <2>1 DEF NotYetForked, TypeOK
      <3>2. Zombies' = Zombies
        BY <2>1, <3>1 DEF Zombies, TypeOK
      <3>3. QED
        BY <2>1, <3>2 DEF WaitpidReturns
    <2>6. QED
      BY <2>2, <2>3, <2>4, <2>5
  <1>3. CASE Install
    <2>1. /\ master.pc = "install" /\ master'.pc = "look"
          /\ master'.slot = master.slot /\ master'.pid = master.pid
          /\ UNCHANGED <<frames, survail, ids, ignored, chld, proc, forks>>
      BY <1>3 DEF Install, workerVars, TypeOK
    <2>2. QED
      BY <2>1 DEF SlotIsReserved, HasPid, NotYetForked, Entering, SlotsCoverChildren,
                  HasSlot, StoppingIgnores, WaitpidReturns, Zombies
  <1>4. CASE Look
    <2>1. /\ master.pc = "look" /\ master'.pc \in {"enter", "crashed"}
          /\ master'.slot = master.slot /\ master'.pid = master.pid
          /\ UNCHANGED <<frames, survail, ids, ignored, chld, proc, forks>>
      BY <1>4 DEF Look, masterVars, workerVars, TypeOK
    <2>2. QED
      BY <2>1 DEF SlotIsReserved, HasPid, NotYetForked, Entering, SlotsCoverChildren,
                  HasSlot, StoppingIgnores, WaitpidReturns, Zombies
  <1>5. CASE Enter
    <2>1. /\ master.pc = "enter" /\ master'.pc = "occupy"
          /\ master'.slot = master.slot /\ master'.pid = master.pid
          /\ UNCHANGED <<frames, survail, ids, ignored, chld, proc, forks>>
      BY <1>5 DEF Enter, workerVars, TypeOK
    <2>2. QED
      BY <2>1 DEF SlotIsReserved, HasPid, NotYetForked, Entering, SlotsCoverChildren,
                  HasSlot, StoppingIgnores, WaitpidReturns, Zombies
  <1>6. CASE Occupy
    <2>1. /\ master.pc = "occupy" /\ master'.pc = "load"
          /\ master.slot \in Slots /\ ids[master.slot] = None
          /\ master.pid \in Pids
          /\ ids' = [ids EXCEPT ![master.slot] = master.pid]
          /\ UNCHANGED <<frames, survail, ignored, chld, proc, forks>>
      BY <1>6 DEF Occupy, SlotIsReserved, HasPid, Entering, workerVars, TypeOK
    <2>2. None \notin Pids
      BY WorkerSupervisorAssumption DEF Pids
    <2>3. ASSUME NEW p \in Pids, HasSlot(p) PROVE \E i \in Slots : ids'[i] = p
      BY <2>1, <2>2, <2>3 DEF HasSlot, TypeOK
    <2>4. SlotsCoverChildren'
      BY <2>1, <2>3 DEF SlotsCoverChildren, HasSlot, Alive
    <2>5. QED
      BY <2>1, <2>4 DEF SlotIsReserved, HasPid, NotYetForked, Entering, StoppingIgnores,
                        WaitpidReturns, Zombies
  <1>7. CASE Load \/ Store
    <2>1. /\ master.pc \in {"load", "store"} /\ master'.pc \in {"store", "loop"}
          /\ UNCHANGED <<frames, survail, ids, ignored, chld, proc, forks>>
      <3>1. CASE Load
        BY <3>1 DEF Load, masterVars, workerVars, TypeOK
      <3>2. CASE Store
        BY <3>2 DEF Store, AtLoop, workerVars
      <3>3. QED
        BY <1>7, <3>1, <3>2
    <2>2. QED
      BY <2>1 DEF SlotIsReserved, HasPid, NotYetForked, Entering, SlotsCoverChildren,
                  HasSlot, StoppingIgnores, WaitpidReturns, Zombies
  <1>8. CASE Leave
    <2>1. /\ ~chld /\ master'.pc = "done" /\ frames = <<>>
          /\ UNCHANGED <<frames, survail, ids, ignored, chld, forks>>
      BY <1>8 DEF Leave, masterVars, StoppingIgnores, TypeOK, MasterStep
    <2>2. NotYetForked'
      BY <1>8 DEF Leave, KillChildren, NotYetForked, masterVars
    <2>3. WaitpidReturns'
      <3>1. Zombies' \in SUBSET Pids
        BY DEF Zombies
      <3>2. Cardinality(Zombies') \in Nat
        BY <3>1, PidsFinite
      <3>3. QED
        BY <2>1, <3>2 DEF WaitpidReturns
    <2>4. QED
      BY <2>1, <2>2, <2>3 DEF SlotIsReserved, HasPid, Entering, SlotsCoverChildren,
                        StoppingIgnores
  <1>9. QED
    BY <1>1, <1>2, <1>3, <1>4, <1>5, <1>6, <1>7, <1>8 DEF MasterStep

\* hCHLD frees the slot of a dead child only; the others touch no slot.
LEMMA HandlerRest ==
    ASSUME IInv, Handler
    PROVE  Rest'
  <1> USE DEF IInv, Rest
  <1>1. CASE EndChild
    <2>1. PICK p \in Pids :
            /\ proc[p] = "zombie" /\ proc' = [proc EXCEPT ![p] = "gone"]
            /\ \/ survail' = FALSE /\ DoShutdown("TERM") /\ UNCHANGED <<table, ids>>
               \/ FreeSlot(p) /\ UNCHANGED <<survail, ignored, chld, tell>>
      BY <1>1 DEF EndChild
    <2>2. UNCHANGED <<master, forks>>
      BY <1>1 DEF EndChild
    <2>3. \/ survail' = FALSE /\ ignored' = TRUE /\ chld' = FALSE
          \/ UNCHANGED <<survail, ignored, chld>>
      BY <2>1 DEF DoShutdown
    <2>4. \A i \in Slots : ids'[i] = IF ids[i] = p /\ ids' # ids THEN None ELSE ids[i]
      BY <2>1 DEF FreeSlot
    <2>5. SlotIsReserved' /\ HasPid'
      BY <2>2, <2>4 DEF SlotIsReserved, HasPid, Entering
    <2>6. NotYetForked'
      BY <2>1, <2>2 DEF NotYetForked, TypeOK
    <2>7. SlotsCoverChildren'
      <3>1. ASSUME NEW q \in Pids, master.pc \notin {"done", "crashed"},
                   proc'[q] \in Alive \cup {"zombie"}
            PROVE  HasSlot(q)'
        <4>1. q # p /\ proc'[q] = proc[q]
          BY <2>1, <3>1 DEF TypeOK, Alive
        <4>2. HasSlot(q)
          BY <3>1, <4>1 DEF SlotsCoverChildren
        <4>3. CASE \E i \in Slots : ids[i] = q
          BY <4>1, <4>3, <2>4 DEF HasSlot
        <4>4. CASE Entering /\ master.pid = q /\ ids[master.slot] = None
          <5>1. ids'[master.slot] = None
            BY <4>4, <2>4 DEF SlotIsReserved, Entering
          <5>2. QED
            BY <4>4, <5>1, <2>2 DEF HasSlot, Entering
        <4>5. QED
          BY <4>2, <4>3, <4>4 DEF HasSlot
      <3>2. QED
        BY <3>1, <2>2 DEF SlotsCoverChildren
    <2>8. StoppingIgnores'
      BY <2>2, <2>3 DEF StoppingIgnores
    <2>9. WaitpidReturns'
      <3>1. p \in Zombies /\ Zombies' = Zombies \ {p} /\ Zombies \in SUBSET Pids
        BY <2>1 DEF Zombies, TypeOK
      <3>2. Cardinality(Zombies') = Cardinality(Zombies) - 1 /\ Cardinality(Zombies) \in Nat
        BY <3>1, PidsFinite, FS_RemoveElement
      <3>3. Len(frames') = Len(frames) - 1 /\ Len(frames) \in Nat
        BY <1>1, FramesPop DEF EndChild
      <3>4. chld' => chld
        BY <2>3 DEF TypeOK
      <3>5. QED
        BY <3>2, <3>3, <3>4 DEF WaitpidReturns
    <2>10. QED
      BY <2>5, <2>6, <2>7, <2>8, <2>9
  <1>2. CASE HandleTerm \/ HandleQuit
    <2>1. ignored' /\ ~chld' /\ UNCHANGED <<master, frames, ids, forks, proc>>
      BY <1>2 DEF HandleTerm, HandleQuit, DoShutdown
    <2>2. WaitpidReturns'
      <3>1. Zombies' = Zombies /\ Zombies \in SUBSET Pids
        BY <2>1 DEF Zombies
      <3>2. Cardinality(Zombies) \in Nat /\ Len(frames) \in Nat
        BY <3>1, PidsFinite, LenProperties DEF TypeOK
      <3>3. QED
        BY <2>1, <3>1, <3>2 DEF WaitpidReturns
    <2>3. QED
      BY <2>1, <2>2 DEF SlotIsReserved, HasPid, NotYetForked, Entering, SlotsCoverChildren,
                  HasSlot, StoppingIgnores
  <1>3. CASE HandleHup
    <2>1. UNCHANGED <<master, frames, survail, ids, ignored, chld, forks, proc>>
      BY <1>3 DEF HandleHup
    <2>2. QED
      BY <2>1 DEF SlotIsReserved, HasPid, NotYetForked, Entering, SlotsCoverChildren,
                  HasSlot, StoppingIgnores, WaitpidReturns, Zombies
  <1>4. CASE BeginChild
    <2>1. chld /\ ~chld' /\ UNCHANGED <<master, survail, ids, ignored, forks, proc>>
      BY <1>4 DEF BeginChild, workerVars
    <2>2. Len(frames') = Len(frames) + 1 /\ Len(frames) \in Nat /\ Zombies' = Zombies
      BY <1>4, <2>1, FramesPush DEF BeginChild, Zombies
    <2>3. QED
      BY <2>1, <2>2 DEF SlotIsReserved, HasPid, NotYetForked, Entering, SlotsCoverChildren,
                  HasSlot, StoppingIgnores, WaitpidReturns, Zombies
  <1>5. QED
    BY <1>1, <1>2, <1>3, <1>4 DEF Handler

\* A step that moves one worker along, or ends it with its SIGCHLD.
LEMMA MoveRest ==
    ASSUME IInv, NEW p \in Pids, proc[p] \in Alive,
           NEW s \in Alive \cup {"zombie", "gone"},
           proc' = [proc EXCEPT ![p] = s],
           s = "zombie" \/ chld' = chld,
           UNCHANGED <<master, frames, survail, ids, ignored, forks>>,
           ignored => ~chld'
    PROVE  Rest'
  <1> USE DEF IInv, Rest
  <1>1. SlotIsReserved' /\ HasPid' /\ StoppingIgnores'
    BY DEF SlotIsReserved, HasPid, Entering, StoppingIgnores
  <1>2. NotYetForked'
    BY DEF NotYetForked, TypeOK, Alive
  <1>3. SlotsCoverChildren'
    BY DEF SlotsCoverChildren, HasSlot, Entering, TypeOK
  <1>4. WaitpidReturns'
    <2>1. Zombies \in SUBSET Pids /\ p \notin Zombies
      BY DEF Zombies, Alive
    <2>2. IsFiniteSet(Zombies) /\ Cardinality(Zombies) \in Nat /\ Len(frames) \in Nat
      BY <2>1, PidsFinite, LenProperties DEF TypeOK
    <2>3. CASE s = "zombie"
      <3>1. Zombies' = Zombies \cup {p}
        BY <2>3 DEF Zombies, TypeOK
      <3>2. Cardinality(Zombies') = Cardinality(Zombies) + 1
        BY <2>1, <2>2, <3>1, FS_AddElement
      <3>3. QED
        BY <2>2, <3>2 DEF WaitpidReturns
    <2>4. CASE s # "zombie"
      <3>1. Zombies' = Zombies /\ chld' = chld
        BY <2>1, <2>4 DEF Zombies, TypeOK
      <3>2. QED
        BY <3>1 DEF WaitpidReturns
    <2>5. QED
      BY <2>3, <2>4
  <1>5. QED
    BY <1>1, <1>2, <1>3, <1>4

\* A process that ends becomes a zombie with its SIGCHLD, or vanishes while SIGCHLD is ignored.
LEMMA EndRest ==
    ASSUME IInv, NEW p \in Pids, proc[p] \in Alive, NEW how, End(p, how)
    PROVE  Rest'
  <1>1. PICK s \in {"zombie", "gone"} :
          /\ proc' = [proc EXCEPT ![p] = s]
          /\ s = IF ignored THEN "gone" ELSE "zombie"
    BY DEF End
  <1>2. chld' = (chld \/ (installed /\ ~ignored)) /\ UNCHANGED <<master, frames, survail, ids, ignored, forks>>
    BY DEF End
  <1>3. ignored => ~chld /\ ~chld'
    BY <1>2 DEF IInv, Rest, StoppingIgnores
  <1>4. s = "zombie" \/ chld' = chld
    BY <1>1, <1>2, <1>3 DEF IInv, TypeOK
  <1>5. QED
    BY <1>1, <1>2, <1>3, <1>4, MoveRest

\* The workers preserve the rest of the invariant.
LEMMA WorkerRest ==
    ASSUME IInv, NEW p \in Pids, WorkerStep(p) \/ Fail(p)
    PROVE  Rest'
  <1>0. ignored => ~chld
    BY DEF IInv, Rest, StoppingIgnores
  <1>1. CASE SetHandlers(p) \/ Serve(p)
    <2>1. PICK s \in Alive : proc' = [proc EXCEPT ![p] = s]
      BY <1>1 DEF SetHandlers, Serve, Alive
    <2>2. proc[p] \in Alive /\ UNCHANGED <<master, frames, survail, ids, ignored, chld, forks>>
      BY <1>1 DEF SetHandlers, Serve, Alive, masterVars
    <2>3. QED
      BY <1>0, <2>1, <2>2, MoveRest
  <1>2. CASE Stop(p) \/ Fail(p) \/ \E sig \in Signals : DieOfSignal(p, sig)
    <2>1. proc[p] \in Alive /\ \E how \in Statuses : End(p, how)
      BY <1>2 DEF Stop, Fail, DieOfSignal, Alive, Statuses, IInv, TypeOK
    <2>2. QED
      BY <2>1, EndRest
  <1>3. ASSUME NEW sig \in Signals, HearAsMaster(p, sig) PROVE Rest'
    <2>1. UNCHANGED <<master, frames, survail, ids, ignored, chld, forks, proc>>
      BY <1>3 DEF HearAsMaster, masterVars
    <2>2. QED
      BY <2>1 DEF IInv, Rest, SlotIsReserved, HasPid, NotYetForked, Entering,
                  SlotsCoverChildren, HasSlot, StoppingIgnores, WaitpidReturns, Zombies
  <1>4. ASSUME NEW sig \in Signals, Hear(p, sig) PROVE Rest'
    <2>1. UNCHANGED <<master, frames, survail, ids, ignored, chld, forks>> /\ proc[p] \in Alive
      BY <1>4 DEF Hear, masterVars, Alive
    <2>2. CASE proc[p] = "serving"
      <3>1. proc' = [proc EXCEPT ![p] = "stopping"] /\ "stopping" \in Alive
        BY <1>4, <2>2 DEF Hear, Alive
      <3>2. QED
        BY <1>0, <2>1, <3>1, MoveRest
    <2>3. CASE proc[p] # "serving"
      <3>1. proc' = proc
        BY <1>4, <2>3 DEF Hear
      <3>2. QED
        BY <2>1, <3>1 DEF IInv, Rest, SlotIsReserved, HasPid, NotYetForked, Entering,
                          SlotsCoverChildren, HasSlot, StoppingIgnores, WaitpidReturns, Zombies
    <2>4. QED
      BY <2>2, <2>3
  <1>5. QED
    BY <1>1, <1>2, <1>3, <1>4 DEF WorkerStep, Start, HearSignal

-----------------------------------------------------------------------------
\* Every step of the program preserves the invariant.
THEOREM NextIInv == IInv /\ [Next]_vars => IInv'
  <1> SUFFICES ASSUME IInv, [Next]_vars PROVE IInv'
    OBVIOUS
  <1>0. TypeOK /\ HasPid /\ SlotIsReserved
    BY DEF IInv, Rest
  <1>1. CASE MasterStep
    BY <1>0, <1>1, MasterTypes, MasterRest DEF IInv
  <1>2. CASE Handler
    BY <1>0, <1>2, HandlerTypes, HandlerRest DEF IInv
  <1>3. ASSUME NEW sig \in Signals, Signal(sig) PROVE IInv'
    <2>1. UNCHANGED <<master, frames, survail, ids, ignored, chld, forks, proc>>
      BY <1>3 DEF Signal, workerVars
    <2>2. Rest'
      BY <2>1 DEF IInv, Rest, SlotIsReserved, HasPid, NotYetForked, Entering,
                  SlotsCoverChildren, HasSlot, StoppingIgnores, WaitpidReturns, Zombies
    <2>3. QED
      BY <1>0, <1>3, <2>2, SignalTypes DEF IInv
  <1>4. ASSUME NEW p \in Pids, WorkerStep(p) \/ Fail(p) PROVE IInv'
    BY <1>0, <1>4, WorkerTypes, WorkerRest DEF IInv
  <1>5. CASE UNCHANGED vars
    <2>1. TypeOK'
      BY <1>0, <1>5 DEF vars, TypeOK
    <2>2. Rest'
      BY <1>5 DEF vars, IInv, Rest, SlotIsReserved, HasPid, NotYetForked, Entering,
                  SlotsCoverChildren, HasSlot, StoppingIgnores, WaitpidReturns, Zombies
    <2>3. QED
      BY <2>1, <2>2 DEF IInv
  <1>6. QED
    BY <1>1, <1>2, <1>3, <1>4, <1>5 DEF Next

\* The inductive invariant holds in every reachable state.
THEOREM Invariant == Spec => []IInv
  BY InitIInv, NextIInv, PTL DEF Spec

\* The types of the master's tables, of the processes and of the signals.
THEOREM TypeCorrect == Spec => []TypeOK
  <1>1. IInv => TypeOK
    BY DEF IInv
  <1>2. QED
    BY <1>1, Invariant, PTL

\* However children die and signals arrive, every child alive or not waited
\* for holds a slot of WORKER_IDS, or is about to be given one.
THEOREM ChildrenHaveSlots == Spec => []SlotsCoverChildren
  <1>1. IInv => SlotsCoverChildren
    BY DEF IInv, Rest
  <1>2. QED
    BY <1>1, Invariant, PTL

\* hCHLD's waitpid always finds a dead child: the handler never blocks.
THEOREM HandlerNeverBlocks == Spec => []WaitpidReturns
  <1>1. IInv => WaitpidReturns
    BY DEF IInv, Rest
  <1>2. QED
    BY <1>1, Invariant, PTL

-----------------------------------------------------------------------------
\* The children that exist, alive or waiting for waitpid.
Existing == {p \in Pids : proc[p] \in Alive \cup {"zombie"}}
NeverTooMany == Up => Cardinality(Existing) <= NumWorkers

\* The slot a child holds or is about to get.
SlotOf(p) == IF \E i \in Slots : ids[i] = p THEN CHOOSE i \in Slots : ids[i] = p
                                            ELSE master.slot

\* Children with slots of their own are no more than the slots.
LEMMA CoveredIsBounded == IInv => NeverTooMany
  <1> SUFFICES ASSUME IInv, Up PROVE Cardinality(Existing) <= NumWorkers
    BY DEF NeverTooMany
  <1>1. ASSUME NEW p \in Existing
        PROVE  /\ SlotOf(p) \in Slots
               /\ \/ ids[SlotOf(p)] = p
                  \/ master.pid = p /\ ids[SlotOf(p)] = None
    <2>1. p \in Pids /\ HasSlot(p)
      BY DEF Existing, SlotsCoverChildren, IInv, Rest, Up
    <2>2. CASE \E i \in Slots : ids[i] = p
      BY <2>2 DEF SlotOf
    <2>3. CASE ~\E i \in Slots : ids[i] = p
      <3>1. Entering /\ master.pid = p /\ ids[master.slot] = None /\ SlotOf(p) = master.slot
        BY <2>1, <2>3 DEF HasSlot, SlotOf
      <3>2. QED
        BY <3>1 DEF IInv, Rest, SlotIsReserved, Entering
    <2>4. QED
      BY <2>2, <2>3
  <1>2. ASSUME NEW p \in Existing, NEW q \in Existing, SlotOf(p) = SlotOf(q)
        PROVE  p = q
    <2>1. p \in Pids /\ q \in Pids /\ None \notin Pids
      BY WorkerSupervisorAssumption DEF Existing, Pids
    <2>2. QED
      BY <1>1, <1>2, <2>1
  <1> DEFINE f == [p \in Existing |-> SlotOf(p)]
  <1>3. f \in Injection(Existing, Slots)
    BY <1>1, <1>2 DEF Injection, IsInjective
  <1>4. IsFiniteSet(Slots) /\ Cardinality(Slots) = NumWorkers
    BY FS_Interval, WorkerSupervisorAssumption DEF Slots
  <1>5. Cardinality(Existing) <= Cardinality(Slots)
    BY <1>3, <1>4, FS_Injection
  <1>6. QED
    BY <1>4, <1>5

\* The master never has more than numworker children, whatever its signal
\* handlers do to ACTIVE_WORKERS.
THEOREM AtMostNumWorkers == Spec => []NeverTooMany
  BY Invariant, CoveredIsBounded, PTL
-----------------------------------------------------------------------------
(* ACTIVE_WORKERS agrees with the slots.                                   *)

\* A pid is entered in one slot, after its fork and not before Enter.
OneSlotEach ==
    /\ Entering => master.pid <= forks
    /\ \A i \in Slots : ids[i] # None => ids[i] <= forks /\ (Entering => ids[i] # master.pid)
    /\ \A i, j \in Slots : ids[i] # None /\ ids[i] = ids[j] => i = j

\* A count that is loaded is never less than ACTIVE_WORKERS, the first loaded
\* the greatest; and it is ACTIVE_WORKERS, and the only one, until an hCHLD
\* begins beside it.
CountsLoaded ==
    /\ \A i \in 1..Len(frames) : frames[i] >= active
    /\ \A i, j \in 1..Len(frames) : i <= j => frames[i] >= frames[j]
    /\ master.pc = "store" =>
          master.count >= active /\ \A i \in 1..Len(frames) : master.count >= frames[i]
    /\ ~overwritten =>
          /\ Len(frames) <= 1 /\ \A i \in 1..Len(frames) : frames[i] = active
          /\ frames # <<>> => master.pc # "store"
          /\ master.pc = "store" => master.count = active

Count == OneSlotEach /\ CountsLoaded /\ CountMatchesSlots

LEMMA CountedFinite == \A S \in SUBSET Slots : IsFiniteSet(S) /\ Cardinality(S) \in Nat
  <1>1. IsFiniteSet(Slots)
    BY FS_Interval, WorkerSupervisorAssumption DEF Slots
  <1>2. QED
    BY <1>1, FS_Subset, FS_CardinalityType

\* What only moves processes along, none to its waitpid, leaves the count alone.
LEMMA CountUnmoved ==
    ASSUME IInv, Count,
           UNCHANGED <<active, ids, forks, frames, overwritten>>,
           master' = master \/ (/\ master'.pc \notin {"install", "look", "enter", "occupy", "load", "store"}
                               /\ ~Entering /\ master.pc \notin {"load", "store"}),
           master.pc \in {"done", "crashed"} => master'.pc \in {"done", "crashed"},
           ignored => ignored',
           proc \in [Pids -> ProcStates], proc' \in [Pids -> ProcStates],
           ignored' \/ \A q \in Pids : proc'[q] = "gone" <=> proc[q] = "gone"
    PROVE  Count'
  <1>1. OneSlotEach'
    BY DEF Count, OneSlotEach, Entering
  <1>2. CountMatchesSlots'
    <2>1. SUFFICES ASSUME Up', ~ignored'
                   PROVE  /\ active' + Uncounted' >= Cardinality(Counted')
                          /\ ~overwritten' => active' + Uncounted' = Cardinality(Counted')
      BY DEF CountMatchesSlots
    <2>2. Up /\ ~ignored
      BY <2>1 DEF Up
    <2>3. Counted' = Counted
      BY <2>1, <2>2 DEF Counted, IInv, TypeOK
    <2>4. Uncounted' = Uncounted
      BY <2>1, <2>2 DEF Uncounted, Entering, IInv, Rest, HasPid
    <2>5. QED
      BY <2>2, <2>3, <2>4 DEF Count, CountMatchesSlots
  <1>3. CountsLoaded'
    BY DEF Count, CountsLoaded
  <1>4. QED
    BY <1>1, <1>2, <1>3 DEF Count

\* A child is counted in when it is entered, in a slot that no child has.
LEMMA MasterCount ==
    ASSUME IInv, Count, TypeOK', MasterStep
    PROVE  Count'
  <1> USE DEF IInv, Rest
  <1>0. frames = <<>> /\ Len(frames) = 0
    BY DEF MasterStep
  <1>1. CASE BeginFork
    <2>1. /\ master'.pc = "fork" /\ master.pc = "loop"
          /\ UNCHANGED <<active, ids, forks, frames, overwritten, ignored, proc>>
      BY <1>1 DEF BeginFork, masterVars, workerVars, AtLoop
    <2>2. QED
      BY <2>1, CountUnmoved DEF Entering, TypeOK
  <1>2. CASE Fork
    <2>1. /\ master.pc = "fork" /\ master'.pc = "install" /\ master'.pid = forks + 1
          /\ forks' = forks + 1 /\ forks \in Nat /\ forks + 1 \in Pids
          /\ UNCHANGED <<active, ids, frames, overwritten, ignored>>
          /\ proc' = [proc EXCEPT ![forks + 1] = "forked"]
      BY <1>2, WorkerSupervisorAssumption DEF Fork, TypeOK, Pids
    <2>2. OneSlotEach'
      <3>1. \A i \in Slots : ids[i] # None => ids[i] \in Nat /\ ids[i] <= forks
        BY DEF Count, OneSlotEach, TypeOK, Pids
      <3>2. \A i \in Slots : ids'[i] # None => ids'[i] <= forks' /\ ids'[i] # master'.pid
        BY <2>1, <3>1
      <3>3. QED
        BY <2>1, <3>2 DEF Count, OneSlotEach
    <2>3. Uncounted = 0 /\ Uncounted' = 0
      BY <2>1 DEF Uncounted, Entering, TypeOK
    <2>4. Counted' = Counted
      <3>1. proc[forks + 1] = "unborn"
        BY <2>1 DEF NotYetForked
      <3>2. \A q \in Pids : proc'[q] = "gone" <=> proc[q] = "gone"
        BY <2>1, <3>1 DEF TypeOK
      <3>3. QED
        BY <2>1, <3>2 DEF Counted, TypeOK
    <2>5. CountMatchesSlots' /\ CountsLoaded'
      BY <2>1, <2>3, <2>4 DEF Count, CountMatchesSlots, CountsLoaded, Up
    <2>6. QED
      BY <2>2, <2>5 DEF Count
  <1>3. CASE Install \/ Look \/ Enter
    <2>1. /\ master.pc \in {"install", "look", "enter"}
          /\ master'.pc \in {"look", "enter", "occupy", "crashed"}
          /\ master'.pid = master.pid /\ master.pid \in Pids
          /\ UNCHANGED <<active, ids, forks, frames, overwritten, ignored, proc>>
      BY <1>3 DEF Install, Look, Enter, masterVars, workerVars, TypeOK, HasPid, Entering
    <2>2. OneSlotEach'
      BY <2>1 DEF Count, OneSlotEach, Entering
    <2>3. Counted' = Counted
      BY <2>1 DEF Counted
    <2>4. master'.pc # "crashed" => Uncounted' = Uncounted
      BY <2>1 DEF Uncounted, Entering
    <2>5. CountMatchesSlots' /\ CountsLoaded'
      BY <2>1, <2>3, <2>4 DEF Count, CountMatchesSlots, CountsLoaded, Up
    <2>6. QED
      BY <2>2, <2>5 DEF Count
  <1>4. CASE Occupy
    <2> DEFINE s == master.slot
               p == master.pid
    <2>1. /\ Entering /\ master'.pc = "load" /\ s \in Slots /\ ids[s] = None /\ p \in Pids
          /\ ids' = [ids EXCEPT ![s] = p]
          /\ UNCHANGED <<active, forks, frames, overwritten, ignored, proc>>
          /\ master.pc = "occupy"
      BY <1>4 DEF Occupy, SlotIsReserved, HasPid, Entering, workerVars, TypeOK
    <2>2. p # None /\ p <= forks /\ \A i \in Slots : ids[i] # p
      BY <2>1, WorkerSupervisorAssumption DEF Count, OneSlotEach, Pids
    <2>3. Uncounted' = 1 /\ Uncounted = IF proc[p] = "gone" THEN 1 ELSE 0
      BY <2>1 DEF Uncounted
    <2> HIDE DEF s, p
    <2>4. \A i \in Slots : ids'[i] = IF i = s THEN p ELSE ids[i]
      BY <2>1 DEF TypeOK
    <2>5. OneSlotEach'
      BY <2>1, <2>2, <2>4 DEF Count, OneSlotEach, Entering
    <2>6. CountsLoaded'
      BY <2>1 DEF Count, CountsLoaded
    <2>7. CountMatchesSlots'
      <3>1. CASE proc[p] = "gone"
        <4>1. Counted' = Counted
          BY <2>1, <2>4, <3>1 DEF Counted
        <4>2. QED
          BY <2>1, <2>3, <3>1, <4>1 DEF Count, CountMatchesSlots, Up
      <3>2. CASE proc[p] # "gone"
        <4>1. Counted' = Counted \cup {s} /\ s \notin Counted
          BY <2>1, <2>2, <2>4, <3>2 DEF Counted
        <4>2. IsFiniteSet(Counted) /\ Cardinality(Counted) \in Nat
          BY CountedFinite DEF Counted
        <4>3. Cardinality(Counted') = Cardinality(Counted) + 1
          BY <4>1, <4>2, FS_AddElement
        <4>4. active \in Int
          BY DEF TypeOK
        <4>5. QED
          BY <2>1, <2>3, <3>2, <4>2, <4>3, <4>4 DEF Count, CountMatchesSlots, Up
      <3>3. QED
        BY <3>1, <3>2
    <2>8. QED
      BY <2>5, <2>6, <2>7 DEF Count
  <1>5. CASE Load
    <2>1. /\ master.pc = "load" /\ master'.pc = "store" /\ master'.count = active
          /\ active \in Int
          /\ UNCHANGED <<active, ids, forks, frames, overwritten, ignored, proc>>
      BY <1>5 DEF Load, masterVars, workerVars, TypeOK
    <2>2. Counted' = Counted /\ Uncounted = 1 /\ Uncounted' = 1
      BY <2>1 DEF Counted, Uncounted
    <2>3. OneSlotEach' /\ CountMatchesSlots'
      BY <2>1, <2>2 DEF Count, OneSlotEach, CountMatchesSlots, Entering, Up
    <2>4. CountsLoaded'
      BY <1>0, <2>1 DEF Count, CountsLoaded
    <2>5. QED
      BY <2>3, <2>4 DEF Count
  <1>6. CASE Store
    <2>1. /\ master.pc = "store" /\ master'.pc = "loop" /\ active' = master.count + 1
          /\ active \in Int /\ master.count \in Int
          /\ UNCHANGED <<ids, forks, frames, overwritten, ignored, proc>>
      BY <1>6 DEF Store, AtLoop, workerVars, TypeOK
    <2>2. Counted' = Counted /\ Uncounted = 1 /\ Uncounted' = 0
      BY <2>1 DEF Counted, Uncounted, Entering
    <2>3. Cardinality(Counted) \in Nat
      BY CountedFinite DEF Counted
    <2>4. master.count >= active /\ (~overwritten => master.count = active)
      BY <2>1 DEF Count, CountsLoaded
    <2>5. OneSlotEach'
      BY <2>1 DEF Count, OneSlotEach, Entering
    <2>6. CountMatchesSlots'
      BY <2>1, <2>2, <2>3, <2>4 DEF Count, CountMatchesSlots, Up
    <2>7. CountsLoaded'
      BY <1>0, <2>1 DEF CountsLoaded
    <2>8. QED
      BY <2>5, <2>6, <2>7 DEF Count
  <1>7. CASE Leave
    <2>1. /\ master.pc = "loop" /\ master'.pc = "done"
          /\ UNCHANGED <<active, ids, forks, frames, overwritten>>
      BY <1>7 DEF Leave, masterVars, TypeOK
    <2>2. QED
      BY <2>1 DEF Count, OneSlotEach, Entering, CountMatchesSlots, CountsLoaded, Up
  <1>8. QED
    BY <1>1, <1>2, <1>3, <1>4, <1>5, <1>6, <1>7 DEF MasterStep

\* An hCHLD that begins changes no count; it is remembered if another is loaded.
LEMMA BeginChildCount ==
    ASSUME IInv, Count, BeginChild
    PROVE  Count'
  <1>1. /\ UNCHANGED <<master, active, ids, forks, ignored, proc>>
        /\ overwritten' = (overwritten \/ master.pc = "store" \/ frames # <<>>)
        /\ TypeOK /\ active \in Int
    BY DEF BeginChild, workerVars, IInv, TypeOK
  <1>2. /\ Len(frames') = Len(frames) + 1 /\ Len(frames) \in Nat
        /\ \A i \in 1..Len(frames) : frames'[i] = frames[i] /\ frames[i] \in Int
        /\ frames'[Len(frames) + 1] = active
    BY <1>1, FramesPush DEF BeginChild
  <1>3. OneSlotEach'
    BY <1>1 DEF Count, OneSlotEach, Entering
  <1>4. Counted' = Counted /\ Uncounted' = Uncounted
    BY <1>1 DEF Counted, Uncounted, Entering
  <1>5. CountMatchesSlots'
    BY <1>1, <1>4 DEF Count, CountMatchesSlots, Up
  <1>6. \A i \in 1..Len(frames') : i \in 1..Len(frames) \/ i = Len(frames) + 1
    BY <1>2
  <1>7. CountsLoaded'
    <2>1. \A i \in 1..Len(frames') : frames'[i] >= active'
      BY <1>1, <1>2, <1>6 DEF Count, CountsLoaded
    <2>2. \A i, j \in 1..Len(frames') : i <= j => frames'[i] >= frames'[j]
      BY <1>1, <1>2, <1>6 DEF Count, CountsLoaded
    <2>3. master'.pc = "store" =>
            master'.count >= active' /\ \A i \in 1..Len(frames') : master'.count >= frames'[i]
      BY <1>1, <1>2, <1>6 DEF Count, CountsLoaded
    <2>4. ~overwritten' =>
            /\ Len(frames') <= 1 /\ \A i \in 1..Len(frames') : frames'[i] = active'
            /\ frames' # <<>> => master'.pc # "store"
            /\ master'.pc = "store" => master'.count = active'
      <3>1. ~overwritten' => frames = <<>> /\ ~overwritten /\ master.pc # "store" /\ Len(frames) = 0
        BY <1>1
      <3>2. QED
        BY <1>1, <1>2, <3>1
    <2>5. QED
      BY <2>1, <2>2, <2>3, <2>4 DEF CountsLoaded
  <1>8. QED
    BY <1>3, <1>5, <1>7 DEF Count

\* hCHLD counts out one child, which held a slot or was about to be entered.
LEMMA EndChildCount ==
    ASSUME IInv, Count, EndChild
    PROVE  Count'
  <1> USE DEF IInv, Rest
  <1> DEFINE n == Len(frames)
  <1>1. /\ Up /\ active' = frames[n] - 1 /\ active \in Int
        /\ UNCHANGED <<master, forks, overwritten>>
    BY DEF EndChild, CountOut, TypeOK
  <1>2. PICK p \in Pids :
            /\ proc[p] = "zombie" /\ proc' = [proc EXCEPT ![p] = "gone"]
            /\ \/ ignored' = TRUE /\ ids' = ids
               \/ FreeSlot(p) /\ ignored' = ignored
    BY DEF EndChild, DoShutdown
  <1>3. \A i \in Slots : ids'[i] = IF ids[i] = p /\ ids' # ids THEN None ELSE ids[i]
    BY <1>2 DEF FreeSlot
  <1>4. OneSlotEach'
    BY <1>1, <1>3 DEF Count, OneSlotEach, Entering
  <1>5. /\ Len(frames') = n - 1 /\ n \in Nat \ {0} /\ frames[n] \in Int
        /\ \A i \in 1..n : frames[i] \in Int
        /\ \A i \in 1..(n - 1) : frames'[i] = frames[i]
        /\ frames' \in Seq(Int)
    BY FramesPop DEF EndChild
  <1>6. frames[n] >= active /\ (~overwritten => n = 1 /\ frames[n] = active /\ master.pc # "store")
    <2>1. n \in 1..n
      BY <1>5
    <2>2. ~overwritten => n <= 1 /\ frames # <<>>
      BY <1>5 DEF Count, CountsLoaded
    <2>3. QED
      BY <1>5, <2>1, <2>2 DEF Count, CountsLoaded
  <1>7. CountsLoaded'
    <2>1. \A i \in 1..(n - 1) : i \in 1..n /\ frames[i] >= frames[n]
      BY <1>5 DEF Count, CountsLoaded
    <2>2. \A i \in 1..(n - 1) : frames'[i] >= active'
      BY <1>1, <1>5, <2>1
    <2>3. \A i, j \in 1..(n - 1) : i <= j => frames'[i] >= frames'[j]
      BY <1>5, <2>1 DEF Count, CountsLoaded
    <2>4. master.pc = "store" =>
            master.count >= active' /\ \A i \in 1..(n - 1) : master.count >= frames'[i]
      <3>1. master.pc = "store" => \A i \in 1..n : master.count >= frames[i]
        BY DEF Count, CountsLoaded
      <3>2. n \in 1..n /\ master.count \in Int
        BY <1>5 DEF TypeOK
      <3>3. QED
        BY <1>1, <1>5, <2>1, <3>1, <3>2
    <2>5. ~overwritten => Len(frames') = 0 /\ frames' = <<>> /\ master.pc # "store"
      <3>1. SUFFICES ASSUME ~overwritten PROVE Len(frames') = 0 /\ frames' = <<>> /\ master.pc # "store"
        OBVIOUS
      <3>2. n = 1 /\ master.pc # "store"
        BY <1>6, <3>1, Zenon
      <3>3. Len(frames') = 0
        BY <1>5, <3>2
      <3>4. QED
        BY <1>5, <3>2, <3>3, EmptySeq
    <2>6. QED
      BY <1>1, <1>5, <2>2, <2>3, <2>4, <2>5 DEF CountsLoaded
  <1> HIDE DEF n
  <1>8. CASE ignored'
    BY <1>4, <1>7, <1>8 DEF Count, CountMatchesSlots
  <1>9. CASE ~ignored'
    <2>0. p # None /\ FreeSlot(p) /\ ~ignored
      BY <1>2, <1>9, WorkerSupervisorAssumption DEF Pids
    <2>1. \A i \in Slots : ids'[i] = IF ids[i] = p THEN None ELSE ids[i]
      BY <2>0 DEF FreeSlot
    <2>2. \A q \in Pids : proc'[q] = IF q = p THEN "gone" ELSE proc[q]
      BY <1>2 DEF TypeOK
    <2>3. Counted' = {i \in Counted : ids[i] # p}
      BY <2>1, <2>2 DEF Counted, TypeOK
    <2>4. /\ active + Uncounted >= Cardinality(Counted)
          /\ ~overwritten => active + Uncounted = Cardinality(Counted)
      BY <1>1, <2>0 DEF Count, CountMatchesSlots
    <2>5. IsFiniteSet(Counted) /\ Cardinality(Counted) \in Nat
          /\ Uncounted \in Int /\ Uncounted' \in Int
      BY CountedFinite DEF Counted, Uncounted
    <2>6. Cardinality(Counted') - Uncounted' = Cardinality(Counted) - Uncounted - 1
          /\ Cardinality(Counted') \in Nat
      <3>1. CASE \E i \in Slots : ids[i] = p
        <4>1. PICK i \in Slots : ids[i] = p
          BY <3>1
        <4>2. i \in Counted /\ Counted' = Counted \ {i}
          BY <1>2, <2>0, <2>3, <4>1 DEF Counted, Count, OneSlotEach
        <4>3. Cardinality(Counted') = Cardinality(Counted) - 1
              /\ Cardinality(Counted') \in Nat
          BY <2>5, <4>2, FS_RemoveElement, FS_CardinalityType
        <4>4. Uncounted' = Uncounted
          BY <1>1, <2>0, <2>2, <4>1 DEF Uncounted, Entering, Count, OneSlotEach, HasPid
        <4>5. QED
          BY <2>5, <4>3, <4>4
      <3>2. CASE ~\E i \in Slots : ids[i] = p
        <4>1. Entering /\ master.pid = p
          BY <1>1, <1>2, <3>2 DEF SlotsCoverChildren, HasSlot, Up
        <4>2. Uncounted = 0 /\ Uncounted' = 1
          BY <1>1, <1>2, <2>2, <4>1 DEF Uncounted, Entering
        <4>3. Counted' = Counted
          BY <2>3, <3>2 DEF Counted
        <4>4. QED
          BY <2>5, <4>2, <4>3
      <3>3. QED
        BY <3>1, <3>2
    <2>7. active' + Uncounted' >= Cardinality(Counted')
      <3>1. /\ active' = frames[n] - 1 /\ frames[n] \in Int /\ active \in Int
            /\ frames[n] >= active /\ active + Uncounted >= Cardinality(Counted)
        BY <1>1, <1>5, <1>6, <2>4
      <3>2. QED
        BY <2>5, <2>6, <3>1
    <2>8. ASSUME ~overwritten PROVE active' + Uncounted' = Cardinality(Counted')
      <3>1. frames[n] = active /\ active + Uncounted = Cardinality(Counted)
        BY <1>6, <2>4, <2>8, Zenon
      <3>2. QED
        BY <1>1, <1>5, <2>5, <2>6, <3>1
    <2>9. CountMatchesSlots'
      BY <1>1, <2>7, <2>8 DEF CountMatchesSlots
    <2>10. QED
      BY <1>4, <1>7, <2>9 DEF Count
  <1>10. QED
    BY <1>8, <1>9

\* Every step of the program keeps the count right.
LEMMA CountStep == IInv /\ Count /\ [Next]_vars => Count'
  <1> SUFFICES ASSUME IInv, Count, [Next]_vars PROVE Count'
    OBVIOUS
  <1>0. TypeOK /\ TypeOK' /\ proc \in [Pids -> ProcStates] /\ proc' \in [Pids -> ProcStates]
    BY NextIInv DEF IInv, TypeOK
  <1>1. CASE MasterStep
    BY <1>0, <1>1, MasterCount
  <1>2. CASE BeginChild \/ EndChild
    BY <1>2, BeginChildCount, EndChildCount
  <1>3. CASE HandleTerm \/ HandleQuit \/ HandleHup
    <2>1. (ignored => ignored') /\ UNCHANGED <<master, frames, overwritten, active, ids, forks, proc>>
      BY <1>3 DEF HandleTerm, HandleQuit, HandleHup, DoShutdown
    <2>2. QED
      BY <1>0, <2>1, CountUnmoved
  <1>4. ASSUME NEW sig \in Signals, Signal(sig) PROVE Count'
    <2>1. UNCHANGED <<master, frames, overwritten, active, ids, forks, ignored, proc>>
      BY <1>4 DEF Signal, workerVars
    <2>2. QED
      BY <1>0, <2>1, CountUnmoved
  <1>5. ASSUME NEW p \in Pids, WorkerStep(p) \/ Fail(p) PROVE Count'
    <2>1. UNCHANGED <<master, frames, overwritten, active, ids, forks, ignored>>
      BY <1>5 DEF WorkerStep, Start, HearSignal, Fail, SetHandlers, Serve, Stop, HearAsMaster, DieOfSignal, Hear,
                  End, masterVars
    <2>2. /\ proc[p] # "gone" /\ (ignored \/ proc'[p] # "gone")
          /\ \A q \in Pids \ {p} : proc'[q] = proc[q]
      <3>1. CASE SetHandlers(p) \/ Serve(p)
        BY <1>0, <3>1 DEF SetHandlers, Serve
      <3>2. CASE Stop(p) \/ Fail(p) \/ \E sig \in Signals : DieOfSignal(p, sig)
        <4>1. proc[p] \in Alive /\ \E how \in Statuses : End(p, how)
          BY <1>0, <3>2 DEF Stop, Fail, DieOfSignal, Alive, Statuses, TypeOK
        <4>2. QED
          BY <1>0, <4>1 DEF End, Alive
      <3>3. CASE \E sig \in Signals : HearAsMaster(p, sig)
        BY <1>0, <3>3 DEF HearAsMaster
      <3>4. CASE \E sig \in Signals : Hear(p, sig)
        BY <1>0, <3>4 DEF Hear
      <3>5. QED
        BY <1>5, <3>1, <3>2, <3>3, <3>4 DEF WorkerStep, Start, HearSignal
    <2>3. ignored' \/ \A q \in Pids : proc'[q] = "gone" <=> proc[q] = "gone"
      BY <2>1, <2>2
    <2>4. QED
      BY <1>0, <2>1, <2>3, CountUnmoved
  <1>6. CASE UNCHANGED vars
    <2>1. UNCHANGED <<master, frames, overwritten, active, ids, forks, ignored, proc>>
      BY <1>6 DEF vars
    <2>2. QED
      BY <1>0, <2>1, CountUnmoved
  <1>7. QED
    BY <1>1, <1>2, <1>3, <1>4, <1>5, <1>6 DEF Next, Handler

\* However many children die at once, whichever hCHLD waits for first and
\* wherever a handler interrupts the fork loop or another handler, even between
\* the load and the store of the count: ACTIVE_WORKERS is never less than the
\* slots whose child has not been waited for, and it is exactly their number
\* until such a load and store have lost a decrement.
THEOREM CountIsRight == Spec => []CountMatchesSlots
  <1>1. Init => Count
    <2>1. SUFFICES ASSUME Init PROVE Count
      OBVIOUS
    <2>2. OneSlotEach
      BY <2>1 DEF Init, OneSlotEach, Entering, AtLoop
    <2>3. Counted = {} /\ Uncounted = 0 /\ Len(frames) = 0 /\ master.pc = "loop"
      BY <2>1 DEF Init, Counted, Uncounted, Entering, AtLoop
    <2>4. CountMatchesSlots
      BY <2>1, <2>3, FS_EmptySet DEF Init, CountMatchesSlots
    <2>5. CountsLoaded
      BY <2>1, <2>3 DEF Init, CountsLoaded
    <2>6. QED
      BY <2>2, <2>4, <2>5 DEF Count
  <1>2. Count => CountMatchesSlots
    BY DEF Count
  <1>3. QED
    BY <1>1, <1>2, Invariant, CountStep, PTL DEF Spec
=============================================================================
