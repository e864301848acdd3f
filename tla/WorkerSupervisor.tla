-------------------------- MODULE WorkerSupervisor --------------------------
(***************************************************************************)
(* http_server.fork and its signal handlers: the master process keeps      *)
(* NumWorkers worker processes.  It forks one whenever ACTIVE_WORKERS is   *)
(* below that number and a slot of WORKER_IDS is free, enters the child in *)
(* its tables, and sleeps; hCHLD takes a dead child out of the tables.     *)
(*                                                                         *)
(* Python runs a signal handler between any two bytecodes of the main      *)
(* program, or of another handler: every step of the fork loop that a      *)
(* handler could notice is an action of its own, and so are the load and   *)
(* the store of ACTIVE_WORKERS += 1 and -= 1, which a handler comes between *)
(* on CPython 3.6 to 3.9.  Signals of one kind do not queue: a pending     *)
(* signal is a flag (or a member of a set), and two deaths before the      *)
(* handler runs are one SIGCHLD.                                           *)
(***************************************************************************)
EXTENDS Integers, FiniteSets, Sequences

CONSTANTS
    NumWorkers, \* numworker
    MaxPids,    \* bound: processes forked
    MaxDeaths,  \* bound: workers that end without being told to
    MaxHups,    \* bound: SIGHUPs sent to the master
    Stops,      \* signals the operator may stop the master with: TERM, QUIT
    Together,   \* TRUE: workers may die while a SIGCHLD is still pending
    Early,      \* TRUE: a worker may die before the master has entered it
    None

Slots == 1..NumWorkers
Pids  == 1..MaxPids

ASSUME WorkerSupervisorAssumption ==
    /\ NumWorkers \in Nat \ {0} /\ MaxPids \in Nat
    /\ MaxDeaths \in Nat /\ MaxHups \in Nat
    /\ Stops \subseteq {"TERM", "QUIT"}
    /\ Together \in BOOLEAN /\ Early \in BOOLEAN
    /\ None \notin 0..MaxPids

VARIABLES
    master,     \* where the fork loop is: pc, the slot and pid at hand, the count loaded
    frames,     \* the hCHLD that run, each inside the one before: the count it loaded
    survail,    \* SURVAIL
    active,     \* ACTIVE_WORKERS
    ids,        \* WORKER_IDS
    table,      \* PID: pids entered, "live" or "none"
    installed,  \* the master's signal handlers are set
    ignored,    \* SIGCHLD is SIG_IGN
    chld,       \* SIGCHLD is pending
    tomaster,   \* the operator's signals pending at the master
    forks,      \* processes forked
    proc,       \* worker processes
    tell,       \* signals pending at each worker
    copy,       \* the live pids in the PID a child inherited
    status,     \* how a worker ended, or is going to
    deaths, hups,
    overwritten \* history: an hCHLD began between the load and the store of a count

vars == <<master, frames, survail, active, ids, table, installed, ignored, chld,
          tomaster, forks, proc, tell, copy, status, deaths, hups, overwritten>>
masterVars == <<frames, survail, active, ids, table, installed, ignored, chld, tomaster,
                forks, overwritten>>
workerVars == <<proc, tell, copy, status>>
bounds == <<deaths, hups>>

\* A worker runs with the master's handlers ("forked"), then mounts its
\* applications with its own ("mounting"), then runs lifetime.loop
\* ("serving") until it is told to stop ("stopping").  A "zombie" waits for
\* waitpid.
Alive == {"forked", "mounting", "serving", "stopping"}
ProcStates == Alive \cup {"unborn", "zombie", "gone"}
Signals  == {"TERM", "QUIT", "HUP"}
Statuses == {"shutdown", "restart", "startup", "crash"}
MasterPc == {"loop", "fork", "install", "look", "enter", "occupy", "load", "store",
             "done", "crashed"}

AtLoop == [pc |-> "loop", slot |-> 0, pid |-> 0, count |-> 0]

Init ==
    /\ master = AtLoop /\ frames = <<>> /\ overwritten = FALSE
    /\ survail = TRUE /\ active = 0
    /\ ids = [i \in Slots |-> None]
    /\ table = [p \in Pids |-> "absent"]
    /\ installed = FALSE /\ ignored = FALSE
    /\ chld = FALSE /\ tomaster = {} /\ forks = 0
    /\ proc = [p \in Pids |-> "unborn"]
    /\ tell = [p \in Pids |-> {}]
    /\ copy = [p \in Pids |-> {}]
    /\ status = [p \in Pids |-> "crash"]
    /\ deaths = 0 /\ hups = 0

Entered == {p \in Pids : table[p] = "live"}
Children == {p \in Pids : proc[p] \in Alive}
Up == master.pc \notin {"done", "crashed"}

-----------------------------------------------------------------------------
(* The fork loop.                                                          *)

\* WORKER_IDS.index (None): the first free slot; when there is none the loop
\* sleeps and looks again.
FirstFree(i) == ids[i] = None /\ \A j \in Slots : j < i => ids[j] # None

BeginForkAnySlot ==
    /\ master.pc = "loop" /\ survail
    /\ active < NumWorkers /\ forks < MaxPids
    /\ \E i \in Slots : master' = [AtLoop EXCEPT !.pc = "fork", !.slot = i]
    /\ UNCHANGED <<masterVars, workerVars, bounds>>

BeginFork ==
    /\ master.pc = "loop" /\ survail
    /\ active < NumWorkers /\ forks < MaxPids
    /\ \E i \in Slots : FirstFree(i) /\ master' = [AtLoop EXCEPT !.pc = "fork", !.slot = i]
    /\ UNCHANGED <<masterVars, workerVars, bounds>>

Fork ==
    /\ master.pc = "fork" /\ forks < MaxPids
    /\ forks' = forks + 1
    /\ proc' = [proc EXCEPT ![forks + 1] = "forked"]
    /\ copy' = [copy EXCEPT ![forks + 1] = Entered]
    /\ master' = [master EXCEPT !.pc = "install", !.pid = forks + 1]
    /\ UNCHANGED <<frames, survail, active, ids, table, installed, ignored, chld, tomaster,
                   overwritten, tell, status, bounds>>

\* With the first child the master sets its handlers.
Install ==
    /\ master.pc = "install"
    /\ installed' = TRUE
    /\ master' = [master EXCEPT !.pc = "look"]
    /\ UNCHANGED <<frames, survail, active, ids, table, ignored, chld, tomaster, forks,
                   overwritten, workerVars, bounds>>

\* psutil.Process raises for a process that is gone, which nothing catches.
Look ==
    /\ master.pc = "look"
    /\ master' = [master EXCEPT !.pc = IF proc[master.pid] = "gone" THEN "crashed" ELSE "enter"]
    /\ UNCHANGED <<masterVars, workerVars, bounds>>

Enter ==
    /\ master.pc = "enter"
    /\ table' = [table EXCEPT ![master.pid] = "live"]
    /\ master' = [master EXCEPT !.pc = "occupy"]
    /\ UNCHANGED <<frames, survail, active, ids, installed, ignored, chld, tomaster, forks,
                   overwritten, workerVars, bounds>>

Occupy ==
    /\ master.pc = "occupy"
    /\ ids' = [ids EXCEPT ![master.slot] = master.pid]
    /\ master' = [master EXCEPT !.pc = "load"]
    /\ UNCHANGED <<frames, survail, active, table, installed, ignored, chld, tomaster, forks,
                   overwritten, workerVars, bounds>>

\* ACTIVE_WORKERS += 1.
Load ==
    /\ master.pc = "load"
    /\ master' = [master EXCEPT !.pc = "store", !.count = active]
    /\ UNCHANGED <<masterVars, workerVars, bounds>>

Store ==
    /\ master.pc = "store"
    /\ active' = master.count + 1
    /\ master' = AtLoop
    /\ UNCHANGED <<frames, survail, ids, table, installed, ignored, chld, tomaster, forks,
                   overwritten, workerVars, bounds>>

\* After the loop: kill.child_processes_gracefully.
LeaveRunning == proc' = proc
KillChildren == proc' = [p \in Pids |-> IF proc[p] = "unborn" THEN "unborn" ELSE "gone"]

Leave ==
    /\ master.pc = "loop" /\ ~survail
    /\ KillChildren
    /\ master' = [master EXCEPT !.pc = "done"]
    /\ UNCHANGED <<masterVars, tell, copy, status, bounds>>

-----------------------------------------------------------------------------
(* The master's signal handlers.                                           *)

Tell(ps, sig) == tell' = [p \in Pids |-> IF p \in ps THEN tell[p] \cup {sig} ELSE tell[p]]

\* DO_SHUTDOWN, and the children it reaches: those entered and not known dead.
DoShutdown(sig) ==
    /\ ignored' = TRUE /\ chld' = FALSE
    /\ Tell(Entered \cap Children, sig)

FreeSlot(p) == ids' = [i \in Slots |-> IF ids[i] = p THEN None ELSE ids[i]]

CountKept == active' = frames[Len(frames)]
CountOut == active' = frames[Len(frames)] - 1

\* hCHLD: it loads the count, takes it down by one and takes one dead child,
\* whichever waitpid (0, 0) returns.
BeginChild ==
    /\ Up /\ chld /\ ~ignored
    /\ chld' = FALSE
    /\ frames' = Append(frames, active)
    /\ overwritten' = (overwritten \/ master.pc = "store" \/ frames # <<>>)
    /\ UNCHANGED <<master, survail, active, ids, table, installed, ignored, tomaster, forks,
                   workerVars, bounds>>

EndChild ==
    /\ Up /\ frames # <<>>
    /\ frames' = SubSeq(frames, 1, Len(frames) - 1)
    /\ CountOut
    /\ \E p \in Pids :
         /\ proc[p] = "zombie"
         /\ proc' = [proc EXCEPT ![p] = "gone"]
         /\ \/ /\ status[p] = "startup"
               /\ survail' = FALSE
               /\ DoShutdown("TERM")
               /\ UNCHANGED <<table, ids>>
            \/ /\ status[p] # "startup"
               /\ table' = [table EXCEPT ![p] = "none"]
               /\ FreeSlot(p)
               /\ UNCHANGED <<survail, ignored, chld, tell>>
    /\ UNCHANGED <<master, installed, tomaster, forks, overwritten, copy, status, bounds>>

HandleTerm ==
    /\ Up /\ installed /\ "TERM" \in tomaster
    /\ survail' = FALSE
    /\ DoShutdown("TERM")
    /\ tomaster' = tomaster \ {"TERM"}
    /\ UNCHANGED <<master, frames, active, ids, table, installed, forks, overwritten, proc, copy,
                   status, bounds>>

HandleQuit ==
    /\ Up /\ installed /\ "QUIT" \in tomaster
    /\ DoShutdown("QUIT")
    /\ tomaster' = tomaster \ {"QUIT"}
    /\ UNCHANGED <<master, frames, survail, active, ids, table, installed, forks, overwritten,
                   proc, copy, status, bounds>>

HandleHup ==
    /\ Up /\ installed /\ "HUP" \in tomaster
    /\ Tell(Entered \cap Children, "HUP")
    /\ tomaster' = tomaster \ {"HUP"}
    /\ UNCHANGED <<master, frames, survail, active, ids, table, installed, ignored, chld, forks,
                   overwritten, proc, copy, status, bounds>>

\* The operator: one stop, and SIGHUPs.  (Before its handlers are set the
\* master has no worker to lose and a signal ends it; that is left out.)
Signal(sig) ==
    /\ Up /\ installed
    /\ \/ sig \in Stops /\ "TERM" \notin tomaster /\ survail /\ ~ignored /\ UNCHANGED hups
       \/ sig = "HUP" /\ hups < MaxHups /\ hups' = hups + 1
    /\ tomaster' = tomaster \cup {sig}
    /\ UNCHANGED <<master, frames, survail, active, ids, table, installed, ignored, chld, forks,
                   overwritten, workerVars, deaths>>

-----------------------------------------------------------------------------
(* A worker.                                                               *)

\* The end of a process: a zombie and a SIGCHLD, unless SIGCHLD is ignored;
\* its memory and the signals sent to it are gone.
End(p, how) ==
    /\ proc' = [proc EXCEPT ![p] = IF ignored THEN "gone" ELSE "zombie"]
    /\ status' = [status EXCEPT ![p] = how]
    /\ tell' = [tell EXCEPT ![p] = {}] /\ copy' = [copy EXCEPT ![p] = {}]
    /\ chld' = (chld \/ (installed /\ ~ignored))
    /\ UNCHANGED <<master, frames, survail, active, ids, table, installed, ignored, tomaster,
                   forks, overwritten>>

MayDie(p) == /\ Up
             /\ Together \/ ~chld
             /\ Early \/ table[p] = "live"

\* The child forgets PID and sets its own handlers, and later enters lifetime.loop, which
\* forgets a shutdown asked for in between.
SetHandlers(p) ==
    /\ proc[p] = "forked"
    /\ proc' = [proc EXCEPT ![p] = "mounting"]
    /\ copy' = [copy EXCEPT ![p] = {}]
    /\ UNCHANGED <<master, masterVars, tell, status, bounds>>

Serve(p) ==
    /\ proc[p] = "mounting"
    /\ proc' = [proc EXCEPT ![p] = "serving"]
    /\ UNCHANGED <<master, masterVars, tell, copy, status, bounds>>

\* Mounting fails, or the process dies.
Fail(p) ==
    /\ proc[p] \in Alive /\ MayDie(p) /\ deaths < MaxDeaths
    /\ deaths' = deaths + 1
    /\ \/ proc[p] = "mounting" /\ End(p, "startup")
       \/ End(p, "crash")
    /\ UNCHANGED hups

FirstChild == 1

\* A child that still has the master's handlers treats a signal as the master
\* does: it passes it on to the siblings it knows, and stays.
HearAsMaster(p, sig) ==
    /\ sig \in tell[p] /\ proc[p] = "forked" /\ p # FirstChild
    /\ tell' = [q \in Pids |-> CASE q = p -> tell[p] \ {sig}
                                 [] q # p /\ q \in copy[p] /\ proc[q] \in Alive -> tell[q] \cup {sig}
                                 [] OTHER -> tell[q]]
    /\ UNCHANGED <<master, masterVars, proc, copy, status, bounds>>

\* The first child was forked before there were handlers to inherit.
DieOfSignal(p, sig) ==
    /\ sig \in tell[p] /\ proc[p] = "forked" /\ p = FirstChild /\ MayDie(p)
    /\ End(p, "crash")
    /\ UNCHANGED bounds

\* hTERMWORKER, hHUPWORKER, hQUITWORKER: lifetime.shutdown.
Hear(p, sig) ==
    /\ sig \in tell[p] /\ proc[p] \in {"mounting", "serving", "stopping"}
    /\ tell' = [tell EXCEPT ![p] = @ \ {sig}]
    /\ IF proc[p] = "serving"
       THEN /\ proc' = [proc EXCEPT ![p] = "stopping"]
            /\ status' = [status EXCEPT ![p] = IF sig = "HUP" THEN "restart" ELSE "shutdown"]
       ELSE UNCHANGED <<proc, status>>
    /\ UNCHANGED <<master, masterVars, copy, bounds>>

Stop(p) ==
    /\ proc[p] = "stopping" /\ MayDie(p)
    /\ End(p, status[p])
    /\ UNCHANGED bounds

-----------------------------------------------------------------------------
MasterStep == /\ frames = <<>>
              /\ \/ BeginFork \/ Fork \/ Install \/ Look
                 \/ Enter \/ Occupy \/ Load \/ Store \/ Leave
Handler == BeginChild \/ EndChild \/ HandleTerm \/ HandleQuit \/ HandleHup
Start(p) == SetHandlers(p) \/ Serve(p)
HearSignal(p) == \E sig \in Signals : HearAsMaster(p, sig) \/ DieOfSignal(p, sig) \/ Hear(p, sig)
WorkerStep(p) == Start(p) \/ Stop(p) \/ HearSignal(p)

Next == \/ MasterStep \/ Handler
        \/ \E sig \in Signals : Signal(sig)
        \/ \E p \in Pids : WorkerStep(p) \/ Fail(p)

Spec == Init /\ [][Next]_vars

\* The master keeps running and its handlers run; a worker mounts, hears the
\* signals sent to it, and one that is stopping ends (module GracefulShutdown).
Fairness ==
    /\ WF_vars(MasterStep) /\ WF_vars(Handler)
    /\ \A p \in Pids : WF_vars(Start(p)) /\ SF_vars(Stop(p)) /\ WF_vars(HearSignal(p))

FairSpec == Spec /\ Fairness
-----------------------------------------------------------------------------
(* Properties.                                                             *)

TypeOK ==
    /\ master \in [pc : MasterPc, slot : 0..NumWorkers, pid : 0..MaxPids, count : Int]
    /\ frames \in Seq(Int) /\ overwritten \in BOOLEAN
    /\ survail \in BOOLEAN /\ installed \in BOOLEAN /\ ignored \in BOOLEAN /\ chld \in BOOLEAN
    /\ active \in Int
    /\ ids \in [Slots -> Pids \cup {None}]
    /\ table \in [Pids -> {"absent", "live", "none"}]
    /\ tomaster \subseteq Signals
    /\ forks \in 0..MaxPids
    /\ proc \in [Pids -> ProcStates]
    /\ tell \in [Pids -> SUBSET Signals]
    /\ copy \in [Pids -> SUBSET Pids]
    /\ status \in [Pids -> Statuses]
    /\ deaths \in 0..MaxDeaths /\ hups \in 0..MaxHups

\* Every child that is alive, or dead and not waited for, has a slot of its
\* own or the one the master is about to enter it in: whatever the signals do
\* to ACTIVE_WORKERS, never more than numworker processes exist.
Entering == master.pc \in {"install", "look", "enter", "occupy"}
HasSlot(p) == \/ \E i \in Slots : ids[i] = p
              \/ Entering /\ master.pid = p /\ ids[master.slot] = None
SlotsCoverChildren ==
    master.pc \notin {"done", "crashed"} =>
        \A p \in Pids : proc[p] \in Alive \cup {"zombie"} => HasSlot(p)

\* hCHLD never blocks the master in waitpid: every hCHLD that runs, and the
\* one that is pending, has a dead child of its own.
Zombies == {p \in Pids : proc[p] = "zombie"}
WaitpidReturns == Len(frames) + (IF chld THEN 1 ELSE 0) <= Cardinality(Zombies)

\* ACTIVE_WORKERS is never less than the slots whose child hCHLD has not waited
\* for, so that the master never forks over a worker that lives; and it is no
\* more, unless an hCHLD began between another's load of the count and its
\* store.  The child at hand is not counted in yet while the count is loaded
\* and stored, or was counted out before.
Uncounted == IF \/ master.pc \in {"load", "store"}
                \/ Entering /\ proc[master.pid] = "gone" THEN 1 ELSE 0
Counted == {i \in Slots : ids[i] # None /\ proc[ids[i]] # "gone"}
CountMatchesSlots ==
    (Up /\ ~ignored) =>
        /\ active + Uncounted >= Cardinality(Counted)
        /\ ~overwritten => active + Uncounted = Cardinality(Counted)

\* Deaths are made good: unless the operator stops it, the server ends up with
\* numworker workers serving, or one of the three ways to lose a worker for good
\* has happened: two deaths were one SIGCHLD, hCHLD came before the master had
\* entered the child (or looked at it, which then ends the master), or a count
\* was overwritten.  The workers a SIGHUP restarts may also use up the forks of
\* the instance.
Serving == Cardinality({p \in Pids : proc[p] = "serving"})
Stopped == ~survail \/ ignored
SlotLost == \/ ~chld /\ frames = <<>> /\ Zombies # {}
            \/ \E i \in Slots : ids[i] # None /\ proc[ids[i]] = "gone"
            \/ master.pc = "crashed"
OutOfForks == hups > 0 /\ forks = MaxPids
WorkersReplaced ==
    <>[](Serving = NumWorkers \/ Stopped \/ SlotLost \/ overwritten \/ OutOfForks)

\* SIGTERM, or a worker that cannot start, ends the master and all workers.
TermEndsAll == (~survail) ~> (~Up /\ (master.pc = "done" => Children = {}))

\* "catch SIGHUP for reloading worker process": after a SIGHUP to the master
\* every worker is a new one in the end and none is missing.
HupReloads == (hups = 1) ~> (Serving = NumWorkers \/ Stopped)
=============================================================================
