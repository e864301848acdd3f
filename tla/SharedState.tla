------------------------------ MODULE SharedState ------------------------------
(***************************************************************************)
(* Semaps: numbers under names, in one array of shared memory that every   *)
(* worker process has, and the times of last update that setlu and getlu   *)
(* keep in it.  The array is shared; the dictionary that says which slot   *)
(* a name has is copied at the fork and each process adds to its own.      *)
(*                                                                         *)
(* Reading or writing one slot is atomic (the array's lock is held for     *)
(* it), but set, get with a default and delta each take several such       *)
(* steps.  Numbers other than times are left out.                          *)
(***************************************************************************)
EXTENDS Naturals, Sequences, FiniteSets

CONSTANTS
    Processes,  \* the worker processes
    Keys,       \* the names
    Early,      \* names added by the master, before the fork
    Slots,      \* the size of the array
    MaxTime,    \* bound: the clock
    MaxAdds     \* bound: calls of add in a worker

Times == 0..MaxTime
NoSlot == 0
InitTime == 1   \* init_time: the workers' context class was loaded then

VARIABLES
    array,      \* the slots
    index,      \* _d of each process: the slot of each name
    names,      \* how many names each process has in _keys
    clock,      \* the time
    op,         \* what each process is doing, with which name and number
    adds,       \* calls of add in each worker
    updated,    \* history: the latest update of each name that is over
    again       \* history: add was given a name it had

semapVars == <<array, index, names, clock, op, adds, updated, again>>

NoOp == [pc |-> "idle", key |-> CHOOSE k \in Keys : TRUE, num |-> 0]

\* add: a new name gets the slot behind the names there were, counted from its
\* place among the names it came with.
BehindAll(old, given, i) == i
BehindGrown(old, given, i) == old + (i - 1) + i
Behind(old, given, i) == old + i
Added(p, given) ==
    LET old == names[p]
        place(k) == CHOOSE i \in DOMAIN given : given[i] = k
        Slot(k) == IF index[p][k] = NoSlot /\ \E i \in DOMAIN given : given[i] = k
                   THEN Behind(old, given, place(k)) ELSE index[p][k]
    IN [index |-> [k \in Keys |-> Slot(k)],
        names |-> old + Cardinality({i \in DOMAIN given : index[p][given[i]] = NoSlot})]

Init ==
    /\ array = [s \in 1..Slots |-> 0]
    /\ index = [p \in Processes |-> [k \in Keys |-> IF \E i \in DOMAIN Early : Early[i] = k
                                       THEN CHOOSE i \in DOMAIN Early : Early[i] = k ELSE NoSlot]]
    /\ names = [p \in Processes |-> Len(Early)]
    /\ clock = InitTime + 1 /\ op = [p \in Processes |-> NoOp]
    /\ adds = [p \in Processes |-> 0]
    /\ updated = [k \in Keys |-> 0] /\ again = FALSE

-----------------------------------------------------------------------------
\* register_g in a worker that has started.
Add(p) ==
    /\ op[p].pc = "idle" /\ adds[p] < MaxAdds
    /\ \E given \in {<<a>> : a \in Keys} \cup {<<ab[1], ab[2]>> : ab \in {x \in Keys \X Keys : x[1] # x[2]}} :
          /\ index' = [index EXCEPT ![p] = Added(p, given).index]
          /\ names' = [names EXCEPT ![p] = Added(p, given).names]
          /\ again' = (again \/ \E i \in DOMAIN given : index[p][given[i]] # NoSlot)
    /\ adds' = [adds EXCEPT ![p] = @ + 1]
    /\ UNCHANGED <<array, clock, op, updated>>

Begin(p, pc, k, n) ==
    /\ op[p].pc = "idle" /\ index[p][k] # NoSlot
    /\ op' = [op EXCEPT ![p] = [pc |-> pc, key |-> k, num |-> n]]
    /\ UNCHANGED <<array, index, names, clock, adds, updated, again>>
Slot(p) == index[p][op[p].key]
Write(p, n) == array' = [array EXCEPT ![Slot(p)] = n]
Finish(p) == op' = [op EXCEPT ![p] = NoOp]

\* setlu: the time is taken, then set.
Setlu(p, k) == Begin(p, "set", k, clock)
Set(p) ==
    /\ op[p].pc = "set"
    /\ Write(p, op[p].num) /\ Finish(p)
    /\ updated' = [updated EXCEPT ![op[p].key] = IF @ < op[p].num THEN op[p].num ELSE @]
    /\ UNCHANGED <<index, names, clock, adds, again>>
\* getlu: a slot that is 0 is given init_time.
Getlu(p, k) == Begin(p, "get", k, 0)
Get(p) ==
    /\ op[p].pc = "get"
    /\ IF array[Slot(p)] = 0 THEN op' = [op EXCEPT ![p].pc = "default"] ELSE Finish(p)
    /\ UNCHANGED <<array, index, names, clock, adds, updated, again>>
Default(p) ==
    /\ op[p].pc = "default"
    /\ Write(p, InitTime) /\ Finish(p)
    /\ UNCHANGED <<index, names, clock, adds, updated, again>>
Tick ==
    /\ clock < MaxTime /\ clock' = clock + 1
    /\ UNCHANGED <<array, index, names, op, adds, updated, again>>

Next ==
    \/ Tick
    \/ \E p \in Processes : \/ Add(p) \/ Set(p) \/ Get(p) \/ Default(p)
                            \/ \E k \in Keys : Setlu(p, k) \/ Getlu(p, k)

Spec == Init /\ [][Next]_semapVars

-----------------------------------------------------------------------------
(* Properties.                                                             *)

TypeOK ==
    /\ array \in [1..Slots -> Times] /\ clock \in Times
    /\ index \in [Processes -> [Keys -> 0..Slots]]
    /\ names \in [Processes -> 0..Slots]
    /\ op \in [Processes -> [pc : {"idle", "set", "get", "default"}, key : Keys, num : Times]]
    /\ updated \in [Keys -> Times]

\* However names are added, one by one or several at once, no two of them have
\* the same slot in one process; but for names added together with one that was
\* there already.
KeysApart ==
    again \/ \A p \in Processes : \A j, k \in Keys :
        j # k /\ index[p][j] # NoSlot => index[p][j] # index[p][k]

\* An update that is over is not undone: no worker finds init_time again.
UpdatesStand ==
    \A k \in Keys : \A p \in Processes :
        updated[k] # 0 /\ index[p][k] # NoSlot => array[index[p][k]] # InitTime
=============================================================================
