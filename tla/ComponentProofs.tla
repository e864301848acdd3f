---------------------------- MODULE ComponentProofs ----------------------------
(***************************************************************************)
(* What the smaller components keep, whichever of them runs: a reloading   *)
(* application records the file it has loaded, a QUIC connection has at    *)
(* most one open channel, a calm file is answered as it is, a WebSocket    *)
(* session forgets its client and has its last word heard, and every name  *)
(* has a slot of its own.                                                  *)
(***************************************************************************)
EXTENDS MCComponents, Integers, FiniteSetTheorems, TLAPS

-----------------------------------------------------------------------------
(* AppReload: any number of request threads, any edits and any versions    *)
(* that do not load, as long as the first one does.                        *)


Pcs == {"idle", "stat", "reload", "import", "raising", "start_app", "reloaded", "app"}
Visits == [pc : Pcs, old : AR!Sources, loaded : 0..MaxEdits]
HasLoaded(u) == visit[u].pc = "start_app"

\* Nobody has loaded, or is loading, a version that was never on disk.
NoneAhead ==
    /\ recorded <= source
    /\ \A u \in Threads : HasLoaded(u) => visit[u].loaded <= source
    /\ \A u \in AR!Loading : visit[u].loaded \in 1..source

\* A version that does not load is not in start_app while it is on disk, and is
\* recorded only by a thread that had loaded another.
NoneBroken ==
    /\ \A u \in Threads : HasLoaded(u) /\ visit[u].loaded = source => source \notin Broken
    /\ recorded = source /\ source \in Broken => slipped

\* Unless two load at once: the one that loads has no older version than those
\* in start_app, and if it loads an older one than is recorded, that slipped.
OneLoads ==
    ~doubled =>
        /\ \A x, y \in AR!Loading : x = y
        /\ \A x \in AR!Loading, u \in Threads : HasLoaded(u) => visit[u].loaded <= visit[x].loaded
        /\ \A x \in AR!Loading : recorded = source /\ visit[x].loaded < source => slipped

\* When nobody loads, the module has what was loaded of the file on disk.
LoadedIsThere ==
    ~doubled /\ AR!Loading = {} =>
        \A u \in Threads : HasLoaded(u) /\ visit[u].loaded = source => app = source

\* What makes NewestOrRetried inductive.
Reloading == NoneAhead /\ NoneBroken /\ OneLoads /\ LoadedIsThere /\ AR!NewestOrRetried

-----------------------------------------------------------------------------
(* Types.                                                                  *)

\* Every call starts, and ends, as At says.
LEMMA AtIsVisit ==
    ASSUME MaxEdits \in Nat, 1 \in AR!Sources, NEW pc \in Pcs
    PROVE  AR!At(pc) \in Visits /\ AR!At(pc).pc = pc
BY DEF AR!At, Visits, AR!Sources

\* A thread that moves moves alone.
LEMMA MovesAlone ==
    ASSUME AR!TypeOK, NEW t \in Threads, NEW v \in Visits, visit' = [visit EXCEPT ![t] = v]
    PROVE  /\ visit' \in [Threads -> Visits]
           /\ visit'[t] = v
           /\ \A u \in Threads : u # t => visit'[u] = visit[u]
BY DEF AR!TypeOK, Visits, Pcs

\* A thread that goes to another place in maybe_reload, with the version n.
Turn(t, pc, n) == [pc |-> pc, old |-> visit[t].old, loaded |-> n]

\* It is a visit, and what one kind of EXCEPT says.
LEMMA Turns ==
    ASSUME AR!TypeOK, NEW t \in Threads, NEW pc \in Pcs, NEW n \in 0..MaxEdits
    PROVE  /\ Turn(t, pc, n) \in Visits /\ Turn(t, pc, n).pc = pc /\ Turn(t, pc, n).loaded = n
           /\ n = visit[t].loaded => [visit[t] EXCEPT !.pc = pc] = Turn(t, pc, n)
<1> DEFINE w == visit[t]
<1>1. w \in Visits
  BY DEF AR!TypeOK, Visits, Pcs
<1>2. [w EXCEPT !.pc = pc] = [pc |-> pc, old |-> w.old, loaded |-> w.loaded]
  BY <1>1 DEF Visits
<1>4. Turn(t, pc, n) \in Visits /\ Turn(t, pc, n).pc = pc /\ Turn(t, pc, n).loaded = n
  BY <1>1 DEF Visits, Turn
<1>5. n = w.loaded => [w EXCEPT !.pc = pc] = Turn(t, pc, n)
  BY <1>2 DEF Turn
<1> QED
  BY <1>4, <1>5

\* The steps that load, or record, nothing.
Passes(t) == \/ AR!MaybeReload(t) \/ AR!Stat(t) \/ AR!ImportDeclined(t)
             \/ AR!Reloaded(t) \/ AR!Serve(t)

\* Where each step of a thread leads.
LoadsStep(t, v) ==
    \/ AR!ImportBegins(t) /\ v.pc = "import" /\ v.loaded = source
    \/ AR!HalfImported(t) /\ v.pc = "raising" /\ v.loaded = visit[t].loaded
    \/ AR!ImportSkipped(t) /\ v.pc = "start_app" /\ v.loaded = 0
    \/ AR!Imported(t) /\ v.pc = "start_app" /\ v.loaded = visit[t].loaded
Elsewhere(t, v) ==
    /\ AR!ImportFails(t) \/ AR!StartApp(t) \/ Passes(t)
    /\ v.pc \in {"idle", "stat", "reload", "reloaded", "app"}

\* Every step of a thread gives it one new visit.
LEMMA Moves ==
    ASSUME AR!TypeOK, MaxEdits \in Nat, NEW t \in Threads, AR!CallStep(t)
    PROVE  \E v \in Visits : /\ visit' = [visit EXCEPT ![t] = v]
                             /\ LoadsStep(t, v) \/ Elsewhere(t, v)
<1>1. 1 \in AR!Sources /\ source \in AR!Sources /\ app \in AR!Sources
  BY DEF AR!TypeOK, AR!Sources
<1>2. visit[t] \in Visits /\ source \in 0..MaxEdits /\ visit[t].loaded \in 0..MaxEdits
      /\ 0 \in 0..MaxEdits
  BY DEF AR!TypeOK, AR!Sources, Visits, Pcs
<1>3. \A pc \in Pcs : AR!At(pc) \in Visits /\ AR!At(pc).pc = pc
  BY <1>1, AtIsVisit
<1> DEFINE Made(v) == visit' = [visit EXCEPT ![t] = v]
<1>4. CASE AR!ImportBegins(t)
  <2> DEFINE v == Turn(t, "import", source)
  <2>0. "import" \in Pcs /\ source \in 0..MaxEdits
    BY <1>2 DEF Pcs
  <2>a. v \in Visits /\ v.pc = "import" /\ v.loaded = source
    BY <2>0, Turns
  <2>b. [visit[t] EXCEPT !.pc = "import"] = [pc |-> "import", old |-> visit[t].old, loaded |-> visit[t].loaded]
    BY <1>2 DEF Visits
  <2>c. [[pc |-> "import", old |-> visit[t].old, loaded |-> visit[t].loaded] EXCEPT !.loaded = source]
          = [pc |-> "import", old |-> visit[t].old, loaded |-> source]
    OBVIOUS
  <2>1. /\ v \in Visits /\ v.pc = "import" /\ v.loaded = source
        /\ [visit[t] EXCEPT !.pc = "import", !.loaded = source] = v
    BY <2>a, <2>b, <2>c, Zenon DEF Turn
  <2>2. visit' = [visit EXCEPT ![t] = [visit[t] EXCEPT !.pc = "import", !.loaded = source]]
    BY <1>4 DEF AR!ImportBegins
  <2> HIDE DEF v
  <2>3. Made(v)
    BY <2>1, <2>2, Zenon
  <2> QED
    BY <1>4, <2>1, <2>3 DEF LoadsStep
<1>5. CASE AR!ImportSkipped(t)
  <2> DEFINE v == Turn(t, "start_app", 0)
  <2>0. "start_app" \in Pcs /\ 0 \in 0..MaxEdits
    BY <1>2 DEF Pcs
  <2>a. v \in Visits /\ v.pc = "start_app" /\ v.loaded = 0
    BY <2>0, Turns
  <2>b. [visit[t] EXCEPT !.pc = "start_app"] = [pc |-> "start_app", old |-> visit[t].old, loaded |-> visit[t].loaded]
    BY <1>2 DEF Visits
  <2>c. [[pc |-> "start_app", old |-> visit[t].old, loaded |-> visit[t].loaded] EXCEPT !.loaded = 0]
          = [pc |-> "start_app", old |-> visit[t].old, loaded |-> 0]
    OBVIOUS
  <2>1. /\ v \in Visits /\ v.pc = "start_app" /\ v.loaded = 0
        /\ [visit[t] EXCEPT !.pc = "start_app", !.loaded = 0] = v
    BY <2>a, <2>b, <2>c, Zenon DEF Turn
  <2>2. visit' = [visit EXCEPT ![t] = [visit[t] EXCEPT !.pc = "start_app", !.loaded = 0]]
    BY <1>5 DEF AR!ImportSkipped
  <2> HIDE DEF v
  <2>3. Made(v)
    BY <2>1, <2>2, Zenon
  <2> QED
    BY <1>5, <2>1, <2>3 DEF LoadsStep
<1>6. CASE AR!Imported(t)
  <2> DEFINE v == Turn(t, "start_app", visit[t].loaded)
  <2>0. "start_app" \in Pcs /\ visit[t].loaded \in 0..MaxEdits
    BY <1>2 DEF Pcs
  <2>1. /\ v \in Visits /\ v.pc = "start_app" /\ v.loaded = visit[t].loaded
        /\ [visit[t] EXCEPT !.pc = "start_app"] = v
    BY <2>0, Turns
  <2>2. visit' = [visit EXCEPT ![t] = [visit[t] EXCEPT !.pc = "start_app"]]
    BY <1>6 DEF AR!Imported
  <2> HIDE DEF v
  <2>3. Made(v)
    BY <2>1, <2>2, Zenon
  <2> QED
    BY <1>6, <2>1, <2>3 DEF LoadsStep
<1>7. CASE AR!HalfImported(t)
  <2> DEFINE v == Turn(t, "raising", visit[t].loaded)
  <2>0. "raising" \in Pcs /\ visit[t].loaded \in 0..MaxEdits
    BY <1>2 DEF Pcs
  <2>1. /\ v \in Visits /\ v.pc = "raising" /\ v.loaded = visit[t].loaded
        /\ [visit[t] EXCEPT !.pc = "raising"] = v
    BY <2>0, Turns
  <2>2. visit' = [visit EXCEPT ![t] = [visit[t] EXCEPT !.pc = "raising"]]
    BY <1>7 DEF AR!HalfImported
  <2> HIDE DEF v
  <2>3. Made(v)
    BY <2>1, <2>2, Zenon
  <2> QED
    BY <1>7, <2>1, <2>3 DEF LoadsStep
<1>8. CASE AR!MaybeReload(t)
  <2>1. visit' = [visit EXCEPT ![t] = AR!At("app")] \/ visit' = [visit EXCEPT ![t] = AR!At("stat")]
    BY <1>8 DEF AR!MaybeReload
  <2> QED
    BY <1>3, <1>8, <2>1 DEF Pcs, Elsewhere, Passes
<1>9. CASE AR!Stat(t)
  <2>1. CASE recorded = source
    <3>1. visit' = [visit EXCEPT ![t] = AR!At("app")]
      BY <1>9, <2>1 DEF AR!Stat
    <3> QED
      BY <1>3, <1>9, <3>1 DEF Pcs, Elsewhere, Passes
  <2>2. CASE recorded # source
    <3>1. visit' = [visit EXCEPT ![t] = [AR!At("reload") EXCEPT !.old = app]]
      BY <1>9, <2>2 DEF AR!Stat
    <3>2. [AR!At("reload") EXCEPT !.old = app] = [pc |-> "reload", old |-> app, loaded |-> 0]
      BY DEF AR!At
    <3>3. [pc |-> "reload", old |-> app, loaded |-> 0] \in Visits
      BY <1>1, <1>2 DEF Visits, Pcs
    <3> QED
      BY <1>9, <3>1, <3>2, <3>3 DEF Elsewhere, Passes
  <2> QED
    BY <2>1, <2>2
<1>10. CASE AR!ImportDeclined(t) \/ AR!ImportFails(t) \/ AR!Reloaded(t) \/ AR!Serve(t)
  <2>1. visit' = [visit EXCEPT ![t] = AR!At("app")] \/ visit' = [visit EXCEPT ![t] = AR!At("idle")]
    BY <1>10 DEF AR!ImportDeclined, AR!ImportFails, AR!Reloaded, AR!Serve
  <2> QED
    BY <1>3, <1>10, <2>1 DEF Pcs, Elsewhere, Passes
<1>11. CASE AR!StartApp(t)
  <2> DEFINE v == Turn(t, "reloaded", visit[t].loaded)
  <2>0. "reloaded" \in Pcs /\ visit[t].loaded \in 0..MaxEdits
    BY <1>2 DEF Pcs
  <2>1. /\ v \in Visits /\ v.pc = "reloaded" /\ v.loaded = visit[t].loaded
        /\ [visit[t] EXCEPT !.pc = "reloaded"] = v
    BY <2>0, Turns
  <2>2. visit' = [visit EXCEPT ![t] = [visit[t] EXCEPT !.pc = "reloaded"]]
    BY <1>11 DEF AR!StartApp
  <2> HIDE DEF v
  <2>3. Made(v)
    BY <2>1, <2>2, Zenon
  <2> QED
    BY <1>11, <2>1, <2>3 DEF Elsewhere
<1> QED
  BY <1>4, <1>5, <1>6, <1>7, <1>8, <1>9, <1>10, <1>11 DEF AR!CallStep

\* The types are kept by every step.
LEMMA TypesStep ==
    ASSUME AR!TypeOK, MaxTicks \in Nat, MaxEdits \in Nat, NoneAhead,
           [AR!Next]_reloadVars
    PROVE  AR!TypeOK'
<1>1. CASE \E t \in Threads : AR!CallStep(t)
  <2>1. PICK t \in Threads : AR!CallStep(t)
    BY <1>1
  <2>2. PICK v \in Visits : visit' = [visit EXCEPT ![t] = v]
    BY <2>1, Moves
  <2>3. visit' \in [Threads -> Visits]
    BY <2>2, MovesAlone
  <2>4. /\ visit[t].old \in AR!Sources /\ visit[t].loaded \in 0..MaxEdits /\ MaxEdits \in Nat
        /\ visit[t].pc = "import" => visit[t].loaded \in AR!Sources
    BY DEF AR!TypeOK, NoneAhead, AR!Loading, AR!Sources
  <2>5. source' = source /\ ticks' = ticks
    BY <2>1 DEF AR!CallStep, AR!MaybeReload, AR!Stat, AR!ImportBegins, AR!ImportSkipped,
                AR!ImportDeclined, AR!Imported, AR!HalfImported, AR!ImportFails, AR!PutBack,
                AR!StartApp, AR!Reloaded, AR!Serve
  <2>6. recorded' \in AR!Sources
    BY <2>1 DEF AR!TypeOK, AR!CallStep, AR!MaybeReload, AR!Stat, AR!ImportBegins, AR!ImportSkipped,
                AR!ImportDeclined, AR!Imported, AR!HalfImported, AR!ImportFails, AR!PutBack,
                AR!StartApp, AR!Reloaded, AR!Serve
  <2>7. app' \in AR!Sources
    BY <2>1, <2>4 DEF AR!TypeOK, AR!CallStep, AR!MaybeReload, AR!Stat, AR!ImportBegins,
                AR!ImportSkipped, AR!ImportDeclined, AR!Imported, AR!HalfImported, AR!ImportFails,
                AR!PutBack, AR!StartApp, AR!Reloaded, AR!Serve
  <2>8. recent' \in BOOLEAN /\ slipped' \in BOOLEAN /\ doubled' \in BOOLEAN
    BY <2>1 DEF AR!TypeOK, AR!CallStep, AR!MaybeReload, AR!Stat, AR!ImportBegins, AR!ImportSkipped,
                AR!ImportDeclined, AR!Imported, AR!HalfImported, AR!ImportFails, AR!PutBack,
                AR!StartApp, AR!Reloaded, AR!Serve
  <2> QED
    BY <2>3, <2>5, <2>6, <2>7, <2>8 DEF AR!TypeOK, Visits, Pcs
<1>2. CASE AR!Edit
  BY <1>2 DEF AR!Edit, AR!TypeOK, AR!Sources
<1>3. CASE AR!Tick
  <2>1. ticks' \in 0..MaxTicks
    BY <1>3 DEF AR!Tick, AR!TypeOK
  <2>2. recent' \in BOOLEAN
    BY <1>3 DEF AR!Tick
  <2>3. UNCHANGED <<source, recorded, app, visit, slipped, doubled>>
    BY <1>3 DEF AR!Tick
  <2> QED
    BY <2>1, <2>2, <2>3 DEF AR!TypeOK
<1>4. CASE UNCHANGED reloadVars
  BY <1>4 DEF reloadVars, AR!TypeOK
<1> QED
  BY <1>1, <1>2, <1>3, <1>4 DEF AR!Next

-----------------------------------------------------------------------------
(* What is recorded.                                                       *)

\* The invariant holds at the start, when the first version loads.
LEMMA ReloadingAtFirst ==
    ASSUME 1 \notin Broken, MaxEdits \in Nat \ {0}, MaxTicks \in Nat, AR!Init
    PROVE  AR!TypeOK /\ Reloading
<1>1. 1 \in AR!Sources
  BY DEF AR!Sources
<1>2. AR!At("idle") \in Visits /\ AR!At("idle").pc = "idle"
  BY <1>1, AtIsVisit DEF Pcs
<1>3. visit \in [Threads -> Visits]
  BY <1>2 DEF AR!Init
<1>4. \A t \in Threads : visit[t].pc = "idle"
  BY <1>2 DEF AR!Init
<1>5. AR!TypeOK
  <2>1. source \in AR!Sources /\ recorded \in AR!Sources /\ app \in AR!Sources /\ ticks \in 0..MaxTicks
    BY <1>1 DEF AR!Init
  <2>2. recent \in BOOLEAN /\ slipped \in BOOLEAN /\ doubled \in BOOLEAN
    BY DEF AR!Init
  <2> QED
    BY <1>3, <2>1, <2>2 DEF AR!TypeOK, Visits, Pcs
<1>6. Reloading
  BY <1>4 DEF AR!Init, Reloading, NoneAhead, NoneBroken, OneLoads, LoadedIsThere, HasLoaded,
              AR!Loading, AR!NewestOrRetried
<1> QED
  BY <1>5, <1>6

\* A load begins: of the file on disk, and alone unless that is remembered.
LEMMA BeginsStep ==
    ASSUME AR!TypeOK, MaxEdits \in Nat, Reloading, NEW t \in Threads, AR!ImportBegins(t),
           NEW v \in Visits, visit' = [visit EXCEPT ![t] = v], v.pc = "import", v.loaded = source
    PROVE  Reloading'
<1>1. visit'[t] = v /\ \A u \in Threads : u # t => visit'[u] = visit[u]
  BY MovesAlone
<1>2. /\ UNCHANGED <<source, recorded, app, slipped>> /\ doubled' = (AR!Loading # {})
      /\ visit[t].pc = "reload" /\ source \in 1..source /\ recorded \in Int
  BY DEF AR!ImportBegins, AR!TypeOK, AR!Sources
<1>3. AR!Loading' = AR!Loading \cup {t} /\ \A u \in Threads : HasLoaded(u)' <=> u # t /\ HasLoaded(u)
  BY <1>1, <1>2 DEF AR!Loading, HasLoaded
<1>4. NoneAhead' /\ NoneBroken'
  BY <1>1, <1>2, <1>3 DEF Reloading, NoneAhead, NoneBroken, AR!Loading
<1>5. OneLoads'
  <2>1. SUFFICES ASSUME ~doubled' PROVE OneLoads'
    BY DEF OneLoads
  <2>2. AR!Loading' = {t}
    BY <1>2, <1>3, <2>1
  <2> QED
    BY <1>1, <1>2, <1>3, <2>2 DEF Reloading, NoneAhead, OneLoads
<1> QED
  BY <1>3, <1>4, <1>5 DEF Reloading, LoadedIsThere, AR!NewestOrRetried

\* A load ends well: the version loaded is in place.
LEMMA ImportedStep ==
    ASSUME AR!TypeOK, MaxEdits \in Nat, Reloading, NEW t \in Threads, AR!Imported(t),
           NEW v \in Visits, visit' = [visit EXCEPT ![t] = v], v.pc = "start_app",
           v.loaded = visit[t].loaded
    PROVE  Reloading'
<1>1. visit'[t] = v /\ \A u \in Threads : u # t => visit'[u] = visit[u]
  BY MovesAlone
<1>2. /\ UNCHANGED <<source, recorded, slipped, doubled>> /\ app' = visit[t].loaded
      /\ visit[t].pc = "import" /\ visit[t].loaded \notin Broken /\ source \in Int
      /\ \A u \in Threads : visit[u].loaded \in Int
  BY DEF AR!Imported, AR!TypeOK, AR!Sources
<1>3. /\ t \in AR!Loading /\ AR!Loading' = AR!Loading \ {t}
      /\ \A u \in Threads : HasLoaded(u)' <=> u = t \/ HasLoaded(u)
  BY <1>1, <1>2 DEF AR!Loading, HasLoaded
<1>4. NoneAhead' /\ NoneBroken'
  BY <1>1, <1>2, <1>3 DEF Reloading, NoneAhead, NoneBroken, AR!Loading
<1>5. CASE doubled
  BY <1>2, <1>4, <1>5 DEF Reloading, OneLoads, LoadedIsThere, AR!NewestOrRetried
<1>6. CASE ~doubled
  <2>1. /\ AR!Loading' = {} /\ visit[t].loaded <= source
        /\ \A u \in Threads : HasLoaded(u) => visit[u].loaded <= visit[t].loaded
        /\ recorded = source /\ visit[t].loaded < source => slipped
    BY <1>3, <1>6 DEF Reloading, OneLoads, NoneAhead
  <2>2. LoadedIsThere'
    BY <1>1, <1>2, <1>3, <2>1 DEF LoadedIsThere
  <2>3. AR!NewestOrRetried'
    BY <1>2, <2>1 DEF AR!NewestOrRetried
  <2> QED
    BY <1>4, <2>1, <2>2, <2>3 DEF Reloading, OneLoads
<1> QED
  BY <1>5, <1>6

\* A load ends badly: the oldapp is back, and the version is not recorded.
LEMMA FailsStep ==
    ASSUME AR!TypeOK, MaxEdits \in Nat, Reloading, NEW t \in Threads, AR!ImportFails(t),
           NEW v \in Visits, visit' = [visit EXCEPT ![t] = v],
           v.pc \in {"idle", "stat", "reload", "reloaded", "app"}
    PROVE  Reloading'
<1>1. visit'[t] = v /\ \A u \in Threads : u # t => visit'[u] = visit[u]
  BY MovesAlone
<1>2. /\ UNCHANGED <<source, recorded, slipped, doubled>>
      /\ visit[t].pc \in {"import", "raising"} /\ visit[t].loaded \in Broken /\ source \in Int
      /\ \A u \in Threads : visit[u].loaded \in Int
  BY DEF AR!ImportFails, AR!PutBack, AR!TypeOK, AR!Sources
<1>3. /\ t \in AR!Loading /\ AR!Loading' = AR!Loading \ {t}
      /\ \A u \in Threads : HasLoaded(u)' <=> HasLoaded(u)
      /\ \A u \in Threads : HasLoaded(u) => u # t
  BY <1>1, <1>2 DEF AR!Loading, HasLoaded
<1>4. NoneAhead' /\ NoneBroken'
  BY <1>1, <1>2, <1>3 DEF Reloading, NoneAhead, NoneBroken, AR!Loading
<1>5. CASE doubled
  BY <1>2, <1>4, <1>5 DEF Reloading, OneLoads, LoadedIsThere, AR!NewestOrRetried
<1>6. CASE ~doubled
  <2>1. /\ AR!Loading' = {} /\ visit[t].loaded <= source
        /\ \A u \in Threads : HasLoaded(u) => visit[u].loaded <= visit[t].loaded
        /\ recorded = source /\ visit[t].loaded < source => slipped
    BY <1>3, <1>6 DEF Reloading, OneLoads, NoneAhead
  <2>2. visit[t].loaded = source => source \in Broken
    BY <1>2
  <2>3. \A u \in Threads : HasLoaded(u) => visit[u].loaded # source
    <3>1. ASSUME NEW u \in Threads, HasLoaded(u), visit[u].loaded = source PROVE FALSE
      <4>1. visit[t].loaded = source
        BY <1>2, <2>1, <3>1
      <4> QED
        BY <2>2, <3>1, <4>1 DEF Reloading, NoneBroken
    <3> QED
      BY <3>1
  <2>4. LoadedIsThere'
    BY <1>1, <1>2, <1>3, <2>3 DEF LoadedIsThere
  <2>5. recorded = source => slipped
    <3>1. CASE visit[t].loaded = source
      BY <2>2, <3>1 DEF Reloading, NoneBroken
    <3>2. CASE visit[t].loaded < source
      BY <2>1, <3>2
    <3> QED
      BY <1>2, <2>1, <3>1, <3>2
  <2>6. AR!NewestOrRetried'
    BY <1>2, <2>5 DEF AR!NewestOrRetried
  <2> QED
    BY <1>4, <2>1, <2>4, <2>6 DEF Reloading, OneLoads
<1> QED
  BY <1>5, <1>6

\* The file is recorded: unless it is the one loaded, that slipped.
LEMMA RecordStep ==
    ASSUME AR!TypeOK, MaxEdits \in Nat, Reloading, NEW t \in Threads, AR!StartApp(t),
           NEW v \in Visits, visit' = [visit EXCEPT ![t] = v],
           v.pc \in {"idle", "stat", "reload", "reloaded", "app"}
    PROVE  Reloading'
<1>1. visit'[t] = v /\ \A u \in Threads : u # t => visit'[u] = visit[u]
  BY MovesAlone
<1>2. /\ UNCHANGED <<source, app, doubled>> /\ recorded' = source
      /\ slipped' = (source # visit[t].loaded) /\ HasLoaded(t) /\ source \in Int
      /\ \A u \in Threads : visit[u].loaded \in Int
  BY DEF AR!StartApp, AR!TypeOK, AR!Sources, HasLoaded
<1>3. /\ t \notin AR!Loading /\ AR!Loading' = AR!Loading
      /\ \A u \in Threads : HasLoaded(u)' <=> u # t /\ HasLoaded(u)
      /\ \A u \in AR!Loading : visit'[u] = visit[u]
  BY <1>1, <1>2 DEF AR!Loading, HasLoaded
<1>4. NoneAhead'
  BY <1>1, <1>2, <1>3 DEF Reloading, NoneAhead
<1>5. NoneBroken'
  BY <1>1, <1>2, <1>3 DEF Reloading, NoneBroken
<1>6. OneLoads'
  <2>1. SUFFICES ASSUME ~doubled PROVE OneLoads'
    BY <1>2 DEF OneLoads
  <2>2. \A x \in AR!Loading : visit[x].loaded < source => slipped'
    <3>1. SUFFICES ASSUME NEW x \in AR!Loading, visit[x].loaded < source PROVE source # visit[t].loaded
      BY <1>2
    <3>2. visit[t].loaded <= visit[x].loaded /\ x \in Threads
      BY <1>2, <2>1 DEF Reloading, OneLoads, AR!Loading
    <3> QED
      BY <1>2, <3>1, <3>2
  <2> QED
    BY <1>1, <1>2, <1>3, <2>1, <2>2 DEF Reloading, OneLoads, AR!Loading
<1>7. LoadedIsThere'
  BY <1>1, <1>2, <1>3 DEF Reloading, LoadedIsThere
<1>8. AR!NewestOrRetried'
  BY <1>2, <1>3 DEF Reloading, LoadedIsThere, AR!NewestOrRetried
<1> QED
  BY <1>4, <1>5, <1>6, <1>7, <1>8 DEF Reloading

\* A step that records nothing, and by which nobody begins or ends a load.
LEMMA OthersStep ==
    ASSUME AR!TypeOK, MaxEdits \in Nat, Reloading, NEW t \in Threads, NEW v \in Visits,
           visit' = [visit EXCEPT ![t] = v],
           UNCHANGED <<source, recorded, slipped, doubled>>,
           \/ AR!HalfImported(t) /\ v.pc = "raising" /\ v.loaded = visit[t].loaded
           \/ AR!ImportSkipped(t) /\ v.pc = "start_app" /\ v.loaded = 0
           \/ Passes(t) /\ v.pc \in {"idle", "stat", "reload", "reloaded", "app"}
    PROVE  Reloading'
<1>1. visit'[t] = v /\ \A u \in Threads : u # t => visit'[u] = visit[u]
  BY MovesAlone
<1>2. /\ source \in Int /\ source >= 1 /\ \A u \in Threads : visit[u].loaded \in Int
  BY DEF AR!TypeOK, AR!Sources
<1>3. \/ visit[t].pc = "import" /\ v.pc = "raising" /\ v.loaded = visit[t].loaded
      \/ visit[t].pc = "reload" /\ v.pc = "start_app" /\ v.loaded = 0 /\ AR!Loading # {} /\ app' = app
      \/ /\ visit[t].pc \notin {"import", "raising", "start_app"} /\ app' = app
         /\ v.pc \in {"idle", "stat", "reload", "reloaded", "app"}
  BY DEF AR!HalfImported, AR!ImportSkipped, Passes, AR!MaybeReload, AR!Stat, AR!ImportDeclined,
         AR!Reloaded, AR!Serve
<1>4. AR!Loading' = AR!Loading /\ \A u \in AR!Loading : visit'[u].loaded = visit[u].loaded
  BY <1>1, <1>3 DEF AR!Loading
<1>5. \A u \in Threads : HasLoaded(u)' =>
         \/ HasLoaded(u) /\ visit'[u].loaded = visit[u].loaded
         \/ visit'[u].loaded = 0 /\ AR!Loading # {}
  BY <1>1, <1>3 DEF HasLoaded
<1>6. app' = app \/ AR!Loading # {}
  BY <1>3 DEF AR!Loading
<1>7. NoneAhead' /\ NoneBroken'
  BY <1>2, <1>4, <1>5 DEF Reloading, NoneAhead, NoneBroken
<1>8. OneLoads'
  <2>1. SUFFICES ASSUME ~doubled PROVE OneLoads'
    BY DEF OneLoads
  <2>2. \A x \in AR!Loading, u \in Threads : HasLoaded(u)' => visit'[u].loaded <= visit'[x].loaded
    BY <1>2, <1>4, <1>5, <2>1 DEF Reloading, OneLoads, NoneAhead, AR!Loading
  <2> QED
    BY <1>4, <2>1, <2>2 DEF Reloading, OneLoads
<1>9. LoadedIsThere' /\ AR!NewestOrRetried'
  BY <1>4, <1>5, <1>6 DEF Reloading, LoadedIsThere, AR!NewestOrRetried
<1> QED
  BY <1>7, <1>8, <1>9 DEF Reloading

\* A new version on disk is one that nobody has recorded, loaded or is loading.
LEMMA EditStep ==
    ASSUME AR!TypeOK, MaxEdits \in Nat, Reloading, AR!Edit
    PROVE  Reloading'
<1>1. /\ source' = source + 1 /\ UNCHANGED <<recorded, app, visit, slipped, doubled>>
      /\ source \in Int /\ recorded \in Int /\ \A t \in Threads : visit[t].loaded \in Int
  BY DEF AR!Edit, AR!TypeOK, AR!Sources
<1>2. AR!Loading' = AR!Loading /\ \A u \in Threads : HasLoaded(u)' <=> HasLoaded(u)
  BY <1>1 DEF AR!Loading, HasLoaded
<1>3. recorded' # source' /\ \A u \in Threads : HasLoaded(u) => visit[u].loaded # source'
  BY <1>1 DEF Reloading, NoneAhead
<1>4. NoneAhead'
  BY <1>1, <1>2 DEF Reloading, NoneAhead, AR!Loading
<1> QED
  BY <1>1, <1>2, <1>3, <1>4 DEF Reloading, NoneBroken, OneLoads, LoadedIsThere, AR!NewestOrRetried

\* Each step of a thread, each edit and each second keeps it.
LEMMA ReloadingStep ==
    ASSUME AR!TypeOK, MaxEdits \in Nat, Reloading, [AR!Next]_reloadVars
    PROVE  Reloading'
<1>1. ASSUME NEW t \in Threads, AR!CallStep(t) PROVE Reloading'
  <2>1. PICK v \in Visits : /\ visit' = [visit EXCEPT ![t] = v]
                            /\ LoadsStep(t, v) \/ Elsewhere(t, v)
    BY <1>1, Moves
  <2>2. CASE AR!ImportBegins(t) /\ v.pc = "import" /\ v.loaded = source
    BY <2>1, <2>2, BeginsStep
  <2>3. CASE AR!Imported(t) /\ v.pc = "start_app" /\ v.loaded = visit[t].loaded
    BY <2>1, <2>3, ImportedStep
  <2>4. CASE AR!ImportFails(t) /\ v.pc \in {"idle", "stat", "reload", "reloaded", "app"}
    BY <2>1, <2>4, FailsStep
  <2>5. CASE AR!StartApp(t) /\ v.pc \in {"idle", "stat", "reload", "reloaded", "app"}
    BY <2>1, <2>5, RecordStep
  <2>6. CASE \/ AR!HalfImported(t) /\ v.pc = "raising" /\ v.loaded = visit[t].loaded
             \/ AR!ImportSkipped(t) /\ v.pc = "start_app" /\ v.loaded = 0
             \/ Passes(t) /\ v.pc \in {"idle", "stat", "reload", "reloaded", "app"}
    <3>1. UNCHANGED <<source, recorded, slipped, doubled>>
      BY <2>6 DEF AR!HalfImported, AR!ImportSkipped, Passes, AR!MaybeReload, AR!Stat,
                  AR!ImportDeclined, AR!Reloaded, AR!Serve
    <3> QED
      BY <2>1, <2>6, <3>1, OthersStep
  <2> QED
    BY <2>1, <2>2, <2>3, <2>4, <2>5, <2>6 DEF LoadsStep, Elsewhere
<1>2. CASE AR!Edit
  BY <1>2, EditStep
<1>3. CASE AR!Tick \/ UNCHANGED reloadVars
  <2>1. UNCHANGED <<source, recorded, app, visit, slipped, doubled>>
    BY <1>3 DEF AR!Tick, reloadVars
  <2>2. AR!Loading' = AR!Loading /\ \A u \in Threads : HasLoaded(u)' <=> HasLoaded(u)
    BY <2>1 DEF AR!Loading, HasLoaded
  <2> QED
    BY <2>1, <2>2 DEF Reloading, NoneAhead, NoneBroken, OneLoads, LoadedIsThere, AR!NewestOrRetried
<1> QED
  BY <1>1, <1>2, <1>3 DEF AR!Next

\* Once nobody loads it, the recorded file is the one the module has, whatever
\* threads, edits and files that do not load do: unless it is not what the
\* recording thread had loaded, or two threads loaded at once.
THEOREM RecordedIsLoaded ==
    ASSUME 1 \notin Broken, MaxEdits \in Nat \ {0}, MaxTicks \in Nat
    PROVE  Spec => []NewestOrRetried
<1>1. Init => AR!TypeOK /\ Reloading
  BY ReloadingAtFirst DEF Init
<1>2. [Next]_vars => [AR!Next]_reloadVars
  BY DEF Next, Session, Static, Reload, Shared, Http3, Futures, OnlyFutures, vars
<1>3. AR!TypeOK /\ Reloading /\ [Next]_vars => (AR!TypeOK /\ Reloading)'
  BY <1>2, ReloadingStep, TypesStep DEF Reloading
<1>4. Reloading => NewestOrRetried /\ NoneAhead
  BY DEF Reloading, NewestOrRetried
<1> QED
  BY <1>1, <1>3, <1>4, PTL DEF Spec

-----------------------------------------------------------------------------
(* Http3Connections: any number of addresses a client moves between and    *)
(* any ids, however the events of its connection are shared by the         *)
(* handlers, and whichever handler raises.                                 *)

Mains == [pc : {"idle", "make", "receive", "events"},
          at : {H3!None} \cup Addresses, first : BOOLEAN]
Conns == [state : {"none", "up", "terminated"},
          unissued : SUBSET Ids, live : SUBSET (Ids \cup {H3!First})]

\* The types of what the connection's channels depend on.
LinkTypes ==
    /\ chan \in [Addresses -> {"none", "open", "stuck", "closing", "closed"}]
    /\ has \in [Addresses -> BOOLEAN]
    /\ linked \in {H3!None} \cup Addresses
    /\ quic \in Conns
    /\ main \in Mains
    /\ main.pc # "idle" => main.at \in Addresses

\* No other channel that has the connection is open.
Alone(a) == \A b \in Addresses : has[b] /\ H3!IsOpen(b) => a = b

\* Before there is a connection nobody has it, and it has no ids and no events.
Unborn == quic.state = "none" =>
    /\ conns = {} /\ news = <<>>
    /\ \A a \in Addresses : ~has[a]

\* What makes OneOpenChannel inductive.  Nobody has the connection before it has
\* a channel; a handler that looks for a connection has none; and in the
\* constructor of a channel, which an exception does not close, the connection
\* it has just got is its own.
Linking ==
    /\ \A a \in Addresses : chan[a] = "none" => ~has[a]
    /\ main.pc = "make" => ~has[main.at] /\ chan[main.at] # "none"
    /\ main.pc \in {"receive", "events"} /\ main.first =>
          /\ Alone(main.at)
          /\ linked \in {H3!None, main.at}
    /\ H3!OneOpenChannel

-----------------------------------------------------------------------------
(* Types.                                                                  *)

\* Every step keeps the types.
LEMMA LinkTypesStep ==
    ASSUME LinkTypes, [H3!Next]_quicVars PROVE LinkTypes'
<1> USE DEF LinkTypes
<1>1. ASSUME NEW a \in Addresses, H3!Datagram(a) PROVE LinkTypes'
  <2>1. main' = [pc |-> IF has[a] THEN "receive" ELSE "make", at |-> a, first |-> chan[a] = "none"]
    BY <1>1 DEF H3!Datagram
  <2>2. main' \in Mains /\ main'.at = a
    BY <2>1 DEF Mains
  <2> QED
    BY <1>1, <2>2 DEF H3!Datagram
<1>2. ASSUME NEW a \in Addresses, H3!CloseChannel(a) PROVE LinkTypes'
  BY <1>2 DEF H3!CloseChannel
<1>3. ASSUME NEW a \in Addresses, H3!HandleTimer(a) PROVE LinkTypes'
  <2>1. main' \in Mains /\ main'.at = a
    BY <1>3 DEF H3!HandleTimer, Mains
  <2>2. quic' \in Conns
    BY <1>3 DEF H3!HandleTimer, H3!Ends, Conns
  <2> QED
    BY <1>3, <2>1, <2>2 DEF H3!HandleTimer
\* Nothing but the handler's place changes, or it returns.
<1>4. ASSUME main' = H3!Idle PROVE main' \in Mains /\ main'.pc = "idle"
  BY <1>4 DEF H3!Idle, Mains
<1>5. ASSUME NEW pc \in {"receive", "events"}, main' = [main EXCEPT !.pc = pc], main.pc # "idle"
      PROVE  main' \in Mains /\ main'.at \in Addresses
  BY <1>5 DEF Mains
<1>6. CASE H3!Ignore
  BY <1>4, <1>6 DEF H3!Ignore
<1>7. CASE H3!NewConnection
  <2>1. quic' \in Conns
    BY <1>7 DEF H3!NewConnection, Conns
  <2>2. main.at \in Addresses /\ main' \in Mains /\ main'.at \in Addresses
    BY <1>5, <1>7 DEF H3!NewConnection
  <2> QED
    BY <1>7, <2>1, <2>2 DEF H3!NewConnection
<1>8. CASE H3!Migrate
  <2>1. main.at \in Addresses /\ main' \in Mains /\ main'.at \in Addresses
    BY <1>5, <1>8 DEF H3!Migrate
  <2>2. chan' \in [Addresses -> {"none", "open", "stuck", "closing", "closed"}]
    BY <1>8 DEF H3!Migrate, H3!Unlinked
  <2> QED
    BY <1>8, <2>1, <2>2 DEF H3!Migrate
<1>9. CASE H3!MigrateFails
  BY <1>4, <1>9 DEF H3!MigrateFails, H3!Raised
<1>10. CASE H3!Receive
  <2>1. main' \in Mains /\ main'.at \in Addresses
    BY <1>5, <1>10 DEF H3!Receive
  <2>2. quic' \in Conns
    BY <1>10 DEF H3!Receive, H3!Ends, H3!Retires, Conns
  <2> QED
    BY <1>10, <2>1, <2>2 DEF H3!Receive
<1>11. CASE H3!Issued
  BY <1>11 DEF H3!Issued
<1>12. CASE H3!Retired
  BY <1>12 DEF H3!Retired
<1>13. CASE H3!RetiredFirst
  BY <1>4, <1>13 DEF H3!RetiredFirst, H3!Raised
<1>14. CASE H3!Terminated
  <2>1. linked' \in {H3!None} \cup Addresses
    BY <1>14 DEF H3!Terminated
  <2>2. chan' \in [Addresses -> {"none", "open", "stuck", "closing", "closed"}]
    BY <1>14 DEF H3!Terminated
  <2> QED
    BY <1>14, <2>1, <2>2 DEF H3!Terminated
<1>15. CASE H3!Flush
  <2>1. quic' \in Conns
    <3>1. ASSUME NEW i \in quic.unissued, H3!Issues(i) PROVE quic' \in Conns
      <4>1. quic.state \in {"none", "up", "terminated"} /\ quic.unissued \in SUBSET Ids
            /\ quic.live \in SUBSET (Ids \cup {H3!First})
        BY DEF Conns
      <4>2. quic' = [state |-> quic.state, unissued |-> quic.unissued \ {i}, live |-> quic.live \cup {i}]
        BY <3>1 DEF H3!Issues, Conns
      <4>3. quic.unissued \ {i} \in SUBSET Ids /\ quic.live \cup {i} \in SUBSET (Ids \cup {H3!First})
        BY <3>1, <4>1
      <4> QED
        BY <4>1, <4>2, <4>3 DEF Conns
    <3> QED
      BY <1>15, <3>1 DEF H3!Flush
  <2> QED
    BY <1>4, <1>15, <2>1 DEF H3!Flush
<1>16. CASE UNCHANGED quicVars
  BY <1>16 DEF quicVars
<1> QED
  BY <1>1, <1>2, <1>3, <1>6, <1>7, <1>8, <1>9, <1>10, <1>11, <1>12, <1>13, <1>14, <1>15, <1>16
  DEF H3!Next, H3!ConnectionStep

\* Before there is a connection no step but NewConnection does anything with it.
LEMMA UnbornStep ==
    ASSUME LinkTypes, Unborn, [H3!Next]_quicVars PROVE Unborn'
<1> SUFFICES ASSUME quic'.state = "none" PROVE Unborn'
  BY DEF Unborn
<1>1. quic.state = "none"
  BY DEF H3!Next, H3!ConnectionStep, quicVars, H3!Datagram, H3!CloseChannel, H3!HandleTimer, H3!Ignore, H3!NewConnection,
         H3!Migrate, H3!MigrateFails, H3!Receive, H3!Issued, H3!Retired, H3!RetiredFirst, H3!Terminated, H3!Flush,
         H3!Ends, H3!Retires, H3!Issues, LinkTypes, Conns
<1>2. conns = {} /\ news = <<>> /\ \A a \in Addresses : ~has[a]
  BY <1>1 DEF Unborn
<1>3. has' = has
  BY <1>1, <1>2 DEF H3!Next, H3!ConnectionStep, quicVars, H3!Datagram, H3!CloseChannel, H3!HandleTimer, H3!Ignore,
         H3!NewConnection, H3!Migrate, H3!MigrateFails, H3!Receive, H3!Issued, H3!Retired, H3!RetiredFirst, H3!Terminated,
         H3!Flush, LinkTypes, Conns
<1>4. news' = news /\ conns' = conns
  BY <1>1, <1>2 DEF H3!Next, H3!ConnectionStep, quicVars, H3!Datagram, H3!CloseChannel, H3!HandleTimer, H3!Ignore,
         H3!NewConnection, H3!Migrate, H3!MigrateFails, H3!Receive, H3!Issued, H3!Retired, H3!RetiredFirst, H3!Terminated,
         H3!Flush, H3!Ends, H3!Retires, H3!Issues, H3!IsEvent
<1> QED
  BY <1>2, <1>3, <1>4 DEF Unborn

-----------------------------------------------------------------------------
(* The channel.                                                            *)

\* A step that gives the connection to nobody, opens no channel that has it,
\* and at most cuts the link keeps what is so of the channels.
LEMMA NothingOpens ==
    ASSUME H3!OneOpenChannel, has' = has, linked' \in {H3!None, linked},
           \A a \in Addresses : has[a] /\ H3!IsOpen(a)' => H3!IsOpen(a)
    PROVE  H3!OneOpenChannel'
BY DEF H3!OneOpenChannel

\* An exception in a handler of a channel that is not being constructed closes
\* it; in the constructor, the channel is the only one that may be open.
LEMMA RaisedOpensNothing ==
    ASSUME LinkTypes, Linking, main.pc = "events" \/ main.pc = "make",
           chan' = H3!Raised(main.at), has' = has, linked' = linked
    PROVE  H3!OneOpenChannel' /\ \A a \in Addresses : chan'[a] = "none" => ~has[a]
<1>1. main.at \in Addresses
  BY DEF LinkTypes
<1>2. \A a \in Addresses : a # main.at => chan'[a] = chan[a]
  BY <1>1 DEF H3!Raised, LinkTypes
<1>3. chan'[main.at] = IF main.first THEN "stuck" ELSE "closed"
  BY <1>1 DEF H3!Raised, LinkTypes
<1>4. \A a \in Addresses : a # main.at => (H3!IsOpen(a)' <=> H3!IsOpen(a))
  BY <1>2 DEF H3!IsOpen
<1>5. \A a \in Addresses : chan'[a] = "none" => ~has[a]
  BY <1>2, <1>3 DEF Linking
<1>6. CASE ~main.first
  <2>1. chan'[main.at] = "closed"
    BY <1>3, <1>6
  <2>2. \A a \in Addresses : H3!IsOpen(a)' => H3!IsOpen(a)
    BY <1>4, <2>1 DEF H3!IsOpen
  <2> QED
    BY <1>5, <2>2, NothingOpens DEF Linking
<1>7. CASE main.first /\ main.pc = "make"
  <2>1. ~has[main.at]
    BY <1>7 DEF Linking
  <2>2. \A a \in Addresses : has[a] /\ H3!IsOpen(a)' => H3!IsOpen(a)
    BY <1>4, <2>1
  <2> QED
    BY <1>5, <2>2, NothingOpens DEF Linking
<1>8. CASE main.first /\ main.pc = "events"
  <2>1. Alone(main.at) /\ linked \in {H3!None, main.at}
    BY <1>8 DEF Linking
  <2>2. \A a \in Addresses : has[a] /\ H3!IsOpen(a)' => a = main.at
    BY <1>4, <2>1 DEF Alone
  <2> QED
    BY <1>5, <2>1, <2>2 DEF H3!OneOpenChannel
<1> QED
  BY <1>6, <1>7, <1>8

\* A handler that gets the connection, new or from another, is the only one that
\* has it on an open channel, and the connection is linked to it.
LEMMA TakesConnection ==
    ASSUME main.at \in Addresses, main'.at = main.at, main'.pc = "receive", linked' = main.at,
           \A a \in Addresses : chan'[a] = "none" => ~has'[a],
           \A a \in Addresses : has'[a] /\ H3!IsOpen(a)' => a = main.at
    PROVE  Linking'
<1>1. Alone(main.at)'
  BY DEF Alone
<1>2. H3!OneOpenChannel'
  BY DEF H3!OneOpenChannel
<1> QED
  BY <1>1, <1>2 DEF Linking

\* Every step keeps the invariant.
LEMMA LinkingStep ==
    ASSUME LinkTypes, Unborn, Linking, H3!None \notin Addresses, [H3!Next]_quicVars PROVE Linking'
<1>1. ASSUME NEW a \in Addresses, H3!Datagram(a) PROVE Linking'
  <2>1. main' = [pc |-> IF has[a] THEN "receive" ELSE "make", at |-> a, first |-> chan[a] = "none"]
    BY <1>1 DEF H3!Datagram
  <2>2. main'.at = a /\ (main'.pc = "make" <=> ~has[a]) /\ (main'.first <=> chan[a] = "none")
        /\ main'.pc # "events"
    BY <2>1
  <2>3. has' = has /\ linked' = linked
    BY <1>1 DEF H3!Datagram
  <2>4. chan'[a] = "open" /\ \A b \in Addresses : b # a => chan'[b] = chan[b]
    BY <1>1 DEF H3!Datagram, LinkTypes
  <2>5. chan[a] = "none" \/ chan[a] = "open"
    BY <1>1 DEF H3!Datagram
  <2>6. chan[a] = "none" => ~has[a]
    BY DEF Linking
  <2>7. \A b \in Addresses : has[b] /\ H3!IsOpen(b)' => H3!IsOpen(b)
    BY <2>4, <2>5, <2>6 DEF H3!IsOpen
  <2>8. H3!OneOpenChannel'
    BY <2>3, <2>7, NothingOpens DEF Linking
  <2> QED
    BY <2>2, <2>3, <2>4, <2>6, <2>8 DEF Linking
<1>2. ASSUME NEW a \in Addresses, H3!CloseChannel(a) PROVE Linking'
  <2>1. has' = has /\ linked' = linked /\ main' = H3!Idle
    BY <1>2 DEF H3!CloseChannel
  <2>2. chan'[a] = "closed" /\ \A b \in Addresses : b # a => chan'[b] = chan[b]
    BY <1>2 DEF H3!CloseChannel, LinkTypes
  <2>3. \A b \in Addresses : has[b] /\ H3!IsOpen(b)' => H3!IsOpen(b)
    BY <2>2 DEF H3!IsOpen
  <2>4. H3!OneOpenChannel'
    BY <2>1, <2>3, NothingOpens DEF Linking
  <2> QED
    BY <2>1, <2>2, <2>4 DEF Linking, H3!Idle
\* What the connection answers changes no channel.
<1>3. ASSUME UNCHANGED <<chan, has, linked>>,
             main'.pc # "make",
             main'.pc \in {"receive", "events"} /\ main'.first =>
                 main.pc \in {"receive", "events"} /\ main.first /\ main'.at = main.at
      PROVE  Linking'
  <2>1. H3!OneOpenChannel'
    BY <1>3 DEF Linking, H3!OneOpenChannel, H3!IsOpen
  <2>2. main'.pc \in {"receive", "events"} /\ main'.first => Alone(main.at)' /\ linked' \in {H3!None, main'.at}
    BY <1>3 DEF Linking, Alone, H3!IsOpen
  <2> QED
    BY <1>3, <2>1, <2>2 DEF Linking
<1>4. ASSUME NEW a \in Addresses, H3!HandleTimer(a) PROVE Linking'
  <2>1. main'.pc = "events" /\ main'.first = FALSE
    BY <1>4 DEF H3!HandleTimer
  <2> QED
    BY <1>3, <1>4, <2>1 DEF H3!HandleTimer
<1>5. CASE H3!Ignore
  BY <1>3, <1>5 DEF H3!Ignore, H3!Idle
<1>6. CASE H3!NewConnection
  <2>1. main.at \in Addresses /\ \A a \in Addresses : ~has[a]
    BY <1>6 DEF H3!NewConnection, LinkTypes, Unborn
  <2>2. has'[main.at] = TRUE /\ \A a \in Addresses : a # main.at => has'[a] = FALSE
    BY <1>6, <2>1 DEF H3!NewConnection, LinkTypes
  <2>3. linked' = main.at /\ chan' = chan /\ main'.at = main.at /\ main'.pc = "receive"
    BY <1>6 DEF H3!NewConnection, LinkTypes, Mains
  <2>4. chan[main.at] # "none"
    BY <1>6 DEF H3!NewConnection, Linking
  <2> QED
    BY <2>1, <2>2, <2>3, <2>4, TakesConnection
<1>7. CASE H3!Migrate
  <2>1. main.at \in Addresses /\ ~has[main.at] /\ linked \in Addresses
    BY <1>7 DEF H3!Migrate, LinkTypes, Linking
  <2>2. has'[main.at] /\ \A a \in Addresses : a # main.at => has'[a] = has[a]
    BY <1>7, <2>1 DEF H3!Migrate, LinkTypes
  <2>3. chan'[linked] = "closed" /\ \A a \in Addresses : a # linked => chan'[a] = chan[a]
    BY <1>7, <2>1 DEF H3!Migrate, H3!Unlinked, LinkTypes
  <2>4. linked' = main.at /\ main'.at = main.at /\ main'.pc = "receive"
    BY <1>7 DEF H3!Migrate, LinkTypes, Mains
  \* Who had the connection on an open channel was linked to it.
  <2>5. \A a \in Addresses : has[a] => ~H3!IsOpen(a)'
    <3> TAKE a \in Addresses
    <3>1. has[a] /\ H3!IsOpen(a) => a = linked
      BY <2>1 DEF Linking, H3!OneOpenChannel
    <3>2. a = linked => ~H3!IsOpen(a)'
      BY <2>3 DEF H3!IsOpen
    <3>3. a # linked => (H3!IsOpen(a)' <=> H3!IsOpen(a))
      BY <2>3 DEF H3!IsOpen
    <3> QED
      BY <3>1, <3>2, <3>3
  <2>6. \A a \in Addresses : has'[a] /\ H3!IsOpen(a)' => a = main.at
    BY <2>2, <2>5
  <2>7. \A a \in Addresses : chan'[a] = "none" => ~has'[a]
    <3>1. chan[main.at] # "none"
      BY <1>7 DEF H3!Migrate, Linking
    <3> QED
      BY <2>2, <2>3, <3>1 DEF Linking
  <2> QED
    BY <2>1, <2>4, <2>6, <2>7, TakesConnection
<1>8. CASE H3!MigrateFails
  <2>1. /\ main.pc = "make" /\ chan' = H3!Raised(main.at) /\ main' = H3!Idle
        /\ has' = has /\ linked' = linked
    BY <1>8 DEF H3!MigrateFails
  <2>2. H3!OneOpenChannel' /\ \A a \in Addresses : chan'[a] = "none" => ~has[a]
    BY <2>1, RaisedOpensNothing
  <2> QED
    BY <2>1, <2>2 DEF Linking, H3!Idle
<1>9. CASE H3!Receive
  <2>1. main'.pc = "events" /\ main'.first = main.first /\ main'.at = main.at /\ main.pc = "receive"
    BY <1>9 DEF H3!Receive, LinkTypes, Mains
  <2> QED
    BY <1>3, <1>9, <2>1 DEF H3!Receive
<1>10. CASE H3!Issued
  <2>1. main' = main /\ main.pc = "events" /\ UNCHANGED <<chan, has, linked>>
    BY <1>10 DEF H3!Issued, H3!IsEvent
  <2> QED
    BY <1>3, <2>1
<1>11. CASE H3!Retired
  <2>1. main' = main /\ main.pc = "events" /\ has' = has /\ chan' = chan /\ linked' = H3!None
    BY <1>11 DEF H3!Retired, H3!IsEvent
  <2>2. H3!OneOpenChannel'
    BY <2>1 DEF Linking, H3!OneOpenChannel, H3!IsOpen
  <2>3. Alone(main.at) => Alone(main.at)'
    BY <2>1 DEF Alone, H3!IsOpen
  <2> QED
    BY <2>1, <2>2, <2>3 DEF Linking, Alone, H3!IsOpen
<1>12. CASE H3!RetiredFirst
  <2>1. /\ main.pc = "events" /\ chan' = H3!Raised(main.at) /\ main' = H3!Idle
        /\ has' = has /\ linked' = linked
    BY <1>12 DEF H3!RetiredFirst, H3!IsEvent
  <2>2. H3!OneOpenChannel' /\ \A a \in Addresses : chan'[a] = "none" => ~has[a]
    BY <2>1, RaisedOpensNothing
  <2> QED
    BY <2>1, <2>2 DEF Linking, H3!Idle
<1>13. CASE H3!Terminated
  <2>1. main' = main /\ main.pc = "events" /\ has' = has /\ linked' \in {H3!None, linked}
    BY <1>13 DEF H3!Terminated, H3!IsEvent
  <2>2. main.at \in Addresses
    BY <2>1 DEF LinkTypes
  <2>3. \A a \in Addresses : a # main.at => chan'[a] = chan[a]
    BY <1>13, <2>2 DEF H3!Terminated, LinkTypes
  <2>4. chan'[main.at] = IF chan[main.at] = "open" THEN "closing" ELSE chan[main.at]
    BY <1>13, <2>2 DEF H3!Terminated, LinkTypes
  <2>5. \A a \in Addresses : H3!IsOpen(a)' <=> H3!IsOpen(a)
    BY <2>3, <2>4 DEF H3!IsOpen
  <2>6. \A a \in Addresses : chan'[a] = "none" => ~has[a]
    BY <2>3, <2>4 DEF Linking
  <2>7. H3!OneOpenChannel'
    BY <2>1, <2>5, NothingOpens DEF Linking
  <2>8. Alone(main.at) => Alone(main.at)'
    BY <2>1, <2>5 DEF Alone
  <2> QED
    BY <2>1, <2>6, <2>7, <2>8 DEF Linking, Alone
<1>14. CASE H3!Flush
  <2>1. main' = H3!Idle /\ main'.pc = "idle" /\ UNCHANGED <<chan, has, linked>>
    BY <1>14 DEF H3!Flush, H3!Idle
  <2> QED
    BY <1>3, <2>1
<1>15. CASE UNCHANGED quicVars
  BY <1>15 DEF quicVars, Linking, Alone, H3!OneOpenChannel, H3!IsOpen
<1> QED
  BY <1>1, <1>2, <1>4, <1>5, <1>6, <1>7, <1>8, <1>9, <1>10, <1>11, <1>12, <1>13, <1>14, <1>15
  DEF H3!Next, H3!ConnectionStep

\* However often a client moves and its ids end, and whichever handler raises,
\* one open channel at most has its connection.
THEOREM OneChannelAtMost ==
    ASSUME 0 \notin Addresses PROVE Spec => []OneOpenChannel
<1>1. H3!None \notin Addresses
  BY DEF H3!None
<1>2. Init => LinkTypes /\ Unborn /\ Linking
  BY DEF Init, H3!Init, LinkTypes, Unborn, Linking, H3!OneOpenChannel, H3!Idle, Mains, Conns
<1>3. [Next]_vars => [H3!Next]_quicVars
  BY DEF Next, Session, Static, Reload, Shared, Http3, Futures, OnlyFutures, vars
<1>4. LinkTypes /\ Unborn /\ Linking /\ [Next]_vars => (LinkTypes /\ Unborn /\ Linking)'
  BY <1>1, <1>3, LinkTypesStep, UnbornStep, LinkingStep
<1>5. Linking => OneOpenChannel
  BY DEF Linking, OneOpenChannel
<1> QED
  BY <1>2, <1>4, <1>5, PTL DEF Spec

-----------------------------------------------------------------------------
(* StaticFiles: any number of threads and versions, whatever the order of  *)
(* the looks into the caches and the changes of the file.                  *)

FileSteps == {"idle", "look", "os.stat", "store", "stat", "headers", "read", "keep", "return", "answered", "304"}
Serving == [pc : FileSteps, v : 0..MaxVersions, body : 0..MaxVersions, late : BOOLEAN, clear : BOOLEAN]

FileTypes ==
    /\ newest \in 1..MaxVersions /\ disk \in {SF!Missing, newest} /\ calm \in BOOLEAN
    /\ statCache \in [v : 0..MaxVersions, old : BOOLEAN]
    /\ serve \in [Servers -> Serving] /\ memCache.body \in 0..MaxVersions

\* What is in the caches, and on its way there, is a version there was; a body
\* is no older than the ETag it is kept under.
InOrder ==
    /\ statCache.v <= newest
    /\ \A s \in Servers :
         /\ serve[s].v <= newest
         /\ serve[s].pc \in {"store", "headers", "read", "keep", "return", "answered", "304"} => serve[s].v >= 1
         /\ serve[s].pc = "stat" => statCache.v >= 1
         /\ serve[s].pc = "keep" => serve[s].v <= serve[s].body /\ serve[s].body <= newest
    /\ \/ memCache.stamp = 0
       \/ \E v \in 1..newest : memCache.stamp = Stamp[v] /\ v <= memCache.body /\ memCache.body <= newest

\* When the file has been calm for a second, what stat_cache gives is the file.
StatIsFresh ==
    calm => /\ statCache.old \/ statCache.v \in {SF!Missing, disk}
            /\ \A s \in Servers : serve[s].pc = "store" => serve[s].late \/ serve[s].v = disk

\* What a thread has found is the file as it is.
FoundAsItIs(s) ==
    /\ serve[s].pc = "stat" => statCache.v = disk
    /\ serve[s].pc \in {"store", "headers", "read", "keep", "return"} => serve[s].v = disk
    /\ serve[s].pc = "keep" => serve[s].body = disk
    /\ serve[s].pc = "return" => memCache.stamp = Stamp[disk]

\* While a request is served that nothing old is in the way of, nobody finds
\* anything old, and its answer is the file.
ClearAnswers ==
    \A s \in Servers : serve[s].clear =>
        /\ calm /\ disk = newest /\ serve[s].pc # "idle"
        /\ \A t \in Servers : FoundAsItIs(t)
        /\ serve[s].pc \in {"answered", "304"} => serve[s].v = disk
        /\ serve[s].pc = "answered" /\ SF!Distinct(disk) => serve[s].body = disk

FilesInv == FileTypes /\ InOrder /\ StatIsFresh /\ ClearAnswers

\* What a step of one thread does to the threads.
LEMMA ServesOne ==
    ASSUME FileTypes, NEW s \in Servers, NEW r \in Serving, serve' = [serve EXCEPT ![s] = r]
    PROVE  serve' \in [Servers -> Serving] /\ serve'[s] = r /\ \A t \in Servers : t # s => serve'[t] = serve[t]
  BY DEF FileTypes

\* The step of a thread that leaves the caches alone, if what it finds is right.
LEMMA ServesAlone ==
    ASSUME FilesInv, UNCHANGED <<disk, newest, calm, statCache, memCache>>,
           NEW s \in Servers, NEW r \in Serving, serve' = [serve EXCEPT ![s] = r],
           r.v <= newest,
           r.pc \in {"store", "headers", "read", "keep", "return", "answered", "304"} => r.v >= 1,
           r.pc = "stat" => statCache.v >= 1,
           r.pc = "keep" => r.v <= r.body /\ r.body <= newest,
           calm /\ r.pc = "store" => r.late \/ r.v = disk,
           \* where somebody is served with nothing old in the way
           (\E t \in Servers : serve[t].clear) =>
             /\ r.pc = "stat" => statCache.v = disk
             /\ r.pc \in {"store", "headers", "read", "keep", "return"} => r.v = disk
             /\ r.pc = "keep" => r.body = disk
             /\ r.pc = "return" => memCache.stamp = Stamp[disk],
           r.clear =>
             /\ serve[s].clear /\ r.pc # "idle"
             /\ r.pc \in {"answered", "304"} => r.v = disk
             /\ r.pc = "answered" /\ SF!Distinct(disk) => r.body = disk
    PROVE  FilesInv'
<1>1. serve' \in [Servers -> Serving] /\ serve'[s] = r /\ \A t \in Servers : t # s => serve'[t] = serve[t]
  BY ServesOne DEF FilesInv
<1>2. FileTypes'
  BY <1>1 DEF FilesInv, FileTypes
<1>3. InOrder'
  <2>1. \A t \in Servers :
         /\ serve'[t].v <= newest
         /\ serve'[t].pc \in {"store", "headers", "read", "keep", "return", "answered", "304"} => serve'[t].v >= 1
         /\ serve'[t].pc = "stat" => statCache.v >= 1
         /\ serve'[t].pc = "keep" => serve'[t].v <= serve'[t].body /\ serve'[t].body <= newest
    <3> TAKE t \in Servers
    <3> QED
      BY <1>1 DEF FilesInv, InOrder
  <2> QED
    BY <2>1 DEF FilesInv, InOrder
<1>4. StatIsFresh'
  BY <1>1 DEF FilesInv, StatIsFresh
<1>5. ClearAnswers'
  <2> SUFFICES ASSUME NEW u \in Servers, serve'[u].clear
               PROVE  /\ calm /\ disk = newest /\ serve'[u].pc # "idle"
                      /\ \A t \in Servers : FoundAsItIs(t)'
                      /\ serve'[u].pc \in {"answered", "304"} => serve'[u].v = disk
                      /\ serve'[u].pc = "answered" /\ SF!Distinct(disk) => serve'[u].body = disk
    BY DEF ClearAnswers, SF!Distinct
  <2>1. serve[u].clear
    BY <1>1
  <2>2. calm /\ disk = newest /\ \A t \in Servers : FoundAsItIs(t)
    BY <2>1 DEF FilesInv, ClearAnswers
  <2>3. \A t \in Servers : FoundAsItIs(t)'
    <3> TAKE t \in Servers
    <3> QED
      BY <1>1, <2>1, <2>2 DEF FoundAsItIs
  <2>4. CASE u = s
    BY <1>1, <2>2, <2>3, <2>4
  <2>5. CASE u # s
    BY <1>1, <2>1, <2>2, <2>3, <2>5 DEF FilesInv, ClearAnswers
  <2> QED
    BY <2>4, <2>5
<1> QED
  BY <1>2, <1>3, <1>4, <1>5 DEF FilesInv

\* The next step of a thread, written as a record.
Then(s, p, w, b) == [pc |-> p, v |-> w, body |-> b, late |-> serve[s].late, clear |-> serve[s].clear]

\* Which records these steps write.
LEMMA ServeRecords ==
    ASSUME FileTypes, NEW s \in Servers, NEW p \in FileSteps
    PROVE  /\ serve[s] = Then(s, serve[s].pc, serve[s].v, serve[s].body) /\ serve[s] \in Serving
           /\ Then(s, p, serve[s].v, serve[s].body) \in Serving
           /\ SF!Go(s, p) => serve' = [serve EXCEPT ![s] = Then(s, p, serve[s].v, serve[s].body)]
           /\ \A w \in 0..MaxVersions : /\ Then(s, p, w, serve[s].body) \in Serving
                                        /\ Then(s, p, serve[s].v, w) \in Serving
  BY DEF FileTypes, Serving, Then, SF!Go

\* The record r is what thread s serves next, with these fields new.
Writes(s, r, p, w, b) ==
    /\ serve' = [serve EXCEPT ![s] = r]
    /\ r.pc = p /\ r.v = w /\ r.body = b /\ r.late = serve[s].late /\ r.clear = serve[s].clear

\* Steps that write a program counter and one thing more.
LEMMA ServesTwo ==
    ASSUME FileTypes, NEW s \in Servers, NEW p \in FileSteps, NEW w \in 0..MaxVersions
    PROVE  /\ serve' = [serve EXCEPT ![s].pc = p, ![s].v = w] => \E r \in Serving : Writes(s, r, p, w, serve[s].body)
           /\ serve' = [serve EXCEPT ![s].pc = p, ![s].body = w] => \E r \in Serving : Writes(s, r, p, serve[s].v, w)
<1>1. serve \in [Servers -> Serving] /\ serve[s] \in Serving
  BY DEF FileTypes
<1>2. ASSUME serve' = [serve EXCEPT ![s].pc = p, ![s].v = w]
      PROVE  \E r \in Serving : Writes(s, r, p, w, serve[s].body)
  <2> DEFINE r == [serve[s] EXCEPT !.pc = p, !.v = w]
  <2>1. serve' = [serve EXCEPT ![s] = r]
    BY <1>1, <1>2
  <2>2. r \in Serving /\ r.pc = p /\ r.v = w /\ r.body = serve[s].body /\ r.late = serve[s].late /\ r.clear = serve[s].clear
    BY <1>1 DEF Serving
  <2> HIDE DEF r
  <2> QED
    BY <2>1, <2>2 DEF Writes
<1>3. ASSUME serve' = [serve EXCEPT ![s].pc = p, ![s].body = w]
      PROVE  \E r \in Serving : Writes(s, r, p, serve[s].v, w)
  <2> DEFINE r == [serve[s] EXCEPT !.pc = p, !.body = w]
  <2>1. serve' = [serve EXCEPT ![s] = r]
    BY <1>1, <1>3
  <2>2. r \in Serving /\ r.pc = p /\ r.v = serve[s].v /\ r.body = w /\ r.late = serve[s].late /\ r.clear = serve[s].clear
    BY <1>1 DEF Serving
  <2> HIDE DEF r
  <2> QED
    BY <2>1, <2>2 DEF Writes
<1> QED
  BY <1>2, <1>3

\* Every step of a thread keeps the invariant.
LEMMA ServeStep ==
    ASSUME FilesInv, MaxVersions \in Nat, \A v \in 1..MaxVersions : Stamp[v] # 0,
           NEW s \in Servers, SF!ServeStep(s)
    PROVE  FilesInv'
<1>1. /\ newest \in 1..MaxVersions /\ disk \in {SF!Missing, newest} /\ calm \in BOOLEAN
      /\ statCache \in [v : 0..MaxVersions, old : BOOLEAN] /\ serve \in [Servers -> Serving]
      /\ serve[s] \in Serving /\ SF!Missing = 0 /\ newest \in 0..MaxVersions /\ disk \in 0..MaxVersions
  BY DEF FilesInv, FileTypes, SF!Missing
<1>2. /\ statCache.v <= newest /\ serve[s].v <= newest /\ serve[s].v \in 0..MaxVersions /\ serve[s].body \in 0..MaxVersions
      /\ serve[s].pc \in {"store", "headers", "read", "keep", "return", "answered", "304"} => serve[s].v >= 1
      /\ serve[s].pc = "stat" => statCache.v >= 1
      /\ serve[s].pc = "keep" => serve[s].v <= serve[s].body /\ serve[s].body <= newest
  BY <1>1 DEF FilesInv, InOrder, Serving
<1>3. serve[s].clear =>
        /\ calm /\ disk = newest /\ serve[s].pc # "idle"
        /\ serve[s].pc \in {"answered", "304"} => serve[s].v = disk
        /\ serve[s].pc = "answered" /\ SF!Distinct(disk) => serve[s].body = disk
  BY DEF FilesInv, ClearAnswers
<1>4. (\E t \in Servers : serve[t].clear) => calm /\ disk = newest /\ FoundAsItIs(s)
  BY DEF FilesInv, ClearAnswers
<1>5. ASSUME NEW p \in FileSteps, SF!Go(s, p), UNCHANGED <<disk, newest, calm, statCache, memCache>>,
             p \in {"store", "headers", "read", "return", "304"} => serve[s].v >= 1,
             p \notin {"store", "keep", "answered"},
             p = "stat" => statCache.v >= 1,
             (\E t \in Servers : serve[t].clear) =>
               /\ p = "stat" => statCache.v = disk
               /\ p \in {"headers", "read", "return", "304"} => serve[s].v = disk
               /\ p = "return" => memCache.stamp = Stamp[disk],
             serve[s].clear => p # "idle"
      PROVE  FilesInv'
  <2> DEFINE r == Then(s, p, serve[s].v, serve[s].body)
  <2>1. r \in Serving /\ serve' = [serve EXCEPT ![s] = r]
    BY <1>5, ServeRecords DEF FilesInv
  <2>2. r.pc = p /\ r.v = serve[s].v /\ r.body = serve[s].body /\ r.clear = serve[s].clear
    BY DEF Then
  <2> HIDE DEF r
  <2> QED
    BY <1>2, <1>5, <2>1, <2>2, ServesAlone
<1>6. CASE SF!LookStat(s)
  <2> DEFINE p == IF SF!StatHit THEN "stat" ELSE "os.stat"
  <2>1. SF!Go(s, p) /\ UNCHANGED <<disk, newest, calm, statCache, memCache>> /\ p \in FileSteps
    BY <1>6 DEF SF!LookStat, SF!cacheVars, FileSteps
  <2>2. p = "stat" => statCache.v >= 1 /\ ~statCache.old
    BY <1>1 DEF SF!StatHit
  <2>3. calm /\ p = "stat" => statCache.v = disk
    BY <1>1, <2>2 DEF FilesInv, StatIsFresh
  <2>4. p \in {"stat", "os.stat"}
    OBVIOUS
  <2> HIDE DEF p
  <2> QED
    BY <1>4, <1>5, <2>1, <2>2, <2>3, <2>4
<1>7. CASE SF!NotModified(s)
  BY <1>2, <1>4, <1>5, <1>7 DEF SF!NotModified, SF!cacheVars, FileSteps, FoundAsItIs
<1>8. CASE SF!LookMem(s)
  <2> DEFINE p == IF SF!MemHit(s) THEN "return" ELSE "read"
  <2>1. SF!Go(s, p) /\ UNCHANGED <<disk, newest, calm, statCache, memCache>> /\ p \in FileSteps /\ serve[s].pc = "headers"
    BY <1>8 DEF SF!LookMem, SF!cacheVars, FileSteps
  <2>2. p = "return" => memCache.stamp = Stamp[serve[s].v]
    BY DEF SF!MemHit, SF!Etag
  <2>3. p \in {"return", "read"}
    OBVIOUS
  <2> HIDE DEF p
  <2> QED
    BY <1>2, <1>4, <1>5, <2>1, <2>2, <2>3 DEF FoundAsItIs
<1>9. CASE SF!OsStat(s)
  <2>1. ASSUME NEW p \in {"store", "idle"}, p = "store" => disk = newest, p = "idle" => disk = SF!Missing,
               serve' = [serve EXCEPT ![s].pc = p, ![s].v = disk]
        PROVE  FilesInv'
    <3>1. p \in FileSteps /\ FileTypes
      BY <2>1 DEF FileSteps, FilesInv
    <3>2. PICK r \in Serving : Writes(s, r, p, disk, serve[s].body)
      BY <1>1, <2>1, <3>1, ServesTwo
    <3>3. serve' = [serve EXCEPT ![s] = r] /\ r.pc = p /\ r.v = disk /\ r.body = serve[s].body /\ r.clear = serve[s].clear
      BY <3>2 DEF Writes
    <3>4. UNCHANGED <<disk, newest, calm, statCache, memCache>> /\ serve[s].pc = "os.stat"
      BY <1>9 DEF SF!OsStat, SF!cacheVars
    <3>5. r.v <= newest /\ (r.pc = "store" => r.v = disk /\ r.v >= 1)
      BY <1>1, <2>1, <3>3
    <3>6. r.clear => serve[s].clear /\ r.pc # "idle"
      BY <1>1, <1>3, <2>1, <3>3
    <3>7. r.pc \in {"store", "idle"}
      BY <3>3
    <3> QED
      BY <3>2, <3>3, <3>4, <3>5, <3>6, <3>7, ServesAlone
  <2>2. CASE disk = SF!Missing
    BY <1>9, <2>1, <2>2 DEF SF!OsStat
  <2>3. CASE disk # SF!Missing
    BY <1>1, <1>9, <2>1, <2>3 DEF SF!OsStat
  <2> QED
    BY <2>2, <2>3
<1>10. CASE SF!ReturnStat(s)
  <2> DEFINE r == Then(s, "headers", statCache.v, serve[s].body)
  <2>1. serve' = [serve EXCEPT ![s] = r] /\ UNCHANGED <<disk, newest, calm, statCache, memCache>> /\ serve[s].pc = "stat"
    BY <1>1, <1>10 DEF SF!ReturnStat, SF!cacheVars, Then, Serving
  <2>2. r \in Serving
    BY <1>1, ServeRecords DEF FilesInv, FileSteps
  <2>3. r.pc = "headers" /\ r.v = statCache.v /\ r.body = serve[s].body /\ r.clear = serve[s].clear
    BY DEF Then
  <2> HIDE DEF r
  <2> QED
    BY <1>1, <1>2, <1>4, <2>1, <2>2, <2>3, ServesAlone DEF FoundAsItIs
\* An answer, or no answer, from what is on disk.
<1>11. CASE SF!OpenLarge(s)
  <2>1. UNCHANGED <<disk, newest, calm, statCache, memCache>> /\ serve[s].pc = "headers"
    BY <1>11 DEF SF!OpenLarge, SF!cacheVars
  <2>2. CASE disk = SF!Missing
    BY <1>1, <1>3, <1>4, <1>5, <1>11, <2>1, <2>2 DEF SF!OpenLarge, FileSteps
  <2>3. CASE disk # SF!Missing
    <3> DEFINE r == Then(s, "answered", serve[s].v, disk)
    <3>1. serve' = [serve EXCEPT ![s] = r]
      BY <1>1, <1>11, <2>3 DEF SF!OpenLarge, SF!Answer, Then, Serving
    <3>2. r \in Serving
      BY <1>1, ServeRecords DEF FilesInv, FileSteps
    <3>3. r.pc = "answered" /\ r.v = serve[s].v /\ r.body = disk /\ r.clear = serve[s].clear
      BY DEF Then
    <3> HIDE DEF r
    <3> QED
      BY <1>1, <1>2, <1>3, <1>4, <2>1, <3>1, <3>2, <3>3, ServesAlone DEF FoundAsItIs
  <2> QED
    BY <2>2, <2>3
<1>12. CASE SF!ReadFile(s)
  <2>1. ASSUME NEW p \in {"keep", "idle"}, p = "keep" => disk = newest, p = "idle" => disk = SF!Missing,
               serve' = [serve EXCEPT ![s].pc = p, ![s].body = disk]
        PROVE  FilesInv'
    <3>1. p \in FileSteps /\ FileTypes
      BY <2>1 DEF FileSteps, FilesInv
    <3>2. PICK r \in Serving : Writes(s, r, p, serve[s].v, disk)
      BY <1>1, <2>1, <3>1, ServesTwo
    <3>3. serve' = [serve EXCEPT ![s] = r] /\ r.pc = p /\ r.v = serve[s].v /\ r.body = disk /\ r.clear = serve[s].clear
      BY <3>2 DEF Writes
    <3>4. UNCHANGED <<disk, newest, calm, statCache, memCache>> /\ serve[s].pc = "read"
      BY <1>12 DEF SF!ReadFile, SF!cacheVars
    <3>5. r.v <= newest /\ (r.pc = "keep" => r.v >= 1 /\ r.v <= r.body /\ r.body <= newest /\ r.body = disk)
      BY <1>1, <1>2, <2>1, <3>3, <3>4
    <3>6. r.clear => serve[s].clear /\ r.pc # "idle"
      BY <1>1, <1>3, <2>1, <3>3
    <3>7. r.pc \in {"keep", "idle"}
      BY <3>3
    <3>8. (\E t \in Servers : serve[t].clear) => r.v = disk
      BY <1>4, <3>3, <3>4 DEF FoundAsItIs
    <3> QED
      BY <3>2, <3>3, <3>4, <3>5, <3>6, <3>7, <3>8, ServesAlone
  <2>2. CASE disk = SF!Missing
    BY <1>12, <2>1, <2>2 DEF SF!ReadFile
  <2>3. CASE disk # SF!Missing
    BY <1>1, <1>12, <2>1, <2>3 DEF SF!ReadFile
  <2> QED
    BY <2>2, <2>3
\* An answer from the cache, whose entry is no older than its ETag.
<1>13. CASE SF!ReturnFile(s)
  <2>1. serve[s].pc = "return" /\ UNCHANGED <<disk, newest, calm, statCache, memCache>> /\ memCache.body \in 0..MaxVersions
    BY <1>13 DEF SF!ReturnFile, SF!cacheVars, FilesInv, FileTypes
  <2>2. FileTypes /\ "answered" \in FileSteps /\ serve' = [serve EXCEPT ![s].pc = "answered", ![s].body = memCache.body]
    BY <1>13 DEF FilesInv, FileSteps, SF!ReturnFile, SF!Answer
  <2>3. PICK r \in Serving : Writes(s, r, "answered", serve[s].v, memCache.body)
    BY <2>1, <2>2, ServesTwo
  <2>4. serve' = [serve EXCEPT ![s] = r] /\ r.pc = "answered" /\ r.v = serve[s].v /\ r.body = memCache.body /\ r.clear = serve[s].clear
    BY <2>3 DEF Writes
  <2>5. ASSUME serve[s].clear, SF!Distinct(disk) PROVE memCache.body = disk
    <3>1. disk = newest /\ memCache.stamp = Stamp[disk]
      BY <1>3, <1>4, <2>1, <2>5 DEF FoundAsItIs
    <3>2. memCache.stamp # 0
      BY <1>1, <3>1
    <3>3. PICK v \in 1..newest : memCache.stamp = Stamp[v] /\ v <= memCache.body /\ memCache.body <= newest
      BY <3>2 DEF FilesInv, InOrder
    <3>4. v = disk
      BY <1>1, <2>5, <3>1, <3>3 DEF SF!Distinct
    <3> QED
      BY <1>1, <2>1, <3>1, <3>3, <3>4
  <2> QED
    BY <1>2, <1>3, <1>4, <2>1, <2>2, <2>3, <2>4, <2>5, ServesAlone DEF FoundAsItIs
\* The thread is done, with nothing in its way any more.
<1>14. CASE SF!Done(s)
  <2> DEFINE r == SF!Rest
  <2>1. r \in Serving /\ r.v = 0 /\ r.pc = "idle" /\ ~r.clear /\ r.v <= newest
    BY <1>1 DEF SF!Rest, SF!Missing, Serving, FileSteps
  <2>2. serve' = [serve EXCEPT ![s] = r] /\ UNCHANGED <<disk, newest, calm, statCache, memCache>>
    BY <1>14 DEF SF!Done, SF!cacheVars
  <2> HIDE DEF r
  <2> QED
    BY <2>1, <2>2, ServesAlone
\* What it stores in stat_cache is as fresh as it was.
<1>15. CASE SF!StoreStat(s)
  <2> DEFINE r == Then(s, "stat", serve[s].v, serve[s].body)
  <2>1. /\ serve[s].pc = "store" /\ UNCHANGED <<disk, newest, calm, memCache>>
        /\ statCache' = [v |-> serve[s].v, old |-> serve[s].late] /\ SF!Go(s, "stat")
    BY <1>15 DEF SF!StoreStat
  <2>2. r \in Serving /\ serve' = [serve EXCEPT ![s] = r]
    BY <2>1, ServeRecords DEF FilesInv, FileSteps
  <2>3. r.pc = "stat" /\ r.v = serve[s].v /\ r.body = serve[s].body /\ r.clear = serve[s].clear
    BY DEF Then
  <2> HIDE DEF r
  <2>4. /\ serve' \in [Servers -> Serving] /\ serve'[s] = r /\ \A t \in Servers : t # s => serve'[t] = serve[t]
    BY <2>2, ServesOne DEF FilesInv
  <2>5. /\ statCache' \in [v : 0..MaxVersions, old : BOOLEAN] /\ statCache'.v = serve[s].v /\ statCache'.old = serve[s].late
    BY <1>1, <1>2, <2>1 DEF Serving
  <2>6. FileTypes'
    BY <2>1, <2>4, <2>5 DEF FilesInv, FileTypes
  <2>7. InOrder'
    <3>1. \A t \in Servers :
           /\ serve'[t].v <= newest
           /\ serve'[t].pc \in {"store", "headers", "read", "keep", "return", "answered", "304"} => serve'[t].v >= 1
           /\ serve'[t].pc = "keep" => serve'[t].v <= serve'[t].body /\ serve'[t].body <= newest
      <4> TAKE t \in Servers
      <4> QED
        BY <1>2, <2>3, <2>4 DEF FilesInv, InOrder
    <3> QED
      BY <1>2, <2>1, <2>5, <3>1 DEF FilesInv, InOrder
  <2>8. StatIsFresh'
    <3>1. calm => serve[s].late \/ serve[s].v = disk
      BY <2>1 DEF FilesInv, StatIsFresh
    <3> QED
      BY <2>1, <2>3, <2>4, <2>5, <3>1 DEF FilesInv, StatIsFresh
  <2>9. ClearAnswers'
    <3> SUFFICES ASSUME NEW u \in Servers, serve'[u].clear
                 PROVE  /\ calm /\ disk = newest /\ serve'[u].pc # "idle"
                        /\ \A t \in Servers : FoundAsItIs(t)'
                        /\ serve'[u].pc \in {"answered", "304"} => serve'[u].v = disk
                        /\ serve'[u].pc = "answered" /\ SF!Distinct(disk) => serve'[u].body = disk
      BY <2>1 DEF ClearAnswers, SF!Distinct
    <3>1. serve[u].clear
      BY <2>3, <2>4
    <3>2. calm /\ disk = newest /\ serve[s].v = disk /\ \A t \in Servers : FoundAsItIs(t)
      BY <2>1, <3>1 DEF FilesInv, ClearAnswers, FoundAsItIs
    <3>3. \A t \in Servers : FoundAsItIs(t)'
      <4> TAKE t \in Servers
      <4> QED
        BY <2>1, <2>3, <2>4, <2>5, <3>2 DEF FoundAsItIs
    <3>4. u # s => serve'[u] = serve[u]
      BY <2>4
    <3>5. u = s => serve'[u].pc = "stat"
      BY <2>3, <2>4
    <3> QED
      BY <3>1, <3>2, <3>3, <3>4, <3>5 DEF FilesInv, ClearAnswers
  <2> QED
    BY <2>6, <2>7, <2>8, <2>9 DEF FilesInv
\* What it stores in MemCache was read after its ETag was made.
<1>16. CASE SF!StoreFile(s)
  <2> DEFINE r == Then(s, "return", serve[s].v, serve[s].body)
  <2>1. /\ serve[s].pc = "keep" /\ UNCHANGED <<disk, newest, calm, statCache>> /\ SF!Go(s, "return")
        /\ memCache' = [stamp |-> Stamp[serve[s].v], body |-> serve[s].body]
    BY <1>16 DEF SF!StoreFile, SF!Etag
  <2>2. r \in Serving /\ serve' = [serve EXCEPT ![s] = r]
    BY <2>1, ServeRecords DEF FilesInv, FileSteps
  <2>3. r.pc = "return" /\ r.v = serve[s].v /\ r.body = serve[s].body /\ r.clear = serve[s].clear
    BY DEF Then
  <2> HIDE DEF r
  <2>4. /\ serve' \in [Servers -> Serving] /\ serve'[s] = r /\ \A t \in Servers : t # s => serve'[t] = serve[t]
    BY <2>2, ServesOne DEF FilesInv
  <2>5. memCache'.stamp = Stamp[serve[s].v] /\ memCache'.body = serve[s].body
    BY <2>1
  <2>6. FileTypes'
    BY <1>1, <1>2, <2>1, <2>4, <2>5 DEF FilesInv, FileTypes
  <2>7. InOrder'
    <3>1. \A t \in Servers :
           /\ serve'[t].v <= newest
           /\ serve'[t].pc \in {"store", "headers", "read", "keep", "return", "answered", "304"} => serve'[t].v >= 1
           /\ serve'[t].pc = "stat" => statCache.v >= 1
           /\ serve'[t].pc = "keep" => serve'[t].v <= serve'[t].body /\ serve'[t].body <= newest
      <4> TAKE t \in Servers
      <4> QED
        BY <1>2, <2>1, <2>3, <2>4 DEF FilesInv, InOrder
    <3>2. serve[s].v \in 1..newest /\ serve[s].v <= serve[s].body /\ serve[s].body <= newest
      BY <1>1, <1>2, <2>1
    <3> QED
      BY <1>2, <2>1, <2>5, <3>1, <3>2 DEF InOrder
  <2>8. StatIsFresh'
    BY <2>1, <2>3, <2>4 DEF FilesInv, StatIsFresh
  <2>9. ClearAnswers'
    <3> SUFFICES ASSUME NEW u \in Servers, serve'[u].clear
                 PROVE  /\ calm /\ disk = newest /\ serve'[u].pc # "idle"
                        /\ \A t \in Servers : FoundAsItIs(t)'
                        /\ serve'[u].pc \in {"answered", "304"} => serve'[u].v = disk
                        /\ serve'[u].pc = "answered" /\ SF!Distinct(disk) => serve'[u].body = disk
      BY <2>1 DEF ClearAnswers, SF!Distinct
    <3>1. serve[u].clear
      BY <2>3, <2>4
    <3>2. calm /\ disk = newest /\ serve[s].v = disk /\ \A t \in Servers : FoundAsItIs(t)
      BY <2>1, <3>1 DEF FilesInv, ClearAnswers, FoundAsItIs
    <3>3. \A t \in Servers : FoundAsItIs(t)'
      <4> TAKE t \in Servers
      <4> QED
        BY <2>1, <2>3, <2>4, <2>5, <3>2 DEF FoundAsItIs
    <3>4. u # s => serve'[u] = serve[u]
      BY <2>4
    <3>5. u = s => serve'[u].pc = "return"
      BY <2>3, <2>4
    <3> QED
      BY <3>1, <3>2, <3>3, <3>4, <3>5 DEF FilesInv, ClearAnswers
  <2> QED
    BY <2>6, <2>7, <2>8, <2>9 DEF FilesInv
\* A request begins: nothing old is in its way if nobody is at the caches.
<1>17. CASE SF!IsFile(s)
  <2> DEFINE free == calm /\ \A t \in Servers : serve[t].pc \in {"idle", "answered", "304"}
             r == [SF!Rest EXCEPT !.pc = "look", !.clear = free]
  <2>1. serve[s].pc = "idle" /\ UNCHANGED <<disk, newest, calm, statCache, memCache>> /\ disk # SF!Missing
    BY <1>17 DEF SF!IsFile, SF!cacheVars
  <2>2. free \in BOOLEAN
    BY <1>1, Zenon
  <2>3. serve' = [serve EXCEPT ![s] = r]
    BY <1>17 DEF SF!IsFile
  <2> HIDE DEF free
  <2>4. r \in Serving /\ r.pc = "look" /\ r.v = 0 /\ r.clear = free
    <3>1. SF!Rest \in Serving /\ SF!Rest.v = 0
      BY <1>1 DEF SF!Rest, SF!Missing, Serving, FileSteps
    <3> QED
      BY <2>2, <3>1 DEF Serving, FileSteps
  <2> HIDE DEF r
  <2>5. serve' \in [Servers -> Serving] /\ serve'[s] = r /\ \A t \in Servers : t # s => serve'[t] = serve[t]
    BY <2>3, <2>4, ServesOne DEF FilesInv
  <2>6. FileTypes'
    BY <2>1, <2>5 DEF FilesInv, FileTypes
  <2>7. InOrder'
    <3>1. \A t \in Servers :
           /\ serve'[t].v <= newest
           /\ serve'[t].pc \in {"store", "headers", "read", "keep", "return", "answered", "304"} => serve'[t].v >= 1
           /\ serve'[t].pc = "stat" => statCache.v >= 1
           /\ serve'[t].pc = "keep" => serve'[t].v <= serve'[t].body /\ serve'[t].body <= newest
      <4> TAKE t \in Servers
      <4> QED
        BY <1>1, <2>4, <2>5 DEF FilesInv, InOrder
    <3> QED
      BY <2>1, <3>1 DEF FilesInv, InOrder
  <2>8. StatIsFresh'
    BY <2>1, <2>4, <2>5 DEF FilesInv, StatIsFresh
  <2>9. ClearAnswers'
    <3> SUFFICES ASSUME NEW u \in Servers, serve'[u].clear
                 PROVE  /\ calm /\ disk = newest /\ serve'[u].pc # "idle"
                        /\ \A t \in Servers : FoundAsItIs(t)'
                        /\ serve'[u].pc \in {"answered", "304"} => serve'[u].v = disk
                        /\ serve'[u].pc = "answered" /\ SF!Distinct(disk) => serve'[u].body = disk
      BY <2>1 DEF ClearAnswers, SF!Distinct
    <3>1. ASSUME \A t \in Servers : FoundAsItIs(t) PROVE \A t \in Servers : FoundAsItIs(t)'
      <4> TAKE t \in Servers
      <4> QED
        BY <2>1, <2>4, <2>5, <3>1 DEF FoundAsItIs
    <3>2. CASE u = s
      <4>1. free
        BY <2>4, <2>5, <3>2
      <4>2. \A t \in Servers : FoundAsItIs(t)
        BY <4>1 DEF FoundAsItIs, free
      <4>3. calm /\ disk = newest
        BY <1>1, <2>1, <4>1 DEF free
      <4> QED
        BY <2>4, <2>5, <3>1, <3>2, <4>2, <4>3
    <3>3. CASE u # s
      BY <2>5, <3>1, <3>3 DEF FilesInv, ClearAnswers
    <3> QED
      BY <3>2, <3>3
  <2> QED
    BY <2>6, <2>7, <2>8, <2>9 DEF FilesInv
<1> QED
  BY <1>6, <1>7, <1>8, <1>9, <1>10, <1>11, <1>12, <1>13, <1>14, <1>15, <1>16, <1>17 DEF SF!ServeStep

\* The file changes: nothing that is served then has to be fresh.
LEMMA ChangeStep ==
    ASSUME FilesInv, MaxVersions \in Nat, SF!Publish \/ SF!Remove
    PROVE  FilesInv'
<1>1. /\ newest \in 1..MaxVersions /\ disk \in {SF!Missing, newest} /\ SF!Missing = 0
      /\ statCache \in [v : 0..MaxVersions, old : BOOLEAN] /\ serve \in [Servers -> Serving]
      /\ memCache.body \in 0..MaxVersions
  BY DEF FilesInv, FileTypes, SF!Missing
<1>2. /\ calm' = FALSE /\ UNCHANGED <<statCache, memCache>>
      /\ serve' = [s \in Servers |-> [serve[s] EXCEPT !.clear = FALSE]]
  BY DEF SF!Publish, SF!Remove, SF!Muddy, SF!cacheVars
<1>3. newest' \in 1..MaxVersions /\ newest <= newest' /\ disk' \in {SF!Missing, newest'}
  BY <1>1 DEF SF!Publish, SF!Remove
<1>4. serve' \in [Servers -> Serving]
  BY <1>1, <1>2 DEF Serving
<1>5. \A s \in Servers : /\ serve'[s].pc = serve[s].pc /\ serve'[s].v = serve[s].v /\ serve'[s].body = serve[s].body
                         /\ serve'[s].clear = FALSE /\ serve[s].v \in 0..MaxVersions /\ serve[s].body \in 0..MaxVersions
  BY <1>1, <1>2 DEF Serving
<1>6. FileTypes'
  BY <1>1, <1>2, <1>3, <1>4 DEF FileTypes, SF!Missing
<1>7. InOrder'
  <2>1. \A s \in Servers :
         /\ serve'[s].v <= newest'
         /\ serve'[s].pc \in {"store", "headers", "read", "keep", "return", "answered", "304"} => serve'[s].v >= 1
         /\ serve'[s].pc = "stat" => statCache.v >= 1
         /\ serve'[s].pc = "keep" => serve'[s].v <= serve'[s].body /\ serve'[s].body <= newest'
    <3> TAKE s \in Servers
    <3> QED
      BY <1>1, <1>3, <1>5 DEF FilesInv, InOrder
  <2>2. statCache'.v <= newest'
    BY <1>1, <1>2, <1>3 DEF FilesInv, InOrder
  <2>3. \/ memCache.stamp = 0
        \/ \E v \in 1..newest' : memCache.stamp = Stamp[v] /\ v <= memCache.body /\ memCache.body <= newest'
    <3>1. CASE memCache.stamp = 0
      BY <3>1
    <3>2. CASE memCache.stamp # 0
      <4>1. PICK v \in 1..newest : memCache.stamp = Stamp[v] /\ v <= memCache.body /\ memCache.body <= newest
        BY <3>2 DEF FilesInv, InOrder
      <4>2. v \in 1..newest' /\ memCache.body <= newest'
        BY <1>1, <1>3, <4>1
      <4> QED
        BY <4>1, <4>2
    <3> QED
      BY <3>1, <3>2
  <2> QED
    BY <1>2, <2>1, <2>2, <2>3 DEF InOrder
<1>8. StatIsFresh' /\ ClearAnswers'
  BY <1>2, <1>5 DEF StatIsFresh, ClearAnswers
<1> QED
  BY <1>6, <1>7, <1>8 DEF FilesInv

\* A second is over: for the entry of stat_cache, or for everybody.
LEMMA AgeStep ==
    ASSUME FilesInv, SF!Second \/ SF!Expire
    PROVE  FilesInv'
<1>1. statCache \in [v : 0..MaxVersions, old : BOOLEAN] /\ serve \in [Servers -> Serving]
  BY DEF FilesInv, FileTypes
<1>2. /\ UNCHANGED <<disk, newest, memCache>> /\ calm' \in {calm, TRUE}
      /\ statCache' = [statCache EXCEPT !.old = TRUE]
  BY DEF SF!Second, SF!Expire
<1>3. statCache' \in [v : 0..MaxVersions, old : BOOLEAN] /\ statCache'.v = statCache.v /\ statCache'.old
  BY <1>1, <1>2
<1>4. /\ serve' \in [Servers -> Serving]
      /\ \A s \in Servers : /\ serve'[s].pc = serve[s].pc /\ serve'[s].v = serve[s].v /\ serve'[s].body = serve[s].body
                            /\ serve'[s].clear = serve[s].clear
  <2>1. CASE SF!Second
    <3>1. serve' = [s \in Servers |-> [serve[s] EXCEPT !.late = @ \/ serve[s].pc \in {"os.stat", "store"}]]
      BY <2>1 DEF SF!Second
    <3>2. ASSUME NEW s \in Servers
          PROVE  (serve[s].late \/ serve[s].pc \in {"os.stat", "store"}) \in BOOLEAN
      OBVIOUS
    <3> QED
      BY <1>1, <3>1, <3>2 DEF Serving
  <2>2. CASE SF!Expire
    BY <1>1, <2>2 DEF SF!Expire
  <2> QED
    BY <2>1, <2>2
<1>5. calm' /\ ~calm => \A s \in Servers : serve'[s].pc = "store" => serve'[s].late
  <2>1. CASE SF!Second
    BY <1>1, <2>1 DEF SF!Second, Serving
  <2>2. CASE SF!Expire
    BY <2>2 DEF SF!Expire
  <2> QED
    BY <2>1, <2>2
<1>6. \A s \in Servers : serve[s].late => serve'[s].late
  <2>1. CASE SF!Second
    BY <1>1, <2>1 DEF SF!Second, Serving
  <2>2. CASE SF!Expire
    BY <2>2 DEF SF!Expire
  <2> QED
    BY <2>1, <2>2
<1>7. FileTypes'
  BY <1>2, <1>3, <1>4 DEF FilesInv, FileTypes
<1>8. InOrder'
  <2>1. \A s \in Servers :
         /\ serve'[s].v <= newest
         /\ serve'[s].pc \in {"store", "headers", "read", "keep", "return", "answered", "304"} => serve'[s].v >= 1
         /\ serve'[s].pc = "stat" => statCache.v >= 1
         /\ serve'[s].pc = "keep" => serve'[s].v <= serve'[s].body /\ serve'[s].body <= newest
    BY <1>4 DEF FilesInv, InOrder
  <2> QED
    BY <1>2, <1>3, <2>1 DEF FilesInv, InOrder
<1>9. StatIsFresh'
  <2>1. ASSUME calm', NEW s \in Servers, serve'[s].pc = "store"
        PROVE  serve'[s].late \/ serve'[s].v = disk
    BY <1>4, <1>5, <1>6, <2>1 DEF FilesInv, StatIsFresh
  <2> QED
    BY <1>2, <1>3, <2>1 DEF StatIsFresh
<1>10. ClearAnswers'
  <2> SUFFICES ASSUME NEW u \in Servers, serve'[u].clear
               PROVE  /\ calm' /\ disk = newest /\ serve'[u].pc # "idle"
                      /\ \A t \in Servers : FoundAsItIs(t)'
                      /\ serve'[u].pc \in {"answered", "304"} => serve'[u].v = disk
                      /\ serve'[u].pc = "answered" /\ SF!Distinct(disk) => serve'[u].body = disk
    BY <1>2 DEF ClearAnswers, SF!Distinct
  <2>1. serve[u].clear
    BY <1>4
  <2>2. \A t \in Servers : FoundAsItIs(t)'
    <3> TAKE t \in Servers
    <3>1. FoundAsItIs(t)
      BY <2>1 DEF FilesInv, ClearAnswers
    <3> QED
      BY <1>2, <1>3, <1>4, <3>1 DEF FoundAsItIs
  <2>3. /\ calm /\ disk = newest /\ serve[u].pc # "idle"
        /\ serve[u].pc \in {"answered", "304"} => serve[u].v = disk
        /\ serve[u].pc = "answered" /\ SF!Distinct(disk) => serve[u].body = disk
    BY <2>1 DEF FilesInv, ClearAnswers
  <2>4. calm'
    BY <1>2, <2>3
  <2> QED
    BY <1>4, <2>2, <2>3, <2>4
<1> QED
  BY <1>7, <1>8, <1>9, <1>10 DEF FilesInv

\* However many threads serve the file and however it changes under them, a
\* request that begins with nothing old in its way, and ends before the file
\* changes, is answered with the file as it is.
THEOREM AnswersAreFresh ==
    ASSUME MaxVersions \in Nat \ {0}, \A v \in 1..MaxVersions : Stamp[v] # 0
    PROVE  Spec => []FreshAnswers
<1>1. Init => FilesInv
  <2> SUFFICES ASSUME Init PROVE FilesInv
    OBVIOUS
  <2>1. /\ disk = 1 /\ newest = 1 /\ calm = TRUE /\ statCache = [v |-> 0, old |-> FALSE]
        /\ memCache = [stamp |-> 0, body |-> 0] /\ serve = [s \in Servers |-> SF!Rest]
    BY DEF Init, SF!Init, SF!NoEntry, SF!Missing
  <2>2. SF!Rest \in Serving /\ SF!Rest.pc = "idle" /\ SF!Rest.v = 0 /\ ~SF!Rest.clear
    BY DEF SF!Rest, SF!Missing, Serving, FileSteps
  <2>3. FileTypes
    BY <2>1, <2>2 DEF FileTypes
  <2>4. InOrder /\ StatIsFresh /\ ClearAnswers
    BY <2>1, <2>2 DEF InOrder, StatIsFresh, ClearAnswers, SF!Missing
  <2> QED
    BY <2>3, <2>4 DEF FilesInv
<1>2. FilesInv /\ [Next]_vars => FilesInv'
  <2> SUFFICES ASSUME FilesInv, [Next]_vars PROVE FilesInv'
    OBVIOUS
  <2>1. SF!Next \/ UNCHANGED staticVars
    BY DEF Next, Session, Static, Reload, Shared, Http3, Futures, OnlyFutures, vars
  <2>2. CASE UNCHANGED staticVars
    BY <2>2 DEF staticVars, FilesInv, FileTypes, InOrder, StatIsFresh, ClearAnswers, FoundAsItIs, SF!Distinct
  <2>3. ASSUME NEW s \in Servers, SF!ServeStep(s) PROVE FilesInv'
    BY <2>3, ServeStep
  <2>4. CASE SF!Publish \/ SF!Remove
    BY <2>4, ChangeStep
  <2>5. CASE SF!Second \/ SF!Expire
    BY <2>5, AgeStep
  <2> QED
    BY <2>1, <2>2, <2>3, <2>4, <2>5 DEF SF!Next
<1>3. FilesInv => FreshAnswers
  BY DEF FilesInv, ClearAnswers, FreshAnswers, SF!FreshAnswers
<1> QED
  BY <1>1, <1>2, <1>3, PTL DEF Spec

-----------------------------------------------------------------------------
(* WebSocketSession: any number of request threads, any number of messages. *)

Events == {"none", "open", "close"}
Jobs == [pc : {"idle", "event", "message", "raise", "end"}, event : Events]
Closings == {"no", "close", "attend", "ended", "channel"}
Links == [up : BOOLEAN, set : BOOLEAN, partner : BOOLEAN, attended : BOOLEAN, ended : BOOLEAN]

SessionTypes ==
    /\ env \in [event : Events, msg : Nat, was : WS!Actors] /\ queue \in Nat /\ given \in Nat
    /\ job \in [Threads -> Jobs] /\ link \in Links /\ closing \in [WS!Actors -> Closings]
    /\ registered \in BOOLEAN /\ early \in BOOLEAN /\ crossed \in BOOLEAN /\ robbed \in BOOLEAN

\* Past the handshake, all of it.
Opened == stage \in {"serving", "make_params", "execute"}
\* Somebody is in the close of the channel, or it is over.
CloseBegun == ~link.up \/ \E a \in WS!Actors : closing[a] \in {"attend", "ended", "channel"}
SessionGone == ~link.up \/ \E a \in WS!Actors : closing[a] \in {"ended", "channel"}

\* A channel whose close begins after die_with takes the session along, which
\* forgets the client before the channel's close is over.
Forgetting ==
    /\ link.partner => Opened
    /\ ~early => /\ CloseBegun => Opened
                 /\ link.up => \A a \in WS!Actors : closing[a] = "attend" => link.attended
                 /\ SessionGone => ~registered

\* A message is handled while the channel is open, unless a close crosses it,
\* so that no event of the close gets into its environment.
Uncrossed ==
    /\ CloseBegun => ~link.set
    /\ ~crossed /\ stage \in {"make_params", "execute"} => link.set
    /\ ~crossed /\ stage = "execute" => env.event = "none"

\* What was put last is in the environment a job will read, or in the event a
\* job has read and the message it will read.
Coming ==
    \/ WS!Told(env.event, env.msg) = last /\ (queue > 0 \/ \E t \in Threads : job[t].pc = "event")
    \/ \E t \in Threads : job[t].pc = "message" /\ WS!Told(job[t].event, env.msg) = last
Hearing ==
    stage # "execute" /\ ~robbed /\ ~crossed /\ last # <<"none", 0>> => last \in heard \/ Coming

\* The parts of a step of a close.
LEMMA CloseBeginsTo ==
    ASSUME SessionTypes, NEW a \in WS!Actors, WS!CloseBegins(a)
    PROVE  /\ closing' \in [WS!Actors -> Closings] /\ link' \in Links
           /\ \A b \in WS!Actors : b # a => closing'[b] = closing[b]
           /\ UNCHANGED <<stage, env, queue, job, heard, robbed, last, registered, given>>
           /\ \/ /\ link.up /\ closing'[a] = "attend"
                 /\ link'.up = link.up /\ ~link'.set /\ link'.partner = link.partner
                 /\ link'.attended = (link.attended \/ link.partner)
                 /\ early' = (early \/ ~link.partner)
                 /\ crossed' = (crossed \/ stage \in {"make_params", "execute"})
              \/ closing'[a] = "no" /\ UNCHANGED <<link, early, crossed>>
<1>1. link \in Links /\ closing \in [WS!Actors -> Closings]
  BY DEF SessionTypes
<1>2. UNCHANGED <<stage, env, queue, job, heard, robbed, last, registered, given>>
  BY DEF WS!CloseBegins, WS!jobVars
<1>3. CASE link.up
  <2>1. closing' = [closing EXCEPT ![a] = "attend"] /\ link' = [link EXCEPT !.set = FALSE, !.attended = link.attended \/ link.partner]
        /\ early' = (early \/ ~link.partner) /\ crossed' = (crossed \/ stage \in {"make_params", "execute"})
    BY <1>3 DEF WS!CloseBegins
  <2>2. closing' \in [WS!Actors -> Closings] /\ closing'[a] = "attend" /\ \A b \in WS!Actors : b # a => closing'[b] = closing[b]
    BY <1>1, <2>1 DEF Closings
  <2>3. (link.attended \/ link.partner) \in BOOLEAN
    OBVIOUS
  <2>4. link' \in Links /\ link'.up = link.up /\ ~link'.set /\ link'.partner = link.partner /\ link'.attended = (link.attended \/ link.partner)
    BY <1>1, <2>1, <2>3 DEF Links
  <2> QED
    BY <1>2, <1>3, <2>1, <2>2, <2>4
<1>4. CASE ~link.up
  <2>1. closing' = [closing EXCEPT ![a] = "no"] /\ UNCHANGED <<link, early, crossed>>
    BY <1>4 DEF WS!CloseBegins
  <2> QED
    BY <1>1, <1>2, <2>1 DEF Closings
<1> QED
  BY <1>3, <1>4

\* Jobs are put with an event and a message.
LEMMA Executes ==
    ASSUME SessionTypes, NEW e \in Events, NEW m \in Nat, WS!Execute(e, m)
    PROVE  /\ env' \in [event : Events, msg : Nat, was : WS!Actors] /\ env'.event = e /\ env'.msg = m
           /\ queue' \in Nat /\ UNCHANGED <<job, robbed>>
           /\ queue' > 0 \/ WS!Told(e, m) \in heard'
<1>1. env \in [event : Events, msg : Nat, was : WS!Actors] /\ queue \in Nat
  BY DEF SessionTypes
<1>2. env' = [env EXCEPT !.event = e, !.msg = m] /\ UNCHANGED <<job, robbed>>
  BY DEF WS!Execute
<1>3. queue' \in Nat /\ (queue' > 0 \/ WS!Told(e, m) \in heard')
  BY <1>1 DEF WS!Execute
<1> QED
  BY <1>1, <1>2, <1>3

\* The main thread may begin a close when an inline job raises.
LEMMA MainMayClose ==
    ASSUME SessionTypes, NEW c, WS!MayRaise(c)
    PROVE  /\ closing' \in [WS!Actors -> Closings]
           /\ \A a \in WS!Actors : closing'[a] \in {closing[a], "no", "close"}
<1>1. c \in {"no", "close"} /\ closing' = [closing EXCEPT ![WS!Main] = c] /\ closing \in [WS!Actors -> Closings]
  BY DEF SessionTypes, WS!MayRaise
<1> QED
  BY <1>1 DEF Closings

\* What is left alone by the steps that neither begin nor end a close, nor
\* change the register.
Plain ==
    /\ closing' \in [WS!Actors -> Closings]
    /\ \A a \in WS!Actors : closing'[a] \in {closing[a], "no", "close"}
    /\ UNCHANGED <<link, early, crossed, registered>>
    /\ Opened => Opened'

PlainMain == WS!Handshake \/ WS!Open \/ WS!Receive \/ WS!MakeParams \/ WS!PutMessage \/ WS!Disconnect
LEMMA PlainSteps ==
    ASSUME SessionTypes, PlainMain PROVE Plain
<1>1. closing \in [WS!Actors -> Closings] /\ WS!Main \in WS!Actors
  BY DEF SessionTypes, WS!Actors
<1>2. CASE WS!Handshake
  BY <1>1, <1>2 DEF WS!Handshake, Plain, Opened
<1>3. CASE WS!Open
  <2>1. \E c : WS!MayRaise(c)
    BY <1>3 DEF WS!Open
  <2> QED
    BY <1>3, <2>1, MainMayClose DEF WS!Open, Plain, Opened
<1>4. CASE WS!Receive
  BY <1>1, <1>4 DEF WS!Receive, Plain, Opened
<1>5. CASE WS!MakeParams
  BY <1>1, <1>5 DEF WS!MakeParams, Plain, Opened
<1>6. CASE WS!PutMessage
  <2>1. \E c : WS!MayRaise(c)
    BY <1>6 DEF WS!PutMessage
  <2> QED
    BY <1>6, <2>1, MainMayClose DEF WS!PutMessage, Plain, Opened
<1>7. CASE WS!Disconnect
  BY <1>1, <1>7 DEF WS!Disconnect, Plain, Opened, Closings
<1> QED
  BY <1>2, <1>3, <1>4, <1>5, <1>6, <1>7 DEF PlainMain

LEMMA JobSteps ==
    ASSUME SessionTypes, NEW t \in Threads, WS!JobStep(t)
    PROVE  Plain /\ UNCHANGED <<stage, last, given>>
<1>1. closing \in [WS!Actors -> Closings] /\ t \in WS!Actors
  BY DEF SessionTypes, WS!Actors
<1>2. CASE WS!Take(t)
  BY <1>1, <1>2 DEF WS!Take, Plain, Opened
<1>3. CASE WS!ReadEvent(t)
  BY <1>1, <1>3 DEF WS!ReadEvent, Plain, Opened
<1>4. CASE WS!ReadMessage(t)
  BY <1>1, <1>4 DEF WS!ReadMessage, Plain, Opened
<1>5. CASE WS!Raise(t)
  BY <1>1, <1>5 DEF WS!Raise, Plain, Opened, Closings
<1>6. CASE WS!End(t)
  BY <1>1, <1>6 DEF WS!End, Plain, Opened
<1>7. CASE WS!NothingToClose(t)
  BY <1>1, <1>7 DEF WS!NothingToClose, WS!jobVars, Plain, Opened, Closings
<1> QED
  BY <1>2, <1>3, <1>4, <1>5, <1>6, <1>7 DEF WS!JobStep

\* Such steps keep what is known of the client and of the close.
LEMMA PlainKeeps ==
    ASSUME Plain PROVE (Forgetting => Forgetting') /\ (CloseBegun' => CloseBegun)
  BY DEF Plain, Forgetting, CloseBegun, SessionGone

\* The rest of the steps of a close, which does not open what was closed.
LEMMA CloseStepsTo ==
    ASSUME SessionTypes, NEW a \in WS!Actors
    PROVE  /\ WS!CloseSession(a) =>
                /\ closing[a] = "attend" /\ closing' \in [WS!Actors -> Closings]
                /\ closing'[a] \in {"ended", "channel"} /\ \A b \in WS!Actors : b # a => closing'[b] = closing[b]
                /\ UNCHANGED <<stage, link, early, crossed, given>>
                /\ registered' = (registered /\ ~link.attended)
           /\ WS!SessionClosed(a) =>
                /\ closing[a] = "ended" /\ closing' \in [WS!Actors -> Closings]
                /\ closing'[a] = "channel" /\ \A b \in WS!Actors : b # a => closing'[b] = closing[b]
                /\ link' \in Links /\ link' = [link EXCEPT !.ended = TRUE]
                /\ UNCHANGED <<stage, env, queue, job, heard, robbed, last, registered, early, crossed, given>>
           /\ WS!CloseEnds(a) =>
                /\ closing[a] = "channel" /\ closing' \in [WS!Actors -> Closings]
                /\ closing'[a] = "no" /\ \A b \in WS!Actors : b # a => closing'[b] = closing[b]
                /\ link' \in Links /\ ~link'.up /\ ~link'.partner /\ link'.set = link.set
                /\ UNCHANGED <<stage, env, queue, job, heard, robbed, last, registered, early, crossed, given>>
<1>1. link \in Links /\ closing \in [WS!Actors -> Closings] /\ registered \in BOOLEAN
  BY DEF SessionTypes
<1>2. ASSUME WS!CloseSession(a)
      PROVE  /\ closing[a] = "attend" /\ closing' \in [WS!Actors -> Closings]
             /\ closing'[a] \in {"ended", "channel"} /\ \A b \in WS!Actors : b # a => closing'[b] = closing[b]
             /\ UNCHANGED <<stage, link, early, crossed, given>>
             /\ registered' = (registered /\ ~link.attended)
  <2>1. registered' = (registered /\ ~link.attended)
    BY <1>1, <1>2, Zenon DEF WS!CloseSession
  <2>2. /\ closing[a] = "attend" /\ UNCHANGED <<stage, link, early, crossed, given>>
        /\ closing' = [closing EXCEPT ![a] = IF link.attended /\ ~link.ended THEN "ended" ELSE "channel"]
    BY <1>2 DEF WS!CloseSession
  <2> QED
    BY <1>1, <2>1, <2>2 DEF Closings
<1>3. ASSUME WS!SessionClosed(a)
      PROVE  /\ closing[a] = "ended" /\ closing' \in [WS!Actors -> Closings]
             /\ closing'[a] = "channel" /\ \A b \in WS!Actors : b # a => closing'[b] = closing[b]
             /\ link' \in Links /\ link' = [link EXCEPT !.ended = TRUE]
             /\ UNCHANGED <<stage, env, queue, job, heard, robbed, last, registered, early, crossed, given>>
  BY <1>1, <1>3 DEF WS!SessionClosed, WS!jobVars, Links, Closings
<1>4. ASSUME WS!CloseEnds(a)
      PROVE  /\ closing[a] = "channel" /\ closing' \in [WS!Actors -> Closings]
             /\ closing'[a] = "no" /\ \A b \in WS!Actors : b # a => closing'[b] = closing[b]
             /\ link' \in Links /\ ~link'.up /\ ~link'.partner /\ link'.set = link.set
             /\ UNCHANGED <<stage, env, queue, job, heard, robbed, last, registered, early, crossed, given>>
  BY <1>1, <1>4 DEF WS!CloseEnds, WS!jobVars, Links, Closings
<1> QED
  BY <1>2, <1>3, <1>4

\* A close that begins with the session among its partners takes it along.
LEMMA ForgettingStep ==
    ASSUME SessionTypes, Forgetting, WS!Next
    PROVE  Forgetting'
<1>1. CASE PlainMain
  BY <1>1, PlainSteps, PlainKeeps
<1>2. CASE \E t \in Threads : WS!JobStep(t)
  BY <1>2, JobSteps, PlainKeeps
<1>3. CASE WS!Register
  <2>1. /\ stage = "register" /\ UNCHANGED <<link, early, closing>>
        /\ stage' \in {"die_with", "register", "serving"}
    BY <1>3 DEF WS!Register, WS!StageAfter
  <2>2. ~Opened /\ CloseBegun' = CloseBegun /\ SessionGone' = SessionGone
    BY <2>1 DEF Opened, CloseBegun, SessionGone
  <2>3. ~early => ~CloseBegun
    BY <2>2 DEF Forgetting
  <2>4. SessionGone => CloseBegun
    BY DEF CloseBegun, SessionGone
  <2>5. ~link.partner /\ (~early /\ link.up => \A a \in WS!Actors : closing[a] = "attend" => link.attended)
    BY <2>2 DEF Forgetting
  <2> QED
    BY <2>1, <2>2, <2>3, <2>4, <2>5 DEF Forgetting
<1>4. CASE WS!DieWith
  <2>1. /\ stage' = "serving" /\ UNCHANGED <<early, closing, registered>> /\ link' = [link EXCEPT !.partner = TRUE]
    BY <1>4 DEF WS!DieWith, WS!StageAfter
  <2>2. Opened' /\ link'.up = link.up /\ link'.attended = link.attended
    BY <2>1 DEF Opened, SessionTypes, Links
  <2> QED
    BY <2>1, <2>2 DEF Forgetting, CloseBegun, SessionGone
<1>5. ASSUME NEW a \in WS!Actors, WS!CloseBegins(a)
      PROVE  Forgetting'
  <2>1. /\ \A b \in WS!Actors : b # a => closing'[b] = closing[b]
        /\ UNCHANGED <<stage, registered>>
    BY <1>5, CloseBeginsTo
  <2>2. CASE /\ link.up /\ closing'[a] = "attend"
             /\ link'.up = link.up /\ link'.partner = link.partner
             /\ link'.attended = (link.attended \/ link.partner)
             /\ early' = (early \/ ~link.partner)
    <3>1. (link.partner => Opened) /\ Opened' = Opened
      BY <2>1 DEF Forgetting, Opened
    <3>2. ~early' => ~early /\ link.partner
      BY <2>2
    <3>3. SessionGone' => SessionGone
      BY <2>1, <2>2 DEF SessionGone
    <3>4. link.partner => link'.attended
      BY <2>2
    <3> QED
      BY <2>1, <2>2, <3>1, <3>2, <3>3, <3>4 DEF Forgetting
  <2>3. CASE closing'[a] = "no" /\ UNCHANGED <<link, early, crossed>>
    BY <2>1, <2>3 DEF Forgetting, Opened, CloseBegun, SessionGone
  <2> QED
    BY <1>5, <2>2, <2>3, CloseBeginsTo
<1>6. ASSUME NEW a \in WS!Actors, WS!CloseSession(a)
      PROVE  Forgetting'
  <2>1. /\ closing[a] = "attend" /\ closing'[a] \in {"ended", "channel"} /\ UNCHANGED <<stage, link, early>>
        /\ \A b \in WS!Actors : b # a => closing'[b] = closing[b]
        /\ registered' = (registered /\ ~link.attended)
    BY <1>6, CloseStepsTo
  <2>2. ~early => ~registered'
    BY <1>6, <2>1 DEF Forgetting, SessionGone
  <2> QED
    BY <2>1, <2>2 DEF Forgetting, Opened, CloseBegun, SessionGone
<1>7. ASSUME NEW a \in WS!Actors, WS!SessionClosed(a)
      PROVE  Forgetting'
  <2>1. /\ closing[a] = "ended" /\ closing'[a] = "channel" /\ UNCHANGED <<stage, early, registered>>
        /\ \A b \in WS!Actors : b # a => closing'[b] = closing[b]
        /\ link' = [link EXCEPT !.ended = TRUE]
    BY <1>7, CloseStepsTo
  <2>2. link'.up = link.up /\ link'.partner = link.partner /\ link'.attended = link.attended
    BY <2>1 DEF SessionTypes, Links
  <2> QED
    BY <2>1, <2>2 DEF Forgetting, Opened, CloseBegun, SessionGone
<1>8. ASSUME NEW a \in WS!Actors, WS!CloseEnds(a)
      PROVE  Forgetting'
  <2>1. /\ closing[a] = "channel" /\ closing'[a] = "no" /\ UNCHANGED <<stage, early, registered>>
        /\ \A b \in WS!Actors : b # a => closing'[b] = closing[b]
        /\ ~link'.up /\ ~link'.partner
    BY <1>8, CloseStepsTo
  <2> QED
    BY <2>1 DEF Forgetting, Opened, CloseBegun, SessionGone
<1> QED
  BY <1>1, <1>2, <1>3, <1>4, <1>5, <1>6, <1>7, <1>8 DEF WS!Next, WS!MainStep, WS!CloseStep, PlainMain

\* No message is begun on a channel whose close has begun.
LEMMA UncrossedStep ==
    ASSUME SessionTypes, Uncrossed, WS!Next
    PROVE  Uncrossed'
<1>1. CASE PlainMain
  <2>1. Plain /\ (CloseBegun' => CloseBegun)
    BY <1>1, PlainSteps, PlainKeeps
  <2>2. CASE WS!Handshake
    BY <2>1, <2>2 DEF WS!Handshake, Plain, Uncrossed
  <2>3. CASE WS!Open
    <3>1. stage' \in {"register", "die_with"}
      BY <2>3 DEF WS!Open, WS!StageAfter
    <3> QED
      BY <2>1, <3>1 DEF Plain, Uncrossed
  <2>4. CASE WS!Receive
    BY <2>1, <2>4 DEF WS!Receive, Plain, Uncrossed
  <2>5. CASE WS!MakeParams
    <3>1. env' = [env EXCEPT !.event = "none"] /\ stage = "make_params" /\ stage' = "execute"
      BY <2>5 DEF WS!MakeParams
    <3>2. env'.event = "none"
      BY <3>1 DEF SessionTypes
    <3> QED
      BY <2>1, <3>1, <3>2 DEF Plain, Uncrossed
  <2>6. CASE WS!PutMessage
    BY <2>1, <2>6 DEF WS!PutMessage, Plain, Uncrossed
  <2>7. CASE WS!Disconnect
    BY <2>1, <2>7 DEF WS!Disconnect, Plain, Uncrossed
  <2> QED
    BY <1>1, <2>2, <2>3, <2>4, <2>5, <2>6, <2>7 DEF PlainMain
<1>2. ASSUME NEW t \in Threads, WS!JobStep(t)
      PROVE  Uncrossed'
  <2>1. Plain /\ (CloseBegun' => CloseBegun) /\ UNCHANGED stage
    BY <1>2, JobSteps, PlainKeeps
  <2>2. env'.event = env.event
    BY <1>2 DEF WS!JobStep, WS!Take, WS!ReadEvent, WS!ReadMessage, WS!Raise, WS!End, WS!NothingToClose, SessionTypes
  <2> QED
    BY <2>1, <2>2 DEF Plain, Uncrossed
<1>3. CASE WS!Register
  <2>1. UNCHANGED <<link, closing>> /\ stage' \in {"die_with", "register", "serving"}
    BY <1>3 DEF WS!Register, WS!StageAfter
  <2> QED
    BY <2>1 DEF Uncrossed, CloseBegun
<1>4. CASE WS!DieWith
  <2>1. /\ stage' = "serving" /\ UNCHANGED closing /\ link' = [link EXCEPT !.partner = TRUE]
    BY <1>4 DEF WS!DieWith, WS!StageAfter
  <2>2. link'.up = link.up /\ link'.set = link.set
    BY <2>1 DEF SessionTypes, Links
  <2> QED
    BY <2>1, <2>2 DEF Uncrossed, CloseBegun
<1>5. ASSUME NEW a \in WS!Actors, WS!CloseBegins(a)
      PROVE  Uncrossed'
  <2>1. /\ \A b \in WS!Actors : b # a => closing'[b] = closing[b]
        /\ UNCHANGED <<stage, env>>
    BY <1>5, CloseBeginsTo
  <2>2. CASE ~link'.set /\ crossed' = (crossed \/ stage \in {"make_params", "execute"})
    BY <2>1, <2>2 DEF Uncrossed
  <2>3. CASE closing'[a] = "no" /\ UNCHANGED <<link, early, crossed>>
    BY <2>1, <2>3 DEF Uncrossed, CloseBegun
  <2> QED
    BY <1>5, <2>2, <2>3, CloseBeginsTo
<1>6. ASSUME NEW a \in WS!Actors, WS!CloseSession(a)
      PROVE  Uncrossed'
  <2>1. closing[a] = "attend" /\ UNCHANGED <<stage, link, crossed>>
    BY <1>6, CloseStepsTo
  <2>2. CloseBegun
    BY <2>1 DEF CloseBegun
  <2> QED
    BY <2>1, <2>2 DEF Uncrossed
<1>7. ASSUME NEW a \in WS!Actors, WS!SessionClosed(a) \/ WS!CloseEnds(a)
      PROVE  Uncrossed'
  <2>1. UNCHANGED <<stage, env, crossed>> /\ closing[a] \in {"ended", "channel"} /\ link'.set = link.set
    BY <1>7, CloseStepsTo DEF SessionTypes, Links
  <2>2. CloseBegun
    BY <2>1 DEF CloseBegun
  <2> QED
    BY <2>1, <2>2 DEF Uncrossed
<1> QED
  BY <1>1, <1>2, <1>3, <1>4, <1>5, <1>6, <1>7 DEF WS!Next, WS!MainStep, WS!CloseStep, PlainMain

LEMMA SessionTypesStep ==
    ASSUME SessionTypes, WS!Next
    PROVE  SessionTypes'
<1>1. /\ env \in [event : Events, msg : Nat, was : WS!Actors] /\ queue \in Nat /\ given \in Nat
      /\ job \in [Threads -> Jobs] /\ link \in Links /\ closing \in [WS!Actors -> Closings]
      /\ registered \in BOOLEAN /\ early \in BOOLEAN /\ crossed \in BOOLEAN /\ robbed \in BOOLEAN
  BY DEF SessionTypes
<1>2. "none" \in Events /\ "open" \in Events /\ "close" \in Events /\ env.event \in Events /\ env.msg \in Nat
  BY <1>1 DEF Events
<1>3. CASE PlainMain
  <2>1. /\ closing' \in [WS!Actors -> Closings] /\ UNCHANGED <<link, early, crossed, registered>>
    BY <1>3, PlainSteps DEF Plain
  <2>2. /\ env' \in [event : Events, msg : Nat, was : WS!Actors] /\ queue' \in Nat /\ given' \in Nat
        /\ UNCHANGED <<job, robbed>>
    <3>1. CASE WS!Open
      <4>1. WS!Execute("open", env.msg) /\ UNCHANGED given
        BY <3>1 DEF WS!Open
      <4> QED
        BY <1>1, <1>2, <4>1, Executes
    <3>2. CASE WS!PutMessage
      <4>1. WS!Execute(env.event, given) /\ UNCHANGED given
        BY <3>2 DEF WS!PutMessage
      <4> QED
        BY <1>1, <1>2, <4>1, Executes
    <3>3. CASE WS!MakeParams
      <4>1. env' = [env EXCEPT !.event = "none"] /\ UNCHANGED <<given, queue, job, robbed>>
        BY <3>3 DEF WS!MakeParams, WS!jobVars
      <4> QED
        BY <1>1, <1>2, <4>1
    <3>4. CASE WS!Handshake \/ WS!Receive \/ WS!Disconnect
      BY <1>1, <3>4 DEF WS!Handshake, WS!Receive, WS!Disconnect, WS!jobVars
    <3> QED
      BY <1>3, <3>1, <3>2, <3>3, <3>4 DEF PlainMain
  <2> QED
    BY <1>1, <2>1, <2>2 DEF SessionTypes
<1>4. ASSUME NEW t \in Threads, WS!JobStep(t)
      PROVE  SessionTypes'
  <2>1. /\ closing' \in [WS!Actors -> Closings] /\ UNCHANGED <<link, early, crossed, registered, given>>
    BY <1>4, JobSteps DEF Plain
  <2>2. /\ env' \in [event : Events, msg : Nat, was : WS!Actors] /\ queue' \in Nat
        /\ job' \in [Threads -> Jobs] /\ robbed' \in BOOLEAN
    <3>1. CASE WS!Take(t)
      <4>1. t \in WS!Actors /\ env' = [env EXCEPT !.was = t] /\ queue' = queue - 1 /\ queue > 0
            /\ job' = [job EXCEPT ![t].pc = "event"] /\ UNCHANGED robbed
        BY <3>1 DEF WS!Take, WS!Actors
      <4>2. job' \in [Threads -> Jobs]
        BY <1>1, <4>1 DEF Jobs
      <4> QED
        BY <1>1, <4>1, <4>2
    <3>2. CASE WS!ReadEvent(t)
      <4>1. UNCHANGED <<env, queue>> /\ robbed' \in BOOLEAN
        BY <1>1, <3>2 DEF WS!ReadEvent
      <4>2. job' \in {[job EXCEPT ![t] = [pc |-> "message", event |-> env.event]], [job EXCEPT ![t].pc = "raise"]}
        BY <3>2 DEF WS!ReadEvent
      <4>3. job' \in [Threads -> Jobs]
        BY <1>1, <1>2, <4>2 DEF Jobs
      <4> QED
        BY <1>1, <4>1, <4>3
    <3>3. CASE WS!ReadMessage(t)
      BY <1>1, <3>3 DEF WS!ReadMessage, Jobs
    <3>4. CASE WS!Raise(t)
      BY <1>1, <3>4 DEF WS!Raise, Jobs
    <3>5. CASE WS!End(t)
      <4>1. UNCHANGED <<env, queue, robbed>> /\ job' = [job EXCEPT ![t] = WS!Idle]
        BY <3>5 DEF WS!End
      <4>2. WS!Idle \in Jobs
        BY DEF WS!Idle, Jobs, Events
      <4> QED
        BY <1>1, <4>1, <4>2
    <3>6. CASE WS!NothingToClose(t)
      BY <1>1, <3>6 DEF WS!NothingToClose, WS!jobVars
    <3> QED
      BY <1>4, <3>1, <3>2, <3>3, <3>4, <3>5, <3>6 DEF WS!JobStep
  <2> QED
    BY <1>1, <2>1, <2>2 DEF SessionTypes
<1>5. CASE WS!Register
  BY <1>1, <1>5 DEF WS!Register, WS!jobVars, SessionTypes
<1>6. CASE WS!DieWith
  <2>1. link' = [link EXCEPT !.partner = TRUE] /\ UNCHANGED <<env, queue, job, robbed, closing, registered, given, early, crossed>>
    BY <1>6 DEF WS!DieWith, WS!jobVars
  <2>2. link' \in Links
    BY <1>1, <2>1 DEF Links
  <2> QED
    BY <1>1, <2>1, <2>2 DEF SessionTypes
<1>7. ASSUME NEW a \in WS!Actors, WS!CloseBegins(a)
      PROVE  SessionTypes'
  <2>1. /\ closing' \in [WS!Actors -> Closings] /\ link' \in Links
        /\ UNCHANGED <<env, queue, job, robbed, registered, given>>
    BY <1>7, CloseBeginsTo
  <2>2. early' \in BOOLEAN /\ crossed' \in BOOLEAN
    BY <1>1, <1>7, Zenon DEF WS!CloseBegins
  <2> QED
    BY <1>1, <2>1, <2>2 DEF SessionTypes
<1>8. ASSUME NEW a \in WS!Actors, WS!CloseSession(a)
      PROVE  SessionTypes'
  <2>1. /\ closing' \in [WS!Actors -> Closings] /\ UNCHANGED <<link, early, crossed, given>>
        /\ registered' = (registered /\ ~link.attended)
    BY <1>8, CloseStepsTo
  <2>2. /\ env' \in [event : Events, msg : Nat, was : WS!Actors] /\ queue' \in Nat /\ UNCHANGED <<job, robbed>>
    <3>1. CASE WS!Execute("close", env.msg)
      BY <1>2, <3>1, Executes
    <3>2. CASE UNCHANGED <<env, WS!jobVars, last>>
      BY <1>1, <3>2 DEF WS!jobVars
    <3> QED
      BY <1>8, <3>1, <3>2 DEF WS!CloseSession
  <2>3. registered' \in BOOLEAN
    BY <2>1
  <2> QED
    BY <1>1, <2>1, <2>2, <2>3 DEF SessionTypes
<1>9. ASSUME NEW a \in WS!Actors, WS!SessionClosed(a) \/ WS!CloseEnds(a)
      PROVE  SessionTypes'
  <2>1. /\ closing' \in [WS!Actors -> Closings] /\ link' \in Links
        /\ UNCHANGED <<env, queue, job, robbed, registered, early, crossed, given>>
    BY <1>9, CloseStepsTo
  <2> QED
    BY <1>1, <2>1 DEF SessionTypes
<1> QED
  BY <1>3, <1>4, <1>5, <1>6, <1>7, <1>8, <1>9 DEF WS!Next, WS!MainStep, WS!CloseStep, PlainMain

\* What was put last is heard, or on its way.
LEMMA HearingStep ==
    ASSUME SessionTypes, Uncrossed, Hearing, WS!Next
    PROVE  Hearing'
<1>1. /\ env \in [event : Events, msg : Nat, was : WS!Actors] /\ queue \in Nat /\ given \in Nat
      /\ job \in [Threads -> Jobs]
      /\ "open" \in Events /\ "close" \in Events /\ env.event \in Events /\ env.msg \in Nat
  BY DEF SessionTypes, Events
<1>2. ASSUME UNCHANGED <<env, queue, job, heard, last>>, stage' # "execute" => stage # "execute",
             ~robbed' => ~robbed, ~crossed' => ~crossed
      PROVE  Hearing'
  BY <1>2 DEF Hearing, Coming, WS!Told
\* Where something new is put.
<1>3. ASSUME NEW e \in Events, NEW m \in Nat, WS!Execute(e, m), ~crossed' => last' = WS!Told(e, m)
      PROVE  Hearing'
  <2>1. env'.event = e /\ env'.msg = m /\ (queue' > 0 \/ WS!Told(e, m) \in heard')
    BY <1>3, Executes
  <2> QED
    BY <1>3, <2>1 DEF Hearing, Coming, WS!Told
<1>4. CASE PlainMain
  <2>1. UNCHANGED <<crossed>>
    BY <1>4, PlainSteps DEF Plain
  <2>2. CASE WS!Open
    <3>1. WS!Execute("open", env.msg) /\ last' = <<"open", 0>>
      BY <2>2 DEF WS!Open
    <3>2. last' = WS!Told("open", env.msg)
      BY <3>1 DEF WS!Told
    <3> QED
      BY <1>1, <1>3, <3>1, <3>2
  <2>3. CASE WS!PutMessage
    <3>1. WS!Execute(env.event, given) /\ last' = <<"message", given>> /\ stage = "execute"
      BY <2>3 DEF WS!PutMessage
    <3>2. ~crossed => env.event = "none"
      BY <3>1 DEF Uncrossed
    <3>3. ~crossed' => last' = WS!Told(env.event, given)
      BY <2>1, <3>1, <3>2 DEF WS!Told
    <3> QED
      BY <1>1, <1>3, <3>1, <3>3
  <2>4. CASE WS!MakeParams
    BY <2>4 DEF WS!MakeParams, Hearing
  <2>5. CASE WS!Handshake \/ WS!Receive \/ WS!Disconnect
    <3>1. UNCHANGED <<env, queue, job, heard, last, robbed>> /\ (stage' # "execute" => stage # "execute")
      BY <2>5 DEF WS!Handshake, WS!Receive, WS!Disconnect, WS!jobVars
    <3> QED
      BY <1>2, <2>1, <3>1
  <2> QED
    BY <1>4, <2>2, <2>3, <2>4, <2>5 DEF PlainMain
<1>5. ASSUME NEW t \in Threads, WS!JobStep(t)
      PROVE  Hearing'
  <2>1. UNCHANGED <<stage, last, crossed>>
    BY <1>5, JobSteps DEF Plain
  <2>2. CASE WS!Take(t)
    <3>1. /\ env' = [env EXCEPT !.was = t] /\ job' = [job EXCEPT ![t].pc = "event"] /\ UNCHANGED <<robbed, heard>>
          /\ job[t].pc = "idle"
      BY <2>2 DEF WS!Take
    <3>2. /\ env'.event = env.event /\ env'.msg = env.msg /\ job'[t].pc = "event"
          /\ \A u \in Threads : u # t => job'[u] = job[u]
      BY <1>1, <3>1 DEF Jobs
    <3>3. CASE \E u \in Threads : job[u].pc = "message" /\ WS!Told(job[u].event, env.msg) = last
      <4>1. PICK u \in Threads : job[u].pc = "message" /\ WS!Told(job[u].event, env.msg) = last
        BY <3>3
      <4>2. job'[u] = job[u]
        BY <3>1, <3>2, <4>1
      <4> QED
        BY <2>1, <3>2, <4>1, <4>2 DEF Hearing, Coming, WS!Told
    <3>4. CASE ~ \E u \in Threads : job[u].pc = "message" /\ WS!Told(job[u].event, env.msg) = last
      BY <2>1, <3>1, <3>2, <3>4 DEF Hearing, Coming, WS!Told
    <3> QED
      BY <3>3, <3>4
  <2>3. CASE WS!ReadEvent(t)
    <3>1. CASE ~context[t]
      BY <2>3, <3>1 DEF WS!ReadEvent, Hearing
    <3>2. CASE context[t]
      <4>1. /\ job' = [job EXCEPT ![t] = [pc |-> "message", event |-> env.event]] /\ job[t].pc = "event"
            /\ UNCHANGED <<env, queue, heard, robbed>>
        BY <2>3, <3>2 DEF WS!ReadEvent
      <4>2. /\ job'[t].pc = "message" /\ job'[t].event = env.event
            /\ \A u \in Threads : u # t => job'[u] = job[u]
        BY <1>1, <4>1
      <4>3. CASE WS!Told(env.event, env.msg) = last
        <5>1. Coming'
          BY <2>1, <4>1, <4>2, <4>3 DEF Coming, WS!Told
        <5> QED
          BY <5>1 DEF Hearing
      <4>4. CASE \E u \in Threads : job[u].pc = "message" /\ WS!Told(job[u].event, env.msg) = last
        <5>1. PICK u \in Threads : job[u].pc = "message" /\ WS!Told(job[u].event, env.msg) = last
          BY <4>4
        <5>2. job'[u] = job[u]
          BY <4>1, <4>2, <5>1
        <5>3. Coming'
          BY <2>1, <4>1, <5>1, <5>2 DEF Coming, WS!Told
        <5> QED
          BY <5>3 DEF Hearing
      <4>5. CASE ~Coming
        BY <2>1, <4>1, <4>5 DEF Hearing
      <4> QED
        BY <4>3, <4>4, <4>5 DEF Coming
    <3> QED
      BY <3>1, <3>2
  <2>4. CASE WS!ReadMessage(t)
    <3>1. /\ job[t].pc = "message" /\ heard' = heard \cup {WS!Told(job[t].event, env.msg)} /\ UNCHANGED <<env, queue, robbed>>
          /\ \E pc \in {"end", "raise"} : job' = [job EXCEPT ![t].pc = pc]
      BY <2>4 DEF WS!ReadMessage
    <3>2. \A u \in Threads : u # t => job'[u] = job[u]
      BY <1>1, <3>1
    <3>3. Hearing => Hearing'
      <4>1. CASE last \in heard \/ ~Coming
        BY <2>1, <3>1, <4>1 DEF Hearing
      <4>2. CASE WS!Told(env.event, env.msg) = last /\ queue > 0
        <5>1. Coming'
          BY <2>1, <3>1, <4>2 DEF Coming, WS!Told
        <5> QED
          BY <5>1 DEF Hearing
      <4>3. ASSUME NEW u \in Threads, WS!Told(env.event, env.msg) = last, job[u].pc = "event"
            PROVE  Hearing'
        <5>1. job'[u] = job[u]
          BY <3>1, <3>2, <4>3
        <5>2. Coming'
          BY <2>1, <3>1, <4>3, <5>1 DEF Coming, WS!Told
        <5> QED
          BY <5>2 DEF Hearing
      <4>4. ASSUME NEW u \in Threads, WS!Told(job[u].event, env.msg) = last, job[u].pc = "message"
            PROVE  Hearing'
        <5>1. CASE u = t
          BY <2>1, <3>1, <4>4, <5>1 DEF Hearing
        <5>2. CASE u # t
          <6>1. Coming'
            BY <2>1, <3>1, <3>2, <4>4, <5>2 DEF Coming, WS!Told
          <6> QED
            BY <6>1 DEF Hearing
        <5> QED
          BY <5>1, <5>2
      <4> QED
        BY <4>1, <4>2, <4>3, <4>4 DEF Coming
    <3> QED
      BY <3>3
  \* These two leave the jobs that hear something alone.
  <2>5. CASE WS!Raise(t) \/ WS!End(t)
    <3>1. /\ job[t].pc \in {"raise", "end"} /\ UNCHANGED <<env, queue, heard, robbed>>
          /\ \A u \in Threads : u # t => job'[u] = job[u]
      BY <1>1, <2>5 DEF WS!Raise, WS!End
    <3>2. \A u \in Threads : job[u].pc \in {"event", "message"} => job'[u] = job[u]
      BY <3>1
    <3>3. Coming => Coming'
      <4>1. CASE WS!Told(env.event, env.msg) = last /\ (queue > 0 \/ \E u \in Threads : job[u].pc = "event")
        BY <2>1, <3>1, <3>2, <4>1 DEF Coming, WS!Told
      <4>2. CASE \E u \in Threads : job[u].pc = "message" /\ WS!Told(job[u].event, env.msg) = last
        BY <2>1, <3>1, <3>2, <4>2 DEF Coming, WS!Told
      <4> QED
        BY <4>1, <4>2 DEF Coming
    <3> QED
      BY <2>1, <3>1, <3>3 DEF Hearing
  <2>6. CASE WS!NothingToClose(t)
    BY <1>2, <2>1, <2>6 DEF WS!NothingToClose, WS!jobVars
  <2> QED
    BY <1>5, <2>2, <2>3, <2>4, <2>5, <2>6 DEF WS!JobStep
<1>6. CASE WS!Register \/ WS!DieWith
  <2>1. UNCHANGED <<env, queue, job, heard, last, robbed, crossed>> /\ stage # "execute"
    BY <1>6 DEF WS!Register, WS!DieWith, WS!jobVars
  <2> QED
    BY <1>2, <2>1
<1>7. ASSUME NEW a \in WS!Actors, WS!CloseBegins(a)
      PROVE  Hearing'
  <2>1. UNCHANGED <<stage, env, queue, job, heard, robbed, last>> /\ (~crossed' => ~crossed)
    BY <1>7, CloseBeginsTo
  <2> QED
    BY <1>2, <2>1
<1>8. ASSUME NEW a \in WS!Actors, WS!CloseSession(a)
      PROVE  Hearing'
  <2>1. CASE WS!Execute("close", env.msg) /\ last' = <<"close", 0>>
    <3>1. last' = WS!Told("close", env.msg)
      BY <2>1 DEF WS!Told
    <3> QED
      BY <1>1, <1>3, <2>1, <3>1
  <2>2. CASE UNCHANGED <<env, WS!jobVars, last>>
    <3>1. UNCHANGED <<stage, crossed, queue, job, heard, robbed>>
      BY <1>8, <2>2, CloseStepsTo DEF WS!jobVars
    <3> QED
      BY <1>2, <2>2, <3>1
  <2> QED
    BY <1>8, <2>1, <2>2 DEF WS!CloseSession
<1>9. ASSUME NEW a \in WS!Actors, WS!SessionClosed(a) \/ WS!CloseEnds(a)
      PROVE  Hearing'
  <2>1. UNCHANGED <<stage, env, queue, job, heard, robbed, last, crossed>>
    BY <1>9, CloseStepsTo
  <2> QED
    BY <1>2, <2>1
<1> QED
  BY <1>4, <1>5, <1>6, <1>7, <1>8, <1>9 DEF WS!Next, WS!MainStep, WS!CloseStep, PlainMain

\* What a session keeps, with any number of request threads and messages.
SessionInv == SessionTypes /\ Forgetting /\ Uncrossed /\ Hearing
LEMMA SessionKeeps == Spec => []SessionInv
<1>1. Init => SessionInv
  <2> SUFFICES ASSUME Init PROVE SessionInv
    OBVIOUS
  <2>1. /\ stage = "request" /\ env = [event |-> "none", msg |-> 0, was |-> WS!Main]
        /\ queue = 0 /\ job = [t \in Threads |-> WS!Idle] /\ given = 0 /\ last = <<"none", 0>>
        /\ link = [up |-> TRUE, set |-> TRUE, partner |-> FALSE, attended |-> FALSE, ended |-> FALSE]
        /\ closing = [a \in WS!Actors |-> "no"] /\ registered = FALSE
        /\ early = FALSE /\ crossed = FALSE /\ robbed = FALSE
    BY DEF Init, WS!Init
  <2>2. SessionTypes
    BY <2>1 DEF SessionTypes, WS!Actors, WS!Main, WS!Idle, Jobs, Events, Links, Closings
  <2>3. Forgetting /\ Uncrossed /\ Hearing
    BY <2>1 DEF Forgetting, Uncrossed, Hearing, CloseBegun, SessionGone
  <2> QED
    BY <2>2, <2>3 DEF SessionInv
<1>2. SessionInv /\ [Next]_vars => SessionInv'
  <2> SUFFICES ASSUME SessionInv, [Next]_vars PROVE SessionInv'
    OBVIOUS
  <2>1. WS!Next \/ UNCHANGED sessionVars
    BY DEF Next, Session, Static, Reload, Shared, Http3, Futures, OnlyFutures, vars
  <2>2. CASE WS!Next
    BY <2>2, SessionTypesStep, ForgettingStep, UncrossedStep, HearingStep DEF SessionInv
  <2>3. CASE UNCHANGED sessionVars
    BY <2>3 DEF sessionVars, SessionInv, SessionTypes, Forgetting, Uncrossed, Hearing, Opened, CloseBegun,
                SessionGone, Coming, WS!Told
  <2> QED
    BY <2>1, <2>2, <2>3
<1> QED
  BY <1>1, <1>2, PTL DEF Spec

\* A channel that closes after die_with, on whichever thread and however often,
\* leaves no client registered behind.
THEOREM NoClientLeftBehind == Spec => []ClientsForgotten
<1>1. SessionInv => ClientsForgotten
  BY DEF SessionInv, Forgetting, SessionGone, ClientsForgotten, WS!ClientsForgotten
<1> QED
  BY <1>1, SessionKeeps, PTL

\* What was put last for the application reaches it, whatever else its jobs
\* overwrite, unless one robbed another or a close crossed a message.
THEOREM LastWordReaches == Spec => []LastWordHeard
<1>1. SessionInv => LastWordHeard
  <2> SUFFICES ASSUME SessionInv, WS!Quiet PROVE last # <<"none", 0>> => last \in heard \/ robbed \/ crossed
    BY DEF LastWordHeard, WS!LastWordHeard
  <2>1. stage # "execute" /\ ~Coming
    BY DEF WS!Quiet, Coming
  <2> QED
    BY <2>1 DEF SessionInv, Hearing
<1> QED
  BY <1>1, SessionKeeps, PTL

-----------------------------------------------------------------------------
(* SharedState: any number of processes and names.                         *)

\* Every slot is among the slots of the names there are, and nobody else's.
Slotted ==
    /\ names \in [Processes -> Nat] /\ index \in [Processes -> [Keys -> Nat]]
    /\ again \in BOOLEAN
    /\ again \/ \A p \in Processes : \A k \in Keys : index[p][k] <= names[p]
    /\ SS!KeysApart

\* The instance counts as everybody does.
LEMMA SameCount == ASSUME NEW S PROVE SS!Cardinality(S) = Cardinality(S)
  BY Zenon DEF SS!Cardinality, Cardinality

\* New names get slots behind all slots there were, each its own.
LEMMA AddStep ==
    ASSUME Slotted, NEW p \in Processes, SS!Add(p)
    PROVE  Slotted'
<1>1. /\ names \in [Processes -> Nat] /\ index \in [Processes -> [Keys -> Nat]] /\ SS!NoSlot = 0
      /\ names[p] \in Nat /\ index[p] \in [Keys -> Nat]
  BY DEF Slotted, SS!NoSlot
<1> PICK keys \in {<<a>> : a \in Keys} \cup {<<ab[1], ab[2]>> : ab \in {x \in Keys \X Keys : x[1] # x[2]}} :
      /\ index' = [index EXCEPT ![p] = SS!Added(p, keys).index]
      /\ names' = [names EXCEPT ![p] = SS!Added(p, keys).names]
      /\ again' = (again \/ \E i \in DOMAIN keys : index[p][keys[i]] # SS!NoSlot)
  BY DEF SS!Add
<1>2. keys \in Seq(Keys)
  <2>1. CASE keys \in {<<a>> : a \in Keys}
    <3>1. PICK a \in Keys : keys = <<a>>
      BY <2>1
    <3> QED
      BY <3>1
  <2>2. CASE keys \in {<<ab[1], ab[2]>> : ab \in {x \in Keys \X Keys : x[1] # x[2]}}
    <3>1. PICK a \in Keys, b \in Keys : keys = <<a, b>>
      BY <2>2
    <3> QED
      BY <3>1
  <2> QED
    BY <2>1, <2>2
<1> DEFINE Place(k) == CHOOSE i \in DOMAIN keys : keys[i] = k
           Given(k) == \E i \in DOMAIN keys : keys[i] = k
           fresh == {i \in DOMAIN keys : index[p][keys[i]] = 0}
           slots == [k \in Keys |-> IF index[p][k] = 0 /\ Given(k) THEN names[p] + Place(k) ELSE index[p][k]]
<1>3. DOMAIN keys = 1..Len(keys) /\ Len(keys) \in Nat
  BY <1>2
<1>4. ASSUME NEW k \in Keys, Given(k)
      PROVE  Place(k) \in 1..Len(keys) /\ keys[Place(k)] = k
  <2> HIDE DEF fresh, slots
  <2> QED
    BY <1>3, <1>4
<1>5. Cardinality(fresh) \in Nat
  <2>1. IsFiniteSet(1..Len(keys))
    BY <1>3, FS_Interval
  <2>2. fresh \subseteq 1..Len(keys)
    BY <1>3
  <2> QED
    BY <2>1, <2>2, FS_Subset, FS_CardinalityType
<1>6. index' = [index EXCEPT ![p] = slots] /\ names' = [names EXCEPT ![p] = names[p] + Cardinality(fresh)]
  <2>1. SS!Added(p, keys) = [index |-> slots, names |-> names[p] + SS!Cardinality(fresh)]
    BY DEF SS!Added, SS!Behind, SS!NoSlot
  <2>2. SS!Added(p, keys).index = slots /\ SS!Added(p, keys).names = names[p] + Cardinality(fresh)
    <3> HIDE DEF fresh, slots
    <3> QED
      BY <2>1, SameCount
  <2> QED
    BY <2>2
<1>7. ~again' => ~again /\ fresh = 1..Len(keys)
  BY <1>1, <1>3
<1>8. ~again' => Cardinality(fresh) = Len(keys)
  <2>1. Cardinality(1..Len(keys)) = IF 1 > Len(keys) THEN 0 ELSE Len(keys) - 1 + 1
    BY <1>3, FS_Interval
  <2>2. Cardinality(1..Len(keys)) = Len(keys)
    BY <1>3, <2>1
  <2> QED
    BY <1>7, <2>2, Zenon
<1> HIDE DEF fresh, Place, Given
<1>9. slots \in [Keys -> Nat]
  BY <1>1, <1>3, <1>4
<1>10. \A k \in Keys : slots[k] = IF index[p][k] = 0 /\ Given(k) THEN names[p] + Place(k) ELSE index[p][k]
  OBVIOUS
<1> HIDE DEF slots
<1>11. names' \in [Processes -> Nat] /\ index' \in [Processes -> [Keys -> Nat]] /\ index'[p] = slots
       /\ names'[p] = names[p] + Cardinality(fresh)
       /\ \A q \in Processes : q # p => index'[q] = index[q] /\ names'[q] = names[q]
  BY <1>1, <1>5, <1>6, <1>9
<1>12. again' \in BOOLEAN
  BY DEF Slotted
<1>13. ASSUME ~again' PROVE \A k \in Keys : slots[k] <= names[p] + Len(keys)
  <2> TAKE k \in Keys
  <2>1. index[p][k] <= names[p]
    BY <1>7, <1>13 DEF Slotted
  <2>2. CASE index[p][k] = 0 /\ Given(k)
    BY <1>1, <1>3, <1>4, <1>10, <2>2
  <2>3. CASE ~(index[p][k] = 0 /\ Given(k))
    BY <1>1, <1>3, <1>10, <2>1, <2>3
  <2> QED
    BY <2>2, <2>3
<1>14. ASSUME ~again', NEW j \in Keys, NEW k \in Keys, j # k, slots[j] # 0 PROVE slots[j] # slots[k]
  <2>1. index[p][j] <= names[p] /\ index[p][k] <= names[p] /\ (index[p][j] # 0 => index[p][j] # index[p][k])
    BY <1>1, <1>7, <1>14 DEF Slotted, SS!KeysApart
  <2>2. index[p][j] \in Nat /\ index[p][k] \in Nat
    BY <1>1
  <2>3. Given(j) /\ Given(k) => Place(j) # Place(k)
    BY <1>4, <1>14
  <2>4. /\ Given(j) => Place(j) \in Nat /\ Place(j) >= 1
        /\ Given(k) => Place(k) \in Nat /\ Place(k) >= 1
    BY <1>3, <1>4
  <2>5. /\ slots[j] = IF index[p][j] = 0 /\ Given(j) THEN names[p] + Place(j) ELSE index[p][j]
        /\ slots[k] = IF index[p][k] = 0 /\ Given(k) THEN names[p] + Place(k) ELSE index[p][k]
    BY <1>10
  <2>6. CASE index[p][j] = 0 /\ Given(j)
    <3>1. slots[j] = names[p] + Place(j) /\ Place(j) \in Nat /\ Place(j) >= 1 /\ names[p] \in Nat
      BY <1>1, <2>4, <2>5, <2>6
    <3>2. CASE index[p][k] = 0 /\ Given(k)
      <4>1. slots[k] = names[p] + Place(k) /\ Place(k) \in Nat /\ Place(j) # Place(k)
        BY <2>3, <2>4, <2>5, <2>6, <3>2
      <4> QED
        BY <3>1, <4>1
    <3>3. CASE ~(index[p][k] = 0 /\ Given(k))
      <4>1. slots[k] = index[p][k]
        BY <2>5, <3>3
      <4> QED
        BY <2>1, <2>2, <3>1, <4>1
    <3> QED
      BY <3>2, <3>3
  <2>7. CASE index[p][j] # 0
    BY <1>1, <2>1, <2>2, <2>4, <2>5, <2>7
  <2> QED
    BY <1>14, <2>2, <2>5, <2>6, <2>7
<1>15. again' \/ \A q \in Processes : \A k \in Keys : index'[q][k] <= names'[q]
  BY <1>7, <1>8, <1>11, <1>13 DEF Slotted
<1>16. SS!KeysApart'
  BY <1>1, <1>7, <1>11, <1>14 DEF Slotted, SS!KeysApart
<1> QED
  BY <1>11, <1>12, <1>15, <1>16 DEF Slotted

\* However many names a worker adds, one by one or together, every one has a
\* slot of its own, unless it came with a name there was.
THEOREM NamesHaveTheirSlots == ASSUME Early \in Seq(Keys) PROVE Spec => []KeysApart
<1>1. Init => Slotted
  <2> SUFFICES ASSUME Init PROVE Slotted
    OBVIOUS
  <2> DEFINE At(k) == CHOOSE i \in DOMAIN Early : Early[i] = k
             first == [k \in Keys |-> IF \E i \in DOMAIN Early : Early[i] = k THEN At(k) ELSE 0]
  <2>1. /\ index = [p \in Processes |-> first] /\ names = [p \in Processes |-> Len(Early)] /\ again = FALSE
    BY DEF Init, SS!Init, SS!NoSlot
  <2>2. DOMAIN Early = 1..Len(Early) /\ Len(Early) \in Nat
    OBVIOUS
  <2>3. ASSUME NEW k \in Keys
        PROVE  first[k] \in 0..Len(Early) /\ (first[k] # 0 => Early[first[k]] = k)
    BY <2>2
  <2>4. first \in [Keys -> Nat]
    BY <2>2, <2>3
  <2> HIDE DEF first
  <2>5. names \in [Processes -> Nat] /\ index \in [Processes -> [Keys -> Nat]]
    BY <2>1, <2>2, <2>4
  <2>6. \A p \in Processes : \A k \in Keys : index[p][k] <= names[p]
    BY <2>1, <2>2, <2>3
  <2>7. SS!KeysApart
    BY <2>1, <2>3 DEF SS!KeysApart, SS!NoSlot
  <2> QED
    BY <2>1, <2>5, <2>6, <2>7 DEF Slotted
<1>2. Slotted /\ [Next]_vars => Slotted'
  <2> SUFFICES ASSUME Slotted, [Next]_vars PROVE Slotted'
    OBVIOUS
  <2>1. SS!Next \/ UNCHANGED semapVars
    BY DEF Next, Session, Static, Reload, Shared, Http3, Futures, OnlyFutures, vars
  <2>2. CASE UNCHANGED <<index, names, again>>
    BY <2>2 DEF Slotted, SS!KeysApart
  <2>3. ASSUME NEW p \in Processes, SS!Add(p) PROVE Slotted'
    BY <2>3, AddStep
  <2>4. CASE SS!Tick \/ \E p \in Processes : \/ SS!Set(p) \/ SS!Get(p) \/ SS!Default(p)
                                             \/ \E k \in Keys : SS!Setlu(p, k) \/ SS!Getlu(p, k)
    BY <2>2, <2>4 DEF SS!Tick, SS!Set, SS!Get, SS!Default, SS!Setlu, SS!Getlu, SS!Begin
  <2> QED
    BY <2>1, <2>2, <2>3, <2>4 DEF SS!Next, semapVars
<1>3. Slotted => KeysApart
  BY DEF Slotted, KeysApart
<1> QED
  BY <1>1, <1>2, <1>3, PTL DEF Spec
=============================================================================
