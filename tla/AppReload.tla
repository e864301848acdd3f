------------------------------- MODULE AppReload -------------------------------
(***************************************************************************)
(* A mounted application in development: every request first calls         *)
(* Module.maybe_reload, on its own request thread and with no lock.  The   *)
(* module is loaded again when the file's (mtime, size) is not the one     *)
(* recorded, at the earliest a second after the last time; what is         *)
(* recorded is the file as start_app finds it, after the module was read.  *)
(*                                                                         *)
(* Loading takes as long as the module's code runs.  Meanwhile the file    *)
(* changes and other threads come to load it too; the one that finds a     *)
(* reload of the module under way may return at once with nothing loaded.  *)
(* A version that does not load may have put its application in place      *)
(* before it raises: the one this thread found is put back, nothing is     *)
(* recorded, and the request fails.                                        *)
(***************************************************************************)
EXTENDS Naturals

CONSTANTS
    Threads,    \* the request threads
    MaxEdits,   \* bound: versions of the file
    Broken,     \* versions that do not load
    MaxTicks    \* bound: times that a second passes

Sources == 1..MaxEdits

VARIABLES
    source,     \* the version of the file on disk
    recorded,   \* file_info
    app,        \* the application in the module: its version
    recent,     \* last_reloaded is less than a second ago
    ticks,      \* seconds passed
    visit,      \* what each thread is doing, its oldapp and the version it loads
    slipped,    \* history: what was recorded last is not what that thread loaded
    doubled     \* history: the last load began while another was under way

reloadVars == <<source, recorded, app, recent, ticks, visit, slipped, doubled>>

At(pc) == [pc |-> pc, old |-> 1, loaded |-> 0]
Loading == {t \in Threads : visit[t].pc \in {"import", "raising"}}

Init ==
    /\ source = 1 /\ recorded = 1 /\ app = 1
    /\ recent = TRUE /\ ticks = 0
    /\ visit = [t \in Threads |-> At("idle")]
    /\ slipped = FALSE /\ doubled = FALSE

-----------------------------------------------------------------------------
(* maybe_reload.                                                           *)

\* Less than a second after the last reload, nothing is looked at; and an
\* unchanged file is not loaded again.
MaybeReload(t) ==
    /\ visit[t].pc = "idle"
    /\ visit' = [visit EXCEPT ![t] = IF recent THEN At("app") ELSE At("stat")]
    /\ UNCHANGED <<source, recorded, app, recent, ticks, slipped, doubled>>
Stat(t) ==
    /\ visit[t].pc = "stat"
    /\ visit' = [visit EXCEPT ![t] = IF recorded = source THEN At("app")
                                   ELSE [At("reload") EXCEPT !.old = app]]
    /\ UNCHANGED <<source, recorded, app, recent, ticks, slipped, doubled>>

\* The file is read, and its code runs from here on.
ImportBegins(t) ==
    /\ visit[t].pc = "reload"
    /\ visit' = [visit EXCEPT ![t].pc = "import", ![t].loaded = source]
    /\ doubled' = (Loading # {})
    /\ UNCHANGED <<source, recorded, app, recent, ticks, slipped>>
\* The module is being reloaded: it is returned as it is.
ImportSkipped(t) ==
    /\ visit[t].pc = "reload" /\ Loading # {}
    /\ visit' = [visit EXCEPT ![t].pc = "start_app", ![t].loaded = 0]
    /\ UNCHANGED <<source, recorded, app, recent, ticks, slipped, doubled>>
\* The importer sees nothing to reload.
ImportDeclined(t) ==
    /\ visit[t].pc = "reload"
    /\ visit' = [visit EXCEPT ![t] = At("app")]
    /\ UNCHANGED <<source, recorded, app, recent, ticks, slipped, doubled>>
Imported(t) ==
    /\ visit[t].pc = "import" /\ visit[t].loaded \notin Broken
    /\ app' = visit[t].loaded
    /\ visit' = [visit EXCEPT ![t].pc = "start_app"]
    /\ UNCHANGED <<source, recorded, recent, ticks, slipped, doubled>>
\* The code that will raise has come past its application.
HalfImported(t) ==
    /\ visit[t].pc = "import" /\ visit[t].loaded \in Broken
    /\ app' = visit[t].loaded
    /\ visit' = [visit EXCEPT ![t].pc = "raising"]
    /\ UNCHANGED <<source, recorded, recent, ticks, slipped, doubled>>
\* (A version that would not try again until the file changes.)
PutBackAndRecord(t) == app' = visit[t].old /\ recorded' = source
\* What this thread found is put back, and the request raises.
PutBack(t) == app' = visit[t].old /\ recorded' = recorded
ImportFails(t) ==
    /\ visit[t].pc \in {"import", "raising"} /\ visit[t].loaded \in Broken
    /\ PutBack(t)
    /\ visit' = [visit EXCEPT ![t] = At("idle")]
    /\ UNCHANGED <<source, recent, ticks, slipped, doubled>>
\* start_app runs the application's hooks, then update_file_info.
StartApp(t) ==
    /\ visit[t].pc = "start_app"
    /\ recorded' = source
    /\ slipped' = (source # visit[t].loaded)
    /\ visit' = [visit EXCEPT ![t].pc = "reloaded"]
    /\ UNCHANGED <<source, app, recent, ticks, doubled>>
Reloaded(t) ==
    /\ visit[t].pc = "reloaded"
    /\ recent' = TRUE
    /\ visit' = [visit EXCEPT ![t] = At("app")]
    /\ UNCHANGED <<source, recorded, app, ticks, slipped, doubled>>
\* The application that is in the module by now takes the request.
Serve(t) ==
    /\ visit[t].pc = "app"
    /\ visit' = [visit EXCEPT ![t] = At("idle")]
    /\ UNCHANGED <<source, recorded, app, recent, ticks, slipped, doubled>>

-----------------------------------------------------------------------------
Edit ==
    /\ source < MaxEdits /\ source' = source + 1
    /\ UNCHANGED <<recorded, app, recent, ticks, visit, slipped, doubled>>
Tick ==
    /\ ticks < MaxTicks /\ ticks' = ticks + 1
    /\ recent' = FALSE
    /\ UNCHANGED <<source, recorded, app, visit, slipped, doubled>>

CallStep(t) ==
    \/ MaybeReload(t) \/ Stat(t)
    \/ ImportBegins(t) \/ ImportSkipped(t) \/ ImportDeclined(t)
    \/ Imported(t) \/ HalfImported(t) \/ ImportFails(t)
    \/ StartApp(t) \/ Reloaded(t) \/ Serve(t)
Next == (\E t \in Threads : CallStep(t)) \/ Edit \/ Tick

Spec == Init /\ [][Next]_reloadVars

-----------------------------------------------------------------------------
(* Properties.                                                             *)

TypeOK ==
    /\ source \in Sources /\ recorded \in Sources /\ app \in Sources
    /\ recent \in BOOLEAN /\ ticks \in 0..MaxTicks
    /\ visit \in [Threads -> [pc : {"idle", "stat", "reload", "import", "raising", "start_app",
                                   "reloaded", "app"},
                             old : Sources, loaded : 0..MaxEdits]]
    /\ slipped \in BOOLEAN /\ doubled \in BOOLEAN

\* The file that is recorded, and so will not be looked at again until it
\* changes, is the one the module has, once nobody loads it: a file that does
\* not load is tried again by every request.  There are two ways to miss a
\* version.  What was recorded is not what the thread had loaded: the file had
\* changed in between, or the thread came while another was loading.  And two
\* loads at once end in any order: the older version, or the oldapp of one that
\* raised, stays over the newer one that was recorded.
NewestOrRetried == recorded = source /\ Loading = {} => app = source \/ slipped \/ doubled
=============================================================================
