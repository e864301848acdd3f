------------------------------ MODULE StaticFiles ------------------------------
(***************************************************************************)
(* One static file, served by the main thread (default_handler.Handler)    *)
(* and by request threads (StaticFileTranslator), which share two caches   *)
(* without a lock: the file system's stat_cache, whose entries are good    *)
(* for a second, and the MemCache of contents, whose entries are good for  *)
(* an ETag.  Length and ETag of an answer come from the one, its body from *)
(* the other, and the file may change at any time.                         *)
(*                                                                         *)
(* A version of the file stands for its content, its stamp for the         *)
(* (length, seconds of mtime) an ETag is made of.  Ranges and the 412, 416 *)
(* and 405 answers are left out: they choose a part of the same body, or   *)
(* none.                                                                   *)
(***************************************************************************)
EXTENDS Naturals

CONSTANTS
    Servers,        \* the threads that serve
    MaxVersions,    \* bound: versions of the file, the last of which stays
    Stamp,          \* (length, mtime) of each version
    Large,          \* versions of 4096 bytes and more
    MaxSeconds      \* bound: times that a second passes

Versions == 1..MaxVersions
Missing == 0

VARIABLES
    disk,       \* the version on disk, or Missing
    newest,     \* versions so far
    seconds,    \* seconds passed
    calm,       \* the file has not changed for a second
    statCache,  \* the version stat_cache has, and whether its second is over
    memCache,   \* the stamp and the content MemCache has
    kept,       \* the stamp of the answer the client has kept
    serve       \* what each thread is serving

cacheVars == <<statCache, memCache>>
staticVars == <<disk, newest, seconds, calm, cacheVars, kept, serve>>

NoEntry == [stamp |-> 0, body |-> Missing]
Rest == [pc |-> "idle", v |-> Missing, body |-> Missing, late |-> FALSE, clear |-> FALSE]

Init ==
    /\ disk = 1 /\ newest = 1 /\ seconds = 0 /\ calm = TRUE
    /\ statCache = [v |-> Missing, old |-> FALSE]
    /\ memCache = NoEntry /\ kept = 0
    /\ serve = [s \in Servers |-> Rest]

Go(s, pc) == serve' = [serve EXCEPT ![s].pc = pc]

-----------------------------------------------------------------------------
(* handle_request.                                                         *)

\* isfile: without the file, 404 or the alternative handlers.
\* (clear: nothing old is in the way of a fresh answer.)
IsFile(s) ==
    /\ serve[s].pc = "idle"
    /\ disk # Missing
    /\ serve' = [serve EXCEPT ![s] = [Rest EXCEPT !.pc = "look",
                     !.clear = calm /\ \A t \in Servers : serve[t].pc \in {"idle", "answered", "304"}]]
    /\ UNCHANGED <<disk, newest, seconds, calm, cacheVars, kept>>

\* stat: an entry is good for a second ...
StatHitAlways == statCache.v # Missing
StatHit == statCache.v # Missing /\ ~statCache.old
LookStat(s) ==
    /\ serve[s].pc = "look"
    /\ Go(s, IF StatHit THEN "stat" ELSE "os.stat")
    /\ UNCHANGED <<disk, newest, seconds, calm, cacheVars, kept>>
\* ... else os.stat, which fails when the file is gone, ...
OsStat(s) ==
    /\ serve[s].pc = "os.stat"
    /\ serve' = [serve EXCEPT ![s].pc = IF disk = Missing THEN "idle" ELSE "store", ![s].v = disk]
    /\ UNCHANGED <<disk, newest, seconds, calm, cacheVars, kept>>
\* ... is stored with the time of the look ...
StoreStat(s) ==
    /\ serve[s].pc = "store"
    /\ statCache' = [v |-> serve[s].v, old |-> serve[s].late]
    /\ Go(s, "stat")
    /\ UNCHANGED <<disk, newest, seconds, calm, memCache, kept>>
\* ... and what is returned is read from the cache again.
ReturnStat(s) ==
    /\ serve[s].pc = "stat"
    /\ serve' = [serve EXCEPT ![s].v = statCache.v, ![s].pc = "headers"]
    /\ UNCHANGED <<disk, newest, seconds, calm, cacheVars, kept>>

Etag(s) == Stamp[serve[s].v]
Answer(s, body) == serve' = [serve EXCEPT ![s].pc = "answered", ![s].body = body]

\* set_etag_mtime: 304 when the client has an answer with this ETag.
NotModified(s) ==
    /\ serve[s].pc = "headers" /\ kept = Etag(s)
    /\ Go(s, "304")
    /\ UNCHANGED <<disk, newest, seconds, calm, cacheVars, kept>>
\* A large file is opened for its producer.
OpenLarge(s) ==
    /\ serve[s].pc = "headers" /\ serve[s].v \in Large
    /\ IF disk = Missing THEN Go(s, "idle") ELSE Answer(s, disk)
    /\ UNCHANGED <<disk, newest, seconds, calm, cacheVars, kept>>

\* MemCache.read: an entry is good for its ETag ...
MemHitAny(s) == memCache.stamp # 0
MemHit(s) == memCache.stamp = Etag(s)
LookMem(s) ==
    /\ serve[s].pc = "headers" /\ serve[s].v \notin Large
    /\ Go(s, IF MemHit(s) THEN "return" ELSE "read")
    /\ UNCHANGED <<disk, newest, seconds, calm, cacheVars, kept>>
\* ... else the file is read as it is now, ...
ReadFile(s) ==
    /\ serve[s].pc = "read"
    /\ serve' = [serve EXCEPT ![s].pc = IF disk = Missing THEN "idle" ELSE "keep", ![s].body = disk]
    /\ UNCHANGED <<disk, newest, seconds, calm, cacheVars, kept>>
\* ... stored under the ETag of the stat ...
StoreFile(s) ==
    /\ serve[s].pc = "keep"
    /\ memCache' = [stamp |-> Etag(s), body |-> serve[s].body]
    /\ Go(s, "return")
    /\ UNCHANGED <<disk, newest, seconds, calm, statCache, kept>>
\* ... and read from the cache again.
ReturnFile(s) ==
    /\ serve[s].pc = "return"
    /\ Answer(s, memCache.body)
    /\ UNCHANGED <<disk, newest, seconds, calm, cacheVars, kept>>

\* The client gets the answer, and may keep it for a conditional request.
Done(s) ==
    /\ serve[s].pc \in {"answered", "304"}
    /\ kept' \in {kept, Etag(s)}
    /\ serve' = [serve EXCEPT ![s] = Rest]
    /\ UNCHANGED <<disk, newest, seconds, calm, cacheVars>>

-----------------------------------------------------------------------------
(* The file, and time.                                                     *)

Muddy == serve' = [s \in Servers |-> [serve[s] EXCEPT !.clear = FALSE]]
Publish ==
    /\ newest < MaxVersions
    /\ newest' = newest + 1 /\ disk' = newest + 1
    /\ calm' = FALSE /\ Muddy
    /\ UNCHANGED <<seconds, cacheVars, kept>>
Remove ==
    /\ disk # Missing /\ newest < MaxVersions
    /\ disk' = Missing /\ calm' = FALSE /\ Muddy
    /\ UNCHANGED <<newest, seconds, cacheVars, kept>>
\* More than a second passes: every stat made before it is old.
Second ==
    /\ seconds < MaxSeconds /\ seconds' = seconds + 1
    /\ calm' = TRUE
    /\ statCache' = [statCache EXCEPT !.old = TRUE]
    /\ serve' = [s \in Servers |-> [serve[s] EXCEPT !.late = @ \/ serve[s].pc \in {"os.stat", "store"}]]
    /\ UNCHANGED <<disk, newest, memCache, kept>>
\* An entry's second ends.
Expire ==
    /\ ~statCache.old /\ statCache' = [statCache EXCEPT !.old = TRUE]
    /\ UNCHANGED <<disk, newest, seconds, calm, memCache, kept, serve>>

ServeStep(s) ==
    \/ IsFile(s) \/ LookStat(s) \/ OsStat(s) \/ StoreStat(s) \/ ReturnStat(s)
    \/ NotModified(s) \/ OpenLarge(s) \/ LookMem(s) \/ ReadFile(s) \/ StoreFile(s) \/ ReturnFile(s)
    \/ Done(s)
Next == (\E s \in Servers : ServeStep(s)) \/ Publish \/ Remove \/ Second \/ Expire

Spec == Init /\ [][Next]_staticVars

-----------------------------------------------------------------------------
(* Properties.                                                             *)

TypeOK ==
    /\ disk \in {Missing} \cup Versions /\ newest \in Versions
    /\ seconds \in 0..MaxSeconds /\ calm \in BOOLEAN
    /\ statCache \in [v : {Missing} \cup Versions, old : BOOLEAN]
    /\ memCache \in [stamp : {0} \cup {Stamp[v] : v \in Versions}, body : {Missing} \cup Versions]
    /\ kept \in {0} \cup {Stamp[v] : v \in Versions}
    /\ serve \in [Servers -> [pc : {"idle", "look", "os.stat", "store", "stat", "headers",
                                    "read", "keep", "return", "answered", "304"},
                              v : {Missing} \cup Versions, body : {Missing} \cup Versions,
                              late : BOOLEAN, clear : BOOLEAN]]

\* No version before v has its stamp.
Distinct(v) == \A u \in 1..(v - 1) : Stamp[u] # Stamp[v]

\* An answer begun when the file had not changed for a second and no older
\* request was still at the caches, and over before it changes, has the length,
\* the ETag and the body of the file as it is, whatever the caches got from
\* requests the file changed under.  (Two versions with one length and mtime
\* are one to every cache; and a 304 is for the ETag: what the client has kept
\* under it may be an answer the file changed under.)
FreshAnswers ==
    \A s \in Servers :
        serve[s].pc \in {"answered", "304"} /\ serve[s].clear /\ Distinct(disk) =>
            serve[s].v = disk /\ (serve[s].pc = "answered" => serve[s].body = disk)
=============================================================================
