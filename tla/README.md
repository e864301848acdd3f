# TLA+ verification of Skitai

Skitai is a WSGI/HTTP server in Python. A master process forks workers; each
worker runs an asyncore loop on its main thread, a pool of request threads that
call applications, an asyncio event loop with its own thread, and pools for
background tasks. This directory holds TLA+ models of the parts of that system
where threads, processes, signals and messages meet, the configurations that
model-check them with TLC, and theorems about them that TLAPS proves.

`PROJECT.json` maps every definition to the lines it models, and lists runs,
mutants, hazards, findings and theorems. Paths below are under `src/skitai/`.

## 1. Inventory

| Component | Code | State | Operations | Interacts with | Model |
|---|---|---|---|---|---|
| HTTP/1.1 request cycle | `backbone/http_server.py`, `http_request.py`, `http_response.py`, `handlers/wsgi_handler.py`, `handlers/collectors.py`, `backbone/threaded/threadlib.py` | per channel: input buffer, `current_request`, collector, `producer_fifo`, `closed`, terminator; per request: response with `outgoing`, `_is_done`, channel link; the job queue | receive, admit or refuse, collect, queue, run the application, push, done, write, 503 of a timeout, close | main thread and request threads, through the trigger | `RequestCycle` |
| Wakeup trigger | `backbone/threaded/select_trigger.py`, `trigger.py` | list of thunks, self-pipe | `pull_trigger`, `wakeup`, `handle_read` | every thread towards the main thread | `Trigger` |
| Graceful shutdown | `backbone/lifetime.py` and `clean_shutdown_control` of the servers and channels | `_shutdown_phase`, `_exit_code`, `_shutdown_timeout`, the socket map | `shutdown`, `loop`, `lifetime_loop`, `graceful_shutdown_loop` | signal handlers, application threads, channels | `GracefulShutdown` |
| Worker supervisor | `backbone/http_server.py` (`fork`, `hCHLD`, `hTERMMASTER`, ...) | `PID`, `WORKER_IDS`, `ACTIVE_WORKERS`, `SURVAIL` | fork, enter a child, reap, pass signals on | operating system, workers | `WorkerSupervisor` |
| Async executor | `tasks/executors.py` (`AsyncExecutor`), `__init__.py` (`add_async_task`) | queue, `current_tasks`, `futures`, two condition variables | `put`, `get`, `run`, `done`, `cleanup` | request threads, event loop | `AsyncExecutor` |
| Request contexts of futures | `__init__.py` (`_WASPool`), `wsgiappservice/wasbase.py`, `utility.py`, `tasks/__init__.py`, `tasks/pth/task.py` | clones of `was`: `env`, `request`, `response` | `_get (True)`, `then`, `_late_respond`, `deallocate_was` | request, executor and main threads | `ContextPool` |
| HTTP/2 connection | `handlers/http2_handler.py`, `handlers/http2/` | `_requests`, `_producers`, flags, `H2Connection`, two locks | frames in, promises, responses piece by piece, resets, windows, GOAWAY | main thread, request threads, event loop | `Http2Connection` |
| HTTP/3 connection | `handlers/http3_handler.py`, `backbone/http3_server.py` | connection ids, linked channel, timers, channels of the addresses | datagram, new connection, migration, ids issued and retired, timer, termination | main thread | `Http3Connections` |
| Thread and process executors | `tasks/executors.py` | executor, `futures`, `no_more_request`, a lock | `__call__`, `create_task`, `maintern`, `shutdown` | request threads, callbacks, shutdown | `TaskFutures` |
| Task futures | `tasks/derivations.py`, `tasks/pth/task.py`, `tasks/__init__.py` | `_responded`, `_fulfilled` | `then`, `set_callback`, `_settle`, `_collect`, `_late_respond` | executors, contexts | `TaskFutures`, `FutureAnswers` |
| WebSocket | `handlers/websocket_handler.py`, `handlers/websocket/specs.py` | session environment, jobs, client register | handshake, open, message, close, `die_with` | request threads, channel | `WebSocketSession` |
| Static files | `handlers/filesys.py`, `default_handler.py` | `stat_cache`, `MemCache` | `handle_request`, conditional answers, caching | main and request threads | `StaticFiles` |
| Virtual hosts and mounted applications | `handlers/vhost_handler.py`, `wastuff/wsgi_apps.py` | routes; file info and reload time of a module | route, serve, `maybe_reload` | request threads | reloading in `AppReload` |
| Shared state of processes | `wastuff/semaps.py`, `counter.py` | an array in shared memory, its index per process | `add`, `setlu`, `getlu`, `delta` | all workers | `SharedState` |
| gRPC streams | `handlers/grpc_stream_handler.py` | queues between collector and coroutine | receive, send, close | HTTP/2 connection, event loop | not modelled |
| Request body collectors | `handlers/collectors.py` | sizes, buffers, the request that holds them | collect, finish, detach (the multipart collector does not) | request cycle | their hold on the request in `RequestCycle` |
| TLS, configuration, administration, logging, mail daemon, test utilities | see `PROJECT.json` | | | | not modelled: sequential, or I/O only |

### What is hard, and what makes each component correct

* *Request cycle.* The main thread finishes a request (a timeout's 503, a lost
  connection, a shutdown) while a request thread is still building its answer;
  `push` checks and then appends without a lock; a client sends ahead of its
  answers. Correct: a channel and its current request never lose each other, a
  closed channel stays closed and owes nothing, one job per request (but for a
  multipart body an empty line ends again, section 4), answers in order and at most
  once and whole, a finished response is left alone, every request is answered or
  its connection closed.
* *Trigger.* A thunk appended between `recv` and the swap of the list; a full
  pipe. Correct: no wakeup lost, each thunk runs once, in order.
* *Shutdown.* `shutdown` is called by anybody at any time; a veto keeps other
  objects from being asked. Correct: ready answers are written, nothing new
  begins, the first request decides, the worker ends in time.
* *Supervisor.* Signals coalesce and come between any two steps of the fork
  loop, and between the load and the store of `ACTIVE_WORKERS += 1`. Correct: never
  too many workers, dead ones are replaced, the count agrees with the slots and is
  never less, TERM ends all.
* *Async executor.* Two condition variables, `notify` for one of several
  waiters, callbacks that come before the count. Correct: bounded concurrency,
  no sleep beside work, each `put` returns.
* *Contexts.* A clone is freed attribute by attribute on one thread while
  another looks for a free one. Correct: a context belongs to one request.
* *HTTP/2.* Any thread may be in `flush`; bytes are taken under one lock and
  pushed under none; `GOAWAY` must wait. Correct: whole responses, none stuck,
  none cut off, locks come back.
* *Executors and futures.* A count without a lock, cancellation that runs
  callbacks under the executor's lock, a pool that may go away between the check
  and the submit. Correct: a future's callback runs once and after all its tasks,
  no task is lost, shutdown returns, every future answers, on its own context.
* *WebSocket.* All jobs of a session share one environment; the channel may close
  on any thread, before the session is registered and while it is. Correct: no
  client is registered for ever, and the last message or event is heard.
* *Static files.* Two caches of different keys, filled and read by any thread,
  over a file that changes. Correct: a file that is calm is served as it is.
* *Reloading.* Every request thread loads the changed file, without a lock and for
  as long as its code runs; what is recorded is looked at after the import, and a
  load that raises puts back what its own thread had found. Correct: what is
  recorded is what is loaded, but for the two ways section 4 names.
* *Shared state.* Reads and writes of a slot are atomic, read and write are not;
  each process counts slots itself. Correct: names keep apart, updates stand.
* *HTTP/3.* A moved client shares one connection between two handlers, each of
  which may take the other's events and raise. Correct: one open channel each.

## 2. The modules

| Module | What it is |
|---|---|
| `RequestCycle`, `MCRequestCycle`, `RequestCycleProofs` | the request cycle, its instances, its proofs |
| `ConnectionContract` | what a connection promises its client; `RequestCycle` implements it (`KeepsContract`) |
| `Trigger`, `MCTrigger`, `TriggerProofs` | the self-pipe |
| `Mailbox` | a FIFO mailbox that delivers each thunk once; `Trigger` implements it (`DeliversThunks`) |
| `GracefulShutdown`, `MCGracefulShutdown`, `GracefulShutdownProofs` | the life and the end of a worker |
| `WorkerSupervisor`, `MCWorkerSupervisor`, `WorkerSupervisorProofs` | the master process |
| `AsyncExecutor`, `MCAsyncExecutor`, `AsyncExecutorProofs` | coroutines of request threads |
| `TaskFutures` | the thread executor, its tasks, and the futures that collect them |
| `ContextPool` | clones of `was` |
| `FutureAnswers`, `MCFutureAnswers`, `FutureAnswersProofs` | `TaskFutures` and `ContextPool` together, and the proofs about both |
| `Http2Connection`, `MCHttp2Connection`, `Http2ConnectionProofs` | one HTTP/2 connection |
| `Http3Connections` | one QUIC connection and its channels |
| `WebSocketSession` | one WebSocket session |
| `StaticFiles` | one static file and its two caches |
| `AppReload` | reloading of a mounted application |
| `SharedState`, `MCSharedState` | names and times in shared memory |
| `MCComponents`, `ComponentProofs` | the small components side by side, for one run; the proofs about them |

How they fit together: `RequestCycle` uses the trigger as a list of thunks that
are run once each and in order; that is what `Trigger` is proved to implement
(`TriggerIsMailbox`). `ContextPool` uses it the same way. `FutureAnswers` composes
`TaskFutures` and `ContextPool`: `Futures.then` and the end of `_get (True)`, the
call of the callback and `_late_respond`, the shutdown and the end of the main
loop are steps both modules take; every other step is a step of one. The channels
of `GracefulShutdown` abstract those of `RequestCycle` to free, idle, busy, ready
and closed. A worker process of `WorkerSupervisor` is a `GracefulShutdown` seen as
one process that ends with a status.

`MCComponents` is no composition: `WebSocketSession`, `StaticFiles`, `AppReload`,
`SharedState`, `Http3Connections` and `TaskFutures` share no state, so a behaviour
picks one of them (`part`) and the others stay where they began. Every property
there is that of the component, for the behaviours that are its own.

### State and steps

*One action per atomic piece of code.* What the main thread does in one go is
one action; where it shares state with a thread without a lock, each access is
an action. In `RequestCycle` a thread's `is_responsable` and the write behind it
are two steps, and so are the steps of the timeout's 503; an application writes any
number of parts before it returns the rest or raises. A `FormCollector` detaches
itself when it has the body, a `MultipartCollector` stays, with its file closed
(`spent`): an empty line then queues another Job, other data loses the channel. A
GET whose credentials are refused is answered and queued all the same, as in the
code, and a body may turn out unusable once it is there (`NotContinued`). In `Trigger`, `append`
and `os.write` are two steps and so are `recv` and the swap. In `GracefulShutdown`
`shutdown` on the main thread is atomic and, called by an application thread, a
step for each global. In `WorkerSupervisor` a handler may run between any two
steps of the fork loop, and signals of one kind do not queue; a new child's pid, its
entry, and the load and the store of `ACTIVE_WORKERS += 1` are four steps (`Enter`,
`Occupy`, `Load`, `Store`), and a running `hCHLD`, between its own load and store,
is a frame with the count it has loaded, on which another may run. In `AsyncExecutor`
and `Http2Connection` a step is what happens under one hold of a lock; a lock
that is held while the other is wanted stays in the state (`clock`, `plock`,
`locked` of `TaskFutures`). In `ContextPool` every attribute of a clone is read
and written on its own. In `TaskFutures` `_responded += 1` is a read and a write,
for the same reason: `setup.py` lists Python 3.6 to 3.9. In `AppReload` an import
begins, may put its application in place, and ends or raises, while the file changes
and other threads load it; a thread that comes to a module being loaded may also
return at once with nothing loaded (`ImportSkipped`). In `WebSocketSession` the reads of
`event` and `message` out of the shared environment are two steps. In
`SharedState` one read or write of a slot is a step, for which the array's lock is
held. In `Http3Connections` all is on the main thread, but a handler may raise
between two events, so each event is a step.

*Data.* A request is a pair of connection and number; a body a number of parts
or pieces; an application call returns parts, raises, or answers later; a client
does whatever the protocol allows; a file is its version, and an ETag the stamp of
a version. History variables (`wire`, `ran`, `made`, `waited`, `raised`, `overlap`,
`senders`, `early`, `crossed`, `robbed`, `slipped`, `doubled`, `updated`, `again`,
`overwritten`, and of a request `jobs` and `want`) serve the
properties and are read by no guard, except that `Http2Connection` keeps in `made`
what the `H2Connection` itself remembers.

*External code.* rs4's `asyncore`/`asynchat`, the `h2` and `aioquic` libraries, the
thread pools and the WSGI application are not in the repository; they are modelled
from how the code uses them and marked external in the map.

## 3. The runs

| Run | Instance | Question |
|---|---|---|
| `request_cycle` | one connection that pipelines, 2 requests of every kind, an empty line, 2 threads, parts 0..1, timeouts, calls that return, raise or answer later | do the races of timeout, loss, threads and a second Job break safety or `ConnectionContract` |
| `request_live` | one connection, 2 requests of every kind, an empty line, one thread, queue limit 0, no timeouts, 2 parts, written before or with the return, or before an error | is every answer whole, is everybody answered |
| `trigger` | 2 threads and the main thread, 2 wakeups each, pipe of 3, `recv` of 2 | is a wakeup ever lost |
| `shutdown` | 2 connections, an application thread that calls `shutdown`, signals before and in the loop, Ctrl-C, time limits 0 and 1 | does the worker end properly |
| `worker` | 2 workers, 3 processes, a death, HUP, TERM and QUIT | do slots, count and children agree, are dead workers replaced, does TERM end all |
| `worker_hup` (violation) | 2 workers, one HUP | does HUP reload the workers |
| `async_executor` | 2 threads, limit 1, 2 puts each, pooled and unpooled coroutines, both callbacks, cleanup | concurrency, sleep and return |
| `futures` | 2 calls on one clone, of two tasks and one, 2 pool threads, timeouts, shutdown | does each answer go to its client, once, with all its tasks |
| `http2` | one client stream and two promises, a thread, bodies of two pieces, a window of one piece, resets, forced closes, shutdown, loss | responses, locks, GOAWAY, answers |
| `http2_promises` (violation) | 2 threads, 2 streams, 2 promises | do promises precede the response |
| `components` | the six parts of `MCComponents`, each on its own (bounds below) | the safety of each, and the liveness of `TaskFutures` |
| `shared_state` (violation) | 2 workers, one name | does an update stand |

*Bounds.* Constants marked "bound" in the modules cap counters that the code
does not cap: calls, requests, forks, deaths, edits, seconds. They let every pair
of hazardous steps happen: two requests on a connection are enough for an answer
to meet the next request; an empty line for a second Job beside the first; two threads and the main thread for every race of three
on the trigger; a pipe of 3 and a `recv` of 2 for a full pipe and a partial read
(the real 65536 and 4096 differ only in size); two workers and one death for one
SIGCHLD that stands for two children that end of a signal; two calls on one clone
for a clone to be taken again while its last owner is still answering; two tasks
for two counts to overlap; a window of one piece and bodies of two for a stream
that has to let others pass. In `components`: one message, so that a job meets the
jobs of OPEN and CLOSE; three versions of a file with three stamps, one of them too
large for the cache, and one second; four edits, the third of which does not load,
so that it lies between two that do; three names, one of them there before the
fork, and two calls of `add`; three addresses, so that a client moves twice, and
one id that is issued and retired; four tasks for one call that collects one or
two and chains the others. Symmetry is used only over threads, connections or
channels that are interchangeable, and in no run with a liveness property.

*Deadlock* is not checked (`CHECK_DEADLOCK FALSE`): all systems here really stop,
when clients are gone, wakeups are used up, or the process has exited. The
exceptions that matter are stated as properties: `EveryThunkRuns` names the one
state in which the main thread blocks on its own pipe, `ClockReturned` the one in
which a lock is kept, `ShutdownReturns` the one in which a shutdown waits for
itself, and `WaitpidReturns` (proved) that a handler never blocks.

*Fairness.* Weak fairness of a thread's or the loop's own steps: the operating
system runs every thread, and the asyncore loop polls for ever. Strong fairness
only where a step competes for something that is free again and again: the main
loop serves every channel that stays ready (`Receive`, `Flush`, `RunThunk` in
`RequestCycle`: `poll` visits all of them), a thread takes a job from the queue
(`GetJob`), a worker that is asked to stop stops (`Stop`). In `TaskFutures` tasks
and callbacks come to an end: a task that never returns keeps its thread, and
nothing in the code ends it. No fairness is assumed of clients, operators, deaths
or of an application that never answers; in `Http2Connection` a client need not
open its window.

*Mutants.* Each property of a passing run has a mutant: a definition changed the
way a plausible bug would, under which TLC finds the property violated. They stand
before the definition they replace and no action uses them.

## 4. What the runs found

* `worker_hup`. "catch SIGHUP for reloading worker process" (the repository's
  `README.md:626`): two workers that end under one SIGCHLD lose a slot. `hCHLD`
  waits for one child, the other stays a zombie in its slot and in the count; the
  loop forks once, the count is `numworker` again, and from then on it only sleeps,
  with one worker too few. `WorkersReplaced` names this among the ways a slot is lost.
* `http2_promises`. `flush` pushes what it took outside both locks
  (`http2_handler.py:344`); with two request threads a response's HEADERS may
  precede its PUSH_PROMISE. With one thread the order holds.
* `shared_state`. "fix inconsistency of was.setlu & was.getlu between multi workers"
  (`README.md:831`): `getlu` that has read 0 writes `init_time` over the update
  another worker has made meanwhile (`semaps.py:54`).

Disagreements that are kept as exceptions in passing properties, because no line
of the repository states the contrary:

* *Main thread and threads.* The main thread can block on its own full pipe
  (`MainBlocks`); a shutdown asked for before `loop` is forgotten (`StopsWhenAsked`
  begins after `boot`); an application thread in `shutdown` may set the phase back
  (`FirstAskStands`); a request answered by a timeout may still get one more part
  from a thread past its check, which the contract does not count as an answer.
* *Multipart bodies.* `MultipartCollector.found_terminator` does not detach the
  collector (`collectors.py:107-110`). An empty line that comes before the answer ends
  the body again: a second Job for the same request, which may mix its parts into the
  first one's answer (`OneJobPerRequest` and `AnswersWhole` name the case; that one
  answer at most is sent, `KeepsContract`, holds without excuse). Any other data, such
  as a pipelined request, is written to the closed file, and the exception closes the
  channel with the upload unanswered (`CollectorSpent`).
* *Workers.* A child that ends before it is entered leaves its dead pid in a slot, or
  ends the master (`SlotLost`). With a count overwritten between load and store the
  master believes in a worker that is gone (`overwritten` in `CountMatchesSlots` and
  `WorkersReplaced`).
* *Executors.* `current_tasks > max_task` admits one coroutine more than `--tasks`
  says, and an unpooled coroutine gives back a slot it never took, which admits one
  more for good (`Unpaid` in `AtMostOneMore`); a waiter may hear another's notify (`Alone` in
  `EveryPutReturns`). Two tasks counted at the same time make a `Futures` answer
  twice or never (`overlap`), and the second answer may go to the wrong client:
  by then the clone may belong to another request (`AnswersOwnClient`). A callback
  that makes a task while `shutdown` holds the lock waits for ever, and `shutdown`
  with it (`LocksItselfOut`). A filter that raises leaves its future without an
  answer (`Unfit`).
* *HTTP/2 and HTTP/3.* An exception in a flush (`pop` of an empty list after a reset,
  a dead stream at the head of `_producers`) leaves responses unsent (`raised`); a
  refused frame takes the two locks in the wrong order (`plock = Main` in
  `ClockReturned`). An id that ends cuts the link of its connection, and the next
  move of that client fails (`MigrateFails`; `linked` may be `None` in
  `OneOpenChannel`); the first id's end raises `KeyError` (`RetiredFirst`), and in
  the constructor of a channel that leaves the channel open but not connected.
* *WebSocket.* Of the jobs that share an environment one may clear the context
  another is using, which then fails (`robbed`); an application that closes the
  channel in its OPEN job leaves a client registered for ever (`early`); one that
  closes it while the main thread puts a message ends without a last word
  (`crossed`).
* *Static files and reloading.* A request that a change overtakes may get the old
  body under the new ETag, and a client that has kept it is told 304 from then on
  (`FreshAnswers` leaves bodies of 304 out). A file that changes between its import
  and `update_file_info`, or whose load a thread skipped because another was at it, is
  recorded by a thread that has not loaded it (`slipped`). Two loads at once end in
  any order: a thread still executing an older, broken version puts its `oldapp` back
  over the newer one another thread has loaded and recorded (`wsgi_apps.py:281-286`),
  and an older version may replace a newer (`doubled`). Until the file changes again
  nobody notices.

Seen while modelling, and in no run: the second `set` of an integer key raises
`NameError` (`isstacne`, `semaps.py:42`); `default_handler.py:179` slices a small
file `[offset:limit]` although `limit` is a length; a name registered in a worker
is known to that worker alone, and two workers may give one slot to two names;
`delta` gets and sets in two steps; answers in flight on the old handler are not
sent after a QUIC client has moved; and a GOAWAY that is pending waits for a flush
which has nothing to send, and after the last piece there may be none.

## 5. What is proved

TLAPS proves, for every value of the constants allowed by each module's named
assumption, or by the hypotheses of the theorem:

* `RequestCycleProofs`, for any number of connections, threads and requests:
  * `TypeCorrect`, `ChannelAndRequestAgree` (`CurrentIsPending`), `ClosingIsFinal`
    (`ClosedIsFinal`). The inductive invariant `IInv` adds `Holding` (what a
    thread, the timeout or a thunk holds is a request that was made) and `Linking`
    (only a made request has a channel). Without them a thread or the timeout could
    finish a request its channel does not know.
  * `ConnectionsKeepTheContract` (`KeepsContract`): the server implements
    `ConnectionContract`, with the connections that are not closed, the requests
    made on each and the answers on its wire as the refinement mapping. Each step
    is a step of the contract for one connection, or a stutter. It needs that what
    is still in a connection's input comes after every request made of it (`Ahead`).
  * `ReadInOrderAndPlaced`: requests are read in order (`Ahead`), and what is put for
    them is counted: a request being collected has no Job, only a multipart request
    keeps its collector and only an empty line the client sent makes a second Job of it
    (`Counted`, `BlanksCounted`); and a request with one Job is queued, on a thread or
    in a thunk, in one of these places and once (`Placed`).
  * `NoSecondJob` (`OneJobPerRequest`) follows: one Job for each request and that in one
    place, but for a multipart body that an empty line has ended again.
  * `AnswersAreWhole` (`AnswersWhole`), by hypothesis for a server without timeouts, of
    requests with one Job: what a thread, a thunk and the response hold is together
    what the application wrote and returned, or one error page in place of whatever
    was pushed before (`Whole`). A response with no thread at it may be a refused
    request that is still queued: it is then answered, and nothing is added. With
    timeouts a 503 may get one more part, with two Jobs parts may mix (section 4).
* `TriggerProofs`: `TypeCorrect`, `WakeupsAreKept` (`NoLostWakeup`) and
  `TriggerIsMailbox`: every behaviour of the pipe and the list is one of `Mailbox`
  under the mapping `box <- batch \o thunks`; the swap is a stutter. `NoLostWakeup`
  is inductive together with the types, the fact that a batch exists only while it
  is run (`BatchIsRunning`), and that every thunk around was handed over.
* `GracefulShutdownProofs`, for any number of connections, of threads that ask and
  of times they do: `TypeCorrect` (`TypeOK`), and three action properties,
  `TheFirstAskStands` (`FirstAskStands`), `ReadyAnswersStay`
  (`ReadyAnswersAreWritten`) and `QuietStays` (`NothingNewWhileQuiet`). The
  invariant says which phase the loop can be in at each of its steps, that the
  listener is in the map once, and gone after phase 2 is judged, and that an open
  channel which the sweep of phase 3 has not asked is still to be asked. The sweep
  runs over a map that loses elements while it does (`RemoveAtKeeps`).
* `WorkerSupervisorProofs`: `TypeCorrect`, `ChildrenHaveSlots`
  (`SlotsCoverChildren`), `HandlerNeverBlocks` (`WaitpidReturns`), and from the
  slots `AtMostNumWorkers`: never more than `numworker` children. The invariant
  adds that a slot is reserved from its choice to the entry of the child, that a
  server that stops ignores SIGCHLD, and that pids are given out in order.
  `CountIsRight` (`CountMatchesSlots`): `active`, and the child at hand where it is yet
  to be counted (`Uncounted`), is never less than the slots whose child was not waited
  for, and equal until a count is overwritten. It rests on each child having one slot
  (`OneSlotEach`) and on what is loaded (`CountsLoaded`): a handler nested in another,
  or in the fork loop's `+= 1`, leaves the count at what it found or less, so no loaded
  count is less than the count it will overwrite, and a store errs upwards only.
* `AsyncExecutorProofs`, for any mixture of pooled and unpooled coroutines and of
  callbacks: `TasksBounded` (`AtMostOneMore`), `RunHearsEveryNotify`
  (`SleepsWithReason`) and `TypeCorrect`. The invariant is that `current_tasks`, the
  coroutine `run` has launched and not counted, and the slots given back by coroutines
  that took none (`Unpaid`) together cover the pooled coroutines at work
  (`CountCovers`), and that what is in the queue is there once (`Queued`).
* `FutureAnswersProofs`, for any number of calls, tasks, clones and threads of the
  pool, with and without cancellation, filters and timeouts. Two invariants:
  * `FInv`, of the futures alone: `CallbackOnceAndAfterAll` (`FulfilledOnce`),
    `NoTaskUnaccounted` (`TasksAccountedFor`). The pool's queue has each pending task
    once (`Pool`); a call makes its tasks, lists them and sets their callbacks in
    order, one at a time (`AtCall`, `Makers`); `_responded` is at most the number of
    tasks that are counted, whatever increments are lost (`Counts`), so it is
    complete only when all have ended; and where no two were counted at the same
    time it is exactly that number, so one callback only finds it complete (`Turns`).
  * `CInv`, of futures and contexts: `TypeCorrect` (`TypeOK`) and
    `AnswersGoToTheirClients` (`AnswersOwnClient`). The request thread and the
    futures agree on the call that is being made (`Together`); unless increments
    overlapped, a clone has one holder, who finds its own request in it (`OneHolder`),
    a call has one callback at work (`OneAtATime`), and one thunk at most is on its way
    for it, or being run (`OneThunk`).
* `ComponentProofs`, about the components of `MCComponents`, whichever of them runs:
  * `RecordedIsLoaded` (`NewestOrRetried`), for any number of request threads, edits
    and broken versions, when the first version loads. The property speaks of a
    module nobody is loading. The invariant (`Reloading`) says that no loaded or
    recorded version is newer than the file (`NoneAhead`); that a broken version is
    recorded only by a thread that had not loaded it (`NoneBroken`); that, unless two
    loads overlapped, the one under way is the newest, and was not begun behind a record
    of the file as it is (`OneLoads`), so that no older application and no `oldapp`
    comes after a record; and that a version loaded and still the file's is the
    module's (`LoadedIsThere`). With overlapping loads the claim is false (section 4).
  * `OneChannelAtMost` (`OneOpenChannel`), for any addresses, ids and moves. The
    invariant (`Linking`) adds that a handler which looks for a connection has none,
    and that in the constructor of a channel, the one place where an exception leaves
    a channel open, no other channel that has the connection is.
  * `AnswersAreFresh` (`FreshAnswers`), for any number of threads and versions, when
    no stamp is the mark of an empty cache. What `MemCache` keeps under an ETag was
    read after it (`InOrder`), what `stat_cache` has of a calm file is the file
    (`StatIsFresh`), and while a request with nothing old in its way is served, every
    thread that is at the caches has found the file as it is (`ClearAnswers`).
  * `NoClientLeftBehind` (`ClientsForgotten`) and `LastWordReaches` (`LastWordHeard`), for
    any number of request threads and messages. A close that begins after `die_with`
    takes the session along and forgets the client before the channel is gone
    (`Forgetting`); no message is begun on a channel whose close has begun
    (`Uncrossed`); what was put last is heard, in the environment of a job that has yet
    to read it, or split between the event a job has read and the message it will
    read (`Hearing`).
  * `NamesHaveTheirSlots` (`KeysApart`), for any number of processes, names and calls of
    `add`: every slot given is at most the number of names, until names are added
    together with one that was there (`Slotted`).
* `Http2ConnectionProofs`, for any number of request threads, streams, promises and
  sizes, any window, priorities, resets, closing responses and broken frames:
  `TypeCorrect` (`TypeOK`), `ResponsesMadeWhole` (`ResponsesWhole`),
  `ResponsesNotForgotten` (`NoStuckResponse`) and `GoawayInTime`
  (`GoawayCutsNoneOff`, an action property). The invariant `IInv` has these parts:
  * `Locks`: `_clock` is held in the loop of `_data_from_producers` and nowhere else,
    and while a thread is there no other changes `_producers`, nor takes from a window;
    `_plock` is held between two steps only where a refused frame ends the connection.
  * `Places`: request threads only promise, open what they promised, and flush. So
    in the model only the main thread closes, answers, and opens what the client
    opened. (In the code what answers at once, section 6, answers where it is: for a
    promised URI on the request thread.)
  * `JobsKept`: a stream gets one job, after it is opened, and a job has one thread.
    This is what makes a response the only one of its stream.
  * `Responses`: no two producers have one stream, and the frames made of a
    producer's response are as many as it counts, none the last (`Told`); so its next
    frame is the one `ResponsesWhole` asks for. Sorting, rotation and abort leave each
    producer what it counts (`SortedIsPart`, `RotatedIsPart`, `AbortedIsPart`).
  * `Decided`: between the look of `_data_exhausted` and the GOAWAY no request of the
    client enters, because the close is pending and the main thread has accepted none
    before. A promise may enter meanwhile; the property speaks of the client's requests.
  * `OnTheWay`: a response that is left is known to the poll, or a flush that will set
    `_has_sendables` is under way, unless an exception has left a handler.


Only model-checked: every liveness property (outside the prover's reach, as is
ENABLED), and the `TypeOK` of `MCComponents`, whose ranges are the bounds of that
run (how long a session's queue gets, how many slots are used) and not facts about
the code: the theorems above have the types they need in their own invariants.

## 6. Limits and plan

Left out of modelled components: the single-threaded mode, in which a job is run
inline; range answers, streaming and upgrades of HTTP/1.1; re-creation of a broken
trigger (EPIPE); maintenance statistics; disposable clones and coroutines'
contexts; masks and the methods of futures that wait in the application's thread;
HTTP/2 requests that are answered inside `handle_request` (below), HTTP/2 request
bodies, dependencies between streams, producers that are not ready,
trailers, the ten seconds an empty window is suffered; HTTP/3 streams and shutdown;
WebSocket frames, generators and stream coroutines; path resolution, redirects and
ranges of static files; routing and mounting; integers and `delta` of `semaps`.

*HTTP/2 requests answered at once.* In `Http2Connection` every request that is entered
becomes a job, whose answer the main thread makes from a thunk. In the code static
files (`default_handler.py:189`), the 404 of no handler, a 503 of a full queue and
exceptions (`http2_handler.py:590-608`) are answered inside `handle_request`, by the
thread that enters the request; for a promised URI that is the request thread, so
`handle_response` runs there too. It appends to `_producers` under `_clock` like any
other; the theorems of `Http2ConnectionProofs` and the run do not cover that thread's
appending.

*Reloading through `app_initer`.* `AppReload` is the case of an application named by its
path, loaded by rs4's `importer.reimporter`. With an `app_initer` the code reloads that
module alone and keeps `self.app` (`wsgi_apps.py:273-274`); what changes then is up to
the module's hooks.

### Not modelled

* *gRPC streams*: a stream's coroutine sends on the HTTP/2 connection from the event
  loop while its collector fills a queue. It needs request bodies in
  `Http2Connection` first; the hazard at `grpc_stream_handler.py:47` waits for it.
* *A request that is still on a thread when shutdown closes its channel*
  (`http_server.py:138`): `GracefulShutdown` has the step, but no line of the
  repository promises such a request an answer, so no property asks for one.
* *Collectors*: sizes, limits and the contents of multipart files are sequential string
  work. Who holds the collector, how often a body ends and what comes after is not, and
  is in `RequestCycle`. The collectors of HTTP/2, gRPC and application-defined ones are
  not modelled.
* *TLS, configuration, administration, logging, mail daemon, commands, test
  utilities*: sequential, or I/O only.

The vendored `tools/dev-docker/get-pip.py` and the generated gRPC stubs are not
part of the system.

### Plan

1. Request bodies in `Http2Connection`, then gRPC streams on it. *A closed stream
   ends its coroutine.*
2. Routing as operators checked against "longest mounted prefix"; ranges of static
   files.
3. `WS_STREAM` coroutines in `WebSocketSession`.
