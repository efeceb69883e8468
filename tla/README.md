# TLA+ models of the HNIEOJ judge node

This directory holds the formal models of the judge node and of the go-judge
executor in this repository,
the TLC configurations that check them on small instances, and the TLAPS proofs
of the results that hold for every instance. `PROJECT.json` maps every
definition to the lines it models and lists the runs, mutants, hazards and
theorems. Source paths below are relative to `internal/hnieoj/` unless they
start with another directory.

    tlc -workers 2 -config MCResultQueue.cfg MCResultQueue
    tlapm ResultQueueProofs.tla

## 1. The system

The repository holds two programs:

* **The judge node** (`internal/hnieoj`, `cmd/hnieoj-judge-node`): a client of
  the online judge. It enrols, keeps an Ed25519 identity, holds one authenticated
  WSS connection, receives judge tasks ("attempts") under leases, runs them and
  delivers exactly one terminal result per attempt.
* **The go-judge executor** (`worker`, `env`, `envexec`, `filestore`,
  `cmd/go-judge*`): runs commands in sandboxes on behalf of the node or of any
  other REST, gRPC or WebSocket client.

### Inventory

| Part | State it keeps | Operations | What makes it correct |
|---|---|---|---|
| Result queue `resultqueue/queue.go` | map of records, reservations, byte count, degraded flag, one file per record | Open/load, Enqueue, Reserve, Release, Ack, Prune, Peek, MarkAttempt | an admitted attempt finds room; an accepted result survives a crash; one result per attempt; the directory can be loaded again |
| Attempt registry `tasks/registry.go` | entries in flight, done memory, observers | Start, Has, Get, Cancel, Complete, Resume, UpdateLease, SetLeaseObserver | an attempt runs in one place; an attempt of an old session does not run on |
| WSS task channel `wss/` | session, waiters, approved concurrency, drain flags, assignment channel, clock offset | connect, authenticate, refresh, resume, dispatch, handleAssign, handleCancel, handleNodeState, deliverResults, BeginDrain | no attempt or capacity is lost between connection, registry and queue |
| Worker pool `worker/worker.go`, `wss/lease.go` | workers, lease of each running attempt | Run, Claim, runTask, renewLoop, renewWithRetry | every attempt ends in Complete; no work after the lease is over |
| Identity store `identity/identity.go` | keys with private parts, current key, pending rotation, one file | Open, ApplyEnrollment, BeginRotation ... ExpireGrace, SignWithCredential | memory and file agree well enough for a restart |
| Key rotation `rotation/rotation.go` | position in the two-phase protocol | RotateOnce, Recover, prepare, confirm, query, activate, discard | the node can always authenticate; every rotation ends |
| Secure files `securefile/` | files | WriteFileAtomic, SyncDir | all or nothing, durable after success |
| Processor `processor/processor.go`, `runner/runner.go`, `wss/report.go` | tasks in flight, verdict, score, compiled artifacts | Process, Compile, RunCase, RunSPJCase, RunInteractiveCase, DeleteFile, reports | one verdict per task, its last event; points add up; artifacts are deleted |
| Node manager `node/manager.go` | state of the node, generation of the runtime, sandbox process | Start, Stop, Restart, run, fail | at most one runtime, every stop ends, the sandbox outlives the drain |
| Test data cache `testdata/` | a directory per problem with a version file | Ensure, LoadCases, cleaner, deletion | the version file never names data that is not there; a task gets all cases of its version |
| Enrolment `enrollment/`, `identity/` | identity file, one-time token, registration on the server | Open, EnsureEnrolled, ApplyEnrollment, Consume | one node per token, whatever is lost or repeated |
| Web console and process `webui/`, `cmd/hnieoj-judge-node` | configuration on disk and in the manager | save, bootstrap, start, stop, restart, signal, exit | a whole configuration on disk; a drained runtime at the end |
| Signed HTTPS, credentials `httpsign/`, `auth/` | token, bound key | sign, snapshot | the key that signs is the key the token is bound to |
| Executor `worker/`, `env/pool/` (repository root, as all that follow) | work channel, loops, containers | Submit, Execute, Shutdown | every request is answered once, containers return to the pool |
| Command execution `envexec/`, `env/linuxcontainer/` | descriptors, relays, processes, cgroups, store files of a group | prepare, copy in, execve, wait, collect, convert | nothing is left behind, every command comes to a result |
| File store `filestore/` | files, names, expiry heap | New, Add, Get, Remove, expiry loop | a file is there for its time to live and goes afterwards |
| Front ends `cmd/go-judge/` | requests of a connection, sessions, servers | websocket requests, interactive sessions, REST, gRPC, shutdown | a cancelled request does not run; output precedes the response; a shutdown loses nothing within its time |
| Configuration, logging, heartbeat payload | none of their own | parsing, measuring | outside the models, except that a save may be refused |

### How the parts interact

    server --TASK_ASSIGN--> wss reader --Reserve--> result queue
                              |  Start --> registry   (done observer: Release)
                              |  assignCh
                              v
                           worker pool --runTask--> processor --terminal--> Enqueue
                              |  LEASE_RENEW                                   |
                              v                                                v
                            server <------------ TASK_RESULT, TASK_RESULT_ACK (Ack)
    rotation manager --HTTPS--> server;   identity store --> keys of every (re)authentication
    processor --> test data cache;  processor --HTTP--> go-judge: Submit --> loops --> containers
                                                        file store <-- copied-out files
    web console, signals --> node manager --> runtime (all of the above) and sandbox process

All of it is goroutines: one reader, a ready, heartbeat, refresh and result loop per
session, one goroutine per worker and one more per running attempt (renewal),
the rotation manager, the cleaner, and the web console that starts and stops
the node. Shared state is guarded by one mutex per object. The hard behaviours
are those between two critical sections (handleAssign, Complete and its
observer, Get and SetLeaseObserver), between memory and file (queue, identity),
between two clocks (leases), and between node and server when an answer is
lost. `PROJECT.json` lists them under `hazards`, each at its line.

## 2. The modules

| Module | Models | Composition |
|---|---|---|
| `ResultStore` | what `resultqueue/queue.go` promises | abstract specification |
| `ResultQueue` | `resultqueue/queue.go`, `securefile` | implements `ResultStore` |
| `TaskChannel` | `wss/client.go`, `wss/run.go`, `tasks/registry.go`, `worker/worker.go`, the duplicate guard of `processor`, drain of `node/manager.go` | composes session, registry, channel and pool with `ResultStore` |
| `LeaseRenewal` | `worker/worker.go` (renewal), `wss/lease.go`, the leases of the registry and of RESUME_RESULT | |
| `WssSession` | `wss/run.go`, `wss/client.go`: sessions, their loops and notifications | |
| `KeyHandover` | what `rotation/rotation.go` promises | abstract specification |
| `KeyRotation` | `identity`, `rotation`, key choice of `wss/run.go`, the server's side of a rotation | composes store, manager, session and server; implements `KeyHandover` |
| `Enrollment` | `enrollment`, creation of the identity file, the token of the console | composes store, client, console and server |
| `NodeManager` | `node/manager.go` | |
| `NodeConsole` | `webui/server.go`, `webui/store.go`, `cmd/hnieoj-judge-node/main.go` | composes requests, manager and process |
| `TestdataCache` | `testdata/` | |
| `JudgeTask` | `processor/processor.go`, `runner/runner.go`, `wss/report.go` | |
| `ExecService` | what `worker/worker.go` promises | abstract specification |
| `ExecWorker` | `worker/worker.go`, `env/pool/interface.go` | implements `ExecService` |
| `WsRequests` | `cmd/go-judge/ws_executor/websocket.go` | composes the websocket with `ExecService` |
| `StreamSession` | `cmd/go-judge/stream`, both its transports, `envexec/file.go` | |
| `ExecServer` | `cmd/go-judge/main.go`, REST and gRPC handlers | composes the process with `ExecService` |
| `CmdRun` | `envexec/group.go`, `run_single.go`, `file_*.go`, `env/linuxcontainer`, `convertResult` | |
| `PipeProxy` | `envexec/file_prepare.go`, `file_pipe_linux.go` | |
| `TimeoutStore` | `filestore/timeout.go`, `file_local.go` and the front ends' uploads | |
| `ResultQueueProofs`, `KeyRotationProofs`, `NodeManagerProofs`, `TaskChannelProofs` | proofs | extend the module they are named after |
| `LeaseRenewalProofs` | proofs | extends `LeaseRenewal` and `WssSession` |
| `ExecutorProofs` | proofs | extends `ExecWorker`, `WsRequests`, `StreamSession` and `ExecServer` |
| `JudgingProofs` | proofs | extends `JudgeTask`, `TimeoutStore`, `PipeProxy` and `CmdRun` |
| `NodeFilesProofs` | proofs | extends `TestdataCache`, `Enrollment` and `NodeConsole` |
| `MC*` | instances for TLC | extend or instantiate the above |

Where one run checks several modules, its MC module has a variable `part` that is
chosen at the beginning and names the module a behaviour is about; the others
stay as they began. The parts do not interact in such a run: it is a disjoint
union of instances, each explored completely. Modules that do interact are
composed by EXTENDS (`WsRequests` and `ExecServer` with `ExecService`), by INSTANCE (`TaskChannel`
with `ResultStore`) or in one module, as the table says.

Definitions whose comment begins with "Faulty variant" are plausible mistakes
in the operator after them. They take no part in the specifications; a run in
which one replaces its operator must violate the property it is paired with
in `PROJECT.json` (`mutants`), which shows that the property can fail.

### ResultQueue and ResultStore

Every method of the queue holds its mutex, so every method is one action.
`records`, `reservations`, `bytes` and `degraded` are the fields. The directory
is two sets: `disk`, what the kernel shows, and `synced`, what the last fsync of
the directory made durable. A write ends in one of three ways (done, failed
before its rename, failed behind it); `Kill` forgets the memory; `PowerLoss`
leaves any mixture of `disk` and `synced`. `Open` models `load` with its refusals
(too many records, too many bytes). `torn` remembers that a power loss hit a directory in which
both a removal and the file of a failed write were not durable. Sizes are kept because the queue has a byte limit;
payloads are model values with a `Size`.

`ResultStore` is what the rest of the node sees of this: places that are free, reserved or
taken by a result, and which results a restart finds. Only about the ids in `unsure` may a restart decide
freely. The refinement mapping takes for the records of the store what memory holds while the process lives
and what the directory shows afterwards (`Seen`), and for `unsure` every difference between memory, the
directory and stable storage (`Unsure`). The byte limit is no part of the
store: a call that the queue refuses because of it is no step of the store, and `ReservedNeverFull` says that
Enqueue never refuses an attempt with a reservation.

### TaskChannel

One attempt's way from TASK_ASSIGN to the acknowledged result. The reader of a
session is atomic except inside handleAssign, where `admitting` holds the attempt
between the checks with Reserve and Start with the push into the channel (a
cancel or a node state cannot come in between, since the same goroutine handles
them; a drain, a disconnect and every worker step can). A worker goes through
`idle`, `claimed`, `running`, `ended` and `releasing`; the last one is the gap
between the table update of Complete and the done observer. RESUME_RESULT may
answer "resumed", "ended", "rejected" or both for each attempt, or omit it. The
queue appears as `ResultStore` only: every step of the node takes one of the store's actions or leaves it
alone, so that what is shown here holds of the node with the queue that implements the store. A restart may
find the result of a write that failed, or one that was acknowledged or pruned but whose removal was not made
durable (`unsure`); results are pruned while the node runs (`PruneResults`). `owned` and `readmitted` are history variables.

### LeaseRenewal

One attempt, `runTask` beside its renewal goroutine and the session's reader,
which writes the same lease through the registry and its observer. Time is the
server's; `Skew` is how far the node's own clock is ahead. The clock ticks only
when no goroutine can go on, so that computation takes no time, but the steps
within one tick interleave freely. The program compares leases with `ServerNow`
everywhere except in `context.WithDeadline`, which uses the node's clock; the
model keeps this difference (`RequestOver`).

### KeyRotation

`mem` and `disk` are the store in memory and in its file; each operation
computes a new store and commits it with one of the three outcomes of a write.
`step` is where the rotation manager stands. Requests may be processed or not
and answered or not; one that was given up may still arrive later (`wire`). The
server is external and modelled from what the client relies on: prepare is
idempotent, confirm activates the new key and gives the old one a grace period,
an unconfirmed rotation may expire, only active and grace keys authenticate.

`KeyHandover` says what this protocol is for: the server passes to the next key in one step, only to a
key that the node has in its file, and never back; the node follows and is never ahead; both keys in use stay in the
file. The mapping reads the active key from the server, the key in use from memory and the keys kept from the file.

### WssSession

`Run` as a cycle of stages (down, authenticating, resuming, serving, leaving), the reader
and writer of a connection, and the four loops beside them. A loop that sends waits
where the code waits; when the session is done every loop leaves, and `session`
joins them before the next dial. `readyNotify` and `resultNotify` are channels of
capacity one that belong to the client, so a notification may be taken by
whichever session is there. Of the queue it has the records, the reservations and `degraded`, because
READY announces no slot while `Full` holds; a READY that cannot be sent is not repeated (`ReadyFails`). The content of messages is left to the other
modules; an answer that nobody waits for is dropped by `deliver` and is the same as
no answer.

### Enrollment

From `identity.Open` to the consumed token. The identity file has a visible and a
durable content; every write may fail before or behind its rename, the process may die
and the power fail at any step, the operator may rename the node in the
configuration, and challenge and registration are repeated until they end. The
server accepts the token for one identity and name only.

### NodeManager and NodeConsole

`NodeManager` numbers the generations of the runtime. `op` and `at` are the operation
that holds `opMu` and its position; `run[g]` is the goroutine of generation
`g`, with its two contexts (`stopRun`, `stopAux`), its done channel, its session, its rotator and
its sandbox process. Nobody waits for the rotator, which may still be in the middle of a rotation when done is closed. A Stop may give up at every wait. `NodeConsole` is what is around it: two
saving requests step by step (validation, token, temporary file, rename, SetConfig), starts and
stops, the signal, the two-phase shutdown of main with its time limit, exit, crash
and boot. Files are inodes, since all requests use one temporary name. Time counts quarters of a
minute.

### TestdataCache

`Ensure` goes through its file operations one by one; a tree has a version and is whole or
not, as the download and the unpacking (`UnzipSafe`) end. The cleaner holds the client's lock; the console, and the cleaner of a former
runtime, remove without it, entry by entry. `Kill` ends the process between any two
operations. `damaged` remembers that such a removal has touched the data.

### JudgeTask

One call of `Process`, with every judge mode, problem type, failing step and result of
a case. Deferred deletions are the set `held`, undone one by one in
`cleanup`; `known` are the artifacts whose id reached the node. A checker's score
is any integer from -1 to the problem's points, below and above what a case is worth.

### ExecService, ExecWorker, WsRequests, ExecServer

`ExecService` is what callers rely on: a request is accepted or refused, taken up,
dropped if it was cancelled by then, run and answered once. `ExecWorker` has queue, loops,
wait group and containers; its refinement mapping (`Service`) forgets them.
`WsRequests` (reader, writer, a goroutine per request, `contextMap`) and `ExecServer`
(servers, handlers, four concurrent stop functions, three seconds)
use `ExecService` in place of the worker, which the refinement justifies.

### StreamSession

`Start`, its `sendLoop`, the goroutines of input and output, the execution and the
websocket's writer, over either transport. A client sends anything at any time or
leaves, which over gRPC cancels the context of the session (`GrpcContextEnds`). The execution makes its
files in the order of the descriptors and starts each stream as it makes its pipe, so an execution that fails may have
started the input only (`StartStream`, `made`, `started`).

### CmdRun and PipeProxy

A group of commands from `prepareFds` to the consumed response: every call that can fail may
fail for every command, in every order of the goroutines. Files of the store are
followed one by one (`open`, `result`, `cached`, `removed`, `left`); `fault`
remembers the four failures after which the code leaves files behind. The copied-out
file of a command in `Optional` may be missing without an error (`OutOutcomes`). A command may
ask for a terminal, whose relay stops at the limit while the process goes on.
`PipeProxy` is the relay between two commands in both implementations
(copy and zero copy), with the limit of the stored part and a consumer that may leave.

### TimeoutStore

The expiry heap and the local store beneath it, which has a lock of its own. Calls are
split where they leave one lock and take the other. Ages stop just beyond the time to live, so time goes on for ever.

## 3. Runs

| Run | Instance | States | Checks |
|---|---|---|---|
| `result_queue` | 4 attempts, 3 payload sizes, 3 records, 5 bytes | 153 751 | `ReservedNeverFull`, `BytesExact`, `Reopenable`, `ImplementsStore`, `TerminalNeverReplaced` |
| `task_channel` | 2 workers, 3 attempts of 2 tasks, 2 records | 1 665 892 | `ExactlyOneHolder`, `NoReservationLeak`, `FullOnlyAfterReadmission`, `ResumeFence`, `DrainIsFinal` |
| `lease` | lease 4, period 2, back-off 1, timeout 3, 9 ticks; sessions with 2 attempts, 2 places in the queue, 1 fault | 471 596 | `OneOwner`, `LostOnlyByFault`, `SessionPromise` |
| `node` | 3 keys, 2 restarts; 2 saving requests, drain 1 or 20 quarter minutes, 1 boot; 1 worker, 4 attempts | 985 513 | `NeverLockedOut`, `KeyNotDroppedEarly`, `ImplementsHandover`, `ConfigKept`, `ExitDrained`, `ChannelHasRoom` |
| `liveness` | 1 worker, 2 attempts of one task, 1 record; 2 keys, 2 restarts | 24 565 | `AdmittedEnds`, `CapacityReturns`, `RotationResolves` |
| `executor` | 2 queued requests (one of two commands), 1 interactive, 1 loop, queue of 1, 4 containers; 2 websocket requests with one id; 2 chunks of output; 2 requests over REST, gRPC or websocket | 154 871 | `ContainersAccounted`, `ShutdownDrains`, `ImplementsService`, `CancelledNeverRuns`, `HandlersEnd`, `OutputBeforeResponse`, `SessionEnds`, `GracefulShutdown` |
| `judging` | 2 generations; 2 versions; 3 cases worth 4 points; 2 files, time to live 1; 4 chunks, 2 of them stored; 2 commands, one with an optional file; 2 names, 2 identities | 277 030 | `OneRuntime`, `DrainsWithSandbox`, `StopEnds`, `DataIsWhole`, `ScoreAddsUp`, `TaskSettles`, `StorePromise`, `ProxyPromise`, `GroupPromise`, `OneNodePerToken` |
| `readmission` | as `task_channel` | | `AdmittedCanStore` is violated, see section 4 |
| `lease_clock` | as `lease`, node clock 4 ticks ahead | | `LostOnlyByFault` is violated, see section 4 |
| `lease_handover` | as `lease` | | `ExecutorFollowsRegistry` is violated, see section 4 |
| `exit_undrained` | as `node` | | `ReturnsDrained` is violated, see section 4 |
| `pipe_drain` | as `judging` | | `StoredIsPrefix` is violated, see section 4 |

What the properties say, where the name does not:

* `ImplementsStore`: whatever fails and whenever the process or the machine stops, the queue is a
  `ResultStore`: an admitted attempt keeps its place, a stored result is there until it is removed, and a restart
  decides only about what is unsure. `ImplementsHandover`: a rotation is an atomic `KeyHandover`; in particular the
  node never uses a key before the server has activated it, and never loses one that is in use.
* `Reopenable`: whatever fails and whenever the process or the machine stops, Open accepts the directory it finds,
  unless a power loss tore it (section 4).
* `SessionPromise`: every stored result is acknowledged in this session or a later one, the
  slot it frees is announced, although the queue may have been full with it, and no loop of a session lives in the next.
* `SessionEnds`: once the output is started the client gets its response, also when the execution fails in the middle
  of its files; and when the client has gone the session ends. The exceptions are named (`SendStuck`, `NeverStarted`).
* `OneRuntime`: one generation at most has a pool, a session and so the result queue. It says less of the identity
  file: a rotation of an earlier generation may still run, but its context is cancelled. `StopEnds`: a runtime
  that is told to stop ends, its rotation too.
* `ConfigKept`: unless two saving requests overlap, the process leaves a whole configuration
  whenever it ends, and the manager has what is stored. `ExitDrained`: the
  only ways in which main returns before the runtime is drained (section 4).
* `ImplementsService`: the executor, with its fairness, implements `ExecService` with its own.
* `DataIsWhole`: when the server would answer "not modified" the directory holds all cases of
  that version, and a task is judged with all cases of one version.
* `TaskSettles`: a task that ends without an error has queued one verdict, its last event,
  after every case; no artifact with a known id is left unless its deletion failed.
* `StorePromise`: a file is there until its time to live after the last answer
  about it, and goes afterwards. `ProxyPromise`: the consumer gets every chunk in order, the
  producer never blocks for ever. `GroupPromise`: every command comes to a result with no process,
  cgroup, descriptor, relay or store file left, except for the files after four named faults, and an accepted one has its files, except for an optional one (`NoLeftover`, `AllCollected`);
  a file that is a result or stored is final, since process and relay have ended, a live process runs in its
  cgroup, and a group that is over holds no descriptor (`NoLateWriter`).

Why the bounds are enough:

* *result_queue*: three small results reach the record limit and three
  worst-case reservations exceed the byte limit, so each limit binds alone; one
  payload is above the limit of a record. Two ticks beyond a TTL of one let records of
  different age exist when Prune runs.
* *task_channel*: two attempts of one task meet in the duplicate guard of the
  processor; three attempts exceed two slots and two places; a second worker
  gives every interleaving of two completions. The approved concurrency
  ranges over 0 to one more than the local limit. The result that a failed write or removal leaves in doubt is
  that of one attempt (`Doubtful`), one of the two of a task; the theorems have no such bound.
* *lease*: nine ticks are two full leases and a bit, with room for a lost request, its
  retry and a resume in each. The period is half the lease, as the server's
  `renewAfterMillis` intends. The margin of `nextRenewDelay` is one tick. In the sessions, one
  fault is enough for a result to be sent twice and for a notification to fall
  between two sessions; two attempts merge two notifications into one, and fill a queue of two places,
  so that a READY may find it full.
* *node*: two rotations in succession let a grace key of the first
  meet the second, and late requests of the first arrive during the second;
  the theorems remove the bound. The assignment channel holds `LocalConcurrency + 2`
  assignments, so four attempts on one slot are one more than it holds; no result is in doubt there, which `task_channel` covers. Two saves with
  different drain timeouts around a start, and one boot after a crash in the
  middle of a save, are the cases `ConfigKept` and `ExitDrained` tell apart.
* *executor*: one loop with a queue of one makes the third request meet a full queue, a
  request of two commands can fail between its containers, and an interactive request
  bypasses the queue; the theorems remove these bounds. Two websocket requests with one id are the
  duplicate and the stale cancel; `resultCh` of one makes senders wait.
* *judging*: a second generation meets the remains of the first; a second version meets the
  leftovers of the first; 4 points on 3 cases leave a remainder; the limit of the
  stored part lies inside the data; of the two commands one is piped and timed and the other
  is not, but may ask for a terminal; a second identity is the mistake that enrolment must not make.

Symmetry is used where the model values are interchangeable (attempts of one
task, workers, keys other than the first), and never in a liveness run.
Deadlock is not checked where a module reaches its end (an exited process, a judged task, a
spent bound).

Fairness:

* `TaskChannel!Fairness`: the reader leaves handleAssign, which has no blocking
  call (the select has a default), and workers take the steps they can: the Go
  scheduler is fair, and a handler ends because the requests it makes carry
  timeouts and its context is cancelled with the lease. Nothing is assumed of the
  server or the connection. Both liveness properties except the case that
  the pool stops claiming: what is then in the channel stays there until the
  process ends, and the server assigns it again after its lease.
* `RotationFairness`: the manager's timer fires again after every failure;
  the session reconnects; strong fairness of an answered request and of a
  successful write say that neither fails for ever; weak fairness of `NodeRestart`
  in the failed state says that an operator starts a stopped node again. The
  last one is needed: see the remarks of section 4.
* `WssFairness`: goroutines that can run do, timers fire, and a server that is asked over a
  connection that stays up answers. Faults are bounded, which is how "the connection
  stays up long enough in the end" is said.
* `ExecFairness`, `WsFairness`, `SessionFairness`, `CmdFairness`, `ProxyFairness`, `StoreFairness`,
  `NodeFairness`: goroutines go on. A program ends because it has a time limit or is cancelled; a
  write to a lost websocket fails because pings do; a consumer and a producer end with their
  commands. Nobody has to submit, cancel, send, stop or shut down. In
  `NodeManager` an enrolment ends only when it is stopped.
* `ServerFairness`: only main's loop and the three seconds: the handlers, clients and stop functions
  may hang.

## 4. Where code and comments differ

* **`readmission`**: `queue.go:47-48` says that reservations guarantee that every
  admitted task can store its result. Reserve returns success without a reservation
  when a record of the same id is still queued, and the registry, which would
  refuse the attempt, is empty after a restart (and forgets after 30 minutes).
  If the attempt is assigned again, the old record is acknowledged and other attempts
  reserve the room, Enqueue answers ErrFull. `FullOnlyAfterReadmission`, which
  holds, shows that this is the only way.
* **`lease_clock`**: `worker.go:337` gives the lease deadline, server time, to
  `context.WithDeadline`, node time. On a node whose clock is ahead by what
  is left of the lease, every renewal request is over before it is sent, and a healthy
  attempt is lost. On a node whose clock is behind, a request outlives the lease
  and with it the handler (with `Skew = -1` TLC finds `OneOwner` violated too). All
  other comparisons use `p.now()`; `worker.go:326-327` speaks of the lease only.
* **`lease_handover`**: `worker.go:208` says that the executor must use the latest
  lease of the registry. It reads the entry (Get) and registers for
  updates (SetLeaseObserver) in two critical sections; a RESUME_RESULT between them
  reaches the registry only. The executor then works with the older lease: it
  renews earlier than needed, or ends the attempt at once when that lease is over.
* **`exit_undrained`**: `cmd/hnieoj-judge-node/main.go:114` says that main returns only when the runtime is
  drained. `manager.Start` looks neither at its context nor at the shutdown: a start, from the console
  or the automatic one, that waits for `opMu` behind the shutdown's Stop, or comes before the console is
  closed, leaves a runtime and a sandbox process behind. So does a drain timeout that was raised while the
  runtime was running, and a Restart that holds `opMu` for part of the time. `ExitDrained`,
  which holds, shows that there is no other way.
* **`pipe_drain`**: `envexec/file_pipe_linux_test.go:190` reports the integrity of the stored file when the
  consumer exits; it compares sizes. `file_pipe_linux.go:88-120` discards the chunk for which Tee
  failed and stores the next ones, so the file has a gap. Copy mode has none (`ProxyPromise`).

Remarks that are no disagreements:

* After a confirm whose answer was lost, a live
  session refreshes its token with the old key only. When the grace period ends
  before the manager has asked again, the refresh is rejected as permanent and the
  node stops. A restart recovers, since authentication tries the pending key
  too (`RotationResolves` holds because of it).
* An attempt that leaves the registry after its result was acknowledged frees a slot that no READY
  announces until something else asks for one (`SlotsAnnounced` speaks of the others). The same holds of a READY whose
  send fails while the session goes on (`wss/client.go:366`): nobody repeats it (`missed`).
* An Ack or Prune removes the file before it syncs the directory (`queue.go:283`, `358`), and Enqueue renames before
  it does (`queue.go:182`). When neither kind of change is durable, a power loss may keep the old file and the new one, and
  the directory may then hold more than load accepts: Open refuses it until somebody clears it. (`queue.go:94` says
  that every record written successfully can be opened again; it is about the size of one record.) `Reopenable` shows
  that this torn directory is the only one which is refused.
* An Ack whose removal was not made durable has freed the place in memory but returns an error, for which `deliverResults`
  asks for no READY (`wss/run.go:667-670`).
* `manager.go:396` starts the rotation manager and joins it nowhere, so a rotation in progress may still write the identity file
  after `done` is closed, while the next generation has the file open (`OneRuntime` allows it).
* A command whose optional copy-out is missing is accepted without it (`envexec/file_collect.go:82-86`), which
  is what optional means; `NoLeftover` says so.
* `identity.Open` does not sync a file it finds. A first identity whose rename was visible but not durable can
  be offered to the server and lost in a power failure; `OneNodePerToken` excepts it.
* Removing test data without the client's lock, or a removal cut off by a crash, can leave a version
  file over an incomplete directory; LoadCases cannot tell, and `DataIsWhole` excepts it.
* Two overlapping saves share `config.yaml.tmp` and can install an empty or mixed file;
  `ConfigKept` excepts them.
* Two waits of go-judge's interactive sessions end with the process only: a websocket Send after its
  writer has left, and an output stream whose execution failed before it started that stream, over a websocket only,
  since a gRPC client that goes cancels the session
  (`SendStuck`, `NeverStarted`); and so does a websocket reader that reports a duplicate id to a
  full channel (`HandlersEnd`). The gRPC FileAdd shadows `err`, so a failed upload leaves its file
  (`FileAddFails`).

## 5. Proofs

The proofs hold for all values of the constants:

| Theorem | Statement |
|---|---|
| `QueueInvariance` | `Spec => []QueueInv` |
| `ReservationHonoured` | `Spec => []ReservedNeverFull` |
| `StoredSurvivesCrash` | `Spec => []StoredIsDurable` |
| `RestartOpens` | `Spec => []Reopenable` |
| `ByteAccounting` | `Spec => []BytesExact` |
| `OneTerminalPerAttempt` | `Spec => TerminalNeverReplaced` |
| `QueueImplementsStore` | `Spec => ImplementsStore` |
| `ChannelInvariance` | `Spec => []ChannelInv` |
| `EveryAttemptHasOneHolder` | `Spec => []ExactlyOneHolder` |
| `ReservationsNeverLeak` | `Spec => []NoReservationLeak` |
| `FullNeedsReadmission` | `Spec => []FullOnlyAfterReadmission` |
| `ReadyMeansFenced` | `Spec => []ResumeFence` |
| `RoomForEveryAdmission` | `Spec => []ChannelHasRoom` |
| `StopIsFinal` | `Spec => DrainIsFinal` |
| `LeaseInvariance`, `StopsWithinLag` | `Spec => []LeaseInv`, `[](now > srvLease + Lag => ~Active)` |
| `OneOwnerAtATime` | with `Skew >= 0`: `Spec => []OneOwner` |
| `NoLossWithoutFault` | with `Skew <= 0` and `Period >= 2`: `Spec => LostOnlyByFault` |
| `LoopsEndWithTheirSession` | `WssSpec => []LoopsOfOneSession` |
| `RotationInvariance` | `RotationSpec => []RotationInv` |
| `ActiveKeyUsable` | `RotationSpec => []NeverLockedOut` |
| `SwitchAfterActivation` | `RotationSpec => []NoPrematureSwitch` |
| `KeyKeptWhileNeeded` | `RotationSpec => KeyNotDroppedEarly` |
| `RotationHandsOver` | `RotationSpec => ImplementsHandover` |
| `EnrolInvariance`, `OneIdentityPerToken` | `EnrolSpec => []EnrolInv`, `[]OneNodePerToken` |
| `NodeInvariance`, `RuntimesNeverOverlap` | `NodeSpec => []NodeInv`, `[]OneRuntime` |
| `SandboxOutlivesTheDrain` | `NodeSpec => []DrainsWithSandbox` |
| `SaveInvariance`, `ConfigSurvives` | `ConsoleSpec => []SaveInv`, `[]ConfigKept` |
| `ExitIsDrained` | `ConsoleSpec => []ExitDrained` |
| `CacheInvariance`, `TestdataIsWhole` | `CacheSpec => []CacheInv`, `[]DataIsWhole` |
| `ScoreInvariance`, `PointsAddUp` | `JudgeSpec => []ScoreInv`, `[]ScoreAddsUp` |
| `TasksSettle` | `JudgeSpec => []TaskSettles` |
| `ExecInvariance`, `ContainersNeverLost` | `ExecSpec => []ExecInv`, `[]ContainersAccounted` |
| `ShutdownLeavesNothing` | `ExecSpec => []ShutdownDrains` |
| `ExecutorRefines` | `ExecSpec => Service!ServiceInit /\ [][Service!ServiceNext]_(Service!serviceVars)` |
| `ToldNeverRuns` | `WsSpec => []CancelledNeverRuns` |
| `ResponseComesLast` | `SessionSpec => []OutputBeforeResponse` |
| `ExitWithinTimeIsClean` | `ServerSpec => []CleanExit` |
| `FilesLastTheirTime` | `StoreSpec => []TtlHonoured` |
| `PipesDeliver` | `ProxySpec => [](DeliveredInOrder /\ StoredWhileConsumed)` |
| `NothingLeftBehind` | `CmdSpec => []NoLeftover` |
| `FilesAreFinal` | `CmdSpec => []NoLateWriter` |

*Queue.* Assumption `QueueAssumption`: positive limits, natural sizes. The
promise of a reservation is not inductive: it needs `WithinLimits` (records plus
reservations at their worst case fit both limits) and `NoDoubleCharge`. That a
restart opens the queue needs to know that the directory holds no more than memory
unless the queue is degraded (`MemoryMatchesDisk`): a write that fails behind
its rename leaves one file too many, but that file was within the limits when
it was admitted, and a degraded queue admits nothing more. Behind a removal that was not made durable only the old
file can return, which is within the limits too, as long as there is no new one beside it; a power loss with both
leaves a torn directory, which `Open` refuses or finds small enough, and from then on it is the durable one (`TornIsDurable`). `DirectoryShape` makes sums of sizes
well defined. A sum of sizes is the cardinality of a set of bytes (`Cells`), so
that its laws (`SumSizeAdd`, `SumSizeRemove`) follow from the theorems on finite sets
and need no induction.

*Queue and store.* `QueueImplementsStore` follows from `QueueInv`: one lemma for each operation names the
action of the store it is. `SameCount` ties the cardinalities on both sides. A successful write syncs the directory and leaves nothing
unsure, because memory then equals the directory (`MemoryMatchesDisk`); an Ack or a Prune may leave the removed ids in doubt;
a kill takes what the directory shows and a power loss what any mixture of it and stable storage leaves, both of which
differ from memory by unsure ids only. `TaskChannel` changes the store by the store's actions alone, so that this theorem is what
carries its results over to the node with the real queue.

*Channel.* Assumption `ChannelAssumption`: a finite, non-empty pool, a positive queue limit. `ChannelInv`
says of every entry of the registry where it is (`HoldersOK`: the places of the channel and the workers are
pairwise different and together are the entries), what the queue has promised it (`CapacityOK`, `PromisesOK`: records
and reservations fit; whoever is being admitted, waits in the channel or runs has a reservation, or was admitted a second
time), what a session that is not ready has yet to ask for (`FenceOK`), and that handleAssign checked the number of
entries before it went on (`RoomOK`). That the channel has room is then counting: it holds different
entries only (`DistinctCounted`), and there are fewer of them than slots.

*Leases.* Assumption `LeaseAssumption`: positive times, any skew. Every copy of the lease was granted by the
server (`GrantsOK`); a task under a live context has its renewal goroutine, which never sleeps or waits beyond
the server's lease (`LoopOK`), except for a request, whose deadline is measured on the node's clock: hence `Lag`, the
ticks by which that clock is behind. `StopsWithinLag` needs no hypothesis. The two properties the run checks have one
each, and both are needed, since with the other sign TLC finds them violated: `OneOwner` holds when
the node's clock is not behind, `LostOnlyByFault` when it is not ahead (the run `lease_clock`). `Period >= 2` makes
half a period, the margin of `nextRenewDelay`, at least one tick: durations in the code are fine enough, ticks need it. `FaultInv` adds what the node knows while nothing has failed: its lease is the server's.

*Sessions.* The loops live only while `Run` is in its last stage or leaves it (`LoopsInv`).

*Rotation.* Assumption `RotationAssumption`: the first key is a key, `NoKey` is not.
That the node is never locked out rests on what the server may still do: as
long as it may open or activate a rotation, memory and file know its key
(`FileOK`), also for requests that are still under way (`WireOK`). `StepOK` says what
the manager knows when it takes a step (for instance that it discards only
what the server has declared expired), `ServerOK` that the server has one active key
and that the open rotation is the node's, `StoreOK` that local statuses agree
with roles. Steps that commit a new store share the lemma `CommitInv`.
The handover (`RotationHandsOver`) needs three facts more (`HandoverInv`): the server has an active key; the file is ahead
of memory by an activation at most, which memory has seen confirmed; and the file has the key that memory uses. From these and
`RotationInv` every commit, with any outcome of its write, and every restart is a `NodeStores` (`CommitHandsOver`,
`RestartHandsOver`), and a confirm, however late, a `ServerSwitches` or nothing (`ServerSwitchesOver`).
`NoPrematureSwitch`, a theorem too, is what this says of the node alone.

*Node files.* `EnrolInv` (assumption: no node is called "", which validation refuses) follows the identity from memory through
its file to stable storage: once the file is durable, memory and file have the same identity, and
nothing else is offered to the server. `CacheInv` says at each step of `Ensure` where the new data is and what the version
file may say, and that a removal which is not marked as damage takes the version first or runs while Ensure does not.
`SaveInv` is about requests that do not overlap (`AloneOK`): the temporary file is the request's own until its rename, and what
is written is whole; `Validate` gives every accepted configuration a positive drain timeout (`ValidateFacts`). `EndOK` is the invariant
behind `ExitDrained`. Assumption `ConsoleAssumption`: finitely many requests, positive timeouts.

*Scores and tasks.* Assumption `JudgeAssumption`: at least one case, natural points. What is inductive
is a bound for the cases judged so far: the first n cases are worth `PointsOf(n)`, the quotient
n times and one more for each of the first cases up to the remainder. One case
adds `CaseMaxScore` (`PointsGrow`), all cases add up to the problem's points (`PointsEnd`), and a
score is clamped to its case (`CaseScored`). Division enters through one lemma (`Division`). For the reports,
`ReportsOK` gives for every position of Process exactly what has been reported there: nothing terminal (`Quiet`), and after n
cases `CasesReported(n)`; `ArtifactsOK` says who deletes an artifact.

*Runtimes.* Assumption `NodeAssumption`: a bound on the generations. `OneRuntime` is not
inductive: that a new start meets no active generation rests on what the
state says about the current one (`StateOK`), on what an older one can still do
(`GensOK`: a runtime that drains has been told to stop, and then it has failed or the state is
stopping; a rotator without its runtime has been told to stop) and on what the operation in progress has seen (`OpOK`). That the sandbox outlives the drain
follows with it: a stop waits for done before it kills, and the session's context is cancelled after the results are flushed.

*Executor.* Assumption `ExecAssumption`: queued and interactive requests differ,
every request has commands. `ContainersAccounted` needs that a request waits once in the queue
(`QueueOK`) and types; `ShutdownDrains` that a request under way has a loop and that Shutdown
destroys the pool after the last loop has left (`DrainInv`). For the refinement, `JobMoves` says that a
step which moves one request moves its image only; each step of a caller, a loop, a request or a
shutdown is then a step of `ExecService` or none. The theorem is the safety part; that the
fairness of the service follows is checked by TLC (`ImplementsService`). On top of the service, `ToldInv` says that a request which
is reported as cancelled has a cancelled context for good, which every loop looks at before it runs the request; `ChunksInv` counts the chunks of a session between the program and its
client, so that none is left when the response is sent. `StopsInv` says for each stop function of the process what it has waited for when it
has returned, which lasts because a closed or unconfigured server takes no request and the loops have gone.

*Files of the executor.* Assumption `StoreAssumption`: a positive time to live, the condition under which the store is made.
`TtlHonoured` needs that an entry of the heap is never older than what its clients were told, also when a Get
refreshes it, and that a file with an entry is on disk unless a client removed it (`EntryOK`); the entries
that an expiry is about to remove stay too old because it keeps the lock.
For the pipe (`ProxyAssumption`: natural limits, a pipe that holds something), `Following(s, n)` says that
a sequence continues after chunk n; what the consumer has read, its pipe, the chunk at hand and the producer's pipe follow one another
(`ConsumerOK`, `SourceOK`), and the stored file has all that was taken, up to the limit (`CopyOK`). For the commands, `PaceOK` ties the group
to its commands and `FileOK` says for each store file who still knows it, and that an accepted command lacks at most its optional one; no assumption is needed. `WritersInv` adds
where a command stands while its process lives, its relay copies or its descriptors are open: the process was waited for, and the relay too, before
anything was collected. (A relay may still copy when a request is answered, if its command failed before it ran; its
store file has then been removed.)

Only model-checked, because they need fairness or ENABLED, which the prover does not reach: `AdmittedEnds`, `CapacityReturns`,
`RotationResolves`, `HandlersEnd`, `SessionEnds`, `StopEnds`; the liveness halves of `SessionPromise` (`ResultsArrive`,
`SlotsAnnounced`), `GracefulShutdown` (`ShutdownEnds`), `StorePromise` (`FilesExpire`), `ProxyPromise` (the producer never blocks for ever) and
`GroupPromise` (`AllCollected`), whose safety halves are `LoopsEndWithTheirSession`, `ExitWithinTimeIsClean` and the last four theorems of the
table; and that `ExecWorker` has the fairness of `ExecService`.

## 6. What is not modelled

* Data: contents of messages, signatures, canonical strings, configuration values other
  than the drain timeout and the token's file, logging, test cases, program output and its comparison.
* Of the WSS client: frame limits and the measurement of the clock offset. Of the queue: Peek, Len and
  MarkAttempt, which decide nothing here, and files that do not parse, which load reports and Open refuses.
* Power loss for the test data cache and `config.yaml`, which are never synced: the models have kills only.
* Of the web console: the administrator's password, login sessions and pages that only read.
* Of the executor: mounts, seccomp, credentials, cgroup controllers, rlimits, other platforms, metrics and
  listeners; the list and cached cgroup pools, which the program does not use; storage that fills up under the
  relay. Client tools (`cmd/go-judge-shell`, `-grpc-proxy`, `-ffi`, `-init`) keep no state of
  the system.
* Generated code.
* The server, except as the external partner described above. It never shortens a lease in
  the model; nothing in this repository says whether the real one may.

## 7. Plan

1. **Done**: queue, task channel, leases, sessions, rotation, enrolment, manager, console and process, test data,
   judging, executor with its abstract service and front ends, command execution, pipe relay, file store; every
   invariant and every action property of the runs, and the safety half of every promise, is proved.
2. **Done**: three abstract specifications (`ResultStore`, `KeyHandover`, `ExecService`), each with a proof that
   the code's model implements it; `TaskChannel`, `WsRequests` and `ExecServer` are built on the abstract side.
3. **Open**: the liveness properties and the fairness half of `ImplementsService`, which stay with TLC (section 5), and
   the parts of section 6 that other abstractions would be needed for: signed requests and credentials, the
   contents of messages.
