# Verification of nix-builder-provisioner

TLA+ models of the Go program in this repository: a proxy that accepts Nix
clients over SSH (`ssh-ng://`) and jobs of a Gradient server over a WebSocket,
provisions builder VMs on demand, runs one derivation at a time on each of
them, and moves inputs and outputs between clients, builders and a store host.
The modules are checked with TLC on small instances; the theorems are proved
with TLAPS for every instance. Every definition that stands for code is listed
with its file and lines in `PROJECT.json` ("map").

## 1. The system

| Component | State it keeps | Operations | Interacts through |
|---|---|---|---|
| Builder pool, `provisioner/pool.go` | maps of tracked, pooled and active builders, a FIFO of requests, counts of VMs under way | GetBuilder, ReleaseBuilder, maintenance worker (scale up, idle cleanup), provisionBackground, scheduleDestruction, DestroyAll | one mutex, a buffered channel per request, a signal channel, timers, goroutines |
| Provisioners, `provisioner/hetzner-ubuntu`, `provisioner/kubernetes` | the architecture of each builder; servers and state files, Pods and Secrets | Create, Destroy | called by the pool without its lock, concurrently; tofu, the Kubernetes API, contexts |
| Gradient worker, `gradientproto/client.go`, `handshake.go` | registered cancel functions, count of running jobs, channels of cache queries | Run (handshake, requests, reader loop), heartbeat, dispatch, abort, QueryCache, routeCacheResponse | WebSocket; one goroutine per job; one mutex |
| Job executor, `gradientproto/executor.go` | the job in hand | HandleJob, runTask | the pool, the builder over ssh, the worker's connection |
| NAR upload, `gradientproto/narupload.go`, `sshexec.go` | the chunk held back, the offset, the pipe | uploadOutput, compressNarToPipe, pushOverWebSocket, putPresigned, StreamOutput | a pipe between two goroutines, an ssh session, the WebSocket or an HTTP PUT |
| Reconnect loop, `main.go` | the backoff | startGradientWorker | runs one session after the other on the same Client |
| Nix operation loop, `nixproto/proxy.go`, `conn.go` | the position in the two byte streams | one handler per operation | client stream, pool, nix-daemon on builder and store host |
| Upload, `handleAddMultipleToStore` | the current frame, the state of the daemon | connect, forward, drain, flush, wait | a goroutine that reads the daemon's replies; a channel; a timeout |
| Handshake, wire format and signing, `nixproto/conn.go`, `protocol.go`, `derivation.go`, `proxy.go`, `signer.go` | the negotiated version and the buffers of each connection | Handshake, PostHandshake, handshakeWithBuilder, sendSetOptions, ExecuteBuild, readStderrStream, signAndRegisterOutputs | three byte streams: client, builder, store host |
| SSH session, shutdown, `main.go` | the session's context; the process | handleNixDaemon, cancelOnCloseReader; signal handler | contexts; DestroyAll; os.Exit |
| Metrics, web UI, configuration, rkyv messages | files and tables | sequential | - |

What is hard here: goroutines that move builders in separate critical
sections; requests whose timeout races a handoff; a shutdown in the middle of
all that; worker goroutines that outlive their session and share its maps with
the next; contexts that are cancelled while the messages about it still have
to be sent; handlers that must take exactly their share of a stream on every
error path; formats in which every word depends on the version and on the words
before it; steps of a Create, a Destroy or an upload that fail half way, when
the context is already done; parties that may end up waiting for each other. `PROJECT.json`
("hazards") lists each at its line with the properties aimed at it.

## 2. The modules

| Module | Role |
|---|---|
| `BuilderPool` | the pool, its goroutines and the shutdown |
| `BuilderLease` | abstract specification: what the pool promises its callers |
| `PoolSeq` | the one helper on sequences that the pool needs |
| `MCBuilderPool` | symmetry and constraints for TLC |
| `BuilderPoolProofs` | theorems about the pool: where builders are; what callers get, and the lease |
| `GradientWorker`, `MCGradientWorker` | sessions, jobs and cache queries of the worker |
| `GradientWorkerProofs` | theorems about the worker |
| `NixSession`, `MCNixSession` | one client connection: operation loop, handlers, upload |
| `NixSessionProofs` | theorems about the connection |
| `NixFormat` | the messages of the Nix daemon protocol, for every version |
| `NixWire`, `MCNixWire` | one build over the connections to client, builder and store host, word by word |
| `NixWireLemmas` | every message is read as it was written; the conversations of the proxy with each peer |
| `NixWireSteps` | what a step of a party does to a conversation, whatever is buffered or on its way |
| `NixWireProofs` | the invariant of a session, and the theorems about it |
| `Provisioner`, `MCProvisioner` | Create and Destroy of both backends, step by step |
| `ProvisionerContract` | abstract specification: what the pool relies on when it calls a provisioner |
| `ProvisionerProofs` | theorems about both backends |
| `NarPush` | the upload of one output: dump, compression, pipe, chunks |
| `NarPushProofs` | theorems about the upload |

Operators whose name has the form `Definition_Change` (`Wants_AnyArch`) are
mutants: a plausible bug in the definition that follows them. No specification
uses them; each shows that the property it is paired with in `PROJECT.json`
can fail.

### BuilderPool

Each critical section of `Pool.mu` is one action, and so is each step outside
of the lock that others can observe: the send of a signal, the choice of the
`select` in `acquireBuilder`, the dial, the start and the return of `Create`,
the deferred decrement, the delay before a destruction, the return of
`Destroy`. `releaseBuilder` is one action with the three outcomes of the code
(hand to the first live waiter of the arch, keep for reuse, schedule
destruction), and the caller of it - `ReleaseBuilder` or a failed dial - is
part of the step. Requests time out (`Expire`) at any moment; a caller whose
context is done *and* whose channel is full may take either branch, as Go's
`select` does.

Data: a builder is an ID with its arch, its status and an abstract `LastUsed`
(never set, within the idle timeout, older). `vm` records what really runs at
the provider. An ID may be used again when nothing remembers it, which bounds
the instance and not the run. `Create` and `Destroy` are external; they succeed
or fail, and `Provisioner` has their steps. Idle time does not pass during `DestroyAll`, whose context (10
minutes) is shorter than the idle timeout (15 minutes).

`BuilderLease` is the promise to callers: a builder is leased to at most one
of them, a caller leases at most one, and as long as the service is open only
the holder ends a lease. Every step of a caller names it and looks at what it is
doing (`phase`), and each caller has a set of leases of its own, so a second
lease of a builder, or one that goes from one caller to another, is no step of
it. The mapping takes these from the pool as they are, nothing is chosen:
`LeasePhase` is the position of a call, `Leased` the builder in its hand or in
the response channel of its request, `Idling` the pools, `KnownUp` the VMs of
the pool that run, with those that a failed Create left behind.

### GradientWorker

State of `Client`: `cancels`, `running`, `cacheWaiters`; the session
(`sess`, `sent`, `heartbeat`); one record per job goroutine with its position
in `HandleJob`/`runTask`/`uploadOutput`/`QueryCache`. The server is what its
messages can be: it answers requests with jobs, also under an ID that it has
assigned before, aborts, loses requests, answers queries late or in any order. `RunReturns` ends a session at
any point after the dial; its goroutines stay, cancelled and cut off (`live`
is FALSE), and the next session starts next to them. The deferred call of a
goroutine removes the entry of its job ID from `cancels`, whoever registered
it. A send with a context
that is done, or on a dead connection, is an error. The critical section at the end
of a goroutine and the RequestJob after it are two actions. `GetBuilder` does
not look at the context, as in the code.

Left out: Draining, which is only logged; the contents of messages, log chunks (their errors are ignored by
the code), the kind of a failure, the chunks of a NAR (the upload is one step
that may fail; `NarPush` has its own steps), the backoff times, the connection to the store host. `resp`,
`respFor`, `stored`, `reported` and `outcome` record what was delivered, for
the properties.

### NixSession

The client's stream is a sequence of tokens: an opcode, the arguments of an
operation, a frame header with its length in chunks, chunks of data. The
proxy's stream holds the markers StderrLast and StderrError, payloads, and the
pieces of a NAR. A handler is what it reads and what it writes: `handleX` is
the set of replies of the handlers that need no further steps; a query of the store host is a step
that waits for it; the upload is
modelled step by step (`connect`, `check`, `len`, `data`, `rest`, `drain`,
`flush`, `wait`), with the goroutine that reads the daemon's replies. Whatever
is not the token a reader takes it for leads to `garbled`, beyond which
nothing is modelled. The environment of a session (`env`) fixes which
operations the client sends, which failures happen outside of the proxy and
whether a store host is configured. The store host is external: in the middle
of an upload its nix-daemon may accept too early, refuse, stop reading and
answering, or die; it may also be silent from the start, and then whatever turns
to it waits: the queries (`ask`), a dump, the inputs and signatures of a build,
the connection and the writes of an upload. Only the dial and the last wait of
an upload have a timeout. A write to a dead daemon fails or is buffered; the
flush at the end likewise. When the reader has taken StderrLast before the end
of the source, the upload loop is left with the rest unread (`cutShort`) and the
wait can only time out.

Left out: the log entries forwarded during an operation (they precede the
marker in all handlers), the daemon conversations of the other handlers,
metrics. Handshake, build and signing are in `NixWire`.

### NixFormat and NixWire

A message to write is a sequence of 64-bit words, one to read a sequence of
instructions: read a number, a string, a list, a flag with what follows it, a
count with what is repeated, a marker of the stderr stream. Each format is an
operator of the negotiated minor version and follows its Go function field by
field. Strings are empty or eight characters long; their text is abstracted, so
hashes and base32 are not modelled. A word also carries the field its writer
means by it, which no reader looks at: `misread` records the connections on
which a word was taken for another field.

`NixWire` runs four parties. The proxy handles one client that sets its options
and builds one derivation: `Handshake` and `PostHandshake`, the operation loop,
`GetBuilder`, the handshake and the options as a client of the builder,
`ExecuteBuild` with the forwarded log, the populated result, then the same with
the store host for signing (`NextOutput`, `SignPath`, `ShowSignature`, in the
random order of a Go map), and the reply. Where an error leads depends on the
part of the session (`OnError`). Writes go to a buffer and reach the other end
with a flush. The client and the two daemons are external: they use the formats
of the other side, with the versions, reports, chatter, errors and failures of
the environment, and exchange features only at version 1.38 or later. The
formats of both ends are taken from this repository, so a deviation that both
of its sides share is not visible here.

With the environment's caller a job, the same `ExecuteBuild` runs for
`Executor.runTask`, without a client connection and without signing, and its
context may be cancelled at any moment. On the client's side the context is
cancelled by a failing read only (`ReadFails`), which cannot happen during a
build; `session_disconnect` is about that. When no builder is supplied, the
failure closes a connection to the builder that was never opened, which nobody
sees.

### Provisioner

Each ID has at most one call at a time, as in the pool: a Create, and after a
successful one a Destroy. A step is one external command or request with the
check of the context around it; a waiting loop makes its attempts one by one.
The context of a call may expire between any two steps (`Deadline`). tofu may
fail after it made the server; killed, it may not have written it down. A
request to the Kubernetes API may take effect while its answer is lost; `vague`
names the IDs to which this, or a failed deletion, has happened. The undo steps
of a Kubernetes Create and the architecture map that all calls share are
modelled as they are in the code.

`ProvisionerContract` gives Create and Destroy the effect that `BuilderPool`
assumes of them: a VM that Create returned is up until its Destroy, a Destroy
that reports success leaves nothing, a call that fails may leave something
(`stuck`), and nothing appears later. It also keeps the result of Destroy,
which the pool logs only. A Pod that failed still counts as up until it is
deleted, and a deletion takes effect at once or not at all.

### NarPush

One output: `nix-store --dump` behind an SSH channel with a bounded window, the
goroutine that compresses it (`cpc`), the pipe, and the uploader (`upc`), which
reads chunks and sends each one when the next has arrived, or passes the pipe to
one PUT. The encoder may hold back any part of what it got. A `Write` to the
pipe returns when the reader has taken all of it, or fails when the reader has
closed its end. The dump may fail or hang at any point; the context may be
cancelled at any point. `wait` first ends the goroutine that watches the context
and then waits for the exit status, as in `StreamOutput`.

## 3. The runs

Passing runs (`tlc -config X.cfg M`):

| Run | Instance | Shows |
|---|---|---|
| `pool_serving` | 2 callers, 2 VMs, 2 archs, reuse | `TypeOK`; `NoIdleWhileWaiting`: no builder idles while a live request wants it; `CountExact`; `HeldIsUp`: a caller's builder is up, tracked, of the right arch, and nobody is about to destroy it; `NoOvertaking`: the queue is fair per arch; `StrandedOnlyByTimeout`: a builder gets lost only in the race of a timeout with a handoff; `OverfullOnlyByProvision`: only a fresh VM takes a pool past its bound |
| `pool_shutdown` | 2 callers, 2 VMs, shutdown | `OneHome`: no builder is in two places; `DestroyOnce`: no VM is destroyed twice; `ImplementsLease`: the pool refines `BuilderLease` |
| `pool_liveness` | 2 callers, 1 VM | `CallsReturn`, `ScaleUp`, `DestroyedEventually` |
| `worker_jobs` | 2 goroutines, 2 job IDs that are assigned again and again, jobs of 2 tasks with 2 outputs each, 2 queries | `WorkerTypeOK`; `CompletedMeansBuilt`: JobCompleted only after every output is in the cache and every task is reported; `BuilderPerTask`; `AbortReaches`: AbortJob finds the goroutine of a job from its first step to its last, until a leftover of an earlier assignment of the same ID removes the entry; `OwnAnswer`: no query gets the answer of another |
| `worker_liveness` | 2 goroutines, 1 job ID, assigned again, 1 slot | `CancelledStops`, `OrphansStop`, `RequestsResume` |
| `session` | operations of all kinds, 2 frames of up to 2 chunks, all faults, with and without a store host | `InSync`, `RepliesMatch`: neither side misreads the other, except behind an operation that is refused unread and an upload that was cut short; `UploadHonest`: success is reported only for an upload that was accepted and forwarded whole, also by a daemon that accepts too early; `OneReplyPerOp`, `EveryOpAnswered`: in benign environments every operation gets one answer, unless its handler waits, without a timer, for a store host that hangs (`HungWithoutTimer`) |
| `wire` | 2 outputs, 48 environments: versions 1.13 to 1.39, chatter, results, errors, store hosts, failing peers, jobs | `InStep`: no end misreads the other; `AnswerTrue`: the caller gets what the builder reported; `SignaturesSound`: what is shown as signed is signed, from the right path info, and registered; `AllSigned`; `SessionEnds`; `BuilderReturned`: a cancelled build gives its builder back |
| `provisioner` | 2 builders, 2 archs (1 served), both backends, loops of 2 attempts | `ProvTypeOK`; `KubernetesCleansUp`: a failed Create leaves nothing; `ServersOnRecord`: no server without its state file; `ImplementsContract`: both backends refine `ProvisionerContract`; `CallsEnd` |
| `nar_push` | dumps of 0 to 5 units, chunks of 2, window 2 | `FinalMeansWhole`: what is final, stored or reported is a complete dump; `OffsetsExact`: the chunks are full, in order and the last one alone is final; `GoroutinesEnd` |

Runs that show a disagreement of the code with a comment or message of its
own; each has one property and a finding in `PROJECT.json`:

| Run | The code |
|---|---|
| `pool_exit` | exits with VMs in flight |
| `worker_report` | does not report aborted jobs |
| `session_disconnect` | does not notice a disconnect during a build |

Other disagreements that the models show and that a passing property names as
its exception, or a hazard's note describes: a builder handed to a request that
has just timed out is lost (`StrandedOnlyByTimeout`); new VMs are pooled beyond
MaxPoolSize (`OverfullOnlyByProvision`); a used builder goes to a waiter
although reuse is off; more jobs than MaxConcurrentBuilds can run; jobs are
requested after Draining; a goroutine left over from an earlier
assignment of a job ID removes the cancel function of the new one, which
AbortJob then does not find (`AbortReaches`); the heartbeat sends one request
per tick where client.go:12 speaks of one per free slot; AddToStore is refused with its source left
in the stream (`InSync`, `RefusedOps`), and so is the rest of an upload that the
daemon ends by an early StderrLast (proxy.go:1606), although proxy.go:1714 says
that such a path "MUST drain" (`cutShort`: five minutes later the client is told
of an error, and the rest is read as operations); a store host that hangs keeps
a client waiting wherever there is no timer (`HungWithoutTimer`); and three failures in the middle of a
reply or of an upload leave the client waiting: a write that fails on the
zero-length header, a failed last flush, a dump that breaks off (`Benign`
leaves these out); a peer older than 1.38 and the proxy wait for each other in
the handshake, since the proxy exchanges features with everyone (`Modern`); a
store host that ends AddSignatures by a word puts the signing out of step
(`StoreAnswers`); the signing watches no context, so a store host that hangs
keeps the builder (`SessionEnds`); with three outputs such a host can get one
output signed from the path info of another (`OffByOne`); a server whose Create failed stays
(`ServersOnRecord` says where it is recorded), and a Pod stays whose creation
was not confirmed (`vague`); after a push that failed, the compressing
goroutine and its session may stay for good, waiting for a dump whose output
nobody drains (`GoroutinesEnd`), and one whose encoder cannot be created leaves
its session open.

### Bounds

Two callers and two builders give every pairwise race of the pool: a queue of
two requests of one arch or of two, and a builder released into it.
`MaxPoolSize = 1` makes the bound bite with two VMs; `SignalCap = 1` makes
signals drop. Two goroutines with `MaxConcurrentBuilds =
1` are a leftover of one session next to a job of the next, and
`MaxConcurrentBuilds = 2` lets both serve one session. `MaxRequests` bounds
only what heartbeats add. Two job IDs let one be assigned again while the
goroutine of its earlier assignment still runs, next to a job of another ID.
Two queries let an answer be late for one that was given up. `worker_liveness`
has one slot, so it does not see how requests of several free slots catch up. Frames of two chunks let a failure fall before, inside and after a
frame, two frames on and between frames; `MaxPipe` is the window of the
client's stream. Two outputs are the least for an error in the middle of the
signing and for an answer that is read too late; the versions of `wire` lie on
both sides of every condition that a peer can reach, and each environment
varies one thing from a plain build, so that their product is not explored. Two
attempts of a waiting loop have a first and a last one. Dumps reach from nothing
past two full chunks, so the stream ends before, at and after a chunk; a window
of two units, less than most dumps, makes the dump block. `pool_serving` stops at the shutdown signal
(a constraint of `MCBuilderPool`); `pool_shutdown` has no such restriction.
Symmetry is used in runs without liveness properties. Deadlock is checked for
the pool and the worker; a client connection, a build, an upload and the calls
of a provisioner end, so their runs switch the check off.

### Fairness

Pool (`FairSpec`): the timers of requests, of the ticker and of the delayed
destruction fire, runnable goroutines run, `Create` and `Destroy` return, a
`select` that stays ready is taken. Nothing is assumed about callers: a build
may take for ever. Worker (`FairWorkerSpec`): goroutines get on once their
context is done, since ssh commands, builds, sends and queries watch it and
`GetBuilder` has its own timeout; the ticker fires; a dead connection is
noticed. A job that nobody aborts may take for ever. Session (`PromptSpec`):
the proxy's own steps and its timers are taken, the client reads its replies
and sends the rest of a source; `FairSessionSpec` adds that builds end.
Nothing is assumed about the daemon: the five minute timeout answers for it at
the end of an upload, and where nothing does (`HungWithoutTimer`) no answer is
claimed.
Wire (`FairWireSpec`): the proxy's goroutine and the watcher of its context run
when they can, and so does each peer that has not hung; a cancellation need not
come. Provisioner (`FairProvSpec`): commands and requests return, and the
deadline of a call comes, since the pool gives each one a timeout; no Pod has
to start. That commands return is an assumption about tools outside of the
repository where the code does not bound them: the ssh command of
hetzner-ubuntu/provisioner.go:293 and the undo calls have no timeout. NarPush (`FairNarSpec`): the goroutines run, the dump writes and exits
unless it breaks, a killed one ends, and a push gets on: the object store
answers a PUT whose body has ended, and a PUT whose body fails or whose context
is done returns; no cancellation has to come.

## 4. What is proved

Every invariant, action property and refinement that a passing run checks is a
theorem, except `SignaturesSound` and `AllSigned` of `NixWire`, which are
model-checked only. The theorems hold for every value of the
constants under the assumptions named in the modules; these say only what the
constants are (numbers, finite sets, nobody's name is the name of nobody). A
further hypothesis is stated with the theorem that has it. The constants that
bound an instance for TLC (`MaxOps`, `MaxRequests`, `MaxUnits`, ...) are
parameters like the others, so the theorems hold for every bound.

Each property below is checked by TLC on the instance of the component's run.
So were the inductive invariants before their proofs, except that of `NixWire`:
it says that there is a conversation, which TLC could not enumerate.

### The pool

Assumption: `PoolAssumption` (finite sets of callers and VMs, any
architectures, `Reuse`, `MaxPoolSize`, `SignalCap`).

- `PoolTypeCorrect`: `TypeOK`, one step per action.
- `ExclusiveBuilders`: `OneHome`. It is not inductive: a
  handoff puts a builder into the channel of the first live waiter, so one has
  to know that a queued caller has an empty channel and holds nothing
  (`WaitersOK`), that queue entries are distinct and that a caller's fields fit
  its position (`CallsOK`), and that a VM that is being created is nowhere yet
  (`NewbornHomeless`). `HomeInv` is their conjunction; each action has a lemma
  of its own, which rests on a few facts about what moving one builder between
  pool, channel and hand does to its homes (`TakeOldestHomes`, `AppendHomes`,
  `CleanupHomes`, `HandOffHomes`).
- `NoIdleBuilder`: `NoIdleWhileWaiting`, from the same invariant: a
  request enters the queue only when the pool of its arch is empty, a builder
  enters the pool only when no live request wants it, and no step makes a
  request live again or changes its arch while it is queued.
- `DestroyedAtMostOnce` and `HeldBuilderIsUp`: `DestroyOnce`, `HeldIsUp`. They
  need each other: a tracked builder is up and nobody is destroying it
  (`TrackedUp`), what a caller has or a pool holds is tracked before the
  shutdown (`ServingTracked`), a builder in its destruction delay has no home
  (`SleepingHomeless`), and what the idle cleanup may pick is tracked, also
  during the shutdown (`StaleTracked`); together `VMInv`, on top of `HomeInv`.
  `ArchInv` adds that the arch of a builder is the one asked for.
- `ProvisioningCounted`: `CountExact`, by what each step does to the set of
  provisioning goroutines of an arch.
- `QueueKeepsOrder`, `OnlyProvisionOverfills`: the action properties
  `NoOvertaking` and `OverfullOnlyByProvision`. For the first, the fast path of
  an acquire is no exception because of `NoIdleWhileWaiting`.
- `TimeoutStrandsOnly`: `StrandedOnlyByTimeout`. Besides the invariants above
  it needs that a builder in its delay is still marked for destruction and that
  a held builder is active, also during the shutdown (`StrandInv`).
- `PoolImplementsLease`: the pool refines `BuilderLease`. Each step of a call is
  the abstract step of that caller; a handoff is the step that gives a builder
  to a caller that waits and has none, which is what `OneHome` and `WaitersOK`
  provide; a step that retires several builders (the idle cleanup,
  `DestroyAll`) is the abstract one that retires a set, none of them leased
  before the shutdown (`VMInv`).
- `LeaseIsExclusive`: what that is worth to a caller, from `BuilderLease` alone:
  no builder is leased twice or leased and free, a caller that works has
  exactly one, and a leased or free one is up as long as the service is open.

### The provisioners

`ProvisionerAssumption`; any builders, architectures, attempts, either backend.

- `ProvTypeCorrect`, `FailedCreateCleansUp`, `NoUnrecordedServer`: `ProvTypeOK`,
  `KubernetesCleansUp`, `ServersOnRecord`, all from `ProvInv`, which says for
  each step of a call what may exist of its builder (`Standing`): for a
  Create on Kubernetes what it has made so far, for the undo steps what
  is left to undo.
- `ProvisionersKeepContract`: both backends refine `ProvisionerContract`, so
  what `BuilderPool` assumes of Create and Destroy is what they do.

### The worker

`GradientAssumption`; any goroutines, jobs, tasks, outputs and queries.

- `WorkerTypeCorrect`, `BuilderReleased`, `CompletedIsBuilt`: `WorkerTypeOK`,
  `BuilderPerTask`, `CompletedMeansBuilt`. The invariant `Progress` ties the
  position of a goroutine to what it has stored and reported: all of the tasks
  before the one in hand, and of that one the outputs before the current.
- `AnswersReachAsker`: `OwnAnswer`, with `AskerRegistered`: a channel that is
  registered under the ID of a query on its way belongs to the goroutine that
  sent the query.
- `AbortFindsJob`: `AbortReaches`, with job IDs that are assigned again at will.
  An entry of `cancels` is overwritten only when its goroutine is over, and
  removed only by a deferred call: that of the goroutine itself, or of a
  leftover one with the same ID, the exception of the property.

### The upload of an output

`NarPushAssumption`; any sizes of dump, chunk and window.

- `FinalIsWhole`: `FinalMeansWhole`. The core is `Conserved`: as long as nothing
  has failed, the units written by the dump are those in the channel, in the
  encoder, in the pipe and with the uploader. `CompressInv` and `UploadInv` say
  when the ends of the streams are clean: an end without an error reaches the
  uploader only after the exit status of the dump is known to be success.
- `ChunksInOrder`: `OffsetsExact`, with the sum of the chunks sent (`SentInv`).

### The client connection

`SessionAssumption`; any environments, numbers of operations, frames and
chunks, any window.

- `StreamInSync`: `InSync`, for every version. The property looks at the next
  token only; the invariant `SessionInv` describes the whole stream from the
  client: after which token which one may come (`Grammar`), how many chunks lie
  ahead of the next header (`Leads`), that a source is still open exactly while
  the client is sending it (`SourceInv`), and which position of the proxy goes
  with it (`HandlerInv`, `StreamInv`). `RefusedInv` says why nothing is claimed
  after an operation that is refused unread: the loop finds something that is
  no operation and gets no further. Behind an upload that was cut short nothing
  is claimed either.
- `RepliesAreExpected`: `RepliesMatch`, for clients of version 1.17 or later,
  from the part of the invariant on the other stream: the reply that is there
  is a complete one, or the handler has not written yet, or a NAR is under way
  (`ReplyInv`).
- `OneReply`: `OneReplyPerOp`, for clients of version 1.17 or later, from a
  count of the markers by position (`MarkerInv`).
- `UploadIsHonest`: the action property `UploadHonest`. The chunks that the
  client has sent are forwarded or still in the stream, and after a failure the
  reply is settled (`UploadInv`).

The hypothesis on the version comes from the code: for a client older than 1.17
`handleQueryPathInfo` has written the marker of success before it finds that a
path is missing, and writes an error after it. The instance of the run is of
version 1.38. The proof of `InSync` also showed where a source
can be drained that has already ended: when the write that fails is the one of
the zero-length header, `failMidUpload` waits for a header that never comes.
`SourceInv` names this case.

### The build over three connections

`WireAssumption`; any number of outputs; any environment in which every peer
has version 1.38 or later and the store host does not end AddSignatures by a
word (`Regular`). Versions, reports, errors, chatter, affinity, which outputs
the store host has and signs, who dies or hangs and when, and whether the caller
is a client or a job, are arbitrary and combined at will, where the run varies
one at a time.

- `WordsInStep`: `InStep`. `CallerTold`: `AnswerTrue`. Both from
  `WireInvariant`.

The hypothesis is needed for the argument, not only convenient. With a peer
older than 1.38 the proxy never gets past the handshake; with a store host
that ends AddSignatures by a word, as the real nix-daemon does, the next answer
is read out of step. In those sessions both properties are model-checked only
(and `InStep` claims nothing of the connection concerned). `SignaturesSound` and
`AllSigned` are about the signing itself, and the interesting store host for
them is the one that is out of step; no theorem claims them.

The argument has three layers.

*Messages* (`NixWireLemmas`). `Parses(e, x, v, p, w, a, b)`: at version `v` the
instructions `p` read exactly the words `w`, and the reader, who knew `a`, knows
`b` in the end. Parsing composes (`ParsesJoin`), loops do (`ParsesLoop`), and
each format follows from its fields: `OptionsRead`, `HandshakeInfoRead`,
`BuildArgsRead`, `BuildResultRead`, `PathInfoRead`, the log and its activities,
the errors of a peer. The number of outputs, realisations or references is
arbitrary: the induction over it is `SetInduction`, with the induction
predicate as a set.

*Conversations* (`NixWireLemmas`, `NixWireSteps`). A `Dialog` is a pair of
programs that take turns: one end tells (`Tells`) a message that the other hears
(`Hears`) up to its next turn, again and again, until both are at one of the
goals `G`. `Opening`, the handshake of the proxy as a client, the build and each
question to the store host are dialogs. `Talking` says the same of a connection
in any state: run the reader over the words on the wire, then over those in the
buffer, then over those that the writer still tells in its turn, and the two
ends are in a dialog. So one relation covers all the partial reads, partial
writes and flushes, and a step of either end changes nothing in it that matters
(`ProxyStep`, `PeerTalks`). `Rests` is a peer that waits for the next
question, `Arrives` a goal that is reached.

*Sessions* (`NixWireProofs`). `WireInv` joins what is always true (`Facts`: no
word misread, versions, what the client and the caller know, why a session may
have ended in an error) with the part of the session that the proxy is in
(`Plan`: opening, building, failure, signing, asking for one output, a store
host that is gone, the answer, ...), and each part with the
conversation on each connection (`Links3`). `PeerInv` has one case per step of a
peer, `ProxyStepInv` the words of the proxy, part by part, and `ProxyDoInv`
each part of its program that it enters. The goals carry the data: a store host
comes to the end of AddSignatures only with the path that the proxy asked about,
which is why a signature is shown for the right output.

The proof changed the model in one place: the arms of a CASE in `Start`
overlapped for the client of a job, where TLA+ does not say which arm is taken.

### Model-checked only

- The liveness properties (`CallsReturn`, `ScaleUp`, `DestroyedEventually`,
  `CancelledStops`, `OrphansStop`, `RequestsResume`, `EveryOpAnswered`,
  `SessionEnds`, `BuilderReturned`, `CallsEnd`, `GoroutinesEnd`): fairness and
  ENABLED are outside of what the prover handles.
- `SignaturesSound` and `AllSigned`, and the other invariants of `NixWire` in
  sessions that are not `Regular`: with a peer older than 1.38, or a store host
  that ends AddSignatures by a word. After the first of these words what the
  signing reads is one answer behind; an invariant for that would have to follow
  the misread words through every format. `AllSigned` excepts such a host from
  the first misread word on: the second output of a build can then stay unsigned,
  and nothing is claimed of it.

## 5. Not modelled

- The text of strings: hashes (`ComputeDerivationHash`, the ATerm form),
  base32, store path parsing, the rkyv byte layout of Gradient messages. They
  are sequential conversions of data without state, which the repository tests
  against fixtures; their inputs are strings that a bounded check would not
  cover.
- `ProxyStderr`, which nothing calls, and the helpers for string sets and maps.
- The words of the queries that `handleQueryPathInfo` and
  `handleQueryValidPaths` send to the store host: in `NixSession` a query waits
  for the host and then gets one of its replies, since the client's stream only
  depends on when and how it ends. `NixWire` has the words of a path info.
- Metrics, the web UI, configuration and keys: tables, pages and files without
  concurrent state of their own. `collectPeakMemory` and
  `importUserInputsToSharedStore` are best effort and ignored when they fail.
- Times: the backoff of the reconnect loop, the intervals of polls and tickers.
- The connections themselves (an ssh client that is never closed, NAT
  timeouts), and collisions of the random IDs of builders and queries.

## 6. Plan

Modelling is complete as far as the code has state worth a model, and every
safety property that the runs check is proved, except the two about signing and,
for `NixWire`, in regular sessions only. What is left:

1. `NixWire` with a store host that ends AddSignatures by a word:
   `SignaturesSound` holds there too, as the run shows; a proof has to say what
   each format makes of the words of the answer before. For `AllSigned` a proof
   could follow the host to its first word, behind which the property claims
   nothing.
2. Abstract specifications: a job service for `GradientWorker` (each assigned
   job has at most one outcome), a request/reply service for `NixSession`.
