# Verification of go-queue

TLA+ specifications of the queue library, TLC configurations that check them on
small instances, and TLAPS proofs that hold for every instance. `PROJECT.json`
maps every definition to the source lines it translates.

## 1. The system

An application submits jobs to a `Queue`. The `Queue` schedules and runs
handlers; a `core.Worker` stores and delivers the jobs. The worker is the
in-memory `Ring` or a broker backend (Valkey Streams, Redis Streams, RabbitMQ,
NSQ, NATS, Redis Pub/Sub). With a broker, a `management.WorkerLifecycle` can gate
the queue's requests and carry out pause, resume, drain and terminate.

| Component | State | Operations | Hard behaviour | Must hold |
| --- | --- | --- | --- | --- |
| Ring (`ring.go`) | buffer, head, tail, count, stop flag, exit channel | Queue, Request, resize, stopIntake, Shutdown | stop flag set outside the mutex; resize of a wrapped buffer | FIFO; no slice out of range; exit signal neither early nor missed |
| Queue (`queue.go`, `thread.go`) | stop and drain flags, quit, drain and ready channels, submission count, worker counts | Queue, Start, UpdateWorkerCount, CloseAdmission, Shutdown, Release, ReleaseContext | scheduler, request goroutine, wrappers, submitters and callers interleave at every atomic | accepted work is handled; release is graceful; goroutines end; worker bound |
| WorkerLifecycle (`management/lifecycle.go`) | desired state, reservations, jobs, revisions, command memory | BeginAdmission, EndAdmission, PromoteAdmissionToJob, EndJob, Execute, ApplyDesiredState | overlapping transitions, timeouts, duplicates, bounded memory | boundaries are real and stable; termination is final; commands execute once |
| Management calls of Queue (`management_lifecycle.go`) | none of its own | Execute, ApplyDesiredState | snapshot taken after the transition | shutdown only after the boundary |
| Handler execution (`queue.go`, `job/`) | retry count, context, result channels | handle, settle, Ack, Nack | timeout, quit, result and panic race | one settlement; bounded retries |
| Reconciler (`management/desired.go`) | applied revision per target | Reconcile | partial failure over targets | monotone revisions |
| Stream workers (`valkeystream/`, `adapters/redisstream/`, `internal/streamqueue/`) | stream, pending entries, cursor, task channel | Read, Claim, Ack, DeadLetter, Shutdown | crash between steps, redelivery, lost lease | nothing acknowledged before it is handled or dead-lettered |
| Stream control planes | command memory, records | retry, replay, delete, purge | duplicates, partial bulk operations | idempotence |
| RabbitMQ, NSQ, NATS, Redis Pub/Sub | consumer, task channel, settlement | Queue, Request, settle, Shutdown | republish then acknowledge; close racing delivery | no loss of durable deliveries |
| Service adapter (`adapters/service/`) | phase, in-flight uses, shutdown attempt | start, use, stop | expired stop and retry | resource closed once, after its uses |
| Fleet client (`managementhttp/fleet.go`) | none | Execute over endpoints | partial failure | the aggregate never overstates |

The remaining parts (HTTP encoding, records and status projections, options,
metrics, logging, tooling) carry no state that the control flow depends on.
`PROJECT.json` lists them all, and the hazards line by line.

## 2. Modules

```
TaskFifo <--refined by-- Ring          Gate <--refined by-- Lifecycle
    \                                   /
     +------------ Queue --------------+      (INSTANCEs of both)
```

| Module | Models | Notes |
| --- | --- | --- |
| `TaskFifo` | what a ring promises: FIFO, closable intake, drained signal | abstract |
| `Ring` | `ring.go` | Queue and Request are two steps each, since the stop flag can change under them |
| `Gate` | what the lifecycle promises the scheduler | abstract |
| `Lifecycle` | `management/lifecycle.go` | one step per critical section of `l.mu`; `applyMu` held from check to end of wait |
| `Queue` | `queue.go`, `management_lifecycle.go` | composes `TaskFifo` (or a broker) and `Gate` |
| `RingProofs`, `LifecycleProofs`, `QueueProofs` | theorems | |
| `MC_Ring`, `MC_Lifecycle`, `MC_Queue` | instances for TLC | |

Correspondence for `Queue`:

- `sub[t]` is how far the call that submits task `t` is; `job[t]` how far its
  processing is, from the return of `Worker.Request` to the end of `workManaged`.
- `sched` is the goroutine of `start()`; `req`, `reqTask`, `reqErr` the request
  goroutine; `tasks` the channel between the two.
- `scheduling[a]` is a call of `schedule()` by agent `a`. It is two steps because
  the drain flag is not protected by `q.Mutex`.
- `closer` and `shut` are the bodies of `drainOnce` and `stopOnce`; `cpc` the
  callers of the public methods; `mpc` the callers of the management methods.
- The routine group is the predicate `GroupIdle`: `Start` runs once, so there is
  a single generation.
- The notify channel only shortens a wait that the retry ticker ends anyway, so
  it is left out.
- The inside of `handle` is a choice between returning and panicking.
- A broker is external: it stores what is published unless it fails, `Request`
  may return a task, nothing, or an error (with or without a task), and
  `Shutdown` closes it. A closed broker may still time out.

Operators whose comment begins with "Mutant" are not part of any specification.
Each is a plausible bug of the definition that follows it, and `PROJECT.json`
names the property that detects it.

## 3. Runs

| Run | Shows | Distinct states |
| --- | --- | --- |
| `ring` | the ring is a FIFO; indices, slots and exit signal are right; Shutdown returns | 15,541 |
| `queue_ring` | two callers of every method against two submissions: the admission channel, graceful release | 1,800,211 |
| `queue_broker` | gate counters, boundaries and transport lifetime under management | 748,726 |
| `queue_resize` | handlers stay within the worker count while it changes | 580,310 |
| `queue_ring_live` | accepted tasks are handled, Release drains and returns, goroutines end | 38,821 |
| `queue_broker_live` | no scheduling token is lost over pause and resume; goroutines end | 43,083 |
| `lifecycle_commands` | commands execute once with one outcome; termination is final | 117,681 |
| `lifecycle_revisions` | gate refinement, monotone revisions, no lost wake-up, stable boundary | 121,515 |
| `lifecycle_live` | every management call returns | 30,097 |

Three runs show where code and documentation disagree (section 5).

**Bounds.** `ring` admits five tasks, which takes the buffer through 2, 4 and 8
slots and back with every offset of `head`; its two stoppers race on the stop
flag. `queue_ring` has two tasks for one worker slot, so one is queued while the
other runs, and two callers, since every race of the close and the shutdown is
between two of them. `queue_broker` has two tasks, one caller and one manager
with all four desired states; `queue_resize` has three tasks so that a count of
two can be exceeded. `queue_ring_live` has one caller of Start and Release: two
callers are checked for safety only. In `Lifecycle`, `MaxCount` bounds
reservations and jobs together by two; three keys exceed a capacity of two.
Symmetry is used in the safety runs only.

**Deadlock.** The `Queue` runs do not check deadlock: a queue that has been shut
down stops, and a direct Shutdown of an unstarted ring with backlog blocks by
design (`Ring.Shutdown`: "A consumer must keep requesting backlog for this wait
to complete"). The others check it.

**Fairness.** A goroutine that can run does (weak fairness). Strong fairness is
assumed for `q.Mutex` and `applyMu`, since Go's mutexes starve no waiter, and for
two uses of `select`, which chooses uniformly: the scheduler's, and the one in a
closed broker's `Request` between its closed channel and its timer. A handler
returns or panics, and a broker's `Request` returns; `handle` and the request
timeouts of the backends bound both. Nothing obliges the environment to submit,
resize, expire or call anything.

## 4. Proofs

TLAPS checks these for all values of the constants. The assumptions are the
named ones: `RingAssumption`, `LifecycleAssumption`, `QueueAssumption` (disjoint
sets of names, natural bounds, finitely many tasks and keys).

- **Ring.** The inductive invariant relates head, tail, count and size
  (`WindowOK`), says which slots are occupied (`SlotsExact`), and that between
  calls the buffer is minimal or more than half full (`HalfFull`). The last is
  what makes a shrinking resize safe: without it the wrapped copy can be out of
  range. For the exit channel it adds that a goroutine inside a method owns the
  mutex. From it follow `RingTypeOK`, `RingNoPanic`, `RingSlotsExact`,
  `RingHalfFull` and `RingExit`.
- **Lifecycle.** The invariant adds to the types what each stage of a call says
  about the call (`CallOK`), the contents of the command memory (`EntriesOK`),
  that only the holder of `applyMu` is in a transition and its state is in force
  (`Serial`), and that an acknowledged termination is quiet (`QuietOK`). From it
  follow `LifecycleTypeOK`, `LifecycleWait`, `LifecycleTerminated`,
  `LifecycleRevisions`, `LifecycleBoundary` and the refinement
  `LifecycleRefinesGate`, which justifies the use of `Gate` in `Queue`.
- **Queue.** `QueueAdmissions`: the admission counter is the number of
  submissions in flight, the drain flag, the channel and `drainOnce` go together,
  and a closed channel means that none is in flight. It is independent of the
  worker, the callers and the managers.

Only model-checked: the liveness properties; the refinement `RefinesFifo`;
`ExecutedOnce` and `OneOutcome`; the other safety properties of `Queue`.
Liveness under fairness is outside the prover's reach and stays with TLC.

## 5. Disagreements

- `queue_stranded`: a CloseAdmission between an empty ring Request and the read
  of the drain flag (`queue.go:721`) ends the scheduler with an accepted task
  still queued. `queue.go:734`: "Ring backlog is owned."
- `queue_reservation`: a CloseAdmission inside `schedule()` (`queue.go:621`)
  leaves a reservation behind. `docs/lifecycle.md:41-43` says that graceful
  withdrawal releases it.
- `queue_skips_drain`: Shutdown after CloseAdmission does not wait for the ring
  (`queue.go:143`). `queue.go:131`: "Ring shutdown waits for buffer dequeue."

One more, visible without a run: `Ring.Request` halves the buffer at half
occupancy (`ring.go:152`, modelled so in `Shrinks`), while the comment above it
says "Shrink buffer if less than 25% full".

`queue_ring_live` checks `AcceptedHandled` and `ShutdownDrains` where the first
and third cannot arise, without a separate CloseAdmission.

## 6. Plan

1. `Handle` and `RoutineGroup`: the inner goroutine, retries, timeout, quit and
   panic of one handler; settlement callbacks; the idle channel per generation.
   Runs with one and two retries, and a handler that ignores its context.
2. `Reconciler`, composed with `Lifecycle`; `ResolveFailure` and `Negotiate` as
   operators checked against a declarative definition.
3. `Delivery`, an abstract at-least-once queue with settlement; `StreamWorker`
   (Valkey, Redis) and then `RabbitMQ`, `NSQ` shown to implement it, with
   crashes, lost leases and failed appends; two consumers, two entries.
   `PubSub` for NATS and Redis Pub/Sub, at most once.
4. `StreamControl`: retry, replay, delete, purge and their command memory.
5. `ServiceAdapter` (Producer, LifecycleWorker) and `Fleet`.
6. Theorems: the FIFO refinement of `Ring`; `ExecutedOnce` and `OneOutcome`;
   type correctness and `GateExact` of `Queue`; then the safety of the modules
   above.

Not planned: HTTP encoding, projections and field validation, options, metrics,
logging and tooling.
