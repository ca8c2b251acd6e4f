# FastLog: specifications, model checking and proofs

FastLog is the event-logging run-time of a predictive data-race detector.
Instrumented application threads append one event per memory access to a
thread-local buffer; when some buffer is full the *epoch* ends, the buffers of
the epoch are taken from their threads and given to a worker thread, and the
threads go on in fresh buffers. This directory models that protocol in TLA+,
checks small instances with TLC and proves the central invariants with TLAPS
for all sizes. Paths such as `BufferManager.cc` are relative to `src/`.

## 1. Inventory

| Component | Code | State | Operations | What makes it correct |
|---|---|---|---|---|
| Event buffer | `EventBuffer.h` | `buf[]`, `events`, `nextRdtscTime`, `threadId`, `epoch`, `closed`; in a `Ref`: a pointer and copies of the two counters | `reset`, `getRef`, `Ref()`, `updateLogBuffer`, `~Ref` | no store outside `buf`; a closed buffer is final; counters written back before `closed` |
| Buffer manager | `BufferManager.{h,cc}` | `monitor`, `activeWorkers`, `epoch`, `allocatedBufs`, `freeBufs`, `tlsBufAddrs` | `allocBuffer`, `tryIncEpoch`, `release`, `threadExit` | each buffer in one place; one coordinator an epoch; no pointer to a dead thread |
| Thread context | `Context.{h,cc}` | `thread_local`: `__log_buffer`, `__thr_context`, `__buf_manager`; `threadCounter` | construction, `getLogBuffer`, `getLogBufferRef`, `~Context` | a set `__log_buffer` belongs to the current epoch |
| Worker | `Worker.h` | list of buffers, `events` sum, pointer to its manager | wait for `closed`, count, `release` | counts every event once; terminates |
| Logging path | `Main.cc` 561-616, 720-771 | `bufRef`, loop indices | `run_buf_manager`, `__tsan_write8_buf_manager(_slow)`, `workerMain`, `main` | events reach a worker once, in order; bounded loss |
| Other log operations | `Main.cc` 123-559, 617-718, `Context.h` 77 | a buffer used as a ring, counters in it or in a local copy, `__event_id_counter` | `LOG_ADDR` ... `LOG_FULL_128`, `GLOBAL_COUNTER` | index in bounds; a gapless tail of the events; ids in a total order |
| Event layout | `LoggerConsts.h`, the expressions stored in `Main.cc` | none: a pure function of `pc`, `addr`, `val` | the word of each log operation | the fields of an event do not overlap |
| Prototype manager | `local_writes_benchmarks.cc` | `freeBufs`, `bufsInUse`, `threadLocalBufs`, `__global_epoch`, `epochMutex`; per thread `__log_buffer` and the locals of `__tsan_write8` | `allocBuffer`, `endEpoch`, `__tsan_write8` (seven bodies that log), `__tsan_mem_access_slow` | no `NULL` dereferenced on account of a running thread; index in bounds with a timestamp every 128 events; few events dropped, few buffers leaked; a free buffer is unused |
| Baselines, scripts, LLVM pass, design notes | `LocalWrites.cc`, `localwrites.c`, `scripts/`, `PoC-inline-rt-call/`, `DesignNotes.adoc` | none at run time | | |

**How they interact.** Everything is shared memory. An application thread loads
its `__log_buffer` without a lock before every store; the coordinator of an
epoch (any thread whose buffer is full, `tryIncEpoch`) clears those variables of
*other* threads while it holds `monitor`. A thread discovers the reclamation
only after it has stored its event, takes a new buffer (`allocBuffer`, under
`monitor`) and then writes back its counter and sets `closed` in the old one,
without a lock. The worker started by the coordinator is a detached thread that
spins on `closed`, reads the counters, and calls `release` (under `monitor`).
A thread's destructors call `threadExit`. The other log operations share nothing
between threads, except for the global event counter, which is atomic. The
prototype is a program of its own and has the same three kinds of state, but no
workers: a coordinator, chosen by compare-and-swap on `__global_epoch` before it
takes the lock, resets the buffers itself.

**Wiring.** `Context.cc:4` defines the manager `thread_local`: each thread has a
manager of its own, hence epochs, pool and workers of its own. The class, its
comments and the design notes (`DesignNotes.adoc:35`, "Singleton object")
describe one manager shared by all threads. The constant `ThreadLocalManager`
selects: `TRUE` is the program as built, `FALSE` is the class used as it is
documented. Results are always stated for one of the two.

**Hard behaviours.** Reclamation racing a store; two threads filling up in the
same epoch; a thread that leaves while its epoch is being ended; workers slower
than threads (`MAX_WORKERS`); recycled buffers that still hold the last epoch's
data; a worker that outlives the manager it has to return its buffers to; the
overrun of a buffer whose fullness is tested once a batch, also when an event
takes two slots; counters kept in a local copy for a run; an id drawn before the
event is stored; in the prototype, coordinators that overtake each other between the
epoch counter and the lock, threads that go on in a buffer after it was reset, and pointers
to thread-locals of threads that have returned.
`PROJECT.json` lists each at its line.

## 2. Modules

| Module | Models |
|---|---|
| `EventBuffer` | `EventBuffer` and `EventBuffer::Ref` as records and pure operators |
| `BufferManager` | the manager's members and the thread-locals as variables, each member function as an action part |
| `Worker` | the detached worker thread: `wait` -> `count` -> `done` |
| `FastLog` | composition: application threads, managers, workers, `main`; `Spec` and `FairSpec` |
| `EventDelivery` | abstract specification: events are logged, then handed over in chunks of consecutive events of one thread, never twice |
| `FastLogProps` | type invariant, invariants, action and liveness properties, refinement mappings |
| `MCFastLog` | TLC instance (thread symmetry); the constants are in the `.cfg` files |
| `FastLogProofs` | type correctness |
| `LogVariants` | the twelve log operations without a manager: where the counters live, when and how fullness is tested, the global event counter |
| `EventRing` | abstract specification: each thread has a gapless tail of its events at hand |
| `LogVariantsProps`, `MCLogVariants` | properties and TLC instance of `LogVariants` |
| `EventLayout` | the bits of an event, a word being the set of its 1 bits |
| `EventLayoutProps`, `MCEventLayout` | properties and TLC instance of `EventLayout` |
| `EpochProto` | the prototype of `local_writes_benchmarks.cc`: manager, epoch counter, and the bodies of `__tsan_write8` that log |
| `EpochProtoProps`, `MCEpochProto` | properties and TLC instance of `EpochProto` |
| `PoolProofs` | lemmas on sequences of buffers and on "being in one place"; pool accounting |
| `EpochProofs` | agreement of thread-locals, manager and buffers on the epoch |
| `OwnerProofs` | who has a buffer: confinement, one writer, bounds, closed buffers, full epochs; the number of workers; one coordinator |
| `DeliveryProofs` | `FastLog` implements `EventDelivery`; exact counts |
| `LogVariantsProofs` | the log operations: types, bounds, that `LogVariants` implements `EventRing`, the order of the ids |
| `EventLayoutProofs` | the fields of an event can be read back |
| `EpochProtoProofs` | the prototype: types, what a fault comes from, dropped events, leaked buffers, bounds |

The proofs about `FastLog` build on one another: `FastLogProofs`, `PoolProofs`,
`EpochProofs`, `OwnerProofs`, `DeliveryProofs`, each extending the one before.

`FastLog` composes `EventBuffer`, `BufferManager` and `Worker`; `LogVariants` uses
`EventBuffer` alone, as its operations do; `EpochProto` stands alone, as its source file
does.

### Correspondence with the code

* *Steps.* A step is one access to state another thread can reach. The load of
  `__log_buffer` (`LoadCurBuf`) and the store that follows (`LogReclaimed`,
  `LogFast`, `LogSlow`) are separate; so are the two stores of
  `updateLogBuffer` (`UpdateEvents`, `UpdateClose`) the worker depends on.
* *Monitor.* `allocBuffer`, `release` and `threadExit` change nothing that is
  read outside the monitor by somebody else while they run, and are one step;
  `allocBuffer`'s buffer is not visible to anybody until it returns. `tryIncEpoch`
  stores through the pointers of `tlsBufAddrs` one by one (`ReclaimOne`) while
  their threads run, and keeps `monitor` from `TryIncEpochWins` to `StartWorker`
  or `TooManyWorkers`.
* *Memory order.* The relaxed stores of `tryIncEpoch` are made before an unlock,
  which on x86 (the only target: `rdtsc`, `target("no-sse")`) makes them visible;
  x86 does not reorder the two stores of `updateLogBuffer`. Steps are therefore
  interleaved. The one place where delay could matter, a thread that still sees
  its old buffer after it was reclaimed, is already a behaviour: it loads the
  pointer just before.
* *`~Ref`* writes two counters nobody reads concurrently (`closed` is still
  false) and is one step (`EndRun`).
* *Asserts* are on: `CMakeLists.txt` sets neither a build type nor `NDEBUG`.
  A failing assertion sets `status` to `"aborted"` (`UpdateAssertFails`). The one
  in `allocBuffer` is a guard of the action, and `AllocPrecondition` states that
  every caller meets it.
* *Events* are named `<<thread, n>>`, the n-th event of the thread, instead of
  header, value, location and address. The contents of a slot are kept because
  recycled buffers hold old events.
* *Sharing through a pointer.* `__log_buffer` of thread `t` has the address `t`;
  buffers are the addresses `1 .. MaxBuffers`, allocated in order; `heap` counts
  them. They are never freed, in the code as in the model.
* *After an undefined behaviour* (`release` on a destroyed manager) the worker
  is left in `"lost"` and followed no further.
* *`LogVariants`.* One action logs one event, since nobody else looks at the buffer;
  only `GLOBAL_COUNTER` takes two, with the `fetch_add` as a step of its own
  (`FetchEventId`). The operations differ by `Count`, which has one operator for each
  form of the fullness test in the code; `LOG_FULL_128` uses the slow path of
  `LOG_FULL`, as there. The branch for a reclaimed buffer (`curBuf == NULL`) is never
  taken in these experiments (`Main.cc:723`) and is left out.
* *`EventLayout`.* `|`, `&`, `~` and the shifts are set operations on bit positions
  0 to 63; the conversion of `char` is the sign extension x86 compilers make.
  `main` passes line numbers and array indices; the model allows any `pc`, `addr` and
  `val`, the interface of `__tsan_write8_...`.
* *History.* `processed` (the events a worker found in its buffers) and the field
  `logged` of a buffer (the events stored in it since it was new or reset) are read by
  properties only. `logged` is kept apart from the slots because those also hold what
  earlier epochs left in them: `CountExact` compares the two.
* *`EpochProto`.* Here two threads can come to count in one buffer, so every read and
  every write of `events`, `eventsToRdtsc` and `epoch` is a step of its own, in program
  order: `ReadEvents`, `AppendEvent`, `ReadCountdown`, `CountDown`, `TestCountdown` in
  `__tsan_write8`; `CheckRdtsc`, `ReadEvents` again, `Stamp`, `RestartCountdown`,
  `TestFull`, `ReadEpoch` in `__tsan_mem_access_slow`; `ResetEpoch`, `ResetEvents` and
  `Recycle` (which also does the `push_back`) in `endEpoch`. Where the code tests a field it
  has just written, the plain `int` may be read again or not: both outcomes are allowed
  (`TestCountdown`, `TestFull`). `endEpoch` holds the lock from `BeginEndEpoch` to
  `EndEndEpoch` and visits the pointers one by one. Its timed loop is one pass over
  the pointers: a second pass finds them cleared, and none at all happens when the
  coordinator is descheduled after reading the clock (`StopSpinning` allows both).
  The compare-and-swap (`WinEpoch`) comes before the lock, as in the code. `ADDR` gives
  each thread a buffer of the static array (`AttachStatic`; the array has eight). In
  the bodies that wrap around nobody else sees the buffer, and an event is one step.
  The contents of the slots are left out, since nothing in that program reads them;
  the length of a run and the number of runs are one number, since nothing happens
  between runs.
* *Undefined behaviour in `EpochProto`.* A store beyond `buf[]` puts the thread into
  `"lost"`, where it is followed no further. A thread that returns (`EndThread`) leaves the
  address of its `__log_buffer` registered, since nothing calls `threadExit`. A coordinator
  that visits it later finds what was left there or `NULL` (`Pointees`), stores to it, or
  the access faults and ends the process (`Fault`); so does the `reset()` of a collected
  `NULL`. What is left there is not another thread's `__log_buffer`: `main` creates all
  threads before it joins the first one, so that none is created in the place of another.
  `local_writes_benchmarks.cc` is not in `CMakeLists.txt`; it is a program one compiles by hand.

## 3. Runs

The runs down to `manager_gone` are of `MCFastLog`, the next one of
`MCLogVariants`, two of `MCEventLayout`, the last two of `MCEpochProto`.

| Run | Wiring | Threads, runs x events | MaxEvents/Batch | MaxWorkers | States | Shows |
|---|---|---|---|---|---|---|
| `as_built` | own | 1, 2x8 | 4/2 | 4 | 2 465 | three epochs of a thread, with recycling, under fairness: bounds, exact counts, full epochs, lossless delivery, workers finish |
| `as_built_skip` | own | 2, 1x4 | 2/1 | 1 | 90 750 | threads faster than workers: accounting, confinement, one writer and final closed buffers, up to the assertion failure |
| `shared` | shared | 2, 1x3 | 2/1 | 8 | 159 347 | the epoch protocol proper, under fairness: reclamation, lost races, exits; workers finish |
| `shared_saturated` | shared | 2, 1x3 | 2/1 | 1 | 37 366 | epochs skipped under contention: what the manager still guarantees |
| `skip_assert` | own | 1, 1x4 | 2/1 | 1 | violation | the assertion of `updateLogBuffer` fails when `MAX_WORKERS` are busy |
| `two_coordinators` | own | 2, 1x2 | 2/1 | 2 | violation | two coordinators of one epoch |
| `manager_gone` | own | 1, 1x2 | 2/1 | 2 | violation | a worker releases to a destroyed manager |
| `log_variants` | none | 2, 4x3 | 4/3, small 3 | - | 616 669 | the twelve operations: bounds, what the ring holds, ids in a total order |
| `event_layout` | - | - | - | - | 2 520 | every field can be read back, with one exception |
| `event_sign_extended` | - | - | - | - | violation | the exception: a value byte with its sign bit set |
| `epoch_proto` | prototype | 1 or 2, 4 | 1/2 | - | 3 925 145 | all bodies, access by access: bounds, faults on account of returned threads only, dropped events and leaked buffers bounded by the epoch |
| `proto_pool` | prototype | 1, 5 | 3/1 | - | violation | a thread logs to a buffer that is in `freeBufs` as well |

**Bounds.** The workload is finite by itself: `NumIterations` runs of `Length`
events, as in the program. `MaxBuffers` and `MaxSpawns` bound the two heaps; they
are set high enough never to be reached: a thread that needed one more buffer
would have no step, and TLC checks deadlock in every run. `MaxEvents` and
`BatchSize` replace 10 000 000 and 64. What matters about them is that the fullness test comes
once a batch, so `as_built` has batches of more than one event (first batch of
three, then two, as in the code 65 and 64) and `Length` long enough for a thread to
overrun `MaxEvents`, end three epochs and reuse a returned buffer. Two threads
suffice for every race in the protocol: each is between the coordinator and one
other thread, one worker, or two candidates for coordinator. `MaxWorkers` = 1
stands for 32 busy workers.

In `log_variants` there are 12 events of a thread in 4 runs, batches of 3 after a
first one of 4, and buffers of 3 and 4 slots, of which a `LOG_FULL_128` event takes
two: runs end at every position of a batch, every buffer is lapped,
and the overrun of the batched operations reaches the last slot (the mutant
`NextBatchTooLate`, one event later, leaves it). `IdLimit` = 24 is the number of
events of both threads, so the id wraps with the last one only. Two threads are
needed for the global counter alone. The arguments in `MCEventLayout` have bits at
both sides of every boundary of a field; the theorem covers all others.

In `epoch_proto` (the column gives `MaxEvents`/`SamplingRate`) two events and their
timestamp fill `buf[]` to the last slot and end an epoch, so that the four events of a thread
bring up to two epochs a thread; coordinators overtake each other, threads share recycled buffers
and meet the pointers of returned ones. `MaxBuffers` = 4 is not reached
by the code (TLC would report a deadlock). `proto_pool` needs five events, each with a
timestamp, for a third epoch.

**Fairness.** Each application thread and each worker is a POSIX thread and is
scheduled: weak fairness of `ThreadStep(t)` and `WorkerStep(w)`. A thread waiting
for the monitor is disabled only while the coordinator is in `tryIncEpoch`, which is a
bounded section; the finite workload makes weak fairness enough for the mutex.
`MainReturns` gets none: `main` may return whenever all threads are joined, and
the workers die with the process. That is why `WorkersFinish` says "unless the
process ends". It is met by a call of `release`, also on a manager that is gone by then
(`"lost"`, the subject of `manager_gone`). Nothing in the prototype waits for another thread but for the lock, and no
liveness is stated for it.

**The abstract specification.** `LosslessDelivery` and `LossyDelivery` are
`EventDelivery!Spec` under the mapping *executed* = `iter * Length + idx`,
*pending* = events in the buffers that are allocated or with a worker that has not
counted them, *delivered* = `processed`. As built nothing is lost until
the assertion fails. With a shared manager the event stored into a reclaimed
buffer is not counted (the FIXME at `Main.cc:568`); `LossBounded` says it is at
most one event a thread and epoch.

`RingOfRecentEvents` is `EventRing!Spec` with *held* = the events in the slots below the
counter in force (the local copy during a run, else the one in the buffer), and
*size* = `BUFFER_SIZE` in events. It says that no event is overwritten before the buffer
is full, also from one run to the next, and that both halves of a two-slot event
are there or neither.

### Disagreements found

1. *Skipping an epoch aborts* (`skip_assert`). With `MAX_WORKERS` workers busy,
   `tryIncEpoch` puts the caller's own buffer into `freeBufs`, the next
   `allocBuffer` pops the same buffer, and `updateLogBuffer` asserts
   `curBuf != logBuf`.
2. *Not a singleton* (`two_coordinators`).
3. *A worker can outlive its manager* (`manager_gone`).
4. *The value overwrites the location* (`event_sign_extended`). `(char) val` is
   sign-extended before it is shifted to bit 32.
5. *Buffers are freed again and again* (`proto_pool`). The prototype never empties
   `bufsInUse`, so every epoch frees the buffers of all earlier ones, also the one
   its thread is logging to ("currently available", `local_writes_benchmarks.cc:248`).

Two oddities of the ring operations are hazards without a run. The event counter has
32 bits, so the "unique", increasing ids of `Main.cc:619-621` repeat after 2^32 events
(`EventIdsOrderEvents` fails with an `IdLimit` below the number of events). And
`PREFETCH_LOG_ENTRY` adds `BATCH_SIZE` after the reset instead of before it
(`Main.cc:275-282`), so that the first batch of each later lap is twice as long.

Two more appear only with a shared manager, which the program does not build, and
are recorded as hazards: `getLogBufferRef` (`Context.h:37-45`) takes a new buffer
without closing a reclaimed one, so with `NumIterations` = 2 a worker waits for
ever; and a skipped epoch returns buffers to the pool that other threads still
append to, so with `MaxWorkers` = 1 `WriterExclusive` fails. The runs that check
those properties stay below the two situations, and `shared_saturated` checks what
survives the second one.

## 4. Theorems

For any sets of threads, any `MaxEvents`, `BatchSize`, `MaxWorkers`, `MaxBuffers`,
`MaxSpawns`, `Length`, `NumIterations` allowed by the `ASSUME`s of the modules, and
for both wirings unless the statement names one (for `LogVariants`, `EventLayout` and
`EpochProto`: any `Threads`, sizes and `IdLimit`, and any 64-bit arguments):

| Theorem | Statement |
|---|---|
| `TypeCorrect` (`FastLogProofs`) | `Spec => []TypeOK` |
| `PoolAccounted` (`PoolProofs`) | `Spec => []PoolAccounting`: every buffer allocated is in exactly one of pool, epoch, worker |
| `EpochsAgree` (`EpochProofs`) | `Spec => []EpochAgreement`: a live thread's set `__log_buffer` is registered, will be collected, and carries its thread id and the current epoch |
| `AllocNeverAsserts` (`EpochProofs`) | `Spec => []AllocPrecondition`: the assertion in `allocBuffer` |
| `TlsAddrsAreLive` (`EpochProofs`) | `Spec => []OnlyLiveTlsAddrs`: a coordinator never stores through the address of a dead thread-local |
| `ThreadsAreConfined` (`OwnerProofs`) | own managers: `[]ThreadConfined`: no buffer is ever reachable from two threads, their managers or workers |
| `WritersAreExclusive` (`OwnerProofs`) | own managers: `[]WriterExclusive`: the buffer a thread appends to is not free, not being counted and nobody else's |
| `EventsStayInBounds` (`OwnerProofs`) | own managers: `[]IndexInBounds` of `FastLog`: events are stored within `buf[MAX_EVENTS + BATCH_SIZE + 1]` |
| `ClosedStaysFinal` (`OwnerProofs`) | own managers: `ClosedIsFinal`: nothing is written to a closed buffer until it is recycled |
| `WorkersAreAccounted` (`OwnerProofs`) | `Spec => []WorkersAccounted`: `activeWorkers` is the number of workers at work |
| `OneCoordinator` (`OwnerProofs`) | shared manager: `[]OneCoordinatorPerEpoch`: no two workers at work have buffers of one epoch |
| `EpochsAreFull` (`OwnerProofs`) | own managers: `[]EpochsEndFull`: among the buffers a worker waits for, one holds `MAX_EVENTS` events or more |
| `DeliveryIsLossless` (`DeliveryProofs`) | own managers: `Spec /\ [][NoSkip]_vars => LosslessDelivery`: as long as no epoch is skipped, `FastLog` implements `EventDelivery` without loss |
| `CountsAreExact` (`DeliveryProofs`) | own managers: `[]CountExact`: what a worker has counted is what was logged to its buffers since they were reset, each event once: none missing, none left over from an earlier epoch |
| `NoEventIsLost` (`DeliveryProofs`) | own managers, no epoch skipped: `[]LossBounded`, with no event lost at all |
| `VariantsTypeCorrect` (`LogVariantsProofs`) | `Spec => []TypeOK` of `LogVariants` |
| `VariantsKeepRecentEvents` (`LogVariantsProofs`) | `Spec => RingOfRecentEvents`: `LogVariants` implements `EventRing` |
| `IdsOrderEvents` (`LogVariantsProofs`) | `EventIdsOrderEvents` whenever at most `IdLimit` ids have been drawn |
| `IdsOrderAllEvents` (`LogVariantsProofs`) | `Spec => []EventIdsOrderEvents` if the experiment has at most `IdLimit` events |
| `BufferNeverOverrun` (`LogVariantsProofs`) | `Spec => []IndexInBounds` of `LogVariants`: no log operation stores outside `buf[MAX_EVENTS + BATCH_SIZE + 1]` |
| `FieldsAlwaysRead` (`EventLayoutProofs`) | `Spec => []FieldsRead`: each field of an event can be read back, but for the location of a narrow event with a negative value byte |
| `ProtoTypeCorrect` (`EpochProtoProofs`) | `Spec => []TypeOK` of `EpochProto` |
| `FaultsExplained` (`EpochProtoProofs`) | `Spec => []FaultsOnlyOnReturned`: `endEpoch` ends badly only when a thread has returned and left its address behind |
| `FewDropped` (`EpochProtoProofs`) | `Spec => []DroppedBounded`: a thread drops at most one event an epoch |
| `FewLeaked` (`EpochProtoProofs`) | `Spec => []LeakBounded`: an epoch leaks at most one buffer for each thread but its coordinator |
| `IndexStaysInBounds` (`EpochProtoProofs`) | `Spec => []IndexInBounds` of `EpochProto`: no store beyond `buf[]` by a thread that shares nothing |

**Inductive invariants.**

* `TypeInv` adds to `TypeOK` that a thread about to make a reference has a
  buffer to make it to, which is what makes `getRef` read a buffer.
* `PoolInv` states the accounting as a fact about a family of sequences
  (`OnePlace`: pools, epochs and workers; every address up to `heap` is at exactly
  one position, the others at none) and adds that workers not yet started hold
  nothing and started ones have a manager. The argument for each action is that
  it moves a buffer from one sequence to another. The first lemmas of `PoolProofs` show this once
  for appending, taking the last element and concatenating.
* `EpochInv` is the conjunction of `TlsInv` (the threads registered with a
  manager are alive and its own), `LinkInv` (a `__log_buffer` that has not been
  reclaimed is the buffer the thread's own copies point to; a thread about to
  allocate has none) and `EpochAgreement`. The agreement is not inductive alone: `EndEpoch`
  may advance the epoch because the set of registered threads is empty by then,
  so no pointer is set, and a thread about to end its epoch has to be shown to hold a
  buffer the loop over that set will find.
* `PlacedInv` says that every address a thread or a worker has is that of a buffer with
  its own manager or one of the manager's workers (`Placed`): no operation moves a buffer
  from one manager to another. With `OneOwner`, which is `PoolInv` read from the
  side of the buffer, two threads with a manager each cannot have an address in common.
* `WriterInv` (one `WriterOK` a thread) then follows a thread alone with its manager
  around its loop: it has a buffer whenever it uses one, the buffer is open, and its
  counters obey `RefOK`, `events <= nextRdtscTime < MaxEvents + BatchSize`. Steps of other
  threads and of workers preserve it because they touch other buffers
  (`OthersLeaveAlone`). `RefOK` also has to hold of the counters in the buffer between two
  runs, since the next reference is made from them.
* `WorkersInv` is `WorkersAccounted` for the set `AtWork(m)`; the two steps that change the
  set change the counter.
* `TagInv`: the buffers allocated in the current epoch carry its number, those of a
  worker at work a smaller one, and those of different workers different ones. The
  first two parts are what makes the third one inductive, since a new worker gets the buffers
  of the epoch that ends.
* `CountInv` says why no event is counted twice although `reset()` leaves old events in the slots.
  `SlotInv`: the slots below the counters of the buffers somebody has yet to count hold events
  logged so far, no event twice. `CountersInv`: the counter of a reference is ahead
  of its buffer's, and both are within `Capacity`. `ProcessedInv`: what a worker has counted
  it will not meet again. Every step but the store of an event satisfies `NothingNew` (it puts
  nothing into a slot in use), and the store puts an event not logged before into a slot not in use.
* `FullInv` follows the buffer that ends an epoch (`Full`) from the slow path, which finds its
  counter at `MaxEvents`, through the hand-over into the hands of the worker, where it is full by
  the reference's counter until `updateLogBuffer` has written it back, and by its own from then
  on. With `SlotInv`, a counter of n stands for n different events.
* `DeliveryInv` and `KeptInv` carry the refinement. The events of a thread stand at the end of
  its buffer (`TailOK`: the last slots hold the events it executed last), so the
  events of any buffer somebody has yet to count are consecutive (`ChunkInv`). What a worker
  has found closed, nobody has a reference to (`FoundClosed`, `RefOpen`), so that what it
  counts is the whole chunk. And the buffer a reference points to will be counted
  (`RefKept`), which is where skipped epochs have to be excluded: `tryIncEpoch` then
  frees the caller's own buffer. The step lemmas say of each step of a thread that it
  stores an event (`StoreLogs`) or changes nothing in the mapping (`ThreadStutters`), and of
  each step of a worker that it delivers the chunk it counts or changes nothing
  (`WorkerDelivers`).
* `RecordInv` and `GivenInv` make the count exact. In a buffer somebody will count, the slots
  in use (by the reference's counter, until it is written back) hold exactly the events of the
  history `logged`; a worker has counted exactly the histories of the buffers it is through with.
  One buffer is excepted from the first (`Retaken`): the one a skipped epoch handed back to its
  own thread, which was reset while the reference still has its old counter. That thread's next step
  fails the assertion of `updateLogBuffer`, so no worker gets to see it. The theorem therefore needs no
  assumption on skipped epochs.
* `Inv` of `LogVariantsProofs` bounds the counters in force by the form of the
  operation's test (`CountersInBounds`): those that test every event stay at or below
  `BUFFER_SIZE`; those that test once a batch are at most at `nextRdtscTime`, itself
  within a batch of `BUFFER_SIZE`, or still below `BUFFER_SIZE`. `events` alone is not inductive,
  because in the middle of a batch nothing but `nextRdtscTime` stops it. The step
  lemmas `Count...` do the arithmetic once an operation; the actions only move
  the counters between buffer and copy.
* `TailInv` is what the refinement of `EventRing` adds to `Inv`: the slots below the counter in force hold the last
  n events of the thread, in order and, for `LOG_FULL_128`, whole. A counter that was
  read from the wrong place at the start of a run would break it, not `Inv`.
* `IdInv` counts the ids with the set `Fetched` of events that have drawn one: the
  counter is their number until the last id is drawn, and the ids at hand are below it and different. The
  event whose id is drawn but not stored yet belongs to it (`InHand`). `RunsInv` bounds the runs, hence
  `Fetched`, by the length of the experiment.
* `Stored` of `EventLayoutProofs` says that the words are the encoding of the last
  arguments; the rest is one lemma a layout on which bits the parts can occupy.
* `ManagerInv` of `EpochProtoProofs` adds to `TypeOK` that a thread inside
  `__tsan_write8` has the address of a buffer (`LogBufInv`), that exactly the owner of the
  lock is inside `endEpoch` (`LockInv`), that registered pointers of threads that have not
  returned are set whenever nobody is clearing them (`RegisteredInv`), and that what is being
  reset is a buffer (`ResetInv`). Pointers are only cleared between the pass that collects them
  and the step that empties the set, and then nobody else can look. Hence `NullInv`: a `NULL` in
  `bufsInUse` was left there by a thread that has returned.
* `DropInv` counts, for each thread `t`, the events dropped, one that will be dropped because
  the pointer is cleared already (`Owed`), and one for each coordinator that has advanced the
  epoch and may still clear the pointer (`Ending`): together they are at most the
  epoch. Bounding `dropped` alone is not inductive, since several coordinators can be
  waiting for the lock.
* `LeakInv` says which pointers are registered, and cleared, in each phase of `endEpoch` (`PhaseInv`), that a
  buffer nobody has collected is pointed to by one thread at most, and by none only after its epoch
  has ended (`OwnerInv`), and what a thread on the way to the compare-and-swap knows of the epoch of
  its buffer (`RaceInv`).
  `Doomed` are the buffers of former epochs that nobody will collect, counted already when the
  epoch advances: the compare-and-swap adds at most one for each other thread, and no
  other step adds one (`CountInv` there).
* `RingInv` and `SoleInv` bound the counters of a buffer by its thread's position, the first
  for the bodies that wrap around, the second for an `EPOCH` thread that runs alone: there
  every buffer but the one it logs to is reset (`Fresh`) or about to be, and timestamps keep
  pace with the events (`InBatch`).

All are proved from no assumption besides the named `ASSUME`s. TLC evaluates the
`ASSUME`s in every run.

Three theorems have a condition in their statement besides the wiring. `[][NoSkip]_vars` excludes the executions in
which a manager has `MAX_WORKERS` workers at work when an epoch ends: there the events of the
epoch are given up and the assertion fails (`skip_assert`), so that the refinement really does
not hold; `DeliveryIsLossless` and `NoEventIsLost` have it. The number of events in
`IdsOrderAllEvents` is that of the experiment, and 2^32 in the code.

`EventLayout` has no type invariant: a word is a set of bit positions and every operator returns one,
so the statement would say nothing of the code.

**Only model-checked.** Liveness (`WorkersFinish`), which is out of the prover's reach, and what is
said of a shared manager: `LossyDelivery` and `LossBounded` (with losses) hold in the run `shared` only. `WriterExclusive`,
`ClosedIsFinal`, `CountExact` and `EpochsEndFull` are proved for the program
as built, and for a shared manager only model-checked, on workloads without the situations
described above.

## 5. Not modelled

* `rdtsc`, and the addresses the prefetch instructions get. `LOG_TIMESTAMP` has no
  implementation.
* In the prototype: `threadExit` and `release`, which nothing calls, the bodies `EMPTY` and
  `COUNT`, which log nothing, and a ninth thread with `ADDR`, for which `at()` throws.
* `std::thread` or `new` failing, and `printf`. The worker's `int` sum is an unbounded integer.
* What happens after a `release` on a destroyed manager, after a store beyond `buf[]` of the
  prototype, and to the process after an access to a dead thread-local, but for the two outcomes
  that go on.
* Cut consistency: the barrier and time-out protocol of `DesignNotes.adoc` has
  no implementation.
* Baselines, scripts and the LLVM pass, which have no state at run time.

## 6. Plan

Done, in this order: `EventBuffer`, `BufferManager`, `Worker`, `FastLog`,
`EventDelivery`, `FastLogProps`, `LogVariants`, `EventLayout`, `EpochProto`, and the proofs
of section 4.

Next: the properties proved for own managers (one writer, closed buffers, exact counts, full
epochs) also for a shared one while each thread has one run and no epoch is skipped, and
from them `LossBounded` and `LossyDelivery`.
