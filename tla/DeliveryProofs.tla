--------------------------- MODULE DeliveryProofs ---------------------------
(***************************************************************************)
(* As built, with a manager for each thread, FastLog implements the        *)
(* abstract specification EventDelivery: as long as no epoch is skipped,   *)
(* the events of a thread reach the workers in chunks of consecutive       *)
(* events, none twice and none lost.                                       *)
(***************************************************************************)
EXTENDS OwnerProofs

USE DEF vars, bufferVars, contextVars, managerVars, workerVars, threadVars

-----------------------------------------------------------------------------
(***************************************************************************)
(* The invariant.  What OwnerProofs has shown of the build comes first.    *)
(***************************************************************************)
Base == ThreadLocalManager /\ OwnerInvAll /\ CountInv /\ FullInv

\* Somebody is going to count the buffer b.
Awaited(b) ==
  \/ \E m \in Managers : InSeq(b, allocatedBufs[m])
  \/ \E w \in Workers : Awaits(w, b)

\* The buffer t logs to, or will carry on with in its next run, and how many
\* events it has there.
OwnBuf(t)   == IF ref[t].logBuf # Null THEN ref[t].logBuf ELSE logBuffer[t]
OwnCount(t) == IF ref[t].logBuf # Null THEN ref[t].events ELSE eventBuf[logBuffer[t]].events

\* They are the events it executed last.
TailOK(t) ==
  OwnBuf(t) # Null =>
    /\ OwnCount(t) <= Executed(t)
    /\ \A i \in Slots : i < OwnCount(t) =>
         eventBuf[OwnBuf(t)].buf[i] = <<t, Executed(t) - OwnCount(t) + i>>

\* The events of a buffer are consecutive events of one thread.
ChunkInv ==
  \A b \in Buffers : Live(b) =>
    \A i, j \in Used(b) :
      eventBuf[b].buf[j] = <<eventBuf[b].buf[i][1], eventBuf[b].buf[i][2] + (j - i)>>

\* A worker has found closed what it has looked at ...
FoundClosed(w) ==
  \A i \in DOMAIN worker[w].buffers :
    (worker[w].pc = "wait" /\ i < worker[w].next) \/ worker[w].pc = "count" =>
      eventBuf[worker[w].buffers[i]].closed

\* ... and nobody has a reference to a closed buffer.
RefOpen(t) == ref[t].logBuf # Null => ~eventBuf[ref[t].logBuf].closed

\* As long as no epoch is skipped, what is logged to will be counted.
RefKept(t) == ref[t].logBuf # Null => Awaited(ref[t].logBuf)

DeliveryInv ==
  /\ \A t \in Threads : TailOK(t) /\ RefOpen(t)
  /\ \A w \in Workers : FoundClosed(w)
  /\ ChunkInv

KeptInv == \A t \in Threads : RefKept(t)

\* No epoch is skipped in this step.
NoSkip == \A t \in Threads : ~TooManyWorkers(t)

LEMMA BaseInvariant == Spec => [](ThreadLocalManager => Base)
<1>1. Init => FullInv
  BY DEF Init, WorkerInit, IdleWorker, FullInv, EndingOK, NoRef, AttachRef
<1>2. OwnerInvAll /\ (ThreadLocalManager => FullInv) /\ [Next]_vars
        => (ThreadLocalManager => FullInv)'
  BY FullNext
<1>3. Spec => [](ThreadLocalManager => FullInv)
  BY OwnerInvariant, <1>1, <1>2, PTL DEF Spec
<1>4. OwnerInvAll /\ (ThreadLocalManager => CountInv) /\ (ThreadLocalManager => FullInv)
        => (ThreadLocalManager => Base)
  BY DEF Base
<1>5. QED
  BY OwnerInvariant, CountInvariant, <1>3, <1>4, PTL

\* The types, and the manager of a thread.
BaseTypes ==
  /\ eventBuf \in [ Buffers -> BufferType ] /\ ref \in [ Threads -> RefType ]
  /\ curBuf \in [ Threads -> Buffers \cup {Null} ]
  /\ logBuffer \in [ Threads -> Buffers \cup {Null} ]
  /\ pc \in [ Threads -> PC ] /\ iter \in [ Threads -> Nat ] /\ idx \in [ Threads -> Nat ]
  /\ worker \in [ Workers -> WorkerType ] /\ spawned \in Nat
  /\ allocatedBufs \in [ Managers -> Seq(Buffers) ] /\ freeBufs \in [ Managers -> Seq(Buffers) ]
  /\ \A t \in Threads : ManagerOf(t) = t /\ t \in Managers
  /\ \A t \in Threads : Executed(t) \in Nat /\ iter[t] * Length \in Nat
  /\ \A b \in Buffers : b # Null /\ eventBuf[b].events \in Nat /\ eventBuf[b].closed \in BOOLEAN
  /\ \A t \in Threads : ref[t].events \in Nat /\ ref[t].logBuf \in Buffers \cup {Null}

LEMMA BaseTyped == Base => BaseTypes
<1> SUFFICES ASSUME Base PROVE BaseTypes
  OBVIOUS
<1>1. TypeInv /\ TypeOK /\ ThreadLocalManager
  BY DEF Base, OwnerInvAll, TypeInv
<1>2. \A t \in Threads : Executed(t) \in Nat /\ iter[t] * Length \in Nat
  BY <1>1, ExecutedIs
<1>3. \A t \in Threads : ManagerOf(t) = t /\ t \in Managers
  BY <1>1 DEF ManagerOf, Managers
<1>4. \A b \in Buffers : b # Null /\ eventBuf[b].events \in Nat /\ eventBuf[b].closed \in BOOLEAN
  <2>1. \A b \in Buffers : b # Null
    BY DEF Null, Buffers
  <2>2. \A b \in Buffers : eventBuf[b] \in BufferType
    BY <1>1 DEF TypeOK
  <2>3. QED
    BY <2>1, <2>2 DEF BufferType
<1>5. \A t \in Threads : ref[t].events \in Nat /\ ref[t].logBuf \in Buffers \cup {Null}
  BY <1>1 DEF TypeOK, RefType
<1>6. QED
  BY <1>1, <1>2, <1>3, <1>4, <1>5, WorkerAssumption DEF BaseTypes, TypeOK

-----------------------------------------------------------------------------
(***************************************************************************)
(* The state relations the steps below rely on.                            *)
(***************************************************************************)

\* The slots in use are the first ones.
UsedFirst ==
  \A b \in Buffers :
    /\ \A t \in Threads : ref[t].logBuf = b =>
         \A i : i \in Used(b) <=> i \in Slots /\ i < ref[t].events
    /\ (\A t \in Threads : ref[t].logBuf # b) =>
         \A i : i \in Used(b) <=> i \in Slots /\ i < eventBuf[b].events

LEMMA UsedIs == Base => UsedFirst
<1> SUFFICES ASSUME Base, NEW b \in Buffers
             PROVE  /\ \A t \in Threads : ref[t].logBuf = b =>
                         \A i : i \in Used(b) <=> i \in Slots /\ i < ref[t].events
                    /\ (\A t \in Threads : ref[t].logBuf # b) =>
                         \A i : i \in Used(b) <=> i \in Slots /\ i < eventBuf[b].events
  BY DEF UsedFirst
<1>1. BaseTypes /\ OwnerInvAll /\ ThreadLocalManager /\ CountersInv
  BY BaseTyped DEF Base, CountInv
<1>2. ASSUME NEW t \in Threads, ref[t].logBuf = b, NEW i
      PROVE  i \in Used(b) <=> i \in Slots /\ i < ref[t].events
  <2>1. eventBuf[b].events <= ref[t].events /\ eventBuf[b].events \in Nat /\ ref[t].events \in Nat
    BY <1>1, <1>2 DEF CountersInv, CountersOK, BaseTypes
  <2>2. \A s \in Threads : ref[s].logBuf = b => s = t
    BY <1>1, <1>2, NoSharedAddress DEF Addresses, BaseTypes
  <2>3. i \in Slots => i \in Int
    BY DEF Slots
  <2>4. QED
    BY <1>2, <2>1, <2>2, <2>3 DEF Used
<1>3. QED
  BY <1>2 DEF Used

\* The buffer a thread gets, and the buffer it logs to, are of its epoch.
LEMMA OwnAllocated ==
  ASSUME Base, NEW t \in Threads, pc[t] \in {"run", "store", "try_inc", "make_ref", "update", "close"}
  PROVE  /\ logBuffer[t] \in Buffers /\ InSeq(logBuffer[t], allocatedBufs[t])
         /\ Awaited(logBuffer[t])
<1>1. BaseTypes /\ OwnerInvAll /\ ThreadLocalManager /\ WriterOK(t)
  BY BaseTyped DEF Base, OwnerInvAll, WriterInv
<1>2. logBuffer[t] \in Buffers /\ Alive(t)
  BY <1>1 DEF BaseTypes, WriterOK, Alive
<1>3. InSeq(logBuffer[t], allocatedBufs[t])
  BY <1>1, <1>2 DEF OwnerInvAll, EpochInv, EpochAgreement, BaseTypes
<1>4. QED
  BY <1>1, <1>2, <1>3 DEF Awaited, BaseTypes

\* A buffer that waits to be counted is not the one a thread takes.
LEMMA AwaitedNotTaken ==
  ASSUME Base, NEW t \in Threads, NEW buf \in Buffers, AllocBuffer(t, buf),
         NEW b \in Buffers, Awaited(b) \/ \E w \in Workers : worker[w].pc \in Owning /\ InSeq(b, worker[w].buffers)
  PROVE  b # buf
<1>1. BaseTypes /\ OwnerInvAll /\ PoolInv
  BY BaseTyped DEF Base, OwnerInvAll
<1>2. InSeq(buf, freeBufs[t]) \/ buf = heap + 1
  BY <1>1, InSeqFront DEF AllocBuffer, BaseTypes
<1>3. CASE \E m \in Managers : InSeq(b, allocatedBufs[m])
  <2>1. PICK m \in Managers : InSeq(b, allocatedBufs[m])
    BY <1>3
  <2>2. Placed(m, b)
    BY <2>1 DEF Placed
  <2>3. b \in 1 .. heap /\ heap \in Nat
    BY <1>1, <2>2, PlacedInHeap DEF OwnerInvAll, TypeInv, TypeOK
  <2>4. ~InSeq(b, freeBufs[t])
    BY <1>1, <2>1, AllocatedNowhereElse DEF BaseTypes
  <2>5. QED
    BY <1>2, <2>3, <2>4
<1>4. CASE \E w \in Workers : worker[w].pc \in Owning /\ InSeq(b, worker[w].buffers)
  <2>1. PICK w \in Workers : worker[w].pc \in Owning /\ InSeq(b, worker[w].buffers)
    BY <1>4
  <2>2. worker[w].manager \in Managers
    BY <1>1, <2>1 DEF PoolInv, Owning
  <2>3. Placed(worker[w].manager, b)
    BY <2>1 DEF Placed
  <2>4. b \in 1 .. heap /\ heap \in Nat
    BY <1>1, <2>2, <2>3, PlacedInHeap DEF OwnerInvAll, TypeInv, TypeOK
  <2>5. ASSUME InSeq(b, freeBufs[t])
        PROVE  FALSE
    <3> DEFINE g == <<"worker", w>>
               h == <<"free", t>>
    <3>1. /\ g \in Holders /\ Pool[g] = worker[w].buffers
          /\ h \in Holders /\ Pool[h] = freeBufs[t]
      BY <1>1, <2>1, PoolAt DEF BaseTypes
    <3>2. g # h
      OBVIOUS
    <3> HIDE DEF g, h
    <3>3. QED
      BY <1>1, <2>1, <2>5, <3>1, <3>2 DEF PoolInv, OnePlace, InSeq
  <2>6. QED
    BY <1>2, <2>4, <2>5
<1>5. Awaited(b) => \/ \E m \in Managers : InSeq(b, allocatedBufs[m])
                    \/ \E w \in Workers : worker[w].pc \in Owning /\ InSeq(b, worker[w].buffers)
  BY DEF Awaited, Awaits, Owning, InSeq
<1>6. QED
  BY <1>3, <1>4, <1>5

-----------------------------------------------------------------------------
(***************************************************************************)
(* Nothing that waits to be counted is lost: not the place of a buffer ... *)
(***************************************************************************)
LEMMA AwaitedThread ==
  ASSUME Base, NEW t \in Threads, ThreadStep(t), ~TooManyWorkers(t),
         NEW b \in Buffers, Awaited(b)
  PROVE  Awaited(b)'
<1>1. BaseTypes /\ PoolInv
  BY BaseTyped DEF Base, OwnerInvAll
<1>2. CASE CallAllocBuffer(t)
  <2>1. PICK buf \in Buffers : AllocBuffer(t, buf)
    BY <1>2 DEF CallAllocBuffer
  <2>2. /\ allocatedBufs' = [ allocatedBufs EXCEPT ![t] = Append(@, buf) ]
        /\ worker' = worker
    <3>1. /\ allocatedBufs' = [ allocatedBufs EXCEPT ![ManagerOf(t)] = Append(@, buf) ]
          /\ worker' = worker
      BY <1>2, <2>1 DEF CallAllocBuffer, AllocBuffer, TakeBuffer
    <3>2. QED
      BY <1>1, <3>1 DEF BaseTypes
  <2>3. \A m \in Managers : InSeq(b, allocatedBufs[m]) => InSeq(b, allocatedBufs'[m])
    BY <1>1, <2>2, InSeqAppend DEF BaseTypes
  <2>4. QED
    BY <2>2, <2>3 DEF Awaited, Awaits, Managers, InSeq
<1>3. CASE StartWorker(t)
  <2>0. PICK v \in Workers : v = spawned + 1
    BY <1>1, <1>3, WorkerAssumption DEF StartWorker, Spawn, BaseTypes, Workers
  <2>1. /\ allocatedBufs' = [ allocatedBufs EXCEPT ![t] = << >> ]
        /\ worker'[v].pc = "wait" /\ worker'[v].buffers = allocatedBufs[t]
        /\ \A w \in Workers \ {v} : worker'[w] = worker[w]
    BY <1>1, <1>3, <2>0 DEF StartWorker, HandOver, EndEpoch, Spawn, IdleWorker, BaseTypes
  <2>2. worker[v].pc = "none"
    BY <1>1, <2>0 DEF PoolInv, BaseTypes
  <2>3. CASE InSeq(b, allocatedBufs[t])
    <3>1. Awaits(v, b)'
      BY <2>1, <2>3 DEF Awaits, InSeq
    <3>2. QED
      BY <2>1, <3>1 DEF Awaited
  <2>4. ASSUME NEW m \in Managers, InSeq(b, allocatedBufs[m]), m # t
        PROVE  Awaited(b)'
    <3>1. allocatedBufs'[m] = allocatedBufs[m]
      BY <1>1, <2>1, <2>4 DEF BaseTypes
    <3>2. QED
      BY <2>4, <3>1 DEF Awaited, Managers, InSeq
  <2>5. ASSUME NEW w \in Workers, Awaits(w, b)
        PROVE  Awaited(b)'
    <3>1. w # v
      BY <2>2, <2>5 DEF Awaits
    <3>2. Awaits(w, b)'
      BY <2>1, <2>5, <3>1 DEF Awaits
    <3>3. QED
      BY <3>2 DEF Awaited
  <2>6. QED
    BY <2>3, <2>4, <2>5 DEF Awaited
<1>4. CASE UNCHANGED <<allocatedBufs, worker>>
  BY <1>4 DEF Awaited, Awaits, Managers, InSeq
<1>5. QED
  BY <1>2, <1>3, <1>4
     DEF ThreadStep, LoadForRef, GetRef, LoadCurBuf, LogReclaimed, LogFast, LogSlow, StoreEvent,
         TryIncEpochFails, LoseEpoch, TryIncEpochWins, WinEpoch, ReclaimOne, ReclaimFrom,
         UpdateAssertFails, UpdateEvents, UpdateClose, EndRun, ExitThread, ThreadExit, FinishThread

LEMMA AwaitedWorker ==
  ASSUME Base, NEW w \in Workers, WorkerStep(w), NEW b \in Buffers, Awaited(b),
         CountBuffer(w) => b # worker[w].buffers[worker[w].next]
  PROVE  Awaited(b)'
<1>1. BaseTypes /\ worker[w] \in WorkerType
  BY BaseTyped DEF BaseTypes
<1>2. /\ allocatedBufs' = allocatedBufs
      /\ \A v \in Workers \ {w} : worker'[v] = worker[v]
  BY <1>1 DEF WorkerStep, WaitClosed, StartCounting, CountBuffer, WorkerReleases, ReturnBuffers,
     Release, ReturnToDestroyed, BaseTypes
<1>3. ASSUME Awaits(w, b)
      PROVE  Awaits(w, b)'
  <2>0. PICK i \in DOMAIN worker[w].buffers :
          /\ worker[w].buffers[i] = b
          /\ worker[w].pc = "wait" \/ (worker[w].pc = "count" /\ i >= worker[w].next)
    BY <1>3 DEF Awaits
  <2>1. /\ i \in Nat \ {0} /\ i <= Len(worker[w].buffers) /\ worker[w].next \in Nat
        /\ Len(worker[w].buffers) \in Nat
    BY <1>1, <2>0, LenProperties DEF WorkerType
  <2>2. CASE WaitClosed(w)
    <3>1. worker'[w].pc = "wait" /\ worker'[w].buffers = worker[w].buffers
      BY <1>1, <2>2 DEF WaitClosed, BaseTypes, WorkerType
    <3>2. QED
      BY <2>0, <3>1 DEF Awaits
  <2>3. CASE StartCounting(w)
    <3>1. worker'[w].pc = "count" /\ worker'[w].buffers = worker[w].buffers /\ worker'[w].next = 1
      BY <1>1, <2>3 DEF StartCounting, BaseTypes, WorkerType
    <3>2. i >= 1
      BY <2>1
    <3>3. QED
      BY <2>0, <3>1, <3>2 DEF Awaits
  <2>4. CASE CountBuffer(w)
    <3>1. /\ worker'[w].pc = "count" /\ worker'[w].buffers = worker[w].buffers
          /\ worker'[w].next = worker[w].next + 1 /\ worker[w].pc = "count"
      BY <1>1, <2>4 DEF CountBuffer, BaseTypes, WorkerType
    <3>2. i # worker[w].next
      BY <2>0, <2>4
    <3>3. i >= worker[w].next + 1
      BY <2>0, <2>1, <3>1, <3>2
    <3>4. QED
      BY <2>0, <3>1, <3>3 DEF Awaits
  <2>5. ~ReturnBuffers(w) /\ ~ReturnToDestroyed(w)
    BY <2>0, <2>1 DEF ReturnBuffers, ReturnToDestroyed
  <2>6. QED
    BY <2>2, <2>3, <2>4, <2>5 DEF WorkerStep, WorkerReleases
<1>4. ASSUME NEW v \in Workers, Awaits(v, b)
      PROVE  Awaits(v, b)'
  <2>1. v # w => Awaits(v, b)'
    BY <1>2, <1>4 DEF Awaits
  <2>2. QED
    BY <1>3, <1>4, <2>1
<1>5. QED
  BY <1>2, <1>4 DEF Awaited, InSeq, Managers

\* ... and not what is in it.
LEMMA UsedStays ==
  ASSUME BaseTypes, BaseTypes', NEW b \in Buffers, NEW i \in Used(b),
         eventBuf'[b].events >= eventBuf[b].events,
         \A t \in Threads : ref[t].logBuf = b =>
           \/ ref'[t].logBuf = b /\ ref'[t].events >= ref[t].events
           \/ eventBuf'[b].events >= ref[t].events
  PROVE  i \in Used(b)'
<1>1. i \in Slots /\ i \in Nat
  BY DEF Used, Slots
<1>2. /\ eventBuf[b].events \in Nat /\ eventBuf'[b].events \in Nat
      /\ \A t \in Threads : ref[t].events \in Nat /\ ref'[t].events \in Nat
  BY DEF BaseTypes
<1>3. CASE i < eventBuf[b].events
  <2>1. i < eventBuf'[b].events
    BY <1>1, <1>2, <1>3
  <2>2. QED
    BY <1>1, <2>1 DEF Used
<1>4. ASSUME NEW t \in Threads, ref[t].logBuf = b, i < ref[t].events
      PROVE  i \in Used(b)'
  <2>1. \/ ref'[t].logBuf = b /\ i < ref'[t].events
        \/ i < eventBuf'[b].events
    BY <1>1, <1>2, <1>4
  <2>2. QED
    BY <1>1, <2>1 DEF Used
<1>5. QED
  BY <1>3, <1>4 DEF Used

LEMMA SlotsKept ==
  ASSUME Base, Base', NEW t \in Threads, ThreadStep(t), NEW b \in Buffers, Awaited(b),
         NEW i \in Used(b)
  PROVE  i \in Used(b)' /\ eventBuf'[b].buf[i] = eventBuf[b].buf[i]
<1>0. BaseTypes'
  BY BaseTyped, PTL
<1>1. BaseTypes /\ TypeInv
  BY BaseTyped DEF Base, OwnerInvAll
<1>N. /\ \A c \in Buffers : eventBuf[c].events \in Nat
      /\ \A s \in Threads : ref[s].events \in Nat
  BY <1>1 DEF BaseTypes
<1>2. ASSUME eventBuf'[b].buf = eventBuf[b].buf, eventBuf'[b].events = eventBuf[b].events,
             \A s \in Threads : ref[s].logBuf = b =>
               ref'[s] = ref[s] \/ eventBuf[b].events = ref[s].events
      PROVE  i \in Used(b)' /\ eventBuf'[b].buf[i] = eventBuf[b].buf[i]
  <2>1. eventBuf'[b].events >= eventBuf[b].events
    BY <1>1, <1>2 DEF BaseTypes
  <2>2. \A s \in Threads : ref[s].logBuf = b =>
          \/ ref'[s].logBuf = b /\ ref'[s].events >= ref[s].events
          \/ eventBuf'[b].events >= ref[s].events
    BY <1>2, <1>N
  <2>3. QED
    BY <1>1, <1>2, <2>1, <2>2, <1>0, UsedStays
<1>3. CASE LogReclaimed(t) \/ LogFast(t) \/ LogSlow(t)
  <2>1. /\ StoreEvent(t)
        /\ \A s \in Threads \ {t} : ref'[s] = ref[s]
        /\ ref'[t].logBuf = ref[t].logBuf
        /\ ref'[t].events \in {ref[t].events, ref[t].events + 1}
    BY <1>1, <1>3 DEF LogReclaimed, LogFast, LogSlow, BaseTypes, RefType
  <2>2. /\ ref[t].events \notin Used(ref[t].logBuf) /\ ref[t].logBuf \in Buffers
        /\ ref[t].events \in Slots
    BY <1>3, StoreIsNew DEF Base
  <2>3. \A c \in Buffers \ {ref[t].logBuf} : eventBuf'[c] = eventBuf[c]
    BY <1>1, <2>1 DEF StoreEvent, BaseTypes
  <2>4. i \in Slots
    BY DEF Used
  <2>5. eventBuf'[b].events = eventBuf[b].events /\ eventBuf'[b].buf[i] = eventBuf[b].buf[i]
    <3>1. CASE b # ref[t].logBuf
      BY <2>3, <3>1
    <3>2. CASE b = ref[t].logBuf
      <4>1. i # ref[t].events
        BY <2>2, <3>2
      <4>2. QED
        BY <1>1, <2>1, <2>2, <2>4, <3>2, <4>1 DEF StoreEvent, StoreAt, Record, BaseTypes, BufferType
    <3>3. QED
      BY <3>1, <3>2
  <2>6. \A s \in Threads : ref'[s].logBuf = ref[s].logBuf /\ ref'[s].events >= ref[s].events
    BY <2>1, <1>N
  <2>7. eventBuf'[b].events >= eventBuf[b].events
    BY <1>1, <2>5 DEF BaseTypes
  <2>8. QED
    BY <1>1, <2>5, <2>6, <2>7, <1>0, UsedStays
<1>4. CASE CallAllocBuffer(t)
  <2>1. PICK buf \in Buffers : AllocBuffer(t, buf)
    BY <1>4 DEF CallAllocBuffer
  <2>2. b # buf
    BY <2>1, AwaitedNotTaken
  <2>3. eventBuf'[b] = eventBuf[b] /\ ref' = ref
    BY <1>1, <1>4, <2>1, <2>2, TakenBuffer DEF CallAllocBuffer
  <2>4. QED
    BY <1>2, <2>3
<1>5. CASE GetRef(t)
  <2>1. ref[t].logBuf # b
    BY <1>1, <1>5 DEF GetRef, At, Base, FullInv, EndingOK, BaseTypes
  <2>2. eventBuf' = eventBuf /\ \A s \in Threads \ {t} : ref'[s] = ref[s]
    BY <1>1, <1>5 DEF GetRef, BaseTypes
  <2>3. QED
    BY <1>2, <2>1, <2>2
<1>6. CASE UpdateEvents(t) \/ EndRun(t)
  <2>1. /\ eventBuf'[b].buf = eventBuf[b].buf
        /\ \/ eventBuf'[b].events = eventBuf[b].events
           \/ b = ref[t].logBuf /\ eventBuf'[b].events = ref[t].events
    BY <1>1, <1>6, EventsWritten
  <2>2. \A s \in Threads \ {t} : ref'[s] = ref[s]
    BY <1>1, <1>6 DEF UpdateEvents, EndRun, BaseTypes
  <2>3. ref[t].logBuf = b => eventBuf[b].events <= ref[t].events /\ eventBuf'[b].events = ref[t].events
    <3>1. ASSUME ref[t].logBuf = b PROVE eventBuf'[b].events = ref[t].events
      <4>1. CASE UpdateEvents(t)
        BY <1>1, <3>1, <4>1 DEF UpdateEvents, BaseTypes, BufferType
      <4>2. CASE EndRun(t)
        BY <1>1, <3>1, <4>2 DEF EndRun, WriteBack, BaseTypes, BufferType
      <4>3. QED
        BY <1>6, <4>1, <4>2
    <3>2. QED
      BY <1>1, <3>1 DEF Base, CountInv, CountersInv, CountersOK, BaseTypes
  <2>4. eventBuf'[b].events >= eventBuf[b].events
    BY <1>1, <2>1, <2>3 DEF BaseTypes
  <2>5. \A s \in Threads : ref[s].logBuf = b =>
          \/ ref'[s].logBuf = b /\ ref'[s].events >= ref[s].events
          \/ eventBuf'[b].events >= ref[s].events
    BY <2>2, <2>3, <1>N
  <2>6. QED
    BY <1>1, <2>1, <2>4, <2>5, <1>0, UsedStays
<1>7. CASE UpdateClose(t)
  <2>1. /\ eventBuf'[b].buf = eventBuf[b].buf /\ eventBuf'[b].events = eventBuf[b].events
        /\ \A s \in Threads \ {t} : ref'[s] = ref[s]
    <3>1. ref \in [ Threads -> RefType ] /\ eventBuf \in [ Buffers -> BufferType ]
      BY <1>1 DEF BaseTypes
    <3>2. eventBuf'[b].buf = eventBuf[b].buf /\ eventBuf'[b].events = eventBuf[b].events
      BY <1>7, <3>1 DEF UpdateClose, BufferType
    <3>3. \A s \in Threads \ {t} : ref'[s] = ref[s]
      BY <1>7, <3>1 DEF UpdateClose
    <3>4. QED
      BY <3>2, <3>3
  <2>2. ref[t].logBuf = b => eventBuf[b].events = ref[t].events
    BY <1>7 DEF UpdateClose, At, Base, FullInv, EndingOK
  <2>3. QED
    BY <1>2, <2>1, <2>2
<1>8. CASE ExitThread(t)
  <2>1. eventBuf'[b].buf = eventBuf[b].buf /\ eventBuf'[b].events = eventBuf[b].events /\ ref' = ref
    BY <1>1, <1>8 DEF ExitThread, ThreadExit, BaseTypes, BufferType
  <2>2. QED
    BY <1>2, <2>1
<1>9. CASE UNCHANGED <<eventBuf, ref>>
  BY <1>2, <1>9
<1>10. QED
  BY <1>3, <1>4, <1>5, <1>6, <1>7, <1>8, <1>9
     DEF ThreadStep, LoadForRef, LoadCurBuf, TryIncEpochFails, TryIncEpochWins, ReclaimOne,
         StartWorker, TooManyWorkers, UpdateAssertFails, FinishThread

-----------------------------------------------------------------------------
(***************************************************************************)
(* The events of a thread are at the end of its buffer.                    *)
(***************************************************************************)
LEMMA TailStays ==
  ASSUME NEW t \in Threads, TailOK(t), Executed(t)' = Executed(t),
         OwnBuf(t)' = OwnBuf(t), OwnCount(t)' = OwnCount(t),
         OwnBuf(t) # Null => eventBuf'[OwnBuf(t)].buf = eventBuf[OwnBuf(t)].buf
  PROVE  TailOK(t)'
<1> SUFFICES ASSUME OwnBuf(t)' # Null
             PROVE  /\ OwnCount(t)' <= Executed(t)'
                    /\ \A i \in Slots : i < OwnCount(t)' =>
                         eventBuf'[OwnBuf(t)'].buf[i] = <<t, Executed(t)' - OwnCount(t)' + i>>
  BY DEF TailOK
<1>1. QED
  BY DEF TailOK

LEMMA ExecutedSame ==
  ASSUME Base, NEW t \in Threads, UNCHANGED <<iter, idx>> \/ (\E s \in Threads : EndRun(s))
  PROVE  Executed(t)' = Executed(t)
<1>1. BaseTypes /\ Length \in Nat
  BY BaseTyped, FastLogAssumption
<1>2. CASE iter'[t] = iter[t] /\ idx'[t] = idx[t]
  BY <1>2 DEF Executed
<1>3. CASE EndRun(t)
  <2>1. iter'[t] = iter[t] + 1 /\ idx'[t] = 0 /\ idx[t] >= Length
    BY <1>1, <1>3 DEF EndRun, BaseTypes
  <2>2. idx[t] <= Length /\ idx[t] \in Nat /\ iter[t] \in Nat
    BY <1>1 DEF Base, CountInv, CountersInv, CountersOK, BaseTypes
  <2>3. (iter[t] + 1) * Length + 0 = iter[t] * Length + Length
    BY <1>1, <2>2
  <2>4. idx[t] = Length
    BY <1>1, <2>1, <2>2
  <2>5. Executed(t)' = (iter[t] + 1) * Length + 0
    BY <2>1 DEF Executed
  <2>6. QED
    BY <2>3, <2>4, <2>5 DEF Executed
<1>4. ASSUME NEW s \in Threads, EndRun(s), s # t
      PROVE  iter'[t] = iter[t] /\ idx'[t] = idx[t]
  BY <1>1, <1>4 DEF EndRun, BaseTypes
<1>5. QED
  BY <1>2, <1>3, <1>4

\* The event a thread logs is the one it executes next, and it is counted.
LEMMA StoreSteps ==
  ASSUME Base, NEW t \in Threads, LogReclaimed(t) \/ LogFast(t) \/ LogSlow(t)
  PROVE  LET buf == ref[t].logBuf
             k   == ref[t].events
         IN  /\ buf \in Buffers /\ k \in Slots
             /\ NextEvent(t) = <<t, Executed(t)>>
             /\ \A s \in Threads : Executed(s)' = IF s = t THEN Executed(t) + 1 ELSE Executed(s)
             /\ ref'[t].logBuf = buf /\ ref'[t].events = k + 1
             /\ eventBuf'[buf].buf[k] = NextEvent(t)
             /\ \A i \in Slots : i # k => eventBuf'[buf].buf[i] = eventBuf[buf].buf[i]
             /\ allocatedBufs' = allocatedBufs /\ worker' = worker /\ processed' = processed
<1>1. BaseTypes
  BY BaseTyped
<1>2. StoreEvent(t) /\ pc[t] = "store"
  BY DEF LogReclaimed, LogFast, LogSlow, StoreEvent, At
<1>3. ref[t].logBuf \in Buffers /\ ref[t].events \in Slots
  BY StoreIsNew DEF Base
<1>4. curBuf[t] # Null
  BY <1>2 DEF Base, OwnerInvAll, WriterInv, WriterOK
<1>5. LogFast(t) \/ LogSlow(t)
  BY <1>4 DEF LogReclaimed
<1>6. ref'[t].logBuf = ref[t].logBuf /\ ref'[t].events = ref[t].events + 1
  BY <1>1, <1>5 DEF LogFast, LogSlow, BaseTypes, RefType
<1>7. iter' = iter /\ idx' = [ idx EXCEPT ![t] = @ + 1 ]
      /\ allocatedBufs' = allocatedBufs /\ worker' = worker /\ processed' = processed
  BY <1>2 DEF StoreEvent
<1>8. \A s \in Threads : Executed(s)' = IF s = t THEN Executed(t) + 1 ELSE Executed(s)
  <2>1. Executed(t)' = Executed(t) + 1
    <3>1. iter[t] * Length \in Nat /\ idx[t] \in Nat /\ idx'[t] = idx[t] + 1
      BY <1>1, <1>7 DEF BaseTypes
    <3>2. Executed(t)' = iter[t] * Length + (idx[t] + 1)
      BY <1>7, <3>1 DEF Executed
    <3>3. QED
      BY <3>1, <3>2 DEF Executed
  <2>2. ASSUME NEW s \in Threads \ {t}
        PROVE  Executed(s)' = Executed(s)
    BY <1>1, <1>7 DEF Executed, BaseTypes
  <2>3. QED
    BY <2>1, <2>2
<1>9. eventBuf'[ref[t].logBuf]
        = Record(StoreAt(eventBuf[ref[t].logBuf], ref[t].events, NextEvent(t)), NextEvent(t))
  BY <1>1, <1>2, <1>3 DEF StoreEvent, BaseTypes
<1>10. /\ eventBuf'[ref[t].logBuf].buf[ref[t].events] = NextEvent(t)
       /\ \A i \in Slots : i # ref[t].events =>
            eventBuf'[ref[t].logBuf].buf[i] = eventBuf[ref[t].logBuf].buf[i]
  BY <1>1, <1>3, <1>9 DEF StoreAt, Record, BaseTypes, BufferType
<1>11. NextEvent(t) = <<t, Executed(t)>>
  BY DEF NextEvent, Executed
<1>12. QED
  BY <1>3, <1>6, <1>7, <1>8, <1>10, <1>11

LEMMA TailThread ==
  ASSUME Base, NEW t \in Threads, TailOK(t), ThreadStep(t)
  PROVE  TailOK(t)'
<1>1. BaseTypes /\ TypeInv /\ EpochInv /\ WriterOK(t) /\ ref[t].logBuf \in Buffers \cup {Null}
      /\ Executed(t) \in Nat /\ ref[t].events \in Nat /\ ref[t] \in RefType
      /\ \A b \in Buffers : eventBuf[b] \in BufferType
  BY BaseTyped DEF Base, OwnerInvAll, WriterInv, BaseTypes
<1>2. CASE LogReclaimed(t) \/ LogFast(t) \/ LogSlow(t)
  <2> DEFINE k == ref[t].events
             b == ref[t].logBuf
  <2>1. /\ b \in Buffers /\ k \in Slots /\ k \in Nat /\ b # Null
        /\ Executed(t)' = Executed(t) + 1
        /\ ref'[t].logBuf = b /\ ref'[t].events = k + 1
        /\ eventBuf'[b].buf[k] = <<t, Executed(t)>>
        /\ \A i \in Slots : i # k => eventBuf'[b].buf[i] = eventBuf[b].buf[i]
    BY <1>1, <1>2, StoreSteps DEF BaseTypes
  <2>2. /\ k <= Executed(t)
        /\ \A i \in Slots : i < k => eventBuf[b].buf[i] = <<t, Executed(t) - k + i>>
    BY <2>1 DEF TailOK, OwnBuf, OwnCount
  <2> HIDE DEF k, b
  <2>3. k + 1 <= Executed(t) + 1
    BY <1>1, <2>1, <2>2
  <2>4. ASSUME NEW i \in Slots, i < k + 1
        PROVE  eventBuf'[b].buf[i] = <<t, (Executed(t) + 1) - (k + 1) + i>>
    <3>1. i \in Nat
      BY DEF Slots
    <3>2. CASE i = k
      <4>1. (Executed(t) + 1) - (k + 1) + i = Executed(t)
        BY <1>1, <2>1, <3>2
      <4>2. QED
        BY <2>1, <3>2, <4>1
    <3>3. CASE i # k
      <4>1. i < k
        BY <2>1, <2>4, <3>1, <3>3
      <4>2. (Executed(t) + 1) - (k + 1) + i = Executed(t) - k + i
        BY <1>1, <2>1, <3>1
      <4>3. QED
        BY <2>1, <2>2, <3>3, <4>1, <4>2
    <3>4. QED
      BY <3>2, <3>3
  <2>5. OwnBuf(t)' = b /\ OwnCount(t)' = k + 1
    BY <2>1 DEF OwnBuf, OwnCount
  <2>6. QED
    BY <2>1, <2>3, <2>4, <2>5 DEF TailOK
<1>3. CASE CallAllocBuffer(t)
  <2>1. PICK buf \in Buffers : AllocBuffer(t, buf)
    BY <1>3 DEF CallAllocBuffer
  <2>2. /\ eventBuf'[buf].events = 0 /\ logBuffer' = [ logBuffer EXCEPT ![t] = buf ] /\ ref' = ref
        /\ UNCHANGED <<iter, idx>>
    BY <1>1, <1>3, <2>1, TakenBuffer DEF CallAllocBuffer
  <2>3. \A b \in Buffers : eventBuf'[b].buf = eventBuf[b].buf
    <3>1. eventBuf' = [ eventBuf EXCEPT
            ![buf] = Assign(Reset(@), thrContext[t].threadId, epoch[ManagerOf(t)]) ]
      BY <2>1 DEF AllocBuffer, TakeBuffer
    <3>2. QED
      BY <1>1, <3>1 DEF Assign, Reset, BufferType, BaseTypes
  <2>4. Executed(t)' = Executed(t)
    BY <2>2, ExecutedSame
  <2>5. CASE ref[t].logBuf = Null
    <3>1. OwnCount(t)' = 0
      BY <1>1, <2>2, <2>5 DEF OwnCount, BaseTypes
    <3>2. \A i \in Slots : ~(i < 0)
      BY DEF Slots
    <3>3. 0 <= Executed(t)
      BY <1>1
    <3>4. QED
      BY <2>4, <3>1, <3>2, <3>3 DEF TailOK
  <2>6. CASE ref[t].logBuf # Null
    <3>1. OwnBuf(t)' = OwnBuf(t) /\ OwnCount(t)' = OwnCount(t) /\ OwnBuf(t) \in Buffers
      BY <1>1, <2>2, <2>6 DEF OwnBuf, OwnCount
    <3>2. QED
      BY <2>3, <2>4, <3>1, TailStays
  <2>7. QED
    BY <2>5, <2>6
<1>4. CASE GetRef(t)
  <2>1. /\ ref[t].logBuf = Null /\ curBuf[t] = logBuffer[t] /\ logBuffer[t] \in Buffers
    BY <1>1, <1>4, WriterFacts DEF GetRef, At, Base, FullInv, EndingOK
  <2>2. /\ ref'[t].logBuf = logBuffer[t] /\ ref'[t].events = eventBuf[logBuffer[t]].events
        /\ eventBuf' = eventBuf /\ UNCHANGED <<iter, idx>>
    BY <1>1, <1>4, <2>1 DEF GetRef, MakeRef, BaseTypes
  <2>3. OwnBuf(t)' = OwnBuf(t) /\ OwnCount(t)' = OwnCount(t)
    BY <1>1, <2>1, <2>2 DEF OwnBuf, OwnCount, BaseTypes
  <2>4. QED
    BY <2>2, <2>3, ExecutedSame, TailStays
<1>5. CASE UpdateClose(t)
  <2>1. ref'[t].logBuf = curBuf[t] /\ ref'[t].events = 0 /\ UNCHANGED <<iter, idx>>
    BY <1>1, <1>5 DEF UpdateClose, AttachRef, BaseTypes
  <2>2. curBuf[t] # Null
    BY <1>1, <1>5, WriterFacts DEF UpdateClose, At, BaseTypes
  <2>3. OwnCount(t)' = 0 /\ Executed(t)' = Executed(t)
    BY <2>1, <2>2, ExecutedSame DEF OwnCount
  <2>4. \A i \in Slots : ~(i < 0)
    BY DEF Slots
  <2>5. 0 <= Executed(t)
    BY <1>1
  <2>6. QED
    BY <2>3, <2>4, <2>5 DEF TailOK
<1>6. CASE EndRun(t)
  <2>1. ref[t].logBuf = logBuffer[t] /\ logBuffer[t] \in Buffers /\ logBuffer[t] # Null
    BY <1>1, <1>6, WriterFacts DEF EndRun, At, BaseTypes
  <2>2. /\ ref'[t].logBuf = Null /\ logBuffer' = logBuffer
        /\ eventBuf'[logBuffer[t]] = WriteBack(eventBuf[logBuffer[t]], ref[t])
    BY <1>1, <1>6, <2>1 DEF EndRun, NoRef, AttachRef, BaseTypes
  <2>3. /\ eventBuf'[logBuffer[t]].events = ref[t].events
        /\ eventBuf'[logBuffer[t]].buf = eventBuf[logBuffer[t]].buf
    BY <1>1, <2>1, <2>2 DEF WriteBack, BufferType
  <2>4. OwnBuf(t) = logBuffer[t] /\ OwnBuf(t)' = OwnBuf(t) /\ OwnCount(t)' = OwnCount(t)
    BY <2>1, <2>2, <2>3 DEF OwnBuf, OwnCount
  <2>5. Executed(t)' = Executed(t)
    BY <1>6, ExecutedSame
  <2>6. QED
    BY <2>3, <2>4, <2>5, TailStays
<1>7. CASE UpdateEvents(t)
  <2>1. ref[t].logBuf # Null /\ ref' = ref /\ UNCHANGED <<iter, idx>>
    BY <1>1, <1>7 DEF UpdateEvents, At, WriterOK
  <2>2. \A b \in Buffers : eventBuf'[b].buf = eventBuf[b].buf
    BY <1>1, <1>7, EventsWritten
  <2>3. OwnBuf(t)' = OwnBuf(t) /\ OwnCount(t)' = OwnCount(t) /\ OwnBuf(t) \in Buffers
    BY <1>1, <2>1 DEF OwnBuf, OwnCount
  <2>4. QED
    BY <2>1, <2>2, <2>3, ExecutedSame, TailStays
<1>8. CASE ExitThread(t)
  <2>1. /\ ref' = ref /\ logBuffer' = logBuffer /\ UNCHANGED <<iter, idx>>
        /\ \A b \in Buffers : /\ eventBuf'[b].buf = eventBuf[b].buf
                              /\ eventBuf'[b].events = eventBuf[b].events
    BY <1>1, <1>8 DEF ExitThread, ThreadExit, BaseTypes, BufferType
  <2>2. OwnBuf(t)' = OwnBuf(t) /\ OwnBuf(t) \in Buffers \cup {Null}
    BY <1>1, <2>1 DEF OwnBuf, BaseTypes
  <2>3. CASE OwnBuf(t) = Null
    BY <2>2, <2>3 DEF TailOK
  <2>4. CASE OwnBuf(t) # Null
    <3>1. OwnCount(t)' = OwnCount(t)
      BY <1>1, <2>1, <2>2, <2>4 DEF OwnBuf, OwnCount, BaseTypes
    <3>2. QED
      BY <2>1, <2>2, <3>1, ExecutedSame, TailStays
  <2>5. QED
    BY <2>3, <2>4
<1>9. CASE ReclaimOne(t)
  <2>1. ref[t].logBuf # Null /\ ref' = ref /\ eventBuf' = eventBuf /\ UNCHANGED <<iter, idx>>
    BY <1>1, <1>9 DEF ReclaimOne, At, WriterOK
  <2>2. OwnBuf(t)' = OwnBuf(t) /\ OwnCount(t)' = OwnCount(t)
    BY <2>1 DEF OwnBuf, OwnCount
  <2>3. QED
    BY <2>1, <2>2, ExecutedSame, TailStays
<1>10. CASE UNCHANGED <<eventBuf, ref, logBuffer, iter, idx>>
  <2>1. OwnBuf(t)' = OwnBuf(t) /\ OwnCount(t)' = OwnCount(t)
    BY <1>10 DEF OwnBuf, OwnCount
  <2>2. QED
    BY <1>10, <2>1, ExecutedSame, TailStays
<1>11. QED
  BY <1>2, <1>3, <1>4, <1>5, <1>6, <1>7, <1>8, <1>9, <1>10
     DEF ThreadStep, LoadForRef, LoadCurBuf, TryIncEpochFails, LoseEpoch, TryIncEpochWins, WinEpoch,
         StartWorker, HandOver, EndEpoch, TooManyWorkers, SkipEpoch, UpdateAssertFails, FinishThread

LEMMA TailOthers ==
  ASSUME Base, NEW s \in Threads, ThreadStep(s), NEW t \in Threads \ {s}, TailOK(t)
  PROVE  TailOK(t)'
<1>1. BaseTypes /\ ThreadLocalManager /\ TypeInv /\ PoolInv /\ EpochInv /\ PlacedInv
  BY BaseTyped DEF Base, OwnerInvAll
<1>2. /\ ref'[t] = ref[t] /\ logBuffer'[t] = logBuffer[t]
      /\ \A b \in Buffers : Placed(t, b) => eventBuf'[b] = eventBuf[b]
  BY <1>1, OthersLeaveAlone
<1>3. iter'[t] = iter[t] /\ idx'[t] = idx[t]
  BY <1>1 DEF BaseTypes, ThreadStep, LoadForRef, CallAllocBuffer, GetRef, LoadCurBuf, LogReclaimed,
     LogFast, LogSlow, StoreEvent, TryIncEpochFails, TryIncEpochWins, ReclaimOne, StartWorker,
     TooManyWorkers, UpdateAssertFails, UpdateEvents, UpdateClose, EndRun, ExitThread, FinishThread
<1>4. Executed(t)' = Executed(t)
  BY <1>3 DEF Executed
<1>5. OwnBuf(t) \in Buffers \cup {Null} /\ OwnBuf(t)' = OwnBuf(t)
  BY <1>1, <1>2 DEF OwnBuf, BaseTypes
<1>6. OwnBuf(t) # Null => eventBuf'[OwnBuf(t)] = eventBuf[OwnBuf(t)]
  <2>1. OwnBuf(t) \in Addresses(t) /\ ManagerOf(t) = t
    BY <1>1 DEF OwnBuf, Addresses, BaseTypes
  <2>2. OwnBuf(t) # Null => Placed(t, OwnBuf(t))
    BY <1>1, <2>1 DEF PlacedInv, Addresses
  <2>3. QED
    BY <1>2, <1>5, <2>2
<1>7. OwnBuf(t) # Null => OwnCount(t)' = OwnCount(t)
  BY <1>2, <1>6 DEF OwnBuf, OwnCount
<1>8. CASE OwnBuf(t) = Null
  BY <1>5, <1>8 DEF TailOK
<1>9. CASE OwnBuf(t) # Null
  BY <1>4, <1>5, <1>6, <1>7, <1>9, TailStays
<1>10. QED
  BY <1>8, <1>9

-----------------------------------------------------------------------------
(***************************************************************************)
(* The events of a buffer are consecutive.                                 *)
(***************************************************************************)
LEMMA ChunksStay ==
  ASSUME ChunkInv, NothingNew
  PROVE  ChunkInv'
BY DEF ChunkInv, NothingNew

LEMMA ChunksStore ==
  ASSUME Base, ChunkInv, NEW t \in Threads, TailOK(t),
         LogReclaimed(t) \/ LogFast(t) \/ LogSlow(t)
  PROVE  ChunkInv'
<1> DEFINE buf == ref[t].logBuf
           k   == ref[t].events
           n   == Executed(t)
           Old(b, i) == Live(b) /\ i \in Used(b) /\ eventBuf'[b].buf[i] = eventBuf[b].buf[i]
<1>1. /\ \A b \in Buffers : Live(b)' => \A i \in Used(b)' : (b = buf /\ i = k) \/ Old(b, i)
      /\ eventBuf'[buf].buf[k] = <<t, n>> /\ buf \in Buffers /\ k \in Nat /\ n \in Nat
      /\ k \notin Used(buf) /\ buf # Null
  BY StoreIsNew, StoreSteps, BaseTyped DEF Base, BaseTypes
<1>2. ASSUME NEW i \in Used(buf)
      PROVE  i \in Int /\ eventBuf[buf].buf[i] = <<t, n - k + i>>
  <2>1. i \in Slots /\ i < k
    BY <1>1, UsedIs DEF UsedFirst
  <2>2. QED
    BY <1>1, <2>1 DEF TailOK, OwnBuf, OwnCount, Slots
<1>3. ASSUME NEW b \in Buffers, Live(b)', NEW i \in Used(b)', NEW j \in Used(b)'
      PROVE  eventBuf'[b].buf[j]
               = <<eventBuf'[b].buf[i][1], eventBuf'[b].buf[i][2] + (j - i)>>
  <2>1. (b = buf /\ i = k) \/ Old(b, i)
    BY <1>1, <1>3
  <2>2. (b = buf /\ j = k) \/ Old(b, j)
    BY <1>1, <1>3
  <2>3. CASE Old(b, i) /\ Old(b, j)
    BY <2>3 DEF ChunkInv
  <2>4. CASE b = buf
    <3>1. i \in Int /\ eventBuf'[buf].buf[i] = <<t, n - k + i>>
      <4>1. CASE i = k
        <5>1. k \in Int /\ n = n - k + k
          BY <1>1
        <5>2. QED
          BY <1>1, <4>1, <5>1
      <4>2. CASE Old(b, i)
        BY <1>2, <2>4, <4>2
      <4>3. QED
        BY <2>1, <4>1, <4>2
    <3>2. j \in Int /\ eventBuf'[buf].buf[j] = <<t, n - k + j>>
      <4>1. CASE j = k
        <5>1. k \in Int /\ n = n - k + k
          BY <1>1
        <5>2. QED
          BY <1>1, <4>1, <5>1
      <4>2. CASE Old(b, j)
        BY <1>2, <2>4, <4>2
      <4>3. QED
        BY <2>2, <4>1, <4>2
    <3> HIDE DEF n, k, buf
    <3>3. n - k + j = (n - k + i) + (j - i)
      BY <1>1, <3>1, <3>2
    <3>4. QED
      BY <2>4, <3>1, <3>2, <3>3
  <2>5. QED
    BY <2>1, <2>2, <2>3, <2>4
<1>4. QED
  BY <1>3 DEF ChunkInv

-----------------------------------------------------------------------------
(***************************************************************************)
(* What is closed, and what is referred to.                                *)
(***************************************************************************)
LEMMA ClosedStays ==
  ASSUME Base, NEW t \in Threads, ThreadStep(t), NEW b \in Buffers, eventBuf[b].closed,
         \E w \in Workers : worker[w].pc \in Owning /\ InSeq(b, worker[w].buffers)
  PROVE  eventBuf'[b].closed
<1>1. BaseTypes /\ TypeInv /\ eventBuf[b] \in BufferType
  BY BaseTyped DEF Base, OwnerInvAll, BaseTypes
<1>2. CASE CallAllocBuffer(t)
  <2>1. PICK buf \in Buffers : AllocBuffer(t, buf)
    BY <1>2 DEF CallAllocBuffer
  <2>2. b # buf
    BY <2>1, AwaitedNotTaken
  <2>3. QED
    BY <1>1, <2>1, <2>2, TakenBuffer
<1>3. CASE StoreEvent(t)
  BY <1>1, <1>3 DEF StoreEvent, StoreAt, Record, BaseTypes, BufferType
<1>4. CASE UpdateEvents(t) \/ UpdateClose(t)
  <2>1. CASE UpdateEvents(t)
    BY <1>1, <2>1 DEF UpdateEvents, BaseTypes, BufferType
  <2>2. CASE UpdateClose(t)
    <3>1. eventBuf'[b] = [ eventBuf[b] EXCEPT !.closed = TRUE ] \/ eventBuf'[b] = eventBuf[b]
      BY <1>1, <2>2 DEF UpdateClose, BaseTypes
    <3>2. QED
      BY <1>1, <3>1 DEF BufferType
  <2>3. QED
    BY <1>4, <2>1, <2>2
<1>5. CASE EndRun(t)
  BY <1>1, <1>5 DEF EndRun, WriteBack, BaseTypes, BufferType
<1>6. CASE ExitThread(t)
  BY <1>1, <1>6 DEF ExitThread, ThreadExit, BaseTypes, BufferType
<1>7. CASE eventBuf' = eventBuf
  BY <1>7
<1>8. QED
  BY <1>2, <1>3, <1>4, <1>5, <1>6, <1>7
     DEF ThreadStep, LoadForRef, GetRef, LoadCurBuf, LogReclaimed, LogFast, LogSlow,
         TryIncEpochFails, TryIncEpochWins, ReclaimOne, StartWorker, TooManyWorkers,
         UpdateAssertFails, FinishThread

LEMMA FoundClosedThread ==
  ASSUME Base, NEW t \in Threads, ThreadStep(t), NEW w \in Workers, FoundClosed(w)
  PROVE  FoundClosed(w)'
<1>1. BaseTypes /\ worker[w] \in WorkerType
  BY BaseTyped DEF BaseTypes
<1>2. CASE worker'[w] = worker[w]
  <2> SUFFICES ASSUME NEW i \in DOMAIN worker[w].buffers,
                      (worker[w].pc = "wait" /\ i < worker[w].next) \/ worker[w].pc = "count"
               PROVE  eventBuf'[worker[w].buffers[i]].closed
    BY <1>2 DEF FoundClosed
  <2> DEFINE b == worker[w].buffers[i]
  <2>1. b \in Buffers
    BY <1>1, ElementOfSeq, LenProperties DEF WorkerType
  <2>2. eventBuf[b].closed
    BY DEF FoundClosed
  <2>3. worker[w].pc \in Owning /\ InSeq(b, worker[w].buffers)
    BY DEF Owning, InSeq
  <2>4. QED
    BY <2>1, <2>2, <2>3, ClosedStays
<1>3. CASE worker'[w] # worker[w]
  <2>1. StartWorker(t)
    BY <1>3 DEF ThreadStep, LoadForRef, CallAllocBuffer, GetRef, LoadCurBuf, LogReclaimed, LogFast,
       LogSlow, StoreEvent, TryIncEpochFails, TryIncEpochWins, ReclaimOne, TooManyWorkers,
       UpdateAssertFails, UpdateEvents, UpdateClose, EndRun, ExitThread, FinishThread
  <2>2. /\ worker'[w].pc = "wait" /\ worker'[w].next = 1
        /\ worker'[w].buffers = allocatedBufs[t]
    BY <1>1, <1>3, <2>1 DEF StartWorker, Spawn, IdleWorker, BaseTypes
  <2>3. \A i \in DOMAIN allocatedBufs[t] : ~(i < 1)
    BY <1>1, LenProperties DEF BaseTypes
  <2>4. QED
    BY <2>2, <2>3 DEF FoundClosed
<1>4. QED
  BY <1>2, <1>3

LEMMA FoundClosedWorker ==
  ASSUME Base, NEW v \in Workers, WorkerStep(v), NEW w \in Workers, FoundClosed(w)
  PROVE  FoundClosed(w)'
<1>1. BaseTypes /\ worker[w] \in WorkerType /\ eventBuf' = eventBuf
  BY BaseTyped DEF BaseTypes, WorkerStep, WaitClosed, StartCounting, CountBuffer, WorkerReleases,
     ReturnBuffers, ReturnToDestroyed
<1>2. CASE w # v
  <2>1. worker'[w] = worker[w]
    BY <1>1, <1>2 DEF BaseTypes, WorkerStep, WaitClosed, StartCounting, CountBuffer, WorkerReleases,
       ReturnBuffers, ReturnToDestroyed
  <2>2. QED
    BY <1>1, <2>1 DEF FoundClosed
<1>3. CASE w = v
  <2>0. /\ worker[w].next \in Nat /\ \A i \in DOMAIN worker[w].buffers : i \in Nat
        /\ \A i \in DOMAIN worker[w].buffers : i <= Len(worker[w].buffers)
        /\ Len(worker[w].buffers) \in Nat
    BY <1>1, LenProperties DEF WorkerType
  <2>1. CASE WaitClosed(w)
    <3>1. /\ worker'[w].pc = "wait" /\ worker'[w].buffers = worker[w].buffers
          /\ worker'[w].next = worker[w].next + 1 /\ worker[w].pc = "wait"
          /\ eventBuf[worker[w].buffers[worker[w].next]].closed
      BY <1>1, <2>1 DEF WaitClosed, BaseTypes, WorkerType
    <3>2. ASSUME NEW i \in DOMAIN worker[w].buffers, i < worker[w].next + 1
          PROVE  eventBuf[worker[w].buffers[i]].closed
      <4>1. i = worker[w].next \/ i < worker[w].next
        BY <2>0, <3>2
      <4>2. QED
        BY <3>1, <4>1 DEF FoundClosed
    <3>3. QED
      BY <1>1, <3>1, <3>2 DEF FoundClosed
  <2>2. CASE StartCounting(w)
    <3>1. /\ worker'[w].pc = "count" /\ worker'[w].buffers = worker[w].buffers
          /\ worker[w].next > Len(worker[w].buffers) /\ worker[w].pc = "wait"
      BY <1>1, <2>2 DEF StartCounting, BaseTypes, WorkerType
    <3>2. \A i \in DOMAIN worker[w].buffers : i < worker[w].next
      BY <2>0, <3>1
    <3>3. QED
      BY <1>1, <3>1, <3>2 DEF FoundClosed
  <2>3. CASE CountBuffer(w)
    <3>1. worker'[w].pc = "count" /\ worker'[w].buffers = worker[w].buffers /\ worker[w].pc = "count"
      BY <1>1, <2>3 DEF CountBuffer, BaseTypes, WorkerType
    <3>2. QED
      BY <1>1, <3>1 DEF FoundClosed
  <2>4. CASE ReturnBuffers(w) \/ ReturnToDestroyed(w)
    <3>1. worker'[w].pc \in {"done", "lost"}
      BY <1>1, <2>4 DEF ReturnBuffers, ReturnToDestroyed, BaseTypes, WorkerType
    <3>2. QED
      BY <3>1 DEF FoundClosed
  <2>5. QED
    BY <1>3, <2>1, <2>2, <2>3, <2>4 DEF WorkerStep, WorkerReleases
<1>4. QED
  BY <1>2, <1>3

\* Where a thread is tells that its reference is open ...
OpenWhere == \A t \in Threads : pc[t] \notin {"close", "destroy", "done"} => RefOpen(t)

LEMMA OpenFromPC == Base => OpenWhere
<1> SUFFICES ASSUME Base, NEW t \in Threads, pc[t] \notin {"close", "destroy", "done"}
             PROVE  RefOpen(t)
  BY DEF OpenWhere
<1>1. pc[t] \in PC /\ WriterOK(t) /\ EndingOK(t) /\ TypeInv /\ EpochInv
  BY BaseTyped DEF Base, OwnerInvAll, WriterInv, FullInv, BaseTypes
<1>2. CASE pc[t] \in {"idle", "alloc_ref", "make_ref"}
  BY <1>1, <1>2 DEF EndingOK, RefOpen
<1>3. CASE pc[t] \in {"run", "store", "try_inc"}
  BY <1>1, <1>3, WriterFacts DEF RefOpen
<1>4. CASE pc[t] \in {"reclaim", "alloc_update", "update"}
  BY <1>1, <1>4 DEF WriterOK, RefOpen
<1>5. QED
  BY <1>1, <1>2, <1>3, <1>4 DEF PC

\* ... and nobody closes it for the thread.
LEMMA OpenThread ==
  ASSUME Base, Base', NEW t \in Threads, ThreadStep(t), RefOpen(t)
  PROVE  RefOpen(t)'
<1>1. BaseTypes
  BY BaseTyped
<1>2. OpenWhere'
  BY OpenFromPC, PTL
<1>3. CASE pc'[t] \notin {"close", "destroy", "done"}
  BY <1>2, <1>3 DEF OpenWhere
<1>4. CASE UpdateEvents(t)
  <2>1. ref[t].logBuf \in Buffers => eventBuf'[ref[t].logBuf].closed = eventBuf[ref[t].logBuf].closed
    BY <1>1, <1>4 DEF UpdateEvents, BaseTypes, BufferType
  <2>2. ref' = ref /\ ref[t].logBuf \in Buffers \cup {Null}
    BY <1>1, <1>4 DEF UpdateEvents, BaseTypes
  <2>3. QED
    BY <2>1, <2>2 DEF RefOpen
<1>5. CASE ExitThread(t)
  <2>1. ref' = ref /\ ref[t].logBuf = Null
    BY <1>5 DEF ExitThread, At, Base, FullInv, EndingOK
  <2>2. QED
    BY <2>1 DEF RefOpen
<1>6. CASE FinishThread(t)
  BY <1>6 DEF FinishThread, RefOpen
<1>7. CASE UpdateAssertFails(t)
  BY <1>7 DEF UpdateAssertFails, RefOpen
<1>8. CASE ~(UpdateEvents(t) \/ ExitThread(t) \/ FinishThread(t) \/ UpdateAssertFails(t))
  <2>1. pc'[t] \notin {"close", "destroy", "done"}
    BY <1>1, <1>8 DEF BaseTypes, ThreadStep, LoadForRef, CallAllocBuffer, GetRef, LoadCurBuf,
       LogReclaimed, LogFast, LogSlow, TryIncEpochFails, TryIncEpochWins, ReclaimOne, StartWorker,
       TooManyWorkers, UpdateClose, EndRun, At, Goto
  <2>2. QED
    BY <1>3, <2>1
<1>9. QED
  BY <1>4, <1>5, <1>6, <1>7, <1>8

LEMMA OpenOthers ==
  ASSUME Base, NEW s \in Threads, ThreadStep(s), NEW t \in Threads \ {s}, RefOpen(t)
  PROVE  RefOpen(t)'
<1>1. BaseTypes /\ ThreadLocalManager /\ TypeInv /\ PoolInv /\ EpochInv /\ PlacedInv
  BY BaseTyped DEF Base, OwnerInvAll
<1>2. /\ ref'[t] = ref[t]
      /\ \A b \in Buffers : Placed(t, b) => eventBuf'[b] = eventBuf[b]
  BY <1>1, OthersLeaveAlone
<1>3. ref[t].logBuf # Null => Placed(t, ref[t].logBuf) /\ ref[t].logBuf \in Buffers
  BY <1>1 DEF PlacedInv, BaseTypes
<1>4. QED
  BY <1>2, <1>3 DEF RefOpen

-----------------------------------------------------------------------------
(***************************************************************************)
(* What is logged to will be counted.                                      *)
(***************************************************************************)
LEMMA KeptThread ==
  ASSUME Base, KeptInv, NEW t \in Threads, ThreadStep(t), ~TooManyWorkers(t)
  PROVE  KeptInv'
<1>1. BaseTypes /\ ThreadLocalManager /\ TypeInv /\ PoolInv /\ EpochInv /\ PlacedInv
      /\ WriterOK(t)
  BY BaseTyped DEF Base, OwnerInvAll, WriterInv
<1>2. \A b \in Buffers : Awaited(b) => Awaited(b)'
  BY AwaitedThread
<1>3. ASSUME NEW s \in Threads, ref'[s].logBuf \in {ref[s].logBuf, Null}
      PROVE  RefKept(s)'
  <2>1. ref[s].logBuf \in Buffers \cup {Null}
    BY <1>1 DEF BaseTypes
  <2>2. CASE ref'[s].logBuf = Null
    BY <2>2 DEF RefKept
  <2>3. CASE ref'[s].logBuf # Null
    <3>1. PICK b \in Buffers : b = ref[s].logBuf /\ b = ref'[s].logBuf /\ b # Null
      BY <1>3, <2>1, <2>3
    <3>2. Awaited(b)'
      BY <1>2, <3>1 DEF KeptInv, RefKept
    <3>3. QED
      BY <3>1, <3>2 DEF RefKept, Awaited, Awaits, InSeq
  <2>4. QED
    BY <2>2, <2>3
<1>4. ASSUME NEW s \in Threads \ {t}
      PROVE  RefKept(s)'
  <2>1. ref'[s] = ref[s]
    BY <1>1, OthersLeaveAlone
  <2>2. QED
    BY <1>3, <2>1
<1>5. RefKept(t)'
  <2>1. CASE GetRef(t) \/ UpdateClose(t)
    <3>1. ref'[t].logBuf = curBuf[t] /\ pc[t] \in {"make_ref", "close"}
      BY <1>1, <2>1 DEF GetRef, UpdateClose, MakeRef, AttachRef, At, BaseTypes
    <3>2. curBuf[t] = logBuffer[t] /\ logBuffer[t] \in Buffers
      BY <1>1, <3>1, WriterFacts
    <3>3. Awaited(curBuf[t])
      BY <3>1, <3>2, OwnAllocated
    <3>4. Awaited(curBuf[t])' /\ curBuf' = curBuf
      <4>1. curBuf' = curBuf
        BY <2>1 DEF GetRef, UpdateClose
      <4>2. PICK b \in Buffers : b = curBuf[t]
        BY <3>2
      <4>3. Awaited(b)'
        BY <1>2, <3>3, <4>2
      <4>4. QED
        BY <4>1, <4>2, <4>3
    <3>5. ref'[t].logBuf = curBuf'[t]
      BY <3>1, <3>4
    <3>6. QED
      BY <3>4, <3>5 DEF RefKept
  <2>2. CASE EndRun(t)
    <3>1. ref'[t].logBuf = Null
      BY <1>1, <2>2 DEF EndRun, NoRef, AttachRef, BaseTypes
    <3>2. QED
      BY <1>3, <3>1
  <2>3. CASE LogReclaimed(t) \/ LogFast(t) \/ LogSlow(t)
    BY <1>3, <2>3, StoreSteps
  <2>4. CASE ref' = ref
    BY <1>3, <2>4
  <2>5. QED
    BY <2>1, <2>2, <2>3, <2>4
       DEF ThreadStep, LoadForRef, CallAllocBuffer, LoadCurBuf, TryIncEpochFails, TryIncEpochWins,
           ReclaimOne, StartWorker, TooManyWorkers, UpdateAssertFails, UpdateEvents, ExitThread,
           FinishThread
<1>6. QED
  BY <1>4, <1>5 DEF KeptInv

\* The buffer a worker counts is closed: nobody has a reference to it.
LEMMA CountedBuffer ==
  ASSUME Base, NEW w \in Workers, CountBuffer(w)
  PROVE  LET b == worker[w].buffers[worker[w].next]
         IN  /\ b \in Buffers /\ Awaits(w, b) /\ worker[w].next \in DOMAIN worker[w].buffers
             /\ DeliveryInv => \A t \in Threads : ref[t].logBuf # b
<1> DEFINE b == worker[w].buffers[worker[w].next]
<1>1. BaseTypes /\ worker[w] \in WorkerType
  BY BaseTyped DEF BaseTypes
<1>2. /\ worker[w].next \in DOMAIN worker[w].buffers /\ worker[w].pc = "count"
      /\ worker[w].next >= worker[w].next
  BY <1>1, LenProperties DEF CountBuffer, WorkerType
<1>3. b \in Buffers
  BY <1>1, <1>2, ElementOfSeq, LenProperties DEF WorkerType
<1>4. Awaits(w, b)
  BY <1>2 DEF Awaits
<1>5. DeliveryInv => eventBuf[b].closed
  BY <1>2 DEF DeliveryInv, FoundClosed
<1>6. ASSUME DeliveryInv, NEW t \in Threads
      PROVE  ref[t].logBuf # b
  <2>1. ref[t].logBuf # Null => ~eventBuf[ref[t].logBuf].closed
    BY <1>6 DEF DeliveryInv, RefOpen
  <2>2. b # Null
    BY <1>1, <1>3 DEF BaseTypes
  <2>3. QED
    BY <1>5, <1>6, <2>1, <2>2
<1>7. QED
  BY <1>2, <1>3, <1>4, <1>6

LEMMA KeptWorker ==
  ASSUME Base, DeliveryInv, KeptInv, NEW w \in Workers, WorkerStep(w)
  PROVE  KeptInv'
<1> SUFFICES ASSUME NEW t \in Threads PROVE RefKept(t)'
  BY DEF KeptInv
<1>1. ref' = ref /\ ref[t].logBuf \in Buffers \cup {Null}
  BY BaseTyped DEF WorkerStep, BaseTypes
<1>2. ASSUME NEW b \in Buffers, ref[t].logBuf = b
      PROVE  Awaited(b)'
  <2>1. CountBuffer(w) => b # worker[w].buffers[worker[w].next]
    BY <1>2, CountedBuffer
  <2>2. Awaited(b)
    BY <1>1, <1>2, BaseTyped DEF KeptInv, RefKept, BaseTypes
  <2>3. QED
    BY <2>1, <2>2, AwaitedWorker
<1>3. QED
  BY <1>1, <1>2 DEF RefKept

-----------------------------------------------------------------------------
\* The invariants of this module are kept by every step.
LEMMA DeliveryInit == Init => DeliveryInv /\ KeptInv
<1> SUFFICES ASSUME Init PROVE DeliveryInv /\ KeptInv
  OBVIOUS
<1>1. /\ \A t \in Threads : ref[t].logBuf = Null /\ logBuffer[t] = Null
      /\ \A w \in Workers : worker[w].pc = "none"
      /\ \A m \in Managers : allocatedBufs[m] = << >>
  BY DEF Init, BufferManagerInit, WorkerInit, NoRef, AttachRef, IdleWorker
<1>2. \A t \in Threads : TailOK(t) /\ RefOpen(t) /\ RefKept(t)
  BY <1>1 DEF TailOK, OwnBuf, RefOpen, RefKept
<1>3. \A w \in Workers : FoundClosed(w)
  BY <1>1 DEF FoundClosed
<1>4. \A b \in Buffers : ~Live(b)
  BY <1>1, InSeqEmpty DEF Live, Awaits, Null, Buffers
<1>5. QED
  BY <1>2, <1>3, <1>4 DEF DeliveryInv, KeptInv, ChunkInv

LEMMA DeliveryNext == Base /\ Base' /\ DeliveryInv /\ [Next]_vars => DeliveryInv'
<1> SUFFICES ASSUME Base, Base', DeliveryInv, [Next]_vars PROVE DeliveryInv'
  OBVIOUS
<1>1. OwnerInvAll /\ ThreadLocalManager /\ TypeInv
  BY DEF Base, OwnerInvAll
<1>2. ASSUME NEW t \in Threads, ThreadStep(t)
      PROVE  DeliveryInv'
  <2>1. \A s \in Threads : TailOK(s)' /\ RefOpen(s)'
    BY <1>2, TailThread, TailOthers, OpenThread, OpenOthers DEF DeliveryInv
  <2>2. \A w \in Workers : FoundClosed(w)'
    BY <1>2, FoundClosedThread DEF DeliveryInv
  <2>3. ChunkInv'
    <3>1. CASE LogReclaimed(t) \/ LogFast(t) \/ LogSlow(t)
      BY <3>1, ChunksStore DEF DeliveryInv
    <3>2. CASE ~(LogReclaimed(t) \/ LogFast(t) \/ LogSlow(t))
      <4>1. NothingNew
        BY <1>1, <1>2, <3>2, SlotsManager, SlotsThread
      <4>2. QED
        BY <4>1, ChunksStay DEF DeliveryInv
    <3>3. QED
      BY <3>1, <3>2
  <2>4. QED
    BY <2>1, <2>2, <2>3 DEF DeliveryInv
<1>3. ASSUME NEW w \in Workers, WorkerStep(w)
      PROVE  DeliveryInv'
  <2>1. UNCHANGED <<eventBuf, ref, logBuffer, iter, idx>>
    BY <1>3 DEF WorkerStep, WaitClosed, StartCounting, CountBuffer, WorkerReleases, ReturnBuffers,
       ReturnToDestroyed
  <2>2. \A t \in Threads : TailOK(t)' /\ RefOpen(t)'
    BY <2>1 DEF DeliveryInv, TailOK, OwnBuf, OwnCount, Executed, RefOpen
  <2>3. \A v \in Workers : FoundClosed(v)'
    BY <1>3, FoundClosedWorker DEF DeliveryInv
  <2>4. ChunkInv'
    BY <1>1, <1>3, SlotsWorker, ChunksStay DEF DeliveryInv
  <2>5. QED
    BY <2>2, <2>3, <2>4 DEF DeliveryInv
<1>4. CASE MainReturns \/ Halted \/ UNCHANGED vars
  <2>1. UNCHANGED <<eventBuf, ref, logBuffer, iter, idx, worker, allocatedBufs>>
    BY <1>4 DEF MainReturns, Halted
  <2>2. \A t \in Threads : TailOK(t)' /\ RefOpen(t)'
    BY <2>1 DEF DeliveryInv, TailOK, OwnBuf, OwnCount, Executed, RefOpen
  <2>3. \A v \in Workers : FoundClosed(v)'
    BY <2>1 DEF DeliveryInv, FoundClosed
  <2>4. \A b \in Buffers : (Live(b)' <=> Live(b)) /\ Used(b)' = Used(b)
    BY <2>1 DEF Live, Used, Awaits, InSeq, Managers
  <2>5. ChunkInv'
    BY <2>1, <2>4 DEF DeliveryInv, ChunkInv
  <2>6. QED
    BY <2>2, <2>3, <2>5 DEF DeliveryInv
<1>5. QED
  BY <1>2, <1>3, <1>4 DEF Next

LEMMA KeptNext == Base /\ DeliveryInv /\ KeptInv /\ [Next /\ NoSkip]_vars => KeptInv'
<1> SUFFICES ASSUME Base, DeliveryInv, KeptInv, [Next /\ NoSkip]_vars PROVE KeptInv'
  OBVIOUS
<1>1. ASSUME NEW t \in Threads, ThreadStep(t), NoSkip
      PROVE  KeptInv'
  BY <1>1, KeptThread DEF NoSkip
<1>2. ASSUME NEW w \in Workers, WorkerStep(w)
      PROVE  KeptInv'
  BY <1>2, KeptWorker
<1>3. CASE MainReturns \/ Halted \/ UNCHANGED vars
  BY <1>3 DEF MainReturns, Halted, KeptInv, RefKept, Awaited, Awaits, InSeq, Managers
<1>4. QED
  BY <1>1, <1>2, <1>3 DEF Next

-----------------------------------------------------------------------------
(***************************************************************************)
(* The refinement.  First what the mapping says about single events.       *)
(***************************************************************************)
PendingMembers ==
  \A e : e \in Pending <=>
    \E b \in Buffers : Awaited(b) /\ \E i \in Used(b) : e = eventBuf[b].buf[i]

LEMMA HeldIs ==
  ASSUME Base, NEW b \in Buffers, NEW e
  PROVE  e \in Held(b) <=> \E i \in Used(b) : e = eventBuf[b].buf[i]
<1>1. BaseTypes /\ Capacity \in Nat
  BY BaseTyped, EventBufferAssumption DEF Capacity
<1>2. ASSUME NEW n \in Nat, n <= Capacity, Held(b) = { eventBuf[b].buf[i] : i \in 0 .. n - 1 },
             \A i : i \in Used(b) <=> i \in Slots /\ i < n
      PROVE  e \in Held(b) <=> \E i \in Used(b) : e = eventBuf[b].buf[i]
  <2>1. \A i : i \in 0 .. n - 1 <=> i \in Used(b)
    BY <1>1, <1>2 DEF Slots
  <2>2. QED
    BY <1>2, <2>1
<1>3. CASE \E t \in Threads : ref[t].logBuf = b
  <2> DEFINE u == CHOOSE t \in Threads : ref[t].logBuf = b
  <2>1. u \in Threads /\ ref[u].logBuf = b
    BY <1>3
  <2>2. Held(b) = { eventBuf[b].buf[i] : i \in 0 .. ref[u].events - 1 }
    BY <1>3 DEF Held
  <2> HIDE DEF u
  <2>3. ref[u].events \in Nat /\ ref[u].events <= Capacity
    BY <1>1, <2>1 DEF BaseTypes, Base, CountInv, CountersInv, CountersOK
  <2>4. \A i : i \in Used(b) <=> i \in Slots /\ i < ref[u].events
    BY <2>1, UsedIs DEF UsedFirst
  <2>5. QED
    BY <1>2, <2>2, <2>3, <2>4
<1>4. CASE ~\E t \in Threads : ref[t].logBuf = b
  <2>1. Held(b) = { eventBuf[b].buf[i] : i \in 0 .. eventBuf[b].events - 1 }
    BY <1>4 DEF Held
  <2>2. eventBuf[b].events \in Nat /\ eventBuf[b].events <= Capacity
    BY <1>1 DEF BaseTypes, Base, CountInv, CountersInv
  <2>3. \A i : i \in Used(b) <=> i \in Slots /\ i < eventBuf[b].events
    BY <1>4, UsedIs DEF UsedFirst
  <2>4. QED
    BY <1>2, <2>1, <2>2, <2>3
<1>5. QED
  BY <1>3, <1>4

LEMMA UncountedIs ==
  ASSUME Base, NEW b \in Buffers
  PROVE  b \in Uncounted <=> Awaited(b)
<1>1. BaseTypes
  BY BaseTyped
<1>2. ASSUME NEW w \in Workers
      PROVE  (\/ worker[w].pc = "wait" /\ InSeq(b, worker[w].buffers)
              \/ /\ worker[w].pc = "count"
                 /\ InSeq(b, SubSeq(worker[w].buffers, worker[w].next, Len(worker[w].buffers))))
             <=> Awaits(w, b)
  <2> DEFINE s == worker[w].buffers
             n == worker[w].next
  <2>1. s \in Seq(Buffers) /\ n \in Nat \ {0} /\ DOMAIN s = 1 .. Len(s) /\ Len(s) \in Nat
    BY <1>1, LenProperties DEF BaseTypes, WorkerType
  <2> HIDE DEF s, n
  <2>2. /\ \A i \in DOMAIN SubSeq(s, n, Len(s)) :
             /\ n + i - 1 \in DOMAIN s /\ n + i - 1 >= n
             /\ SubSeq(s, n, Len(s))[i] = s[n + i - 1]
        /\ \A i \in DOMAIN s : i >= n =>
             /\ i - n + 1 \in DOMAIN SubSeq(s, n, Len(s))
             /\ SubSeq(s, n, Len(s))[i - n + 1] = s[i]
    BY <2>1
  <2>3. InSeq(b, SubSeq(s, n, Len(s))) <=> \E i \in DOMAIN s : s[i] = b /\ i >= n
    BY <2>2 DEF InSeq
  <2>4. InSeq(b, s) <=> \E i \in DOMAIN s : s[i] = b
    BY DEF InSeq
  <2>5. Awaits(w, b) <=>
          \/ worker[w].pc = "wait" /\ \E i \in DOMAIN s : s[i] = b
          \/ worker[w].pc = "count" /\ \E i \in DOMAIN s : s[i] = b /\ i >= n
    BY DEF Awaits, s, n
  <2>6. QED
    BY <2>3, <2>4, <2>5 DEF s, n
<1>3. QED
  BY <1>2 DEF Uncounted, Awaited

LEMMA PendingIs == Base => PendingMembers
<1> SUFFICES ASSUME Base, NEW e
             PROVE  e \in Pending <=>
                      \E b \in Buffers : Awaited(b) /\ \E i \in Used(b) : e = eventBuf[b].buf[i]
  BY DEF PendingMembers
<1>1. e \in Pending <=> \E b \in Uncounted : e \in Held(b)
  BY DEF Pending
<1>2. Uncounted \subseteq Buffers
  BY DEF Uncounted
<1>3. QED
  BY <1>1, <1>2, UncountedIs, HeldIs

\* Nothing is pending that was not pending before.
LEMMA PendingOld ==
  ASSUME Base, Base', KeptInv, NothingNew
  PROVE  Pending' \subseteq Pending
<1>1. PendingMembers /\ PendingMembers'
  BY PendingIs, PTL
<1> SUFFICES ASSUME NEW e \in Pending' PROVE e \in Pending
  OBVIOUS
<1>2. PICK b \in Buffers : Awaited(b)' /\ \E i \in Used(b)' : e = eventBuf'[b].buf[i]
  BY <1>1 DEF PendingMembers
<1>3. PICK i \in Used(b)' : e = eventBuf'[b].buf[i]
  BY <1>2
<1>4. Live(b)'
  BY <1>2 DEF Live, Awaited
<1>5. Live(b) /\ i \in Used(b) /\ eventBuf'[b].buf[i] = eventBuf[b].buf[i]
  BY <1>3, <1>4 DEF NothingNew
<1>6. Awaited(b)
  <2>1. b # Null
    BY BaseTyped DEF BaseTypes
  <2>2. QED
    BY <1>5, <2>1 DEF Live, Awaited, KeptInv, RefKept
<1>7. QED
  BY <1>1, <1>3, <1>5, <1>6 DEF PendingMembers

\* Nothing that is pending gets lost.
LEMMA PendingKept ==
  ASSUME Base, Base', NEW t \in Threads, ThreadStep(t), ~TooManyWorkers(t)
  PROVE  Pending \subseteq Pending'
<1>1. PendingMembers /\ PendingMembers'
  BY PendingIs, PTL
<1> SUFFICES ASSUME NEW e \in Pending PROVE e \in Pending'
  OBVIOUS
<1>2. PICK b \in Buffers : Awaited(b) /\ \E i \in Used(b) : e = eventBuf[b].buf[i]
  BY <1>1 DEF PendingMembers
<1>3. PICK i \in Used(b) : e = eventBuf[b].buf[i]
  BY <1>2
<1>4. Awaited(b)'
  BY <1>2, AwaitedThread
<1>5. i \in Used(b)' /\ eventBuf'[b].buf[i] = eventBuf[b].buf[i]
  BY <1>2, <1>3, SlotsKept
<1>6. QED
  BY <1>1, <1>3, <1>4, <1>5 DEF PendingMembers

-----------------------------------------------------------------------------
\* The store of an event logs it.
LEMMA StoreLogs ==
  ASSUME Base, Base', KeptInv, NEW t \in Threads, ThreadStep(t),
         LogReclaimed(t) \/ LogFast(t) \/ LogSlow(t), ~TooManyWorkers(t)
  PROVE  Lossless!Log(t)
<1> DEFINE buf == ref[t].logBuf
           k   == ref[t].events
           Old(b, i) == Live(b) /\ i \in Used(b) /\ eventBuf'[b].buf[i] = eventBuf[b].buf[i]
<1>1. /\ buf \in Buffers /\ k \in Slots /\ k \in Nat /\ buf # Null
      /\ \A s \in Threads : Executed(s)' = IF s = t THEN Executed(t) + 1 ELSE Executed(s)
      /\ ref'[t].logBuf = buf /\ ref'[t].events = k + 1
      /\ eventBuf'[buf].buf[k] = <<t, Executed(t)>>
      /\ allocatedBufs' = allocatedBufs /\ worker' = worker /\ processed' = processed
  BY StoreSteps, BaseTyped DEF BaseTypes
<1>2. PendingMembers /\ PendingMembers'
  BY PendingIs, PTL
<1>3. \A b : Awaited(b)' <=> Awaited(b)
  BY <1>1 DEF Awaited, Awaits, InSeq, Managers
<1>4. <<t, Executed(t)>> \in Pending'
  <2>1. Awaited(buf)
    BY <1>1 DEF KeptInv, RefKept
  <2>3. PICK b \in Buffers : b = buf
    BY <1>1
  <2>4. Awaited(b)' /\ k \in Used(b)'
    <3>1. Awaited(b)
      BY <2>1, <2>3
    <3>2. k < ref'[t].events /\ ref'[t].logBuf = b
      BY <1>1, <2>3
    <3>3. QED
      BY <1>1, <1>3, <3>1, <3>2 DEF Used
  <2>5. QED
    BY <1>1, <1>2, <2>3, <2>4 DEF PendingMembers
<1>5. Pending \subseteq Pending'
  BY PendingKept
<1>6. ASSUME NEW e \in Pending'
      PROVE  e = <<t, Executed(t)>> \/ e \in Pending
  <2>1. PICK b \in Buffers : Awaited(b)' /\ \E i \in Used(b)' : e = eventBuf'[b].buf[i]
    BY <1>2 DEF PendingMembers
  <2>2. PICK i \in Used(b)' : e = eventBuf'[b].buf[i]
    BY <2>1
  <2>3. Live(b)' /\ Awaited(b)
    BY <1>3, <2>1 DEF Live, Awaited
  <2>4. (b = buf /\ i = k) \/ Old(b, i)
    BY <2>2, <2>3, StoreIsNew DEF Base
  <2>5. QED
    BY <1>1, <1>2, <2>2, <2>3, <2>4 DEF PendingMembers
<1>7. Pending' = Pending \cup {<<t, Executed(t)>>}
  BY <1>4, <1>5, <1>6
<1>8. Delivered' = Delivered
  BY <1>1 DEF Delivered
<1>9. [ s \in Threads |-> Executed(s) ]'
        = [ [ s \in Threads |-> Executed(s) ] EXCEPT ![t] = @ + 1 ]
  <2> DEFINE f == [ s \in Threads |-> Executed(s) ]
             g == [ s \in Threads |-> Executed(s)' ]
  <2>1. g = [ f EXCEPT ![t] = @ + 1 ]
    BY <1>1
  <2>2. QED
    BY <2>1
<1>10. [ s \in Threads |-> Executed(s) ][t] = Executed(t)
  OBVIOUS
<1>11. QED
  BY <1>7, <1>8, <1>9, <1>10 DEF Lossless!Log

\* The other steps of the threads are hidden.
LEMMA ThreadStutters ==
  ASSUME Base, Base', KeptInv, NEW t \in Threads, ThreadStep(t),
         ~(LogReclaimed(t) \/ LogFast(t) \/ LogSlow(t)), ~TooManyWorkers(t)
  PROVE  UNCHANGED Lossless!vars
<1>1. OwnerInvAll /\ ThreadLocalManager
  BY DEF Base
<1>2. NothingNew
  BY <1>1, SlotsManager, SlotsThread
<1>3. processed' = processed
  BY DEF ThreadStep, LoadForRef, CallAllocBuffer, GetRef, LoadCurBuf, TryIncEpochFails,
     TryIncEpochWins, ReclaimOne, StartWorker, Spawn, UpdateAssertFails, UpdateEvents, UpdateClose,
     EndRun, ExitThread, FinishThread
<1>4. Pending' = Pending
  BY <1>2, PendingOld, PendingKept
<1>5. Delivered' = Delivered
  BY <1>3 DEF Delivered
<1>6. UNCHANGED <<iter, idx>> \/ EndRun(t)
  BY DEF ThreadStep, LoadForRef, CallAllocBuffer, GetRef, LoadCurBuf, TryIncEpochFails,
     TryIncEpochWins, ReclaimOne, StartWorker, UpdateAssertFails, UpdateEvents, UpdateClose,
     ExitThread, FinishThread
<1>7. \A s \in Threads : Executed(s)' = Executed(s)
  BY <1>6, ExecutedSame
<1>8. [ s \in Threads |-> Executed(s) ]' = [ s \in Threads |-> Executed(s) ]
  BY <1>7
<1>9. QED
  BY <1>4, <1>5, <1>8 DEF Lossless!vars

-----------------------------------------------------------------------------
(***************************************************************************)
(* The steps of the workers: a buffer that is counted is a chunk.          *)
(***************************************************************************)

\* A buffer that has been counted waits no more.
LEMMA CountedGone ==
  ASSUME Base, NEW w \in Workers, CountBuffer(w),
         NEW b \in Buffers, b = worker[w].buffers[worker[w].next]
  PROVE  ~Awaited(b)'
<1>1. BaseTypes /\ PoolInv /\ worker[w] \in WorkerType
  BY BaseTyped DEF Base, OwnerInvAll, BaseTypes
<1>2. worker[w].next \in DOMAIN worker[w].buffers /\ worker[w].next \in Nat
  BY <1>1, CountedBuffer DEF WorkerType
<1>3. /\ allocatedBufs' = allocatedBufs /\ \A v \in Workers \ {w} : worker'[v] = worker[v]
      /\ worker[w].pc = "count" /\ worker'[w].buffers = worker[w].buffers
      /\ worker'[w].next = worker[w].next + 1 /\ worker'[w].pc = "count"
  BY <1>1 DEF CountBuffer, BaseTypes, WorkerType
<1>4. InSeq(b, worker[w].buffers) /\ worker[w].pc \in Owning
  BY <1>2, <1>3 DEF InSeq, Owning
<1>5. \A m \in Managers : ~InSeq(b, allocatedBufs[m])
  BY <1>1, <1>4, AllocatedNowhereElse
<1>6. ASSUME NEW v \in Workers, worker[v].pc \in Owning, InSeq(b, worker[v].buffers)
      PROVE  v = w
  <2> DEFINE g == <<"worker", v>>
             h == <<"worker", w>>
  <2>1. g \in Holders /\ Pool[g] = worker[v].buffers /\ h \in Holders /\ Pool[h] = worker[w].buffers
    BY <1>4, <1>6, PoolAt
  <2>2. g = h => v = w
    OBVIOUS
  <2> HIDE DEF g, h
  <2>3. g = h
    BY <1>1, <1>4, <1>6, <2>1 DEF PoolInv, OnePlace, InSeq
  <2>4. QED
    BY <2>2, <2>3
<1>7. \A i \in DOMAIN worker[w].buffers : worker[w].buffers[i] = b => i = worker[w].next
  <2> DEFINE h == <<"worker", w>>
  <2>1. h \in Holders /\ Pool[h] = worker[w].buffers
    BY <1>4, PoolAt
  <2> HIDE DEF h
  <2>2. \A i, j \in DOMAIN worker[w].buffers :
          worker[w].buffers[i] = worker[w].buffers[j] => i = j
    BY <1>1, <2>1 DEF PoolInv, OnePlace
  <2>3. QED
    BY <1>2, <2>2
<1>8. ASSUME NEW v \in Workers, Awaits(v, b)'
      PROVE  FALSE
  <2>1. v = w
    <3>1. ASSUME v # w PROVE worker[v].pc \in Owning /\ InSeq(b, worker[v].buffers)
      BY <1>3, <1>8, <3>1 DEF Awaits, Owning, InSeq
    <3>2. QED
      BY <1>6, <3>1
  <2>2. PICK i \in DOMAIN worker[w].buffers : worker[w].buffers[i] = b /\ i >= worker[w].next + 1
    BY <1>3, <1>8, <2>1 DEF Awaits
  <2>3. i = worker[w].next
    BY <1>7, <2>2
  <2>4. QED
    BY <1>2, <2>2, <2>3
<1>9. \A m \in Managers : ~InSeq(b, allocatedBufs'[m])
  BY <1>3, <1>5
<1>10. QED
  BY <1>8, <1>9 DEF Awaited, Managers, InSeq

\* Delivered grows by what the worker finds in the buffer.
LEMMA CountedDelivered ==
  ASSUME Base, NEW w \in Workers, CountBuffer(w),
         NEW b \in Buffers, b = worker[w].buffers[worker[w].next]
  PROVE  Delivered' = Delivered \cup Contents(eventBuf[b])
<1>1. processed \in [ Workers -> SUBSET (Events \cup {NoEvent}) ]
  BY DEF Base, OwnerInvAll, TypeInv, TypeOK
<1>2. /\ processed'[w] = processed[w] \cup Contents(eventBuf[b])
      /\ \A v \in Workers \ {w} : processed'[v] = processed[v]
  BY <1>1 DEF CountBuffer
<1>3. \A e : e \in Delivered' <=> \E v \in Workers : e \in processed'[v]
  BY DEF Delivered
<1>4. \A e : e \in Delivered <=> \E v \in Workers : e \in processed[v]
  BY DEF Delivered
<1>5. ASSUME NEW e
      PROVE  e \in Delivered' <=> e \in Delivered \cup Contents(eventBuf[b])
  <2>1. \A v \in Workers : v = w \/ v \in Workers \ {w}
    OBVIOUS
  <2>2. QED
    BY <1>2, <1>3, <1>4, <2>1
<1>6. QED
  BY <1>5

\* Pending loses just that.
LEMMA CountedPending ==
  ASSUME Base, Base', DeliveryInv, KeptInv, NEW w \in Workers, WorkerStep(w), CountBuffer(w),
         NEW b \in Buffers, b = worker[w].buffers[worker[w].next]
  PROVE  Contents(eventBuf[b]) \subseteq Pending /\ Pending' = Pending \ Contents(eventBuf[b])
<1>1. /\ Awaits(w, b) /\ Live(b) /\ Awaited(b)
      /\ \A t \in Threads : ref[t].logBuf # b
  BY CountedBuffer DEF Live, Awaited
<1>2. \A e : e \in Contents(eventBuf[b]) <=> \E i \in Used(b) : e = eventBuf[b].buf[i]
  <2>1. \A i : i \in Used(b) <=> i \in Slots /\ i < eventBuf[b].events
    BY <1>1, UsedIs DEF UsedFirst
  <2>2. QED
    BY <2>1 DEF Contents
<1>3. PendingMembers /\ PendingMembers'
  BY PendingIs, PTL
<1>4. Contents(eventBuf[b]) \subseteq Pending
  <2> SUFFICES ASSUME NEW e \in Contents(eventBuf[b]) PROVE e \in Pending
    OBVIOUS
  <2>1. PICK i \in Used(b) : e = eventBuf[b].buf[i]
    BY <1>2
  <2>2. QED
    BY <1>1, <1>3, <2>1 DEF PendingMembers
<1>5. Pending' \subseteq Pending
  <2>1. NothingNew
    BY SlotsWorker DEF Base, OwnerInvAll
  <2>2. QED
    BY <2>1, PendingOld
<1>6. ~Awaited(b)'
  BY CountedGone
<1>7. /\ eventBuf' = eventBuf /\ ref' = ref
      /\ \A c \in Buffers : Used(c)' = Used(c)
  <2>1. eventBuf' = eventBuf /\ ref' = ref
    BY DEF WorkerStep, CountBuffer
  <2>2. QED
    BY <2>1 DEF Used
<1>8. ASSUME NEW e \in Pending'
      PROVE  e \notin Contents(eventBuf[b])
  <2>1. PICK c \in Buffers : Awaited(c)' /\ \E i \in Used(c)' : e = eventBuf'[c].buf[i]
    BY <1>3 DEF PendingMembers
  <2>2. PICK i \in Used(c) : e = eventBuf[c].buf[i]
    BY <1>7, <2>1
  <2>3. c # b
    BY <1>6, <2>1
  <2>4. Live(c)
    <3>1. Live(c)'
      BY <2>1 DEF Live, Awaited
    <3>2. NothingNew
      BY SlotsWorker DEF Base, OwnerInvAll
    <3>3. QED
      BY <1>7, <2>2, <3>1, <3>2 DEF NothingNew
  <2>5. ASSUME NEW j \in Used(b), e = eventBuf[b].buf[j]
        PROVE  FALSE
    <3>1. SlotInv
      BY DEF Base, CountInv
    <3>2. \A x \in Used(b), y \in Used(c) : eventBuf[b].buf[x] = eventBuf[c].buf[y] => b = c
      BY <1>1, <2>4, <3>1 DEF SlotInv
    <3>3. QED
      BY <2>2, <2>3, <2>5, <3>2
  <2>6. QED
    BY <1>2, <2>5
<1>9. ASSUME NEW e \in Pending, e \notin Contents(eventBuf[b])
       PROVE  e \in Pending'
  <2>1. PICK c \in Buffers : Awaited(c) /\ \E i \in Used(c) : e = eventBuf[c].buf[i]
    BY <1>3 DEF PendingMembers
  <2>2. c # b
    BY <1>2, <1>9, <2>1
  <2>3. Awaited(c)'
    BY <2>1, <2>2, AwaitedWorker
  <2>4. QED
    BY <1>3, <1>7, <2>1, <2>3 DEF PendingMembers
<1>10. QED
  BY <1>4, <1>5, <1>8, <1>9

\* What is in the buffer is a run of consecutive events of one thread.
LEMMA CountedChunk ==
  ASSUME Base, DeliveryInv, NEW w \in Workers, CountBuffer(w),
         NEW b \in Buffers, b = worker[w].buffers[worker[w].next], eventBuf[b].events # 0
  PROVE  \E t \in Threads : \E first, last \in 0 .. Executed(t) - 1 :
           first <= last /\ Contents(eventBuf[b]) = Lossless!Chunk(t, first, last)
<1> DEFINE n == eventBuf[b].events
           e0 == eventBuf[b].buf[0]
<1>1. n \in Nat /\ n # 0 /\ n <= Capacity /\ Capacity \in Nat
  BY BaseTyped, EventBufferAssumption DEF BaseTypes, Base, CountInv, CountersInv, Capacity
<1>2. Live(b) /\ \A i : i \in Used(b) <=> i \in Slots /\ i < n
  BY CountedBuffer, UsedIs DEF Live, UsedFirst
<1>3. \A i : i \in Used(b) <=> i \in 0 .. n - 1
  BY <1>1, <1>2 DEF Slots
<1> HIDE DEF n
<1>4. /\ 0 \in Used(b) /\ n - 1 \in Used(b)
      /\ \A i : i \in Used(b) => i \in Nat /\ i < n
  <2>1. 0 \in 0 .. n - 1 /\ n - 1 \in 0 .. n - 1 /\ \A i \in 0 .. n - 1 : i \in Nat /\ i < n
    BY <1>1
  <2>2. QED
    BY <1>3, <2>1
<1>5. /\ e0 \in Threads \X Nat
      /\ \A i \in Used(b) : eventBuf[b].buf[i] \in Logged
  BY <1>2, <1>4 DEF Base, CountInv, SlotInv, Logged
<1>6. PICK t \in Threads, first \in Nat : e0 = <<t, first>>
  <2> HIDE DEF e0
  <2>1. QED
    BY <1>5
<1>7. \A i \in Used(b) : eventBuf[b].buf[i] = <<t, first + i>>
  <2>1. \A i \in Used(b) : eventBuf[b].buf[i] = <<e0[1], e0[2] + (i - 0)>>
    BY <1>2, <1>4 DEF DeliveryInv, ChunkInv
  <2> HIDE DEF e0
  <2>2. e0[1] = t /\ e0[2] = first
    BY <1>6
  <2>3. \A i \in Used(b) : e0[2] + (i - 0) = first + i
    BY <1>4, <1>6, <2>2
  <2>4. QED
    BY <2>1, <2>2, <2>3
<1>8. Executed(t) \in Nat /\ first + (n - 1) < Executed(t)
  <2>1. <<t, first + (n - 1)>> \in Logged
    BY <1>4, <1>5, <1>7
  <2>2. QED
    BY <2>1, BaseTyped DEF Logged, BaseTypes
<1>9. first \in 0 .. Executed(t) - 1 /\ first + (n - 1) \in 0 .. Executed(t) - 1
      /\ first <= first + (n - 1)
  <2>1. ASSUME NEW x \in Nat, first + (n - 1) < x
        PROVE  /\ first \in 0 .. x - 1 /\ first + (n - 1) \in 0 .. x - 1
               /\ first <= first + (n - 1)
    BY <1>1, <2>1
  <2>2. QED
    BY <1>8, <2>1
<1>10. Contents(eventBuf[b]) = { <<t, m>> : m \in first .. first + (n - 1) }
  <2>1. Contents(eventBuf[b]) = { eventBuf[b].buf[i] : i \in { j \in Slots : j < n } }
    BY DEF Contents, n
  <2>2. \A e : e \in Contents(eventBuf[b]) <=> \E i \in Used(b) : e = <<t, first + i>>
    BY <1>2, <1>7, <2>1
  <2>3. \A m : m \in first .. first + (n - 1) <=> \E i \in Used(b) : m = first + i
    <3>1. ASSUME NEW m \in first .. first + (n - 1)
          PROVE  m - first \in Used(b) /\ m = first + (m - first)
      <4>1. m - first \in 0 .. n - 1 /\ m = first + (m - first)
        BY <1>1
      <4>2. QED
        BY <1>3, <4>1
    <3>2. ASSUME NEW i \in Used(b)
          PROVE  first + i \in first .. first + (n - 1)
      <4>1. i \in Nat /\ i < n
        BY <1>4
      <4>2. QED
        BY <1>1, <4>1
    <3>3. QED
      BY <3>1, <3>2
  <2>4. QED
    BY <2>2, <2>3
<1>11. QED
  BY <1>9, <1>10 DEF Lossless!Chunk

\* A step of a worker hands a chunk to the analysis, or is hidden.
LEMMA WorkerDelivers ==
  ASSUME Base, Base', DeliveryInv, KeptInv, NEW w \in Workers, WorkerStep(w)
  PROVE  (\E t \in Threads : Lossless!Deliver(t)) \/ UNCHANGED Lossless!vars
<1>1. [ t \in Threads |-> Executed(t) ]' = [ t \in Threads |-> Executed(t) ]
  <2>1. iter' = iter /\ idx' = idx
    BY DEF WorkerStep
  <2>2. \A t \in Threads : Executed(t)' = Executed(t)
    BY <2>1 DEF Executed
  <2>3. QED
    BY <2>2
<1>2. CASE CountBuffer(w)
  <2>1. PICK b \in Buffers : b = worker[w].buffers[worker[w].next]
    BY <1>2, CountedBuffer
  <2>2. /\ Contents(eventBuf[b]) \subseteq Pending
        /\ Pending' = Pending \ Contents(eventBuf[b])
        /\ Delivered' = Delivered \cup Contents(eventBuf[b])
    BY <1>2, <2>1, CountedPending, CountedDelivered
  <2>3. CASE eventBuf[b].events = 0
    <3>1. \A i \in Slots : ~(i < 0)
      BY DEF Slots
    <3>2. Contents(eventBuf[b]) = {}
      BY <2>3, <3>1 DEF Contents
    <3>3. QED
      BY <1>1, <2>2, <3>2 DEF Lossless!vars
  <2>4. CASE eventBuf[b].events # 0
    <3>1. PICK t \in Threads : \E first, last \in 0 .. Executed(t) - 1 :
            first <= last /\ Contents(eventBuf[b]) = Lossless!Chunk(t, first, last)
      BY <1>2, <2>1, <2>4, CountedChunk
    <3>2. [ s \in Threads |-> Executed(s) ][t] = Executed(t)
      OBVIOUS
    <3>3. Lossless!Deliver(t)
      BY <1>1, <2>2, <3>1, <3>2 DEF Lossless!Deliver
    <3>4. QED
      BY <3>3
  <2>5. QED
    BY <2>3, <2>4
<1>3. CASE ~CountBuffer(w)
  <2>1. processed' = processed /\ eventBuf' = eventBuf /\ ref' = ref
    BY <1>3 DEF WorkerStep, WaitClosed, StartCounting, WorkerReleases, ReturnBuffers,
       ReturnToDestroyed
  <2>2. Delivered' = Delivered
    BY <2>1 DEF Delivered
  <2>3. NothingNew
    BY SlotsWorker DEF Base, OwnerInvAll
  <2>4. Pending' \subseteq Pending
    BY <2>3, PendingOld
  <2>5. PendingMembers /\ PendingMembers'
    BY PendingIs, PTL
  <2>6. \A b \in Buffers : Used(b)' = Used(b)
    BY <2>1 DEF Used
  <2>7. \A b \in Buffers : Awaited(b) => Awaited(b)'
    BY <1>3, AwaitedWorker
  <2>8. Pending \subseteq Pending'
    BY <2>1, <2>5, <2>6, <2>7 DEF PendingMembers
  <2>9. QED
    BY <1>1, <2>2, <2>4, <2>8 DEF Lossless!vars
<1>4. QED
  BY <1>2, <1>3

-----------------------------------------------------------------------------
(***************************************************************************)
(* Every step that skips no epoch is a step of the abstract specification. *)
(***************************************************************************)
LEMMA DeliverySteps ==
  Base /\ Base' /\ DeliveryInv /\ KeptInv /\ [Next /\ NoSkip]_vars =>
    [Lossless!Next]_(Lossless!vars)
<1> SUFFICES ASSUME Base, Base', DeliveryInv, KeptInv, [Next /\ NoSkip]_vars
             PROVE  Lossless!Next \/ UNCHANGED Lossless!vars
  OBVIOUS
<1>1. ASSUME NEW t \in Threads, ThreadStep(t), NoSkip
      PROVE  Lossless!Next \/ UNCHANGED Lossless!vars
  <2>1. ~TooManyWorkers(t)
    BY <1>1 DEF NoSkip
  <2>2. CASE LogReclaimed(t) \/ LogFast(t) \/ LogSlow(t)
    <3>1. Lossless!Log(t)
      BY <1>1, <2>1, <2>2, StoreLogs
    <3>2. QED
      BY <3>1 DEF Lossless!Next
  <2>3. CASE ~(LogReclaimed(t) \/ LogFast(t) \/ LogSlow(t))
    BY <1>1, <2>1, <2>3, ThreadStutters
  <2>4. QED
    BY <2>2, <2>3
<1>2. ASSUME NEW w \in Workers, WorkerStep(w)
      PROVE  Lossless!Next \/ UNCHANGED Lossless!vars
  BY <1>2, WorkerDelivers DEF Lossless!Next
<1>3. CASE MainReturns \/ Halted \/ UNCHANGED vars
  <2>1. UNCHANGED <<eventBuf, ref, iter, idx, worker, allocatedBufs, processed>>
    BY <1>3 DEF MainReturns, Halted
  <2>2. /\ \A b \in Buffers : Held(b)' = Held(b)
        /\ Uncounted' = Uncounted
    BY <2>1 DEF Held, Uncounted, InSeq, Managers
  <2>3. \A b \in Uncounted : b \in Buffers
    BY DEF Uncounted
  <2>4. Pending' = Pending
    BY <2>2, <2>3 DEF Pending
  <2>5. Delivered' = Delivered
    BY <2>1 DEF Delivered
  <2>6. \A t \in Threads : Executed(t)' = Executed(t)
    BY <2>1 DEF Executed
  <2>7. [ t \in Threads |-> Executed(t) ]' = [ t \in Threads |-> Executed(t) ]
    BY <2>6
  <2>8. QED
    BY <2>4, <2>5, <2>7 DEF Lossless!vars
<1>4. QED
  BY <1>1, <1>2, <1>3 DEF Next

LEMMA NothingYet == Init => Lossless!Init
<1> SUFFICES ASSUME Init PROVE Lossless!Init
  OBVIOUS
<1>1. /\ \A t \in Threads : iter[t] = 0 /\ idx[t] = 0
      /\ \A w \in Workers : worker[w].pc = "none" /\ processed[w] = {}
      /\ \A m \in Managers : allocatedBufs[m] = << >>
  BY DEF Init, BufferManagerInit, WorkerInit, IdleWorker
<1>2. Delivered = {}
  BY <1>1 DEF Delivered
<1>3. Uncounted = {}
  BY <1>1, InSeqEmpty DEF Uncounted
<1>4. Pending = {}
  BY <1>3 DEF Pending
<1>5. \A t \in Threads : Executed(t) = 0
  BY <1>1, FastLogAssumption DEF Executed
<1>6. QED
  BY <1>2, <1>4, <1>5 DEF Lossless!Init

\* As built, FastLog delivers the events of each thread in chunks of
\* consecutive events, none twice and none lost, in every execution in which
\* no manager has MAX_WORKERS workers when one of its epochs ends
\* (BufferManager.cc:102-112).
THEOREM DeliveryIsLossless ==
  ASSUME ThreadLocalManager
  PROVE  Spec /\ [][NoSkip]_vars => LosslessDelivery
<1>1. ThreadLocalManager
  OBVIOUS
<1>2. Spec => []Base
  BY BaseInvariant, <1>1, PTL
<1>3. Spec /\ [][NoSkip]_vars => [](Base /\ DeliveryInv /\ KeptInv)
  BY <1>2, DeliveryInit, DeliveryNext, KeptNext, PTL DEF Spec
<1>4. Spec /\ [][NoSkip]_vars => Lossless!Spec
  BY <1>2, <1>3, NothingYet, DeliverySteps, PTL DEF Spec, Lossless!Spec
<1>5. QED
  BY <1>4 DEF LosslessDelivery

-----------------------------------------------------------------------------
(***************************************************************************)
(* What the abstract specification gives: every event is somewhere.        *)
(***************************************************************************)
NothingLost ==
  \A t \in Threads : \A n \in 0 .. Executed(t) - 1 : <<t, n>> \in Pending \cup Delivered

LEMMA NothingGetsLost ==
  Base /\ NothingLost /\ [Lossless!Next]_(Lossless!vars) => NothingLost'
<1> SUFFICES ASSUME Base, NothingLost, Lossless!Next \/ UNCHANGED Lossless!vars,
                    NEW t \in Threads, NEW n \in 0 .. Executed(t)' - 1
             PROVE  <<t, n>> \in Pending' \cup Delivered'
  BY DEF NothingLost
<1> DEFINE f == [ s \in Threads |-> Executed(s) ]
           g == [ s \in Threads |-> Executed(s)' ]
<1>1. f[t] = Executed(t) /\ g[t] = Executed(t)' /\ Executed(t) \in Nat
  BY BaseTyped DEF BaseTypes
<1>2. ASSUME NEW s \in Threads, Lossless!Log(s)
      PROVE  <<t, n>> \in Pending' \cup Delivered'
  <2>1. /\ g = [ f EXCEPT ![s] = @ + 1 ]
        /\ Pending' = Pending \cup {<<s, f[s]>>} /\ Delivered' = Delivered
    BY <1>2 DEF Lossless!Log
  <2> HIDE DEF f, g
  <2>2. DOMAIN f = Threads
    BY DEF f
  <2>3. g[t] = IF s = t THEN f[t] + 1 ELSE f[t]
    BY <2>1, <2>2
  <2>4. n \in 0 .. Executed(t) - 1 \/ (s = t /\ n = Executed(t))
    BY <1>1, <2>3
  <2>5. QED
    BY <1>1, <2>1, <2>4 DEF NothingLost
<1>3. ASSUME NEW s \in Threads, Lossless!Deliver(s)
      PROVE  <<t, n>> \in Pending' \cup Delivered'
  <2>1. /\ g = f
        /\ \A e \in Pending \cup Delivered : e \in Pending' \cup Delivered'
    BY <1>3 DEF Lossless!Deliver
  <2> HIDE DEF f, g
  <2>2. n \in 0 .. Executed(t) - 1
    BY <1>1, <2>1
  <2>3. QED
    BY <2>1, <2>2 DEF NothingLost
<1>4. CASE Lossless!Discard \/ UNCHANGED Lossless!vars
  <2>1. g = f /\ Pending' = Pending /\ Delivered' = Delivered
    BY <1>4 DEF Lossless!Discard, Lossless!vars
  <2> HIDE DEF f, g
  <2>2. n \in 0 .. Executed(t) - 1
    BY <1>1, <2>1
  <2>3. QED
    BY <2>1, <2>2 DEF NothingLost
<1>5. QED
  BY <1>2, <1>3, <1>4 DEF Lossless!Next

\* As built, the bound on lost events (FIXME on Main.cc:568) is met with
\* nothing lost at all, in every execution in which no epoch is skipped.
THEOREM NoEventIsLost ==
  ASSUME ThreadLocalManager
  PROVE  Spec /\ [][NoSkip]_vars => [](NothingLost /\ LossBounded)
<1>1. Spec => []Base
  BY BaseInvariant, PTL
<1>2. Spec /\ [][NoSkip]_vars => Lossless!Spec
  BY DeliveryIsLossless DEF LosslessDelivery
<1>3. Init => NothingLost
  <2>1. ASSUME Init, NEW t \in Threads
        PROVE  Executed(t) = 0
    BY <2>1, FastLogAssumption DEF Init, Executed
  <2>2. QED
    BY <2>1 DEF NothingLost
<1>4. Base /\ NothingLost => LossBounded
  <2> SUFFICES ASSUME Base, NothingLost, NEW t \in Threads
               PROVE  LET lost == { n \in 0 .. Executed(t) - 1 : <<t, n>> \notin Pending \cup Delivered }
                      IN  Cardinality(lost)
                            <= epoch[ManagerOf(t)] + (IF Unlocked(ManagerOf(t)) THEN 0 ELSE 1)
    BY DEF LossBounded
  <2>1. { n \in 0 .. Executed(t) - 1 : <<t, n>> \notin Pending \cup Delivered } = {}
    BY DEF NothingLost
  <2>2. epoch[ManagerOf(t)] \in Nat
    BY ManagerOfType DEF Base, OwnerInvAll, TypeInv, TypeOK
  <2>3. Cardinality({ n \in 0 .. Executed(t) - 1 : <<t, n>> \notin Pending \cup Delivered }) = 0
    BY <2>1, FS_EmptySet
  <2>4. 0 <= epoch[ManagerOf(t)] + 0 /\ 0 <= epoch[ManagerOf(t)] + 1
    BY <2>2
  <2>5. QED
    BY <2>3, <2>4
<1>5. QED
  BY <1>1, <1>2, <1>3, <1>4, NothingGetsLost, PTL DEF Spec, Lossless!Spec

-----------------------------------------------------------------------------
(***************************************************************************)
(* What a worker counts is what was logged to its buffers since they were  *)
(* reset.                                                                  *)
(***************************************************************************)

\* A thread got back, from the pool, the buffer it still refers to: it is
\* about to fail the assertion of updateLogBuffer() (EventBuffer.h:45).
Retaken(b) == \E t \in Threads : pc[t] = "update" /\ curBuf[t] = b /\ ref[t].logBuf = b

\* The slots in use of a buffer that will be counted hold what was logged to
\* it since it was reset.
RecordInv ==
  \A b \in Buffers : Awaited(b) /\ ~Retaken(b) =>
    eventBuf[b].logged = { eventBuf[b].buf[i] : i \in Used(b) }

\* A worker has counted all of it, and nothing else.
Given(w) ==
  worker[w].pc = "count" =>
    /\ worker[w].next <= Len(worker[w].buffers) + 1
    /\ processed[w] = UNION { eventBuf[b].logged : b \in Counted(w) }

GivenInv == \A w \in Workers : Given(w)

\* The history is written by the stores, and cleared by allocBuffer().
LEMMA LoggedStore ==
  ASSUME Base, NEW t \in Threads, LogReclaimed(t) \/ LogFast(t) \/ LogSlow(t)
  PROVE  LET buf == ref[t].logBuf
         IN  /\ buf \in Buffers
             /\ eventBuf'[buf].logged = eventBuf[buf].logged \cup {NextEvent(t)}
             /\ \A b \in Buffers \ {buf} : eventBuf'[b] = eventBuf[b]
             /\ \A s \in Threads \ {t} : ref'[s] = ref[s]
<1> DEFINE buf == ref[t].logBuf
<1>1. BaseTypes
  BY BaseTyped
<1>2. StoreEvent(t)
  BY DEF LogReclaimed, LogFast, LogSlow
<1>3. buf \in Buffers
  BY StoreSteps
<1>4. /\ eventBuf'[buf] = Record(StoreAt(eventBuf[buf], ref[t].events, NextEvent(t)), NextEvent(t))
      /\ \A b \in Buffers \ {buf} : eventBuf'[b] = eventBuf[b]
  BY <1>1, <1>2, <1>3 DEF StoreEvent, BaseTypes
<1>5. eventBuf'[buf].logged = eventBuf[buf].logged \cup {NextEvent(t)}
  BY <1>1, <1>3, <1>4 DEF StoreAt, Record, BaseTypes, BufferType
<1>6. \A s \in Threads \ {t} : ref'[s] = ref[s]
  BY <1>1 DEF LogReclaimed, LogFast, LogSlow, BaseTypes
<1>7. QED
  BY <1>3, <1>4, <1>5, <1>6

LEMMA LoggedStays ==
  ASSUME Base, NEW t \in Threads, ThreadStep(t), NEW b \in Buffers,
         ~(LogReclaimed(t) \/ LogFast(t) \/ LogSlow(t)),
         \A buf \in Buffers : CallAllocBuffer(t) /\ AllocBuffer(t, buf) => b # buf
  PROVE  eventBuf'[b].logged = eventBuf[b].logged
<1>1. BaseTypes /\ TypeInv /\ eventBuf[b] \in BufferType
  BY BaseTyped DEF Base, OwnerInvAll, BaseTypes
<1>2. CASE CallAllocBuffer(t)
  <2>1. PICK buf \in Buffers : AllocBuffer(t, buf)
    BY <1>2 DEF CallAllocBuffer
  <2>2. QED
    BY <1>1, <1>2, <2>1, TakenBuffer
<1>3. CASE UpdateEvents(t)
  BY <1>1, <1>3 DEF UpdateEvents, BaseTypes, BufferType
<1>4. CASE UpdateClose(t)
  <2>1. eventBuf'[b] = [ eventBuf[b] EXCEPT !.closed = TRUE ] \/ eventBuf'[b] = eventBuf[b]
    BY <1>1, <1>4 DEF UpdateClose, BaseTypes
  <2>2. QED
    BY <1>1, <2>1 DEF BufferType
<1>5. CASE EndRun(t)
  BY <1>1, <1>5 DEF EndRun, WriteBack, BaseTypes, BufferType
<1>6. CASE ExitThread(t)
  BY <1>1, <1>6 DEF ExitThread, ThreadExit, BaseTypes, BufferType
<1>7. CASE eventBuf' = eventBuf
  BY <1>7
<1>8. QED
  BY <1>2, <1>3, <1>4, <1>5, <1>6, <1>7
     DEF ThreadStep, LoadForRef, GetRef, LoadCurBuf, TryIncEpochFails, TryIncEpochWins, ReclaimOne,
         StartWorker, TooManyWorkers, UpdateAssertFails, FinishThread

\* Only allocBuffer() makes somebody wait for a buffer.
LEMMA AwaitedBefore ==
  ASSUME Base, NEW t \in Threads, ThreadStep(t), NEW b \in Buffers, Awaited(b)',
         \A buf \in Buffers : CallAllocBuffer(t) /\ AllocBuffer(t, buf) => b # buf
  PROVE  Awaited(b)
<1>1. BaseTypes
  BY BaseTyped
<1>2. CASE CallAllocBuffer(t)
  <2>1. PICK buf \in Buffers : AllocBuffer(t, buf)
    BY <1>2 DEF CallAllocBuffer
  <2>2. /\ allocatedBufs' = [ allocatedBufs EXCEPT ![t] = Append(@, buf) ]
        /\ worker' = worker
    <3>1. /\ allocatedBufs' = [ allocatedBufs EXCEPT ![ManagerOf(t)] = Append(@, buf) ]
          /\ worker' = worker
      BY <1>2, <2>1 DEF CallAllocBuffer, AllocBuffer, TakeBuffer
    <3>2. QED
      BY <1>1, <3>1 DEF BaseTypes
  <2>3. b # buf
    BY <1>2, <2>1
  <2>4. \A m \in Managers : InSeq(b, allocatedBufs'[m]) => InSeq(b, allocatedBufs[m])
    BY <1>1, <2>2, <2>3, InSeqAppend DEF BaseTypes
  <2>5. QED
    BY <2>2, <2>4 DEF Awaited, Awaits, Managers, InSeq
<1>3. CASE StartWorker(t)
  <2>0. PICK v \in Workers : v = spawned + 1
    BY <1>1, <1>3, WorkerAssumption DEF StartWorker, Spawn, BaseTypes, Workers
  <2>1. /\ allocatedBufs' = [ allocatedBufs EXCEPT ![t] = << >> ]
        /\ worker'[v].buffers = allocatedBufs[t]
        /\ \A w \in Workers \ {v} : worker'[w] = worker[w]
    BY <1>1, <1>3, <2>0 DEF StartWorker, HandOver, EndEpoch, Spawn, IdleWorker, BaseTypes
  <2>2. ASSUME NEW m \in Managers, InSeq(b, allocatedBufs'[m])
        PROVE  InSeq(b, allocatedBufs[m])
    BY <1>1, <2>1, <2>2, InSeqEmpty DEF BaseTypes
  <2>3. Awaits(v, b)' => InSeq(b, allocatedBufs[t])
    BY <2>1 DEF Awaits, InSeq
  <2>4. \A w \in Workers \ {v} : Awaits(w, b)' => Awaits(w, b)
    BY <2>1 DEF Awaits
  <2>5. QED
    BY <1>1, <2>2, <2>3, <2>4 DEF Awaited, Managers, InSeq, BaseTypes
<1>4. CASE TooManyWorkers(t)
  <2>1. allocatedBufs' = [ allocatedBufs EXCEPT ![t] = << >> ] /\ worker' = worker
    BY <1>1, <1>4 DEF TooManyWorkers, SkipEpoch, EndEpoch, BaseTypes
  <2>2. ASSUME NEW m \in Managers, InSeq(b, allocatedBufs'[m])
        PROVE  InSeq(b, allocatedBufs[m])
    BY <1>1, <2>1, <2>2, InSeqEmpty DEF BaseTypes
  <2>3. QED
    BY <2>1, <2>2 DEF Awaited, Awaits, Managers, InSeq
<1>5. CASE UNCHANGED <<allocatedBufs, worker>>
  BY <1>5 DEF Awaited, Awaits, Managers, InSeq
<1>6. QED
  BY <1>2, <1>3, <1>4, <1>5
     DEF ThreadStep, LoadForRef, GetRef, LoadCurBuf, LogReclaimed, LogFast, LogSlow, StoreEvent,
         TryIncEpochFails, TryIncEpochWins, LoseEpoch, WinEpoch, ReclaimOne, ReclaimFrom,
         UpdateAssertFails, UpdateEvents, UpdateClose, EndRun, ExitThread, ThreadExit, FinishThread


\* The store of an event adds it to the slots in use and to the history.
LEMMA RecordStore ==
  ASSUME Base, Base', NEW t \in Threads, LogReclaimed(t) \/ LogFast(t) \/ LogSlow(t),
         NEW b \in Buffers, eventBuf[b].logged = { eventBuf[b].buf[i] : i \in Used(b) }
  PROVE  eventBuf'[b].logged = { eventBuf'[b].buf[i] : i \in Used(b)' }
<1> DEFINE c == ref[t].logBuf
           k == ref[t].events
<1>1. BaseTypes /\ UsedFirst
  BY BaseTyped, UsedIs
<1>2. UsedFirst'
  BY UsedIs, PTL
<1>3. /\ c \in Buffers /\ k \in Slots /\ k \in Nat
      /\ ref'[t].logBuf = c /\ ref'[t].events = k + 1
      /\ eventBuf'[c].buf[k] = NextEvent(t)
      /\ \A i \in Slots : i # k => eventBuf'[c].buf[i] = eventBuf[c].buf[i]
  BY <1>1, StoreSteps DEF BaseTypes
<1>4. /\ eventBuf'[c].logged = eventBuf[c].logged \cup {NextEvent(t)}
      /\ \A d \in Buffers \ {c} : eventBuf'[d] = eventBuf[d]
      /\ \A s \in Threads \ {t} : ref'[s] = ref[s]
  BY LoggedStore
<1>5. CASE b = c
  <2>1. /\ \A i : i \in Used(b) <=> i \in Slots /\ i < k
        /\ \A i : i \in Used(b)' <=> i \in Slots /\ i < k + 1
    BY <1>1, <1>2, <1>3, <1>5 DEF UsedFirst
  <2>2. \A i \in Slots : i \in Int
    BY DEF Slots
  <2>3. \A i : i \in Used(b)' <=> i = k \/ i \in Used(b)
    BY <1>3, <2>1, <2>2
  <2>4. \A i \in Used(b) : eventBuf'[b].buf[i] = eventBuf[b].buf[i]
    BY <1>3, <1>5, <2>1
  <2>5. eventBuf'[b].buf[k] = NextEvent(t)
        /\ eventBuf'[b].logged = eventBuf[b].logged \cup {NextEvent(t)}
    BY <1>3, <1>4, <1>5
  <2> HIDE DEF c, k
  <2>6. QED
    BY <2>3, <2>4, <2>5
<1>6. CASE b # c
  <2>1. eventBuf'[b] = eventBuf[b]
    BY <1>4, <1>6
  <2>2. \A s \in Threads : ref'[s].logBuf = b => ref'[s] = ref[s]
    BY <1>3, <1>4, <1>6
  <2>3. \A s \in Threads : ref[s].logBuf = b => ref'[s] = ref[s]
    BY <1>4, <1>6
  <2>4. Used(b)' = Used(b)
    BY <2>1, <2>2, <2>3 DEF Used
  <2>5. QED
    BY <2>1, <2>4
<1>7. QED
  BY <1>5, <1>6

\* No two threads have the address of the same buffer.
Unshared == \A s, t \in Threads : s # t => Addresses(s) \cap Addresses(t) \subseteq {Null}

LEMMA BaseUnshared == Base => Unshared
BY NoSharedAddress DEF Base, Unshared

\* A buffer fresh from allocBuffer() is empty, unless the thread refers to it.
LEMMA RecordAlloc ==
  ASSUME Base, Base', NEW t \in Threads, CallAllocBuffer(t), NEW b \in Buffers, AllocBuffer(t, b),
         ~Retaken(b)'
  PROVE  eventBuf'[b].logged = { eventBuf'[b].buf[i] : i \in Used(b)' }
<1>1. BaseTypes /\ TypeInv /\ EndingOK(t)
  BY BaseTyped DEF Base, OwnerInvAll, FullInv
<1>2. /\ ref' = ref
      /\ \/ pc[t] = "alloc_ref"
         \/ pc[t] = "alloc_update" /\ pc'[t] = "update" /\ curBuf'[t] = b
  BY <1>1 DEF CallAllocBuffer, At, Goto, BaseTypes, AllocBuffer, TakeBuffer
<1>3. eventBuf'[b].events = 0 /\ eventBuf'[b].logged = {}
  <2>1. eventBuf'[b] = Assign(Reset(eventBuf[b]), thrContext[t].threadId, epoch[ManagerOf(t)])
    BY <1>1 DEF AllocBuffer, TakeBuffer, BaseTypes
  <2>2. QED
    BY <1>1, <2>1 DEF Assign, Reset, BaseTypes, BufferType
<1>4. ref'[t].logBuf # b
  <2>1. CASE pc[t] = "alloc_ref"
    BY <1>1, <1>2, <2>1 DEF EndingOK, BaseTypes
  <2>2. CASE pc[t] = "alloc_update"
    BY <1>2, <2>2 DEF Retaken
  <2>3. QED
    BY <1>2, <2>1, <2>2
<1>5. ASSUME NEW s \in Threads \ {t}
      PROVE  ref'[s].logBuf # b
  <2>1. logBuffer'[t] = b /\ b # Null
    BY <1>1, TakenBuffer DEF BaseTypes
  <2>2. Unshared'
    BY BaseUnshared, PTL
  <2>3. Addresses(s)' \cap Addresses(t)' \subseteq {Null}
    BY <2>2 DEF Unshared
  <2>4. QED
    BY <2>1, <2>3 DEF Addresses
<1>6. Used(b)' = {}
  BY <1>3, <1>4, <1>5 DEF Used, Slots
<1>7. QED
  BY <1>3, <1>6

LEMMA RecordThread ==
  ASSUME Base, Base', RecordInv, NEW t \in Threads, ThreadStep(t),
         NEW b \in Buffers, Awaited(b)', ~Retaken(b)'
  PROVE  eventBuf'[b].logged = { eventBuf'[b].buf[i] : i \in Used(b)' }
<1>1. BaseTypes /\ OwnerInvAll /\ ThreadLocalManager /\ TypeInv
  BY BaseTyped DEF Base, OwnerInvAll
<1>2. CASE CallAllocBuffer(t) /\ AllocBuffer(t, b)
  BY <1>2, RecordAlloc
<1>3. CASE ~(CallAllocBuffer(t) /\ AllocBuffer(t, b))
  <2>1. Awaited(b)
    BY <1>3, AwaitedBefore
  <2>2. ~Retaken(b)
    <3> SUFFICES ASSUME NEW s \in Threads, pc[s] = "update", curBuf[s] = b, ref[s].logBuf = b
                 PROVE  FALSE
      BY DEF Retaken
    <3>1. CASE s = t
      <4>1. UpdateAssertFails(t)
        BY <3>1 DEF ThreadStep, LoadForRef, CallAllocBuffer, GetRef, LoadCurBuf, LogReclaimed,
           LogFast, LogSlow, StoreEvent, TryIncEpochFails, TryIncEpochWins, ReclaimOne, StartWorker,
           TooManyWorkers, UpdateEvents, UpdateClose, EndRun, ExitThread, FinishThread, At
      <4>2. pc' = pc /\ curBuf' = curBuf /\ ref' = ref
        BY <4>1 DEF UpdateAssertFails
      <4>3. QED
        BY <4>2 DEF Retaken
    <3>2. CASE s # t
      <4>1. pc'[s] = pc[s] /\ ref'[s] = ref[s] /\ curBuf'[s] = curBuf[s]
        BY <1>1, <3>2, OthersLeaveAlone DEF OwnerInvAll
      <4>2. QED
        BY <4>1 DEF Retaken
    <3>3. QED
      BY <3>1, <3>2
  <2>3. eventBuf[b].logged = { eventBuf[b].buf[i] : i \in Used(b) }
    BY <2>1, <2>2 DEF RecordInv
  <2>4. CASE LogReclaimed(t) \/ LogFast(t) \/ LogSlow(t)
    BY <2>3, <2>4, RecordStore
  <2>5. CASE ~(LogReclaimed(t) \/ LogFast(t) \/ LogSlow(t))
    <3>1. eventBuf'[b].logged = eventBuf[b].logged
      BY <1>3, <2>5, LoggedStays
    <3>2. \A i \in Used(b) : i \in Used(b)' /\ eventBuf'[b].buf[i] = eventBuf[b].buf[i]
      BY <2>1, SlotsKept
    <3>3. NothingNew
      BY <1>1, <2>5, SlotsManager, SlotsThread
    <3>4. Live(b)'
      BY DEF Awaited, Live
    <3>5. Used(b)' = Used(b)
      BY <3>2, <3>3, <3>4 DEF NothingNew
    <3>6. QED
      BY <2>3, <3>1, <3>2, <3>5
  <2>6. QED
    BY <2>4, <2>5
<1>4. QED
  BY <1>2, <1>3

\* What a worker has counted stays as it was while the threads go on.
LEMMA GivenThread ==
  ASSUME Base, DeliveryInv, NEW t \in Threads, ThreadStep(t), NEW w \in Workers, Given(w)
  PROVE  Given(w)'
<1>1. BaseTypes /\ worker[w] \in WorkerType /\ processed' = processed
      /\ worker[w].next \in Nat /\ Len(worker[w].buffers) \in Nat
      /\ DOMAIN worker[w].buffers = 1 .. Len(worker[w].buffers)
  <2>1. BaseTypes /\ worker[w] \in WorkerType
    BY BaseTyped DEF BaseTypes
  <2>2. processed' = processed
    BY DEF ThreadStep, LoadForRef, CallAllocBuffer, GetRef, LoadCurBuf, LogReclaimed, LogFast,
       LogSlow, StoreEvent, TryIncEpochFails, TryIncEpochWins, ReclaimOne, StartWorker, Spawn,
       TooManyWorkers, UpdateAssertFails, UpdateEvents, UpdateClose, EndRun, ExitThread, FinishThread
  <2>3. QED
    BY <2>1, <2>2, LenProperties DEF WorkerType
<1> SUFFICES ASSUME worker'[w].pc = "count"
             PROVE  Given(w)'
  BY DEF Given
<1>2. worker'[w] = worker[w]
  BY <1>1 DEF BaseTypes, ThreadStep, LoadForRef, CallAllocBuffer, GetRef, LoadCurBuf, LogReclaimed, LogFast,
     LogSlow, StoreEvent, TryIncEpochFails, TryIncEpochWins, ReclaimOne, StartWorker, Spawn, IdleWorker,
     TooManyWorkers, UpdateAssertFails, UpdateEvents, UpdateClose, EndRun, ExitThread, FinishThread
<1>3. ASSUME NEW b \in Counted(w)
      PROVE  eventBuf'[b].logged = eventBuf[b].logged
  <2>1. PICK i \in 1 .. worker[w].next - 1 : b = worker[w].buffers[i]
    BY DEF Counted
  <2>2. i \in DOMAIN worker[w].buffers
    BY <1>1, <1>2, <2>1 DEF Given
  <2>3. b \in Buffers
    BY <1>1, <2>1, <2>2, ElementOfSeq DEF WorkerType
  <2>4. eventBuf[b].closed
    BY <1>2, <2>1, <2>2 DEF DeliveryInv, FoundClosed
  <2>5. \A buf \in Buffers : CallAllocBuffer(t) /\ AllocBuffer(t, buf) => b # buf
    BY <1>2, <2>1, <2>2, <2>3, AwaitedNotTaken DEF Owning, InSeq
  <2>6. CASE LogReclaimed(t) \/ LogFast(t) \/ LogSlow(t)
    <3>1. ref[t].logBuf # b
      BY <1>1, <2>3, <2>4 DEF DeliveryInv, RefOpen, BaseTypes
    <3>2. QED
      BY <2>3, <2>6, <3>1, LoggedStore
  <2>7. CASE ~(LogReclaimed(t) \/ LogFast(t) \/ LogSlow(t))
    BY <2>3, <2>5, <2>7, LoggedStays
  <2>8. QED
    BY <2>6, <2>7
<1>4. Counted(w)' = Counted(w)
  BY <1>2 DEF Counted
<1>5. UNION { eventBuf'[b].logged : b \in Counted(w) } = UNION { eventBuf[b].logged : b \in Counted(w) }
  BY <1>3
<1>6. QED
  BY <1>1, <1>2, <1>4, <1>5 DEF Given

\* A worker counts what the history of its next buffer says.
LEMMA GivenWorker ==
  ASSUME Base, DeliveryInv, RecordInv, NEW v \in Workers, WorkerStep(v),
         NEW w \in Workers, Given(w)
  PROVE  Given(w)'
<1>1. BaseTypes /\ worker[w] \in WorkerType /\ eventBuf' = eventBuf
      /\ worker[w].next \in Nat \ {0} /\ Len(worker[w].buffers) \in Nat
      /\ DOMAIN worker[w].buffers = 1 .. Len(worker[w].buffers)
  <2>1. BaseTypes /\ worker[w] \in WorkerType
    BY BaseTyped DEF BaseTypes
  <2>2. eventBuf' = eventBuf
    BY DEF WorkerStep, WaitClosed, StartCounting, CountBuffer, WorkerReleases, ReturnBuffers,
       ReturnToDestroyed
  <2>3. QED
    BY <2>1, <2>2, LenProperties DEF WorkerType
<1>2. CASE w # v
  <2>1. worker'[w] = worker[w] /\ processed'[w] = processed[w]
    BY <1>1, <1>2 DEF BaseTypes, TypeInv, TypeOK, Base, OwnerInvAll, WorkerStep, WaitClosed,
       StartCounting, CountBuffer, WorkerReleases, ReturnBuffers, ReturnToDestroyed
  <2>2. QED
    BY <1>1, <2>1 DEF Given, Counted
<1>3. CASE WaitClosed(w) \/ ReturnBuffers(w) \/ ReturnToDestroyed(w)
  <2>1. worker'[w].pc # "count"
    <3>1. worker \in [ Workers -> WorkerType ]
      BY <1>1 DEF BaseTypes
    <3>2. WaitClosed(w) => worker'[w].pc = "wait"
      BY <3>1 DEF WaitClosed, WorkerType
    <3>3. ReturnBuffers(w) => worker'[w].pc = "done"
      BY <3>1 DEF ReturnBuffers, WorkerType
    <3>4. ReturnToDestroyed(w) => worker'[w].pc = "lost"
      BY <3>1 DEF ReturnToDestroyed, WorkerType
    <3>5. QED
      BY <1>3, <3>2, <3>3, <3>4
  <2>2. QED
    BY <2>1 DEF Given
<1>4. CASE StartCounting(w)
  <2>1. /\ worker'[w].next = 1 /\ worker'[w].buffers = worker[w].buffers
        /\ worker[w].pc = "wait" /\ processed' = processed
    BY <1>1, <1>4 DEF StartCounting, BaseTypes, WorkerType
  <2>2. processed[w] = {}
    BY <2>1 DEF Base, CountInv, ProcessedInv
  <2>3. Counted(w)' = {}
    BY <2>1 DEF Counted
  <2>4. QED
    BY <1>1, <2>1, <2>2, <2>3 DEF Given
<1>5. CASE CountBuffer(w)
  <2> DEFINE n == worker[w].next
             b == worker[w].buffers[n]
  <2>1. /\ b \in Buffers /\ Awaits(w, b) /\ n \in DOMAIN worker[w].buffers
        /\ \A t \in Threads : ref[t].logBuf # b
    BY <1>5, CountedBuffer
  <2>2. /\ worker'[w].next = n + 1 /\ worker'[w].buffers = worker[w].buffers
        /\ worker[w].pc = "count" /\ n <= Len(worker[w].buffers)
        /\ processed'[w] = processed[w] \cup Contents(eventBuf[b])
    BY <1>1, <1>5 DEF CountBuffer, BaseTypes, WorkerType, Base, OwnerInvAll, TypeInv, TypeOK
  <2>3. eventBuf[b].logged = { eventBuf[b].buf[i] : i \in Used(b) }
    BY <2>1 DEF RecordInv, Retaken, Awaited
  <2>4. Contents(eventBuf[b]) = { eventBuf[b].buf[i] : i \in Used(b) }
    <3>1. Used(b) = { j \in Slots : j < eventBuf[b].events }
      BY <2>1 DEF Used
    <3>2. QED
      BY <3>1 DEF Contents
  <2>5. Counted(w)' = Counted(w) \cup {b}
    <3>1. /\ Counted(w)' = { worker[w].buffers[i] : i \in 1 .. (n + 1) - 1 }
          /\ Counted(w) = { worker[w].buffers[i] : i \in 1 .. n - 1 }
      BY <2>2 DEF Counted
    <3>2. 1 .. (n + 1) - 1 = (1 .. n - 1) \cup {n}
      BY <1>1
    <3>3. QED
      BY <3>1, <3>2
  <2>6. processed[w] = UNION { eventBuf[c].logged : c \in Counted(w) }
    BY <2>2 DEF Given
  <2> HIDE DEF b
  <2>7. processed'[w] = UNION { eventBuf'[c].logged : c \in Counted(w)' }
    BY <1>1, <2>2, <2>3, <2>4, <2>5, <2>6
  <2>8. worker'[w].next <= Len(worker'[w].buffers) + 1
    BY <1>1, <2>2
  <2>9. QED
    BY <2>7, <2>8 DEF Given
<1>6. QED
  BY <1>2, <1>3, <1>4, <1>5 DEF WorkerStep, WorkerReleases

LEMMA RecordWorker ==
  ASSUME Base, RecordInv, NEW w \in Workers, WorkerStep(w)
  PROVE  RecordInv'
<1>1. BaseTypes /\ worker[w] \in WorkerType
  BY BaseTyped DEF BaseTypes
<1>2. /\ UNCHANGED <<eventBuf, ref, pc, curBuf, allocatedBufs>>
      /\ \A v \in Workers \ {w} : worker'[v] = worker[v]
  BY <1>1 DEF WorkerStep, WaitClosed, StartCounting, CountBuffer, WorkerReleases, ReturnBuffers,
     Release, ReturnToDestroyed, BaseTypes
<1>3. ASSUME NEW b \in Buffers, Awaits(w, b)'
      PROVE  Awaits(w, b)
  <2>1. PICK i \in DOMAIN worker'[w].buffers :
          /\ worker'[w].buffers[i] = b
          /\ worker'[w].pc = "wait" \/ (worker'[w].pc = "count" /\ i >= worker'[w].next)
    BY <1>3 DEF Awaits
  <2>2. worker'[w].buffers = worker[w].buffers
    BY <1>1 DEF WorkerStep, WaitClosed, StartCounting, CountBuffer, WorkerReleases, ReturnBuffers,
       Release, ReturnToDestroyed, BaseTypes, WorkerType
  <2>3. CASE WaitClosed(w) \/ StartCounting(w)
    BY <2>1, <2>2, <2>3 DEF WaitClosed, StartCounting, Awaits
  <2>4. CASE CountBuffer(w)
    <3>1. worker[w].pc = "count" /\ worker'[w].pc = "count" /\ worker'[w].next = worker[w].next + 1
      BY <1>1, <2>4 DEF CountBuffer, BaseTypes, WorkerType
    <3>2. i \in Nat /\ worker[w].next \in Nat
      BY <1>1, <2>1, <2>2, LenProperties DEF WorkerType
    <3>3. i >= worker[w].next
      BY <2>1, <3>1, <3>2
    <3>4. QED
      BY <2>1, <2>2, <3>1, <3>3 DEF Awaits
  <2>5. ~ReturnBuffers(w) /\ ~ReturnToDestroyed(w)
    BY <1>1, <2>1 DEF ReturnBuffers, ReturnToDestroyed, BaseTypes, WorkerType
  <2>6. QED
    BY <2>3, <2>4, <2>5 DEF WorkerStep, WorkerReleases
<1>4. \A b \in Buffers : Awaited(b)' => Awaited(b)
  <2>1. \A b \in Buffers : \A v \in Workers \ {w} : Awaits(v, b)' => Awaits(v, b)
    BY <1>2 DEF Awaits
  <2>2. QED
    BY <1>2, <1>3, <2>1 DEF Awaited, InSeq, Managers
<1>5. \A b \in Buffers : (Retaken(b)' <=> Retaken(b)) /\ Used(b)' = Used(b)
  BY <1>2 DEF Retaken, Used
<1>6. QED
  BY <1>2, <1>4, <1>5 DEF RecordInv

LEMMA GivenInit == Init => RecordInv /\ GivenInv
<1> SUFFICES ASSUME Init PROVE RecordInv /\ GivenInv
  OBVIOUS
<1>1. /\ \A w \in Workers : worker[w].pc = "none"
      /\ \A m \in Managers : allocatedBufs[m] = << >>
  BY DEF Init, BufferManagerInit, WorkerInit, IdleWorker
<1>2. \A b \in Buffers : ~Awaited(b)
  BY <1>1, InSeqEmpty DEF Awaited, Awaits
<1>3. QED
  BY <1>1, <1>2 DEF RecordInv, GivenInv, Given

LEMMA GivenNext ==
  Base /\ Base' /\ DeliveryInv /\ RecordInv /\ GivenInv /\ [Next]_vars => RecordInv' /\ GivenInv'
<1> SUFFICES ASSUME Base, Base', DeliveryInv, RecordInv, GivenInv, [Next]_vars
             PROVE  RecordInv' /\ GivenInv'
  OBVIOUS
<1>1. ASSUME NEW t \in Threads, ThreadStep(t)
      PROVE  RecordInv' /\ GivenInv'
  <2>1. RecordInv'
    BY <1>1, RecordThread DEF RecordInv
  <2>2. GivenInv'
    BY <1>1, GivenThread DEF GivenInv
  <2>3. QED
    BY <2>1, <2>2
<1>2. ASSUME NEW w \in Workers, WorkerStep(w)
      PROVE  RecordInv' /\ GivenInv'
  BY <1>2, RecordWorker, GivenWorker DEF GivenInv
<1>3. CASE MainReturns \/ Halted \/ UNCHANGED vars
  <2>1. UNCHANGED <<eventBuf, ref, pc, curBuf, allocatedBufs, worker, processed>>
    BY <1>3 DEF MainReturns, Halted
  <2>2. \A b \in Buffers :
          /\ (Awaited(b)' <=> Awaited(b)) /\ (Retaken(b)' <=> Retaken(b)) /\ Used(b)' = Used(b)
    BY <2>1 DEF Awaited, Awaits, InSeq, Managers, Retaken, Used
  <2>3. QED
    BY <2>1, <2>2 DEF RecordInv, GivenInv, Given, Counted
<1>4. QED
  BY <1>1, <1>2, <1>3 DEF Next

\* As built, a worker counts exactly what was logged to each of its buffers
\* since allocBuffer() reset it, each event once: nothing an earlier epoch
\* left in the slots is counted, and nothing is missing (Worker.h:15-20,
\* BufferManager.cc:38).
THEOREM CountsAreExact == Spec => [](ThreadLocalManager => CountExact)
<1>1. Base /\ GivenInv => CountExact
  <2> SUFFICES ASSUME Base, GivenInv, NEW w \in Workers
               PROVE  /\ worker[w].events = Cardinality(processed[w])
                      /\ worker[w].pc = "count" =>
                           /\ processed[w] \subseteq UNION { eventBuf[b].logged : b \in Counted(w) }
                           /\ \A b \in Counted(w) : Cardinality(eventBuf[b].logged \ processed[w]) <= 0
    BY DEF CountExact, Base
  <2>1. worker[w].events = Cardinality(processed[w])
    BY DEF Base, CountInv, ProcessedInv
  <2>2. ASSUME worker[w].pc = "count"
        PROVE  processed[w] = UNION { eventBuf[b].logged : b \in Counted(w) }
    BY <2>2 DEF GivenInv, Given
  <2>3. ASSUME worker[w].pc = "count", NEW b \in Counted(w)
        PROVE  Cardinality(eventBuf[b].logged \ processed[w]) <= 0
    <3>1. eventBuf[b].logged \ processed[w] = {}
      BY <2>2, <2>3
    <3>2. QED
      BY <3>1, FS_EmptySet
  <2>4. QED
    BY <2>1, <2>2, <2>3
<1>2. Spec => [](ThreadLocalManager => Base /\ DeliveryInv /\ RecordInv /\ GivenInv)
  <2>1. Init /\ (ThreadLocalManager => Base)
          => (ThreadLocalManager => Base /\ DeliveryInv /\ RecordInv /\ GivenInv)
    BY DeliveryInit, GivenInit
  <2>2. (ThreadLocalManager => Base /\ DeliveryInv /\ RecordInv /\ GivenInv)
          /\ (ThreadLocalManager => Base)' /\ [Next]_vars
          => (ThreadLocalManager => Base /\ DeliveryInv /\ RecordInv /\ GivenInv)'
    BY DeliveryNext, GivenNext
  <2>3. QED
    BY <2>1, <2>2, BaseInvariant, PTL DEF Spec
<1>3. QED
  BY <1>1, <1>2, PTL
=============================================================================
