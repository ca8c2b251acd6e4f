----------------------------- MODULE OwnerProofs -----------------------------
(***************************************************************************)
(* Who has an EventBuffer.  In the program as it is built, with a manager  *)
(* for each thread, a buffer only ever circulates between one thread, its  *)
(* manager and the workers of its manager.  So threads cannot disturb each *)
(* other, and what a thread knows of its own buffer holds whatever the     *)
(* others do.  The sections on the number of workers and on the            *)
(* coordinator of an epoch hold of a manager shared by threads as well.    *)
(***************************************************************************)
EXTENDS EpochProofs

USE DEF vars, bufferVars, contextVars, managerVars, workerVars, threadVars

\* The manager m, or one of its workers, has the buffer b.
Placed(m, b) ==
  \/ InSeq(b, freeBufs[m])
  \/ InSeq(b, allocatedBufs[m])
  \/ \E w \in Workers :
       worker[w].pc \in Owning /\ worker[w].manager = m /\ InSeq(b, worker[w].buffers)

\* Every address in the hands of a thread, and every address a worker ever
\* had, is that of a buffer of its manager.
PlacedInv ==
  /\ \A t \in Threads :
       \A b \in {ref[t].logBuf, curBuf[t], logBuffer[t], thrContext[t].logBuffer} \ {Null} :
         Placed(ManagerOf(t), b)
  /\ \A w \in Workers :
       /\ worker[w].pc = "none" => worker[w].buffers = << >>
       /\ \A b \in Buffers : InSeq(b, worker[w].buffers) => Placed(worker[w].manager, b)

\* The counters of a reference, or of an EventBuffer a reference can be made
\* from: the next slow path is at most a batch away, and below the end.
RefOK(r) == r.events <= r.nextRdtscTime /\ r.nextRdtscTime < MaxEvents + BatchSize

\* A thread that is alone with its manager: its buffer is reclaimed by nobody
\* else, and stays open as long as it has it.
WriterOK(t) ==
  /\ pc[t] \in {"run", "store", "try_inc", "make_ref", "update", "close"} => logBuffer[t] # Null
  /\ pc[t] = "store" => curBuf[t] # Null
  /\ pc[t] = "close" => ref[t].logBuf # logBuffer[t]
  /\ pc[t] \in {"reclaim", "alloc_update", "update"} =>
       ref[t].logBuf # Null /\ ~eventBuf[ref[t].logBuf].closed
  /\ Alive(t) /\ logBuffer[t] # Null => ~eventBuf[logBuffer[t]].closed
  /\ pc[t] \in {"run", "store"} => RefOK(ref[t])
  /\ pc[t] \in {"idle", "make_ref"} /\ logBuffer[t] # Null => RefOK(eventBuf[logBuffer[t]])

WriterInv == \A t \in Threads : WriterOK(t)

\* Sequences of buffers.

LEMMA InSeqAppend ==
  ASSUME NEW s \in Seq(Buffers), NEW x \in Buffers
  PROVE  \A b : InSeq(b, Append(s, x)) <=> InSeq(b, s) \/ b = x
<1>1. /\ Len(Append(s, x)) = Len(s) + 1 /\ Append(s, x)[Len(s) + 1] = x
      /\ \A i \in 1 .. Len(s) : Append(s, x)[i] = s[i]
      /\ DOMAIN s = 1 .. Len(s) /\ DOMAIN Append(s, x) = 1 .. Len(s) + 1 /\ Len(s) \in Nat
  OBVIOUS
<1>2. QED
  BY <1>1 DEF InSeq

LEMMA InSeqConcat ==
  ASSUME NEW s \in Seq(Buffers), NEW r \in Seq(Buffers)
  PROVE  \A b : InSeq(b, s) \/ InSeq(b, r) => InSeq(b, s \o r)
<1>1. /\ DOMAIN s = 1 .. Len(s) /\ DOMAIN r = 1 .. Len(r) /\ Len(s) \in Nat /\ Len(r) \in Nat
      /\ DOMAIN (s \o r) = 1 .. Len(s) + Len(r)
      /\ \A i \in 1 .. Len(s) : (s \o r)[i] = s[i]
      /\ \A i \in 1 .. Len(r) : (s \o r)[Len(s) + i] = r[i]
  BY ConcatProperties
<1>2. ASSUME NEW i \in 1 .. Len(r)
      PROVE  Len(s) + i \in DOMAIN (s \o r) /\ (s \o r)[Len(s) + i] = r[i]
  BY <1>1
<1>3. ASSUME NEW i \in 1 .. Len(s)
      PROVE  i \in DOMAIN (s \o r) /\ (s \o r)[i] = s[i]
  BY <1>1
<1>4. QED
  BY <1>1, <1>2, <1>3, Zenon DEF InSeq

LEMMA InSeqFront ==
  ASSUME NEW s \in Seq(Buffers), s # << >>
  PROVE  /\ \A b : InSeq(b, s) => InSeq(b, Front(s)) \/ b = Last(s)
         /\ InSeq(Last(s), s)
<1>1. Len(s) \in Nat \ {0} /\ DOMAIN s = 1 .. Len(s)
  BY EmptySeq, LenProperties
<1>2. /\ DOMAIN Front(s) = 1 .. Len(s) - 1
      /\ \A i \in 1 .. Len(s) - 1 : Front(s)[i] = s[i]
      /\ Last(s) = s[Len(s)]
  BY <1>1, SubSeqProperties DEF Front, Last
<1>3. QED
  BY <1>1, <1>2 DEF InSeq

LEMMA InSeqEmpty == \A b : ~InSeq(b, << >>)
BY DEF InSeq

-----------------------------------------------------------------------------
\* Each buffer has one owner (a consequence of PoolInv).

HolderFor(h, m) ==
  \/ h = <<"free", m>>
  \/ h = <<"allocated", m>>
  \/ \E w \in Workers : h = <<"worker", w>> /\ worker[w].manager = m

LEMMA PlacedHolder ==
  ASSUME NEW m \in Managers, NEW b, Placed(m, b)
  PROVE  \E h \in Holders : HolderFor(h, m) /\ InSeq(b, Pool[h])
<1>1. CASE InSeq(b, freeBufs[m])
  BY <1>1, PoolAt DEF HolderFor
<1>2. CASE InSeq(b, allocatedBufs[m])
  BY <1>2, PoolAt DEF HolderFor
<1>3. ASSUME NEW w \in Workers,
             worker[w].pc \in Owning /\ worker[w].manager = m /\ InSeq(b, worker[w].buffers)
      PROVE  \E h \in Holders : HolderFor(h, m) /\ InSeq(b, Pool[h])
  BY <1>3, PoolAt DEF HolderFor
<1>4. QED
  BY <1>1, <1>2, <1>3 DEF Placed

LEMMA OneOwner ==
  ASSUME PoolInv, NEW m \in Managers, NEW n \in Managers, NEW b, Placed(m, b), Placed(n, b)
  PROVE  m = n
<1>1. PICK g \in Holders : HolderFor(g, m) /\ InSeq(b, Pool[g])
  BY PlacedHolder
<1>2. PICK h \in Holders : HolderFor(h, n) /\ InSeq(b, Pool[h])
  BY PlacedHolder
<1>3. g = h
  BY <1>1, <1>2 DEF PoolInv, OnePlace, InSeq
<1>4. QED
  BY <1>1, <1>2, <1>3 DEF HolderFor

LEMMA PlacedInHeap ==
  ASSUME PoolInv, NEW m \in Managers, NEW b, Placed(m, b)
  PROVE  b \in 1 .. heap
<1>1. PICK h \in Holders : InSeq(b, Pool[h])
  BY PlacedHolder
<1>2. Pool[h] \in Seq(1 .. heap)
  BY DEF PoolInv, OnePlace
<1>3. PICK i \in DOMAIN Pool[h] : Pool[h][i] = b
  BY <1>1 DEF InSeq
<1>4. DOMAIN Pool[h] = 1 .. Len(Pool[h])
  BY <1>2
<1>5. QED
  BY <1>2, <1>3, <1>4, ElementOfSeq

\* A buffer of the current epoch is neither free nor with a worker.
LEMMA AllocatedNowhereElse ==
  ASSUME PoolInv, NEW m \in Managers, NEW b, InSeq(b, allocatedBufs[m])
  PROVE  /\ \A n \in Managers : ~InSeq(b, freeBufs[n])
         /\ \A w \in Workers : worker[w].pc \in Owning => ~InSeq(b, worker[w].buffers)
<1> DEFINE h == <<"allocated", m>>
<1>1. h \in Holders /\ InSeq(b, Pool[h])
  BY PoolAt
<1>2. ASSUME NEW g \in Holders, InSeq(b, Pool[g])
      PROVE  g = h
  BY <1>1, <1>2 DEF PoolInv, OnePlace, InSeq
<1>3. ASSUME NEW n \in Managers, InSeq(b, freeBufs[n])
      PROVE  FALSE
  <2>1. <<"free", n>> = h
    BY <1>2, <1>3, PoolAt
  <2>2. QED
    BY <2>1
<1>4. ASSUME NEW w \in Workers, worker[w].pc \in Owning, InSeq(b, worker[w].buffers)
      PROVE  FALSE
  <2>1. <<"worker", w>> = h
    BY <1>2, <1>4, PoolAt
  <2>2. QED
    BY <2>1
<1>5. QED
  BY <1>3, <1>4

-----------------------------------------------------------------------------
\* A buffer never leaves its manager.

LEMMA PlacedUnmoved ==
  ASSUME UNCHANGED <<freeBufs, allocatedBufs>>,
         \A w \in Workers : /\ worker'[w].buffers = worker[w].buffers
                            /\ worker'[w].manager = worker[w].manager
                            /\ worker[w].pc \in Owning => worker'[w].pc \in Owning,
         NEW m, NEW b, Placed(m, b)
  PROVE  Placed(m, b)'
BY DEF Placed

LEMMA PlacedAlloc ==
  ASSUME TypeInv, NEW t \in Threads, NEW buf \in Buffers, AllocBuffer(t, buf),
         UNCHANGED workerVars
  PROVE  /\ Placed(ManagerOf(t), buf)'
         /\ \A m \in Managers, b \in Buffers : Placed(m, b) => Placed(m, b)'
<1> DEFINE n == ManagerOf(t)
<1>1. /\ n \in Managers
      /\ freeBufs \in [ Managers -> Seq(Buffers) ] /\ allocatedBufs \in [ Managers -> Seq(Buffers) ]
  BY ManagerOfType DEF TypeInv, TypeOK
<1>2. /\ allocatedBufs' = [ allocatedBufs EXCEPT ![n] = Append(@, buf) ]
      /\ worker' = worker
      /\ \/ freeBufs' = freeBufs
         \/ /\ freeBufs[n] # << >> /\ buf = Last(freeBufs[n])
            /\ freeBufs' = [ freeBufs EXCEPT ![n] = Front(@) ]
  BY DEF AllocBuffer, TakeBuffer
<1>3. \A b : InSeq(b, allocatedBufs[n]) \/ b = buf => InSeq(b, allocatedBufs'[n])
  BY <1>1, <1>2, InSeqAppend
<1>4. \A b : InSeq(b, freeBufs[n]) => InSeq(b, freeBufs'[n]) \/ b = buf
  BY <1>1, <1>2, InSeqFront
<1>5. \A m \in Managers \ {n} : freeBufs'[m] = freeBufs[m] /\ allocatedBufs'[m] = allocatedBufs[m]
  BY <1>1, <1>2
<1> HIDE DEF n
<1>6. Placed(n, buf)'
  BY <1>3 DEF Placed
<1>7. ASSUME NEW m \in Managers, NEW b \in Buffers, Placed(m, b)
      PROVE  Placed(m, b)'
  <2>1. CASE m = n
    BY <1>2, <1>3, <1>4, <1>7, <2>1 DEF Placed
  <2>2. CASE m # n
    BY <1>2, <1>5, <1>7, <2>2 DEF Placed
  <2>3. QED
    BY <2>1, <2>2
<1>8. QED
  BY <1>6, <1>7 DEF n, Placed, ManagerOf
LEMMA PlacedHandOver ==
  ASSUME TypeInv, PoolInv, NEW t \in Threads, HandOver(t), Spawn(ManagerOf(t))
  PROVE  /\ \A m \in Managers, b \in Buffers : Placed(m, b) => Placed(m, b)'
         /\ \A w \in Workers : \A b \in Buffers : InSeq(b, worker'[w].buffers) =>
              \/ worker'[w].manager = worker[w].manager /\ InSeq(b, worker[w].buffers)
              \/ worker'[w].manager \in Managers /\ Placed(worker'[w].manager, b)
         /\ \A w \in Workers : worker'[w].pc = "none" =>
              worker[w].pc = "none" /\ worker'[w].buffers = worker[w].buffers
<1> DEFINE n   == ManagerOf(t)
           new == spawned + 1
<1>1. /\ n \in Managers /\ new \in Workers
      /\ worker \in [ Workers -> WorkerType ]
      /\ allocatedBufs \in [ Managers -> Seq(Buffers) ]
      /\ new > spawned
  BY ManagerOfType, WorkerAssumption DEF Spawn, Workers, TypeInv, TypeOK
<1>2. /\ freeBufs' = freeBufs
      /\ allocatedBufs' = [ allocatedBufs EXCEPT ![n] = << >> ]
      /\ worker' = [ worker EXCEPT ![new] = [ IdleWorker EXCEPT
                       !.pc = "wait", !.manager = n, !.buffers = allocatedBufs[n] ] ]
  BY DEF HandOver, EndEpoch, Spawn
<1>3. /\ worker'[new].pc = "wait" /\ worker'[new].manager = n
      /\ worker'[new].buffers = allocatedBufs[n]
      /\ \A w \in Workers \ {new} : worker'[w] = worker[w]
  BY <1>1, <1>2 DEF IdleWorker
<1>4. worker[new].pc = "none"
  BY <1>1 DEF PoolInv
<1> HIDE DEF n, new
<1>5. ASSUME NEW m \in Managers, NEW b \in Buffers, Placed(m, b)
      PROVE  Placed(m, b)'
  <2>1. CASE InSeq(b, freeBufs[m])
    BY <1>2, <2>1 DEF Placed
  <2>2. CASE InSeq(b, allocatedBufs[m])
    <3>1. CASE m = n
      BY <1>1, <1>3, <2>2, <3>1 DEF Placed, Owning
    <3>2. CASE m # n
      BY <1>1, <1>2, <2>2, <3>2 DEF Placed
    <3>3. QED
      BY <3>1, <3>2
  <2>3. ASSUME NEW w \in Workers,
               worker[w].pc \in Owning /\ worker[w].manager = m /\ InSeq(b, worker[w].buffers)
        PROVE  Placed(m, b)'
    <3>1. w # new
      BY <1>4, <2>3 DEF Owning
    <3>2. QED
      BY <1>3, <2>3, <3>1 DEF Placed
  <2>4. QED
    BY <1>5, <2>1, <2>2, <2>3 DEF Placed
<1>6. ASSUME NEW w \in Workers, NEW b \in Buffers, InSeq(b, worker'[w].buffers)
      PROVE  \/ worker'[w].manager = worker[w].manager /\ InSeq(b, worker[w].buffers)
             \/ worker'[w].manager \in Managers /\ Placed(worker'[w].manager, b)
  BY <1>1, <1>3, <1>6 DEF Placed
<1>7. QED
  BY <1>3, <1>5, <1>6

LEMMA PlacedSkip ==
  ASSUME TypeInv, NEW t \in Threads, SkipEpoch(t), UNCHANGED workerVars,
         NEW m \in Managers, NEW b \in Buffers, Placed(m, b)
  PROVE  Placed(m, b)'
<1> DEFINE n == ManagerOf(t)
<1>1. /\ n \in Managers
      /\ freeBufs \in [ Managers -> Seq(Buffers) ] /\ allocatedBufs \in [ Managers -> Seq(Buffers) ]
  BY ManagerOfType DEF TypeInv, TypeOK
<1>2. /\ freeBufs'      = [ freeBufs EXCEPT ![n] = @ \o allocatedBufs[n] ]
      /\ allocatedBufs' = [ allocatedBufs EXCEPT ![n] = << >> ]
      /\ worker' = worker
  BY DEF SkipEpoch, EndEpoch
<1> HIDE DEF n
<1>3. InSeq(b, freeBufs[n]) \/ InSeq(b, allocatedBufs[n]) => InSeq(b, freeBufs'[n])
  BY <1>1, <1>2, InSeqConcat
<1>4. CASE m = n
  BY <1>2, <1>3, <1>4 DEF Placed
<1>5. CASE m # n
  BY <1>1, <1>2, <1>5 DEF Placed
<1>6. QED
  BY <1>4, <1>5

LEMMA PlacedReturn ==
  ASSUME TypeInv, PoolInv, NEW w \in Workers, ReturnBuffers(w),
         NEW m \in Managers, NEW b \in Buffers, Placed(m, b)
  PROVE  Placed(m, b)'
<1> DEFINE n == worker[w].manager
<1>1. /\ worker \in [ Workers -> WorkerType ]
      /\ freeBufs \in [ Managers -> Seq(Buffers) ]
      /\ worker[w].pc = "count" /\ worker[w].buffers \in Seq(Buffers)
  BY DEF ReturnBuffers, TypeInv, TypeOK, WorkerType
<1>2. n \in Managers
  BY <1>1 DEF PoolInv
<1>3. /\ freeBufs' = [ freeBufs EXCEPT ![n] = @ \o worker[w].buffers ]
      /\ allocatedBufs' = allocatedBufs
      /\ \A v \in Workers \ {w} : worker'[v] = worker[v]
  BY <1>1 DEF ReturnBuffers, Release
<1>4. /\ InSeq(b, freeBufs[n]) \/ InSeq(b, worker[w].buffers) => InSeq(b, freeBufs'[n])
      /\ \A k \in Managers \ {n} : freeBufs'[k] = freeBufs[k]
  BY <1>1, <1>2, <1>3, InSeqConcat
<1> HIDE DEF n
<1>5. CASE InSeq(b, freeBufs[m])
  BY <1>4, <1>5 DEF Placed
<1>6. CASE InSeq(b, allocatedBufs[m])
  BY <1>3, <1>6 DEF Placed
<1>7. ASSUME NEW v \in Workers,
             worker[v].pc \in Owning /\ worker[v].manager = m /\ InSeq(b, worker[v].buffers)
      PROVE  Placed(m, b)'
  <2>1. CASE v = w
    BY <1>4, <1>7, <2>1 DEF Placed, n
  <2>2. CASE v # w
    BY <1>3, <1>7, <2>2 DEF Placed
  <2>3. QED
    BY <2>1, <2>2
<1>8. QED
  BY <1>5, <1>6, <1>7 DEF Placed

\* The steps of a worker keep its arguments.
LEMMA WorkerKeepsArguments ==
  ASSUME TypeInv, NEW w \in Workers, WorkerStep(w), NEW v \in Workers
  PROVE  /\ worker'[v].buffers = worker[v].buffers
         /\ worker'[v].manager = worker[v].manager
         /\ worker'[v].pc = "none" => worker[v].pc = "none"
         /\ ~ReturnBuffers(w) /\ worker[v].pc \in Owning => worker'[v].pc \in Owning
<1>1. worker \in [ Workers -> WorkerType ]
  BY DEF TypeInv, TypeOK
<1>2. CASE WaitClosed(w)
  BY <1>1, <1>2 DEF WaitClosed, WorkerType
<1>3. CASE StartCounting(w)
  BY <1>1, <1>3 DEF StartCounting, WorkerType, Owning
<1>4. CASE CountBuffer(w)
  BY <1>1, <1>4 DEF CountBuffer, WorkerType
<1>5. CASE ReturnBuffers(w)
  BY <1>1, <1>5 DEF ReturnBuffers, WorkerType
<1>6. CASE ReturnToDestroyed(w)
  BY <1>1, <1>6 DEF ReturnToDestroyed, WorkerType, Owning
<1>7. QED
  BY <1>2, <1>3, <1>4, <1>5, <1>6 DEF WorkerStep, WorkerReleases

LEMMA PlacedStays ==
  ASSUME TypeInv, PoolInv, [Next]_vars, NEW m \in Managers, NEW b \in Buffers, Placed(m, b)
  PROVE  Placed(m, b)'
<1>1. CASE UNCHANGED <<freeBufs, allocatedBufs, worker>>
  BY <1>1, PlacedUnmoved
<1>2. ASSUME NEW t \in Threads, ThreadStep(t)
      PROVE  Placed(m, b)'
  <2>1. CASE CallAllocBuffer(t)
    BY <2>1, PlacedAlloc DEF CallAllocBuffer
  <2>2. CASE StartWorker(t)
    BY <2>2, PlacedHandOver DEF StartWorker
  <2>3. CASE TooManyWorkers(t)
    BY <2>3, PlacedSkip DEF TooManyWorkers
  <2>4. CASE ~CallAllocBuffer(t) /\ ~StartWorker(t) /\ ~TooManyWorkers(t)
    BY <1>1, <1>2, <2>4
       DEF ThreadStep, LoadForRef, GetRef, LoadCurBuf, LogReclaimed, LogFast, LogSlow, StoreEvent,
           TryIncEpochFails, LoseEpoch, TryIncEpochWins, WinEpoch, ReclaimOne, ReclaimFrom,
           UpdateAssertFails, UpdateEvents, UpdateClose, EndRun, ExitThread, ThreadExit, FinishThread
  <2>5. QED
    BY <2>1, <2>2, <2>3, <2>4
<1>3. ASSUME NEW w \in Workers, WorkerStep(w)
      PROVE  Placed(m, b)'
  <2>1. CASE ReturnBuffers(w)
    BY <2>1, PlacedReturn
  <2>2. CASE ~ReturnBuffers(w)
    <3>1. UNCHANGED <<freeBufs, allocatedBufs>>
      BY <1>3, <2>2
         DEF WorkerStep, WaitClosed, StartCounting, CountBuffer, WorkerReleases, ReturnToDestroyed
    <3>2. QED
      BY <1>3, <2>2, <3>1, WorkerKeepsArguments, PlacedUnmoved
  <2>3. QED
    BY <2>1, <2>2
<1>4. CASE MainReturns \/ Halted \/ UNCHANGED vars
  BY <1>1, <1>4 DEF MainReturns, Halted
<1>5. QED
  BY <1>2, <1>3, <1>4 DEF Next
-----------------------------------------------------------------------------
\* The addresses a thread has.

Addresses(t) == {ref[t].logBuf, curBuf[t], logBuffer[t], thrContext[t].logBuffer}

\* Only allocBuffer() gives a thread an address it did not have.
LEMMA AddressesStay ==
  ASSUME TypeInv, NEW s \in Threads, ThreadStep(s), ~CallAllocBuffer(s), NEW t \in Threads
  PROVE  Addresses(t)' \subseteq Addresses(t) \cup {Null}
<1>1. /\ ref \in [ Threads -> RefType ] /\ curBuf \in [ Threads -> Buffers \cup {Null} ]
      /\ logBuffer \in [ Threads -> Buffers \cup {Null} ]
      /\ thrContext \in [ Threads -> ContextType ]
  BY DEF TypeInv, TypeOK
<1> USE <1>1 DEF Addresses
<1>2. CASE LoadForRef(s)
  <2>1. thrContext'[t].logBuffer = thrContext[t].logBuffer
    BY <1>2 DEF LoadForRef, ConstructContext, ContextType
  <2>2. QED
    BY <1>2, <2>1 DEF LoadForRef
<1>3. CASE GetRef(s)
  <2>1. ref'[t].logBuf \in {ref[t].logBuf, curBuf[t]}
    BY <1>3 DEF GetRef, MakeRef
  <2>2. QED
    BY <1>3, <2>1 DEF GetRef
<1>4. CASE LoadCurBuf(s)
  BY <1>4 DEF LoadCurBuf
<1>5. CASE LogReclaimed(s) \/ LogFast(s) \/ LogSlow(s)
  <2>1. ref'[t].logBuf = ref[t].logBuf
    BY <1>5 DEF LogReclaimed, LogFast, LogSlow, RefType
  <2>2. QED
    BY <1>5, <2>1 DEF LogReclaimed, LogFast, LogSlow, StoreEvent
<1>6. CASE \/ TryIncEpochFails(s) \/ TryIncEpochWins(s) \/ StartWorker(s) \/ TooManyWorkers(s)
           \/ UpdateAssertFails(s) \/ UpdateEvents(s) \/ ExitThread(s) \/ FinishThread(s)
  BY <1>6 DEF TryIncEpochFails, TryIncEpochWins, StartWorker, TooManyWorkers, UpdateAssertFails,
              UpdateEvents, ExitThread, FinishThread
<1>7. CASE ReclaimOne(s)
  BY <1>7 DEF ReclaimOne, ReclaimFrom
<1>8. CASE UpdateClose(s)
  <2>1. ref'[t].logBuf \in {ref[t].logBuf, curBuf[t]}
    BY <1>8 DEF UpdateClose, AttachRef
  <2>2. QED
    BY <1>8, <2>1 DEF UpdateClose
<1>9. CASE EndRun(s)
  <2>1. ref'[t].logBuf \in {ref[t].logBuf, Null}
    BY <1>9 DEF EndRun, NoRef, AttachRef
  <2>2. QED
    BY <1>9, <2>1 DEF EndRun
<1>10. QED
  BY <1>2, <1>3, <1>4, <1>5, <1>6, <1>7, <1>8, <1>9 DEF ThreadStep

LEMMA AddressesAlloc ==
  ASSUME TypeInv, NEW s \in Threads, NEW buf \in Buffers, AllocBuffer(s, buf),
         curBuf' = [ curBuf EXCEPT ![s] = buf ], UNCHANGED ref, NEW t \in Threads
  PROVE  Addresses(t)' \subseteq Addresses(t) \cup (IF t = s THEN {buf} ELSE {})
<1>1. thrContext \in [ Threads -> ContextType ]
  BY DEF TypeInv, TypeOK
<1>2. /\ logBuffer' = [ logBuffer EXCEPT ![s] = buf ]
      /\ thrContext' = [ thrContext EXCEPT ![s].logBuffer = buf ]
  BY DEF AllocBuffer, TakeBuffer
<1>3. thrContext'[t].logBuffer = IF t = s THEN buf ELSE thrContext[t].logBuffer
  BY <1>1, <1>2 DEF ContextType
<1>4. QED
  BY <1>2, <1>3 DEF Addresses, TypeInv, TypeOK

LEMMA AddressesType ==
  ASSUME TypeInv, NEW t \in Threads
  PROVE  Addresses(t) \subseteq Buffers \cup {Null}
BY DEF TypeInv, TypeOK, RefType, ContextType, Addresses

LEMMA PlacedInit == Init => PlacedInv
<1> SUFFICES ASSUME Init PROVE PlacedInv
  OBVIOUS
<1>1. \A t \in Threads : Addresses(t) = {Null}
  BY DEF Init, BufferManagerInit, Addresses, NoRef, AttachRef
<1>2. \A w \in Workers : worker[w].buffers = << >>
  BY DEF Init, WorkerInit, IdleWorker
<1>3. QED
  BY <1>1, <1>2, InSeqEmpty DEF PlacedInv, Addresses

LEMMA PlacedNext == TypeInv /\ PoolInv /\ PlacedInv /\ [Next]_vars => PlacedInv'
<1> SUFFICES ASSUME TypeInv, PoolInv, PlacedInv, [Next]_vars PROVE PlacedInv'
  OBVIOUS
<1>1. \A t \in Threads : \A b \in Addresses(t) \ {Null} : Placed(ManagerOf(t), b)'
  BY AddressesType, PlacedStays, ManagerOfType DEF PlacedInv, Addresses
<1>2. ASSUME NEW t \in Threads, NEW b \in Addresses(t)' \ {Null}
      PROVE  Placed(ManagerOf(t), b)'
  <2>1. ASSUME NEW s \in Threads, ThreadStep(s)
        PROVE  b \in Addresses(t) \/ Placed(ManagerOf(t), b)'
    <3>1. CASE CallAllocBuffer(s)
      <4>1. PICK buf \in Buffers : AllocBuffer(s, buf) /\ curBuf' = [ curBuf EXCEPT ![s] = buf ]
        BY <3>1 DEF CallAllocBuffer
      <4>2. UNCHANGED ref /\ UNCHANGED workerVars
        BY <3>1 DEF CallAllocBuffer
      <4>3. b \in Addresses(t) \/ (b = buf /\ t = s)
        BY <1>2, <4>1, <4>2, AddressesAlloc
      <4>4. Placed(ManagerOf(s), buf)'
        BY <4>1, <4>2, PlacedAlloc
      <4>5. QED
        BY <4>3, <4>4
    <3>2. CASE ~CallAllocBuffer(s)
      BY <1>2, <2>1, <3>2, AddressesStay
    <3>3. QED
      BY <3>1, <3>2
  <2>2. ASSUME UNCHANGED <<ref, curBuf, contextVars>>
        PROVE  b \in Addresses(t)
    BY <1>2, <2>2 DEF Addresses
  <2>3. b \in Addresses(t) \/ Placed(ManagerOf(t), b)'
    BY <2>1, <2>2
       DEF Next, WorkerStep, WaitClosed, StartCounting, CountBuffer, WorkerReleases, ReturnBuffers,
           ReturnToDestroyed, MainReturns, Halted
  <2>4. QED
    BY <1>1, <1>2, <2>3
<1>3. ASSUME NEW w \in Workers
      PROVE  /\ worker'[w].pc = "none" => worker'[w].buffers = << >>
             /\ \A b \in Buffers : InSeq(b, worker'[w].buffers) => Placed(worker[w].manager, b)'
  <2>1. ASSUME \A b \in Buffers : InSeq(b, worker'[w].buffers) =>
                 \/ worker'[w].manager = worker[w].manager /\ InSeq(b, worker[w].buffers)
                 \/ worker'[w].manager \in Managers /\ Placed(worker'[w].manager, b),
               worker'[w].pc = "none" =>
                 worker[w].pc = "none" /\ worker'[w].buffers = worker[w].buffers
        PROVE  /\ worker'[w].pc = "none" => worker'[w].buffers = << >>
               /\ \A b \in Buffers : InSeq(b, worker'[w].buffers) => Placed(worker[w].manager, b)'
    <3>1. ASSUME NEW b \in Buffers, InSeq(b, worker'[w].buffers)
          PROVE  Placed(worker[w].manager, b)'
      <4>1. worker'[w].manager \in Managers /\ Placed(worker'[w].manager, b)
        BY <2>1, <3>1, InSeqEmpty DEF PlacedInv, PoolInv
      <4>2. PICK m \in Managers : m = worker'[w].manager
        BY <4>1
      <4>3. Placed(m, b)'
        BY <4>1, <4>2, PlacedStays
      <4>4. QED
        BY <4>2, <4>3 DEF Placed
    <3>2. QED
      BY <2>1, <3>1 DEF PlacedInv
  <2>2. ASSUME NEW v \in Workers, WorkerStep(v)
        PROVE  /\ worker'[w].buffers = worker[w].buffers /\ worker'[w].manager = worker[w].manager
               /\ worker'[w].pc = "none" => worker[w].pc = "none"
    BY <2>2, WorkerKeepsArguments
  <2>3. ASSUME NEW t \in Threads, ThreadStep(t), ~StartWorker(t)
        PROVE  worker' = worker
    BY <2>3 DEF ThreadStep, LoadForRef, CallAllocBuffer, GetRef, LoadCurBuf, LogReclaimed, LogFast,
       LogSlow, StoreEvent, TryIncEpochFails, TryIncEpochWins, ReclaimOne, TooManyWorkers,
       UpdateAssertFails, UpdateEvents, UpdateClose, EndRun, ExitThread, FinishThread
  <2>4. CASE \E t \in Threads : StartWorker(t)
    <3>1. PICK t \in Threads : StartWorker(t)
      BY <2>4
    <3>2. HandOver(t) /\ Spawn(ManagerOf(t))
      BY <3>1 DEF StartWorker
    <3>3. QED
      BY <2>1, <3>2, PlacedHandOver
  <2>5. CASE worker' = worker
    BY <2>1, <2>5
  <2>6. QED
    BY <2>1, <2>2, <2>3, <2>4, <2>5 DEF Next, MainReturns, Halted
<1>4. QED
  <2>1. ASSUME NEW t \in Threads,
               NEW b \in ({ref[t].logBuf, curBuf[t], logBuffer[t], thrContext[t].logBuffer} \ {Null})'
        PROVE  Placed(ManagerOf(t), b)'
    BY <1>2, <2>1 DEF Addresses
  <2>2. QED
    BY <1>3, <2>1 DEF PlacedInv

LEMMA PlacedInvariant == Spec => [](TypeInv /\ PoolInv /\ PlacedInv)
BY TypeInit, TypeNext, PoolInit, PoolNext, PlacedInit, PlacedNext, PTL DEF Spec

\* With a manager a thread, no EventBuffer is ever reachable from two threads:
\* a thread never sees, counts or recycles the log of another.
THEOREM ThreadsAreConfined == Spec => [](ThreadLocalManager => ThreadConfined)
<1>1. TypeInv /\ PoolInv /\ PlacedInv => (ThreadLocalManager => ThreadConfined)
  <2> SUFFICES ASSUME TypeInv, PoolInv, PlacedInv, ThreadLocalManager,
                      NEW s \in Threads, NEW t \in Threads, s # t,
                      NEW b \in Reachable(s) \cap Reachable(t)
               PROVE  FALSE
    BY DEF ThreadConfined
  <2>1. ASSUME NEW u \in Threads, b \in Reachable(u)
        PROVE  Placed(u, b)
    <3>1. ManagerOf(u) = u /\ b \in Buffers /\ b # Null
      BY <2>1 DEF ManagerOf, Reachable, Buffers, Null
    <3>2. ASSUME NEW w \in Workers, worker[w].manager = u, InSeq(b, worker[w].buffers)
          PROVE  Placed(u, b)
      BY <3>1, <3>2 DEF PlacedInv
    <3>3. CASE b \in Addresses(u)
      BY <3>1, <3>3 DEF PlacedInv, Addresses
    <3>4. CASE InSeq(b, freeBufs[u]) \/ InSeq(b, allocatedBufs[u])
      BY <3>4 DEF Placed
    <3>5. QED
      BY <2>1, <3>1, <3>2, <3>3, <3>4 DEF Reachable, Addresses
  <2>2. QED
    BY <2>1, OneOwner DEF Managers
<1>2. QED
  BY PlacedInvariant, <1>1, PTL
-----------------------------------------------------------------------------
\* What a thread knows of its own buffer.

LEMMA TakenBuffer ==
  ASSUME TypeInv, NEW t \in Threads, NEW buf \in Buffers, AllocBuffer(t, buf)
  PROVE  /\ eventBuf'[buf].events = 0 /\ eventBuf'[buf].nextRdtscTime = BatchSize
         /\ ~eventBuf'[buf].closed
         /\ \A b \in Buffers \ {buf} : eventBuf'[b] = eventBuf[b]
         /\ logBuffer' = [ logBuffer EXCEPT ![t] = buf ]
<1>1. eventBuf' = [ eventBuf EXCEPT
        ![buf] = Assign(Reset(@), thrContext[t].threadId, epoch[ManagerOf(t)]) ]
  BY DEF AllocBuffer, TakeBuffer
<1>2. logBuffer' = [ logBuffer EXCEPT ![t] = buf ]
  BY DEF AllocBuffer, TakeBuffer
<1>3. eventBuf[buf] \in BufferType /\ DOMAIN eventBuf = Buffers
  BY DEF TypeInv, TypeOK
<1> DEFINE old == eventBuf[buf]
           new == Assign(Reset(old), thrContext[t].threadId, epoch[ManagerOf(t)])
<1>4. new.events = 0 /\ new.nextRdtscTime = BatchSize /\ new.closed = FALSE
  BY <1>3 DEF BufferType, Reset, Assign
<1>5. eventBuf'[buf] = new /\ \A b \in Buffers \ {buf} : eventBuf'[b] = eventBuf[b]
  BY <1>1, <1>3
<1>6. QED
  BY <1>2, <1>4, <1>5

\* The buffer the calling thread gets is nobody else's.
LEMMA TakenFromNobody ==
  ASSUME ThreadLocalManager, TypeInv, PoolInv, NEW s \in Threads, NEW buf \in Buffers,
         AllocBuffer(s, buf), NEW t \in Threads, t # s
  PROVE  ~Placed(t, buf)
<1>1. ManagerOf(s) = s /\ s \in Managers /\ t \in Managers
  BY DEF ManagerOf, Managers
<1>2. CASE freeBufs[s] # << >> /\ buf = Last(freeBufs[s])
  <2>1. Placed(s, buf)
    BY <1>1, <1>2, InSeqFront DEF Placed, TypeInv, TypeOK
  <2>2. QED
    BY <1>1, <2>1, OneOwner
<1>3. CASE buf = heap + 1
  BY <1>1, <1>3, PlacedInHeap, BufferManagerAssumption DEF TypeInv, TypeOK
<1>4. QED
  BY <1>1, <1>2, <1>3 DEF AllocBuffer

LEMMA OthersLeaveAlone ==
  ASSUME ThreadLocalManager, TypeInv, PoolInv, EpochInv, PlacedInv,
         NEW s \in Threads, ThreadStep(s), NEW t \in Threads, t # s
  PROVE  /\ pc'[t] = pc[t] /\ ref'[t] = ref[t] /\ curBuf'[t] = curBuf[t]
         /\ logBuffer'[t] = logBuffer[t]
         /\ \A b \in Buffers : Placed(t, b) => eventBuf'[b] = eventBuf[b]
<1>1. /\ pc \in [ Threads -> PC ] /\ ref \in [ Threads -> RefType ]
      /\ curBuf \in [ Threads -> Buffers \cup {Null} ]
      /\ logBuffer \in [ Threads -> Buffers \cup {Null} ]
      /\ eventBuf \in [ Buffers -> BufferType ]
      /\ ManagerOf(s) = s /\ ManagerOf(t) = t /\ s \in Managers /\ t \in Managers
  BY DEF TypeInv, TypeOK, ManagerOf, Managers
<1>2. \A b \in Buffers \cap Addresses(s) : ~Placed(t, b)
  BY <1>1, OneOwner DEF PlacedInv, Addresses, Null, Buffers
<1>3. ref[s].logBuf \in Addresses(s) /\ thrContext[s].logBuffer \in Addresses(s)
  BY DEF Addresses
<1>4. CASE CallAllocBuffer(s)
  <2>1. PICK buf \in Buffers : AllocBuffer(s, buf) /\ curBuf' = [ curBuf EXCEPT ![s] = buf ]
    BY <1>4 DEF CallAllocBuffer
  <2>2. pc'[t] = pc[t] /\ ref'[t] = ref[t] /\ curBuf'[t] = curBuf[t]
    BY <1>1, <1>4, <2>1 DEF CallAllocBuffer, Goto
  <2>3. QED
    BY <1>1, <2>1, <2>2, TakenBuffer, TakenFromNobody
<1>5. CASE ReclaimOne(s)
  <2>1. PICK u \in Threads : ReclaimFrom(s, u)
    BY <1>5 DEF ReclaimOne
  <2>2. u # t
    BY <1>1, <2>1 DEF ReclaimFrom, EpochInv, TlsInv
  <2>3. QED
    BY <1>1, <1>5, <2>1, <2>2 DEF ReclaimOne, ReclaimFrom
<1>6. CASE LoadForRef(s) \/ GetRef(s) \/ LoadCurBuf(s)
  BY <1>1, <1>6 DEF LoadForRef, GetRef, LoadCurBuf, Goto
<1>7. CASE LogReclaimed(s) \/ LogFast(s) \/ LogSlow(s)
  <2>1. pc'[t] = pc[t] /\ ref'[t] = ref[t] /\ curBuf'[t] = curBuf[t] /\ logBuffer'[t] = logBuffer[t]
    BY <1>1, <1>7 DEF LogReclaimed, LogFast, LogSlow, StoreEvent, Goto
  <2>2. QED
    BY <1>1, <1>2, <1>3, <1>7, <2>1 DEF LogReclaimed, LogFast, LogSlow, StoreEvent
<1>8. CASE \/ TryIncEpochFails(s) \/ TryIncEpochWins(s) \/ StartWorker(s) \/ TooManyWorkers(s)
           \/ UpdateAssertFails(s) \/ FinishThread(s)
  BY <1>1, <1>8 DEF TryIncEpochFails, TryIncEpochWins, StartWorker, TooManyWorkers,
                    UpdateAssertFails, FinishThread, Goto
<1>9. CASE UpdateEvents(s) \/ UpdateClose(s) \/ EndRun(s)
  <2>1. pc'[t] = pc[t] /\ ref'[t] = ref[t] /\ curBuf'[t] = curBuf[t] /\ logBuffer'[t] = logBuffer[t]
    BY <1>1, <1>9 DEF UpdateEvents, UpdateClose, EndRun, Goto
  <2>2. QED
    BY <1>1, <1>2, <1>3, <1>9, <2>1 DEF UpdateEvents, UpdateClose, EndRun
<1>10. CASE ExitThread(s)
  <2>1. pc'[t] = pc[t] /\ ref'[t] = ref[t] /\ curBuf'[t] = curBuf[t] /\ logBuffer'[t] = logBuffer[t]
    BY <1>1, <1>10 DEF ExitThread, Goto
  <2>2. QED
    BY <1>1, <1>2, <1>3, <1>10, <2>1 DEF ExitThread, ThreadExit
<1>11. QED
  BY <1>4, <1>5, <1>6, <1>7, <1>8, <1>9, <1>10 DEF ThreadStep

LEMMA WriterUndisturbed ==
  ASSUME ThreadLocalManager, TypeInv, PlacedInv, NEW t \in Threads, WriterOK(t),
         pc'[t] = pc[t], ref'[t] = ref[t], curBuf'[t] = curBuf[t], logBuffer'[t] = logBuffer[t],
         \A b \in Buffers : Placed(t, b) => eventBuf'[b] = eventBuf[b]
  PROVE  WriterOK(t)'
<1>1. ref[t].logBuf \in Buffers \cup {Null} /\ logBuffer[t] \in Buffers \cup {Null}
  BY DEF TypeInv, TypeOK, RefType
<1>2. /\ ref[t].logBuf # Null => eventBuf'[ref[t].logBuf] = eventBuf[ref[t].logBuf]
      /\ logBuffer[t] # Null => eventBuf'[logBuffer[t]] = eventBuf[logBuffer[t]]
  BY <1>1 DEF PlacedInv, ManagerOf
<1>3. QED
  BY <1>2 DEF WriterOK, Alive, RefOK
-----------------------------------------------------------------------------
\* The thread's own steps.

\* While a thread has a live reference, it is to its __log_buffer.
LEMMA WriterFacts ==
  ASSUME TypeInv, EpochInv, NEW t \in Threads, WriterOK(t)
  PROVE  /\ pc \in [ Threads -> PC ] /\ ref \in [ Threads -> RefType ]
         /\ curBuf \in [ Threads -> Buffers \cup {Null} ]
         /\ logBuffer \in [ Threads -> Buffers \cup {Null} ]
         /\ eventBuf \in [ Buffers -> BufferType ]
         /\ pc[t] \in {"run", "store", "try_inc"} =>
              /\ logBuffer[t] \in Buffers /\ ref[t].logBuf = logBuffer[t]
              /\ ~eventBuf[logBuffer[t]].closed
         /\ pc[t] \in {"make_ref", "update", "close"} =>
              /\ logBuffer[t] \in Buffers /\ curBuf[t] = logBuffer[t]
BY DEF TypeInv, TypeOK, EpochInv, LinkInv, WriterOK, Alive

LEMMA WriterGetsBuffer ==
  ASSUME TypeInv, EpochInv, NEW t \in Threads, WriterOK(t),
         LoadForRef(t) \/ CallAllocBuffer(t) \/ GetRef(t) \/ LoadCurBuf(t)
  PROVE  WriterOK(t)'
<1> USE WriterFacts DEF At, Goto
<1>1. CASE LoadForRef(t)
  BY <1>1 DEF LoadForRef, WriterOK, Alive, RefOK
<1>2. CASE CallAllocBuffer(t)
  <2>1. PICK buf \in Buffers : AllocBuffer(t, buf) /\ curBuf' = [ curBuf EXCEPT ![t] = buf ]
    BY <1>2 DEF CallAllocBuffer
  <2>2. /\ eventBuf'[buf].events = 0 /\ eventBuf'[buf].nextRdtscTime = BatchSize
        /\ ~eventBuf'[buf].closed
        /\ \A b \in Buffers \ {buf} : eventBuf'[b] = eventBuf[b]
        /\ logBuffer'[t] = buf /\ buf # Null
    BY <2>1, TakenBuffer DEF Buffers, Null
  <2>3. RefOK(eventBuf'[buf])
    BY <2>2, EventBufferAssumption DEF RefOK
  <2>4. /\ ref' = ref
        /\ \/ pc[t] = "alloc_ref" /\ pc'[t] = "make_ref"
           \/ pc[t] = "alloc_update" /\ pc'[t] = "update"
    BY <1>2 DEF CallAllocBuffer
  <2>5. CASE pc'[t] = "make_ref"
    BY <2>2, <2>3, <2>5 DEF WriterOK, RefOK
  <2>6. CASE pc'[t] = "update"
    <3>1. ref[t].logBuf \in Buffers /\ ~eventBuf[ref[t].logBuf].closed
      BY <2>4, <2>6 DEF WriterOK, RefType
    <3>2. ref'[t].logBuf # Null /\ ~eventBuf'[ref'[t].logBuf].closed
      BY <2>2, <2>4, <3>1 DEF Null, Buffers
    <3>3. QED
      BY <2>2, <2>6, <3>2 DEF WriterOK
  <2>7. QED
    BY <2>4, <2>5, <2>6
<1>3. CASE GetRef(t)
  <2>1. pc[t] = "make_ref" /\ pc'[t] = "run" /\ eventBuf' = eventBuf /\ logBuffer' = logBuffer
    BY <1>3 DEF GetRef
  <2>2. /\ ref'[t].events = eventBuf[logBuffer[t]].events
        /\ ref'[t].nextRdtscTime = eventBuf[logBuffer[t]].nextRdtscTime
    BY <1>3, <2>1 DEF GetRef, MakeRef
  <2>3. RefOK(eventBuf[logBuffer[t]]) /\ logBuffer[t] # Null /\ ~eventBuf[logBuffer[t]].closed
    BY <2>1 DEF WriterOK, Alive
  <2>4. RefOK(ref'[t])
    BY <2>2, <2>3 DEF RefOK
  <2>5. QED
    BY <2>1, <2>3, <2>4 DEF WriterOK, RefOK
<1>4. CASE LoadCurBuf(t)
  BY <1>4 DEF LoadCurBuf, WriterOK, Alive, RefOK
<1>5. QED
  BY <1>1, <1>2, <1>3, <1>4

LEMMA WriterLogs ==
  ASSUME TypeInv, EpochInv, NEW t \in Threads, WriterOK(t),
         LogReclaimed(t) \/ LogFast(t) \/ LogSlow(t)
  PROVE  WriterOK(t)'
<1> DEFINE buf == logBuffer[t]
<1>1. pc[t] = "store" /\ curBuf[t] # Null /\ RefOK(ref[t])
  BY DEF LogReclaimed, LogFast, LogSlow, StoreEvent, At, WriterOK
<1>2. /\ buf \in Buffers /\ buf # Null /\ ref[t].logBuf = buf /\ ~eventBuf[buf].closed
      /\ ref \in [ Threads -> RefType ] /\ pc \in [ Threads -> PC ] /\ ref[t] \in RefType
      /\ eventBuf \in [ Buffers -> BufferType ]
  BY <1>1, WriterFacts DEF Buffers, Null
<1>3. logBuffer' = logBuffer /\ ~eventBuf'[buf].closed
  <2>1. StoreEvent(t)
    BY DEF LogReclaimed, LogFast, LogSlow
  <2>2. /\ eventBuf'[buf] = Record(StoreAt(eventBuf[buf], ref[t].events, NextEvent(t)), NextEvent(t))
        /\ eventBuf[buf] \in BufferType
    BY <1>2, <2>1 DEF StoreEvent
  <2>3. logBuffer' = logBuffer
    BY <2>1 DEF StoreEvent
  <2>4. QED
    BY <1>2, <2>2, <2>3 DEF StoreAt, Record, BufferType
<1>4. ~LogReclaimed(t)
  BY <1>1 DEF LogReclaimed
<1>5. CASE LogFast(t)
  <2>1. /\ pc'[t] = "run" /\ ref[t].events < ref[t].nextRdtscTime
        /\ ref'[t].events = ref[t].events + 1 /\ ref'[t].nextRdtscTime = ref[t].nextRdtscTime
    BY <1>2, <1>5 DEF LogFast, Goto, RefType
  <2>2. RefOK(ref'[t])
    BY <1>1, <1>2, <2>1 DEF RefOK, RefType
  <2>3. QED
    BY <1>2, <1>3, <2>1, <2>2 DEF WriterOK, RefOK
<1>6. CASE LogSlow(t)
  <2>1. /\ pc'[t] = IF ref[t].events + 1 >= MaxEvents THEN "try_inc" ELSE "run"
        /\ ref[t].events >= ref[t].nextRdtscTime
        /\ ref'[t].events = ref[t].events + 1
        /\ ref'[t].nextRdtscTime = ref[t].nextRdtscTime + BatchSize
    BY <1>2, <1>6 DEF LogSlow, Goto, RefType
  <2>2. ref[t].events + 1 < MaxEvents => RefOK(ref'[t])
    BY <1>1, <1>2, <2>1, EventBufferAssumption DEF RefOK, RefType
  <2>3. CASE ref[t].events + 1 >= MaxEvents
    BY <1>2, <1>3, <2>1, <2>3 DEF WriterOK
  <2>4. CASE ~(ref[t].events + 1 >= MaxEvents)
    <3>1. pc'[t] = "run" /\ ref[t].events + 1 < MaxEvents
      BY <1>2, <2>1, <2>4, EventBufferAssumption DEF RefType
    <3>2. QED
      BY <1>2, <1>3, <2>2, <3>1 DEF WriterOK, RefOK
  <2>5. QED
    BY <2>3, <2>4
<1>7. QED
  BY <1>4, <1>5, <1>6

LEMMA WriterEndsEpoch ==
  ASSUME TypeInv, EpochInv, NEW t \in Threads, WriterOK(t),
         \/ TryIncEpochFails(t) \/ TryIncEpochWins(t) \/ ReclaimOne(t)
         \/ StartWorker(t) \/ TooManyWorkers(t)
  PROVE  WriterOK(t)'
<1> USE WriterFacts DEF At, Goto
<1>0. eventBuf' = eventBuf /\ ref' = ref
  BY DEF TryIncEpochFails, TryIncEpochWins, ReclaimOne, StartWorker, TooManyWorkers
<1>1. CASE TryIncEpochFails(t) \/ TryIncEpochWins(t)
  <2>1. /\ pc[t] = "try_inc" /\ pc'[t] \in {"reclaim", "alloc_update"} /\ logBuffer' = logBuffer
    BY <1>1 DEF TryIncEpochFails, TryIncEpochWins
  <2>2. ref[t].logBuf # Null /\ ~eventBuf[ref[t].logBuf].closed /\ ref[t].logBuf = logBuffer[t]
    BY <2>1 DEF WriterOK
  <2>3. QED
    BY <1>0, <2>1, <2>2 DEF WriterOK
<1>2. CASE ReclaimOne(t)
  <2>1. pc[t] = "reclaim" /\ pc' = pc
    BY <1>2 DEF ReclaimOne
  <2>2. logBuffer'[t] \in {Null, logBuffer[t]}
    BY <1>2 DEF ReclaimOne, ReclaimFrom
  <2>3. QED
    BY <1>0, <2>1, <2>2 DEF WriterOK, Alive
<1>3. CASE StartWorker(t) \/ TooManyWorkers(t)
  <2>1. pc[t] = "reclaim" /\ pc'[t] = "alloc_update" /\ logBuffer' = logBuffer
    BY <1>3 DEF StartWorker, TooManyWorkers
  <2>2. QED
    BY <1>0, <2>1 DEF WriterOK, Alive
<1>4. QED
  BY <1>1, <1>2, <1>3

LEMMA WriterUpdates ==
  ASSUME TypeInv, EpochInv, NEW t \in Threads, WriterOK(t),
         UpdateAssertFails(t) \/ UpdateEvents(t) \/ UpdateClose(t)
  PROVE  WriterOK(t)'
<1> DEFINE buf == logBuffer[t]
<1> USE WriterFacts DEF At, Goto
<1>1. /\ pc[t] \in {"update", "close"} /\ logBuffer' = logBuffer /\ buf # Null /\ buf \in Buffers
      /\ curBuf[t] = buf /\ ~eventBuf[buf].closed
  BY DEF UpdateAssertFails, UpdateEvents, UpdateClose, WriterOK, Alive
<1>2. CASE UpdateAssertFails(t)
  BY <1>2 DEF UpdateAssertFails, WriterOK, Alive, RefOK
<1>3. CASE UpdateEvents(t)
  <2>1. pc'[t] = "close" /\ ref' = ref /\ ref[t].logBuf # buf /\ eventBuf'[buf] = eventBuf[buf]
    BY <1>1, <1>3 DEF UpdateEvents
  <2>2. QED
    BY <1>1, <2>1 DEF WriterOK
<1>4. CASE UpdateClose(t)
  <2>1. pc[t] = "close" /\ pc'[t] = "run" /\ ref'[t] = AttachRef(buf)
    BY <1>1, <1>4 DEF UpdateClose
  <2>2. ref[t].logBuf # buf
    BY <2>1 DEF WriterOK
  <2>3. eventBuf'[buf] = eventBuf[buf]
    BY <1>1, <1>4, <2>2 DEF UpdateClose
  <2>4. RefOK(ref'[t])
    BY <2>1, EventBufferAssumption DEF RefOK, AttachRef
  <2>5. QED
    BY <1>1, <2>1, <2>3, <2>4 DEF WriterOK, RefOK
<1>5. QED
  BY <1>2, <1>3, <1>4

LEMMA WriterLeaves ==
  ASSUME TypeInv, EpochInv, NEW t \in Threads, WriterOK(t),
         EndRun(t) \/ ExitThread(t) \/ FinishThread(t)
  PROVE  WriterOK(t)'
<1> USE WriterFacts DEF At, Goto
<1>1. CASE EndRun(t)
  <2> DEFINE buf == logBuffer[t]
  <2>1. /\ pc[t] = "run" /\ pc'[t] = "idle" /\ logBuffer' = logBuffer /\ buf \in Buffers
        /\ ref[t].logBuf = buf /\ RefOK(ref[t]) /\ ~eventBuf[buf].closed
        /\ eventBuf'[buf] = WriteBack(eventBuf[buf], ref[t])
    BY <1>1 DEF EndRun, WriterOK
  <2>2. /\ WriteBack(eventBuf[buf], ref[t]).events = ref[t].events
        /\ WriteBack(eventBuf[buf], ref[t]).nextRdtscTime = ref[t].nextRdtscTime
        /\ WriteBack(eventBuf[buf], ref[t]).closed = eventBuf[buf].closed
    BY <2>1 DEF WriteBack, BufferType
  <2>3. RefOK(eventBuf'[buf]) /\ ~eventBuf'[buf].closed
    BY <2>1, <2>2 DEF RefOK
  <2>4. QED
    BY <2>1, <2>3 DEF WriterOK, RefOK
<1>2. CASE ExitThread(t) \/ FinishThread(t)
  <2>1. pc'[t] \in {"destroy", "done"}
    BY <1>2 DEF ExitThread, FinishThread
  <2>2. QED
    BY <2>1 DEF WriterOK, Alive
<1>3. QED
  BY <1>1, <1>2

LEMMA WriterInit == Init => WriterInv
BY DEF Init, BufferManagerInit, WriterInv, WriterOK

LEMMA WriterNext ==
  ASSUME ThreadLocalManager, TypeInv, PoolInv, EpochInv, PlacedInv, WriterInv, [Next]_vars
  PROVE  WriterInv'
<1> SUFFICES ASSUME NEW t \in Threads
             PROVE  WriterOK(t)'
  BY DEF WriterInv
<1>0. WriterOK(t)
  BY DEF WriterInv
<1>1. ASSUME NEW s \in Threads, ThreadStep(s)
      PROVE  WriterOK(t)'
  <2>1. CASE s = t
    BY <1>0, <1>1, <2>1, WriterGetsBuffer, WriterLogs, WriterEndsEpoch, WriterUpdates, WriterLeaves
       DEF ThreadStep
  <2>2. CASE s # t
    BY <1>0, <1>1, <2>2, OthersLeaveAlone, WriterUndisturbed
  <2>3. QED
    BY <2>1, <2>2
<1>2. CASE UNCHANGED <<eventBuf, logBuffer, pc, ref, curBuf>>
  BY <1>0, <1>2, WriterUndisturbed
<1>3. QED
  BY <1>1, <1>2
     DEF Next, WorkerStep, WaitClosed, StartCounting, CountBuffer, WorkerReleases, ReturnBuffers,
         ReturnToDestroyed, MainReturns, Halted
-----------------------------------------------------------------------------
OwnerInvAll == TypeInv /\ PoolInv /\ EpochInv /\ PlacedInv /\ (ThreadLocalManager => WriterInv)

LEMMA OwnerInvariant == Spec => []OwnerInvAll
<1>1. Init => OwnerInvAll
  BY TypeInit, PoolInit, EpochInit, PlacedInit, WriterInit DEF OwnerInvAll
<1>2. OwnerInvAll /\ [Next]_vars => OwnerInvAll'
  BY TypeNext, PoolNext, EpochNext, PlacedNext, WriterNext DEF OwnerInvAll
<1>3. QED
  BY <1>1, <1>2, PTL DEF Spec

\* With a manager a thread, nobody recycles, counts or writes to a buffer
\* somebody can still append to.
THEOREM WritersAreExclusive == Spec => [](ThreadLocalManager => WriterExclusive)
<1>1. OwnerInvAll => (ThreadLocalManager => WriterExclusive)
  <2> SUFFICES ASSUME OwnerInvAll, ThreadLocalManager, NEW t \in Threads, Writing(t)
               PROVE  /\ \A s \in Threads \ {t} : ref[s].logBuf # ref[t].logBuf
                      /\ \A m \in Managers : ~InSeq(ref[t].logBuf, freeBufs[m])
                      /\ \A w \in Workers : worker[w].pc = "count" =>
                           ~InSeq(ref[t].logBuf, worker[w].buffers)
    BY DEF WriterExclusive
  <2> DEFINE buf == ref[t].logBuf
  <2>1. buf = logBuffer[t] /\ buf \in Buffers /\ Alive(t)
    BY WriterFacts DEF OwnerInvAll, WriterInv, Writing, Alive
  <2>2. InSeq(buf, allocatedBufs[t]) /\ t \in Managers
    BY <2>1 DEF OwnerInvAll, EpochInv, EpochAgreement, ManagerOf, Managers, Null, Buffers
  <2>3. ASSUME NEW s \in Threads \ {t}, ref[s].logBuf = buf
        PROVE  FALSE
    <3>1. Placed(s, buf) /\ Placed(t, buf) /\ s \in Managers
      <4>1. ManagerOf(s) = s /\ s \in Managers /\ buf # Null
        BY <2>1 DEF ManagerOf, Managers, Null, Buffers
      <4>2. Placed(t, buf)
        BY <2>2 DEF Placed
      <4>3. \A b \in Addresses(s) \ {Null} : Placed(ManagerOf(s), b)
        BY DEF OwnerInvAll, PlacedInv, Addresses
      <4>4. Placed(s, buf)
        BY <2>3, <4>1, <4>3 DEF Addresses
      <4>5. QED
        BY <4>1, <4>2, <4>4
    <3>2. QED
      BY <2>2, <2>3, <3>1, OneOwner DEF OwnerInvAll
  <2>4. QED
    BY <2>2, <2>3, AllocatedNowhereElse DEF OwnerInvAll, Owning
<1>2. QED
  BY OwnerInvariant, <1>1, PTL

\* With a manager a thread, every event is stored within buf[], however the
\* sizes of buffer and batch are related and over any number of runs.
THEOREM EventsStayInBounds == Spec => [](ThreadLocalManager => IndexInBounds)
<1>1. OwnerInvAll => (ThreadLocalManager => IndexInBounds)
  <2> SUFFICES ASSUME OwnerInvAll, ThreadLocalManager, NEW t \in Threads, pc[t] = "store"
               PROVE  ref[t].events \in Slots
    BY DEF IndexInBounds
  <2>1. RefOK(ref[t]) /\ ref[t] \in RefType
    BY DEF OwnerInvAll, WriterInv, WriterOK, TypeInv, TypeOK
  <2>2. QED
    BY <2>1, EventBufferAssumption DEF RefOK, RefType, Slots, Capacity
<1>2. QED
  BY OwnerInvariant, <1>1, PTL

\* With a manager a thread, a closed buffer is not written to any more until
\* it is recycled: what a worker has found closed it can count.
THEOREM ClosedStaysFinal ==
  ASSUME ThreadLocalManager
  PROVE  Spec => ClosedIsFinal
<1>1. ASSUME OwnerInvAll, [Next]_vars, NEW b \in Buffers, eventBuf[b].closed, eventBuf'[b].closed
      PROVE  eventBuf'[b].buf = eventBuf[b].buf /\ eventBuf'[b].events = eventBuf[b].events
  <2>1. ASSUME NEW t \in Threads, ThreadStep(t)
        PROVE  eventBuf'[b].buf = eventBuf[b].buf /\ eventBuf'[b].events = eventBuf[b].events
    <3>0. TypeInv /\ EpochInv /\ WriterOK(t) /\ eventBuf \in [ Buffers -> BufferType ]
      <4>1. TypeInv /\ EpochInv /\ WriterInv
        BY <1>1 DEF OwnerInvAll
      <4>2. QED
        BY <4>1 DEF WriterInv, TypeInv, TypeOK
    <3>1. CASE CallAllocBuffer(t)
      <4>1. PICK buf \in Buffers : AllocBuffer(t, buf)
        BY <3>1 DEF CallAllocBuffer
      <4>2. b # buf
        BY <1>1, <3>0, <4>1, TakenBuffer
      <4>3. QED
        BY <3>0, <4>1, <4>2, TakenBuffer
    <3>2. CASE LogReclaimed(t) \/ LogFast(t) \/ LogSlow(t)
      <4>1. StoreEvent(t) /\ pc[t] = "store"
        BY <3>2 DEF LogReclaimed, LogFast, LogSlow, StoreEvent, At
      <4>2. b # ref[t].logBuf
        BY <1>1, <3>0, <4>1, WriterFacts
      <4>3. QED
        BY <3>0, <4>1, <4>2 DEF StoreEvent
    <3>3. CASE UpdateEvents(t)
      <4>1. b # ref[t].logBuf
        BY <1>1, <3>0, <3>3 DEF UpdateEvents, At, WriterOK
      <4>2. QED
        BY <3>0, <3>3, <4>1 DEF UpdateEvents
    <3>4. CASE EndRun(t)
      <4>1. b # ref[t].logBuf
        BY <1>1, <3>0, <3>4, WriterFacts DEF EndRun, At
      <4>2. QED
        BY <3>0, <3>4, <4>1 DEF EndRun
    <3>5. CASE UpdateClose(t) \/ ExitThread(t)
      BY <3>0, <3>5 DEF UpdateClose, ExitThread, ThreadExit, BufferType
    <3>6. CASE eventBuf' = eventBuf
      BY <3>6
    <3>7. QED
      BY <2>1, <3>1, <3>2, <3>3, <3>4, <3>5, <3>6
         DEF ThreadStep, LoadForRef, GetRef, LoadCurBuf, TryIncEpochFails, TryIncEpochWins,
             ReclaimOne, StartWorker, TooManyWorkers, UpdateAssertFails, FinishThread
  <2>2. CASE eventBuf' = eventBuf
    BY <2>2
  <2>3. QED
    BY <1>1, <2>1, <2>2
       DEF Next, WorkerStep, WaitClosed, StartCounting, CountBuffer, WorkerReleases, ReturnBuffers,
           ReturnToDestroyed, MainReturns, Halted
<1>2. OwnerInvAll /\ [Next]_vars =>
        [ \A b \in Buffers : eventBuf[b].closed /\ eventBuf'[b].closed =>
            /\ eventBuf'[b].buf = eventBuf[b].buf
            /\ eventBuf'[b].events = eventBuf[b].events ]_vars
  BY <1>1
<1>3. QED
  BY OwnerInvariant, <1>2, PTL DEF Spec, ClosedIsFinal
-----------------------------------------------------------------------------
(***************************************************************************)
(* The workers of a manager, in both wirings.                              *)
(***************************************************************************)

AtWork(m) == { w \in Workers : worker[w].manager = m /\ worker[w].pc \in Owning }

WorkersInv == \A m \in Managers : activeWorkers[m] = Cardinality(AtWork(m))

LEMMA AtWorkFinite == \A m : IsFiniteSet(AtWork(m)) /\ Cardinality(AtWork(m)) \in Nat
<1>1. IsFiniteSet(Workers)
  BY WorkerAssumption, FS_Interval DEF Workers
<1>2. \A m : AtWork(m) \subseteq Workers
  BY DEF AtWork
<1>3. QED
  BY <1>1, <1>2, FS_Subset, FS_CardinalityType

LEMMA WorkersStart ==
  ASSUME TypeInv, PoolInv, WorkersInv, NEW t \in Threads, HandOver(t), Spawn(ManagerOf(t))
  PROVE  WorkersInv'
<1> DEFINE n   == ManagerOf(t)
           new == spawned + 1
<1>1. /\ n \in Managers /\ new \in Workers /\ new > spawned
      /\ worker \in [ Workers -> WorkerType ] /\ activeWorkers \in [ Managers -> Int ]
  BY ManagerOfType, WorkerAssumption DEF Spawn, Workers, TypeInv, TypeOK
<1>2. /\ worker'[new].pc = "wait" /\ worker'[new].manager = n
      /\ \A w \in Workers \ {new} : worker'[w] = worker[w]
  BY <1>1 DEF Spawn, IdleWorker
<1>3. worker[new].pc = "none"
  BY <1>1 DEF PoolInv
<1>4. activeWorkers' = [ activeWorkers EXCEPT ![n] = @ + 1 ]
  BY DEF HandOver
<1> HIDE DEF n, new
<1>5. AtWork(n)' = AtWork(n) \cup {new} /\ new \notin AtWork(n)
  BY <1>1, <1>2, <1>3 DEF AtWork, Owning
<1>6. \A m \in Managers \ {n} : AtWork(m)' = AtWork(m)
  BY <1>1, <1>2, <1>3 DEF AtWork, Owning
<1>7. Cardinality(AtWork(n)') = Cardinality(AtWork(n)) + 1
  BY <1>5, AtWorkFinite, FS_AddElement
<1>8. ASSUME NEW m \in Managers
      PROVE  activeWorkers'[m] = Cardinality(AtWork(m)')
  BY <1>1, <1>4, <1>6, <1>7 DEF WorkersInv
<1>9. QED
  BY <1>8 DEF WorkersInv, Managers

LEMMA WorkersEnd ==
  ASSUME TypeInv, PoolInv, WorkersInv, NEW w \in Workers, ReturnBuffers(w)
  PROVE  WorkersInv'
<1>1. /\ worker \in [ Workers -> WorkerType ] /\ activeWorkers \in [ Managers -> Int ]
      /\ worker[w].pc = "count"
  BY DEF ReturnBuffers, TypeInv, TypeOK
<1>2. PICK n \in Managers : n = worker[w].manager
  BY <1>1 DEF PoolInv
<1>3. /\ worker'[w].pc = "done" /\ \A v \in Workers \ {w} : worker'[v] = worker[v]
      /\ activeWorkers' = [ activeWorkers EXCEPT ![n] = @ - 1 ]
  BY <1>1, <1>2 DEF ReturnBuffers, Release, WorkerType
<1>4. AtWork(n)' = AtWork(n) \ {w} /\ w \in AtWork(n)
  BY <1>1, <1>2, <1>3 DEF AtWork, Owning
<1>5. \A m \in Managers \ {n} : AtWork(m)' = AtWork(m)
  <2>1. worker'[w].manager = n
    BY <1>1, <1>2 DEF ReturnBuffers, WorkerType
  <2>2. QED
    BY <1>2, <1>3, <2>1 DEF AtWork
<1>6. Cardinality(AtWork(n)') = Cardinality(AtWork(n)) - 1
  BY <1>4, AtWorkFinite, FS_RemoveElement
<1>7. ASSUME NEW m \in Managers
      PROVE  activeWorkers'[m] = Cardinality(AtWork(m)')
  <2>1. CASE m = n
    BY <1>1, <1>2, <1>3, <1>6, <2>1 DEF WorkersInv
  <2>2. CASE m # n
    BY <1>1, <1>2, <1>3, <1>5, <2>2 DEF WorkersInv
  <2>3. QED
    BY <2>1, <2>2
<1>8. QED
  BY <1>7 DEF WorkersInv, Managers

LEMMA WorkersNext == TypeInv /\ PoolInv /\ WorkersInv /\ [Next]_vars => WorkersInv'
<1> SUFFICES ASSUME TypeInv, PoolInv, WorkersInv, [Next]_vars PROVE WorkersInv'
  OBVIOUS
<1>1. ASSUME UNCHANGED activeWorkers,
             \A w \in Workers : /\ worker'[w].manager = worker[w].manager
                                /\ worker'[w].pc \in Owning <=> worker[w].pc \in Owning
      PROVE  WorkersInv'
  <2>1. \A m : AtWork(m)' = AtWork(m)
    BY <1>1 DEF AtWork
  <2>2. QED
    BY <1>1, <2>1 DEF WorkersInv, Managers
<1>2. ASSUME NEW t \in Threads, ThreadStep(t)
      PROVE  WorkersInv'
  <2>1. CASE StartWorker(t)
    BY <2>1, WorkersStart DEF StartWorker
  <2>2. CASE ~StartWorker(t)
    <3>1. activeWorkers' = activeWorkers /\ worker' = worker
      BY <1>2, <2>2
         DEF ThreadStep, LoadForRef, CallAllocBuffer, AllocBuffer, TakeBuffer, GetRef, LoadCurBuf,
             LogReclaimed, LogFast, LogSlow, StoreEvent, TryIncEpochFails, LoseEpoch, TryIncEpochWins,
             WinEpoch, ReclaimOne, ReclaimFrom, TooManyWorkers, SkipEpoch, UpdateAssertFails,
             UpdateEvents, UpdateClose, EndRun, ExitThread, ThreadExit, FinishThread
    <3>2. QED
      BY <1>1, <3>1
  <2>3. QED
    BY <2>1, <2>2
<1>3. ASSUME NEW w \in Workers, WorkerStep(w)
      PROVE  WorkersInv'
  <2>1. CASE ReturnBuffers(w)
    BY <2>1, WorkersEnd
  <2>2. CASE ~ReturnBuffers(w)
    <3>1. activeWorkers' = activeWorkers
      BY <1>3, <2>2
         DEF WorkerStep, WaitClosed, StartCounting, CountBuffer, WorkerReleases, ReturnToDestroyed
    <3>2. worker[w].pc \in Owning
      BY <1>3 DEF WorkerStep, WaitClosed, StartCounting, CountBuffer, WorkerReleases,
         ReturnBuffers, ReturnToDestroyed, Owning
    <3>3. \A v \in Workers \ {w} : worker'[v] = worker[v]
      BY <1>3 DEF WorkerStep, WaitClosed, StartCounting, CountBuffer, WorkerReleases,
         ReturnBuffers, ReturnToDestroyed, TypeInv, TypeOK
    <3>4. QED
      BY <1>1, <1>3, <2>2, <3>1, <3>2, <3>3, WorkerKeepsArguments
  <2>3. QED
    BY <2>1, <2>2
<1>4. CASE MainReturns \/ Halted \/ UNCHANGED vars
  BY <1>1, <1>4 DEF MainReturns, Halted
<1>5. QED
  BY <1>2, <1>3, <1>4 DEF Next

LEMMA WorkersInvariant == Spec => []WorkersInv
<1>1. Init => WorkersInv
  <2>1. Init => \A m \in Managers : AtWork(m) = {} /\ activeWorkers[m] = 0
    BY DEF Init, BufferManagerInit, WorkerInit, IdleWorker, AtWork, Owning
  <2>2. QED
    BY <2>1, FS_EmptySet DEF WorkersInv
<1>2. QED
  BY PlacedInvariant, <1>1, WorkersNext, PTL DEF Spec

\* activeWorkers is the number of workers at work for the manager, so the
\* limit of MAX_WORKERS is neither passed nor reached too early.
THEOREM WorkersAreAccounted == Spec => []WorkersAccounted
<1>1. WorkersInv => WorkersAccounted
  BY DEF WorkersInv, WorkersAccounted, AtWork, Owning
<1>2. QED
  BY WorkersInvariant, <1>1, PTL
-----------------------------------------------------------------------------
(***************************************************************************)
(* The buffers of each epoch of a manager are with at most one worker.     *)
(***************************************************************************)

EpochOf(b) == eventBuf[b].epoch

TagInv ==
  /\ \A m \in Managers : \A b \in Buffers :
       InSeq(b, allocatedBufs[m]) => EpochOf(b) = epoch[m]
  /\ \A m \in Managers : \A w \in AtWork(m) : \A b \in Buffers :
       InSeq(b, worker[w].buffers) => EpochOf(b) < epoch[m]
  /\ \A m \in Managers : \A v, w \in AtWork(m) : \A b, c \in Buffers :
       v # w /\ InSeq(b, worker[v].buffers) /\ InSeq(c, worker[w].buffers) =>
         EpochOf(b) # EpochOf(c)

\* Nothing changes but, perhaps, that workers return their buffers.
LEMMA TagsStay ==
  ASSUME TagInv,
         UNCHANGED <<allocatedBufs, epoch>>,
         \A b \in Buffers : EpochOf(b)' = EpochOf(b),
         \A m \in Managers : \A w \in AtWork(m)' :
           w \in AtWork(m) /\ worker'[w].buffers = worker[w].buffers
  PROVE  TagInv'
<1>1. ASSUME NEW m \in Managers, NEW b \in Buffers, InSeq(b, allocatedBufs'[m])
      PROVE  EpochOf(b)' = epoch'[m]
  BY <1>1 DEF TagInv
<1>2. ASSUME NEW m \in Managers, NEW w \in AtWork(m)', NEW b \in Buffers,
             InSeq(b, worker'[w].buffers)
      PROVE  EpochOf(b)' < epoch'[m]
  BY <1>2 DEF TagInv
<1>3. ASSUME NEW m \in Managers, NEW v \in AtWork(m)', NEW w \in AtWork(m)',
             NEW b \in Buffers, NEW c \in Buffers, v # w,
             InSeq(b, worker'[v].buffers), InSeq(c, worker'[w].buffers)
      PROVE  EpochOf(b)' # EpochOf(c)'
  BY <1>3 DEF TagInv
<1>4. QED
  BY <1>1, <1>2, <1>3 DEF TagInv, Managers, InSeq

LEMMA TagsAlloc ==
  ASSUME TypeInv, PoolInv, TagInv, NEW t \in Threads, NEW buf \in Buffers,
         AllocBuffer(t, buf), UNCHANGED workerVars
  PROVE  TagInv'
<1> DEFINE n == ManagerOf(t)
<1>1. /\ n \in Managers
      /\ eventBuf \in [ Buffers -> BufferType ] /\ freeBufs \in [ Managers -> Seq(Buffers) ]
      /\ allocatedBufs \in [ Managers -> Seq(Buffers) ] /\ worker' = worker /\ heap \in Nat
  BY ManagerOfType, BufferManagerAssumption DEF TypeInv, TypeOK
<1>2. /\ allocatedBufs' = [ allocatedBufs EXCEPT ![n] = Append(@, buf) ]
      /\ epoch' = epoch
      /\ eventBuf' = [ eventBuf EXCEPT
            ![buf] = Assign(Reset(@), thrContext[t].threadId, epoch[n]) ]
  BY DEF AllocBuffer, TakeBuffer
<1>3. EpochOf(buf)' = epoch[n] /\ \A b \in Buffers \ {buf} : EpochOf(b)' = EpochOf(b)
  BY <1>1, <1>2 DEF EpochOf, Assign, Reset, BufferType
<1>4. /\ \A m \in Managers : ~InSeq(buf, allocatedBufs[m])
      /\ \A w \in Workers : worker[w].pc \in Owning => ~InSeq(buf, worker[w].buffers)
  <2>1. CASE freeBufs[n] # << >> /\ buf = Last(freeBufs[n])
    <3>1. InSeq(buf, freeBufs[n])
      BY <1>1, <2>1, InSeqFront
    <3>2. \A m \in Managers : ~InSeq(buf, allocatedBufs[m])
      BY <1>1, <3>1, AllocatedNowhereElse
    <3>3. ASSUME NEW w \in Workers, worker[w].pc \in Owning, InSeq(buf, worker[w].buffers)
          PROVE  FALSE
      <4> DEFINE f == <<"free", n>>
                 h == <<"worker", w>>
      <4>1. /\ f \in Holders /\ h \in Holders /\ f # h
            /\ InSeq(buf, Pool[h]) /\ InSeq(buf, Pool[f])
        BY <1>1, <3>1, <3>3, PoolAt
      <4> HIDE DEF f, h
      <4>2. QED
        BY <4>1 DEF PoolInv, OnePlace, InSeq
    <3>4. QED
      BY <3>2, <3>3
  <2>2. CASE buf = heap + 1
    <3>1. \A m \in Managers : ~Placed(m, buf)
      BY <1>1, <2>2, PlacedInHeap
    <3>2. \A w \in Workers : worker[w].pc \in Owning => worker[w].manager \in Managers
      BY DEF PoolInv, Owning
    <3>3. QED
      BY <3>1, <3>2 DEF Placed
  <2>3. QED
    BY <1>1, <2>1, <2>2 DEF AllocBuffer
<1> HIDE DEF n
<1>5. ASSUME NEW m \in Managers, NEW b \in Buffers, InSeq(b, allocatedBufs'[m])
      PROVE  EpochOf(b)' = epoch'[m]
  <2>1. InSeq(b, allocatedBufs[m]) \/ (m = n /\ b = buf)
    BY <1>1, <1>2, <1>5, InSeqAppend
  <2>2. QED
    BY <1>2, <1>3, <1>4, <2>1 DEF TagInv
<1>6. ASSUME NEW m \in Managers, NEW w \in AtWork(m), NEW b \in Buffers,
             InSeq(b, worker[w].buffers)
      PROVE  EpochOf(b)' = EpochOf(b)
  BY <1>3, <1>4, <1>6 DEF AtWork
<1>7. \A m : AtWork(m)' = AtWork(m)
  BY <1>1 DEF AtWork
<1>8. ASSUME NEW m \in Managers, NEW w \in AtWork(m), NEW b \in Buffers,
             InSeq(b, worker'[w].buffers)
      PROVE  EpochOf(b)' < epoch'[m]
  BY <1>1, <1>2, <1>6, <1>8 DEF TagInv
<1>9. ASSUME NEW m \in Managers, NEW v \in AtWork(m), NEW w \in AtWork(m),
             NEW b \in Buffers, NEW c \in Buffers, v # w,
             InSeq(b, worker'[v].buffers), InSeq(c, worker'[w].buffers)
      PROVE  EpochOf(b)' # EpochOf(c)'
  BY <1>1, <1>6, <1>9 DEF TagInv
<1>10. QED
  BY <1>5, <1>7, <1>8, <1>9 DEF TagInv, Managers, InSeq

\* The end of an epoch, with or without a new worker.
LEMMA TagsEnd ==
  ASSUME TypeInv, PoolInv, TagInv, NEW t \in Threads,
         \/ HandOver(t) /\ Spawn(ManagerOf(t))
         \/ SkipEpoch(t) /\ UNCHANGED workerVars,
         UNCHANGED eventBuf
  PROVE  TagInv'
<1> DEFINE n   == ManagerOf(t)
           new == spawned + 1
<1>1. /\ n \in Managers /\ epoch \in [ Managers -> Nat ]
      /\ allocatedBufs \in [ Managers -> Seq(Buffers) ]
      /\ worker \in [ Workers -> WorkerType ]
      /\ \A b \in Buffers : EpochOf(b)' = EpochOf(b) /\ EpochOf(b) \in Nat \cup {Unset}
  BY ManagerOfType DEF TypeInv, TypeOK, BufferType, EpochOf
<1>2. /\ allocatedBufs' = [ allocatedBufs EXCEPT ![n] = << >> ]
      /\ epoch' = [ epoch EXCEPT ![n] = @ + 1 ]
  BY DEF HandOver, SkipEpoch, EndEpoch
<1>3. \A w \in Workers :
        \/ worker'[w] = worker[w]
        \/ /\ worker[w].pc = "none" /\ worker'[w].manager = n
           /\ worker'[w].buffers = allocatedBufs[n] /\ w = new
  <2>1. CASE HandOver(t) /\ Spawn(ManagerOf(t))
    <3>1. new > spawned
      BY WorkerAssumption DEF TypeInv, TypeOK
    <3>2. \A w \in Workers : w = new => worker[w].pc = "none"
      BY <3>1 DEF PoolInv
    <3>3. \A w \in Workers : w = new =>
            worker'[w].manager = n /\ worker'[w].buffers = allocatedBufs[n]
      BY <1>1, <2>1 DEF Spawn, IdleWorker
    <3>4. \A w \in Workers \ {new} : worker'[w] = worker[w]
      BY <1>1, <2>1 DEF Spawn
    <3>5. QED
      BY <3>2, <3>3, <3>4
  <2>2. CASE UNCHANGED workerVars
    BY <2>2
  <2>3. QED
    BY <2>1, <2>2
<1> HIDE DEF n, new
\* A buffer of a worker at work is of the epoch that just ended, or older.
<1>4. ASSUME NEW m \in Managers, NEW w \in AtWork(m)', NEW b \in Buffers,
             InSeq(b, worker'[w].buffers)
      PROVE  \/ w \in AtWork(m) /\ InSeq(b, worker[w].buffers) /\ EpochOf(b) < epoch[m]
             \/ w = new /\ m = n /\ EpochOf(b) = epoch[m]
  <2>1. w \in Workers /\ worker'[w].manager = m /\ worker'[w].pc \in Owning
    BY <1>4 DEF AtWork
  <2>2. CASE worker'[w] = worker[w]
    <3>1. w \in AtWork(m) /\ InSeq(b, worker[w].buffers)
      BY <1>4, <2>1, <2>2 DEF AtWork
    <3>2. QED
      BY <3>1 DEF TagInv
  <2>3. CASE worker'[w].manager = n /\ worker'[w].buffers = allocatedBufs[n] /\ w = new
    BY <1>1, <1>4, <2>1, <2>3 DEF TagInv
  <2>4. QED
    BY <1>3, <2>1, <2>2, <2>3
<1>5. ASSUME NEW m \in Managers, NEW b \in Buffers, InSeq(b, allocatedBufs'[m])
      PROVE  EpochOf(b)' = epoch'[m]
  <2>1. m # n
    BY <1>1, <1>2, <1>5, InSeqEmpty
  <2>2. QED
    BY <1>1, <1>2, <1>5, <2>1 DEF TagInv
<1>6. ASSUME NEW m \in Managers, NEW w \in AtWork(m)', NEW b \in Buffers,
             InSeq(b, worker'[w].buffers)
      PROVE  EpochOf(b)' < epoch'[m]
  <2>1. EpochOf(b) <= epoch[m] /\ (EpochOf(b) = epoch[m] => m = n)
    BY <1>1, <1>4, <1>6 DEF Unset
  <2>2. EpochOf(b)' = EpochOf(b) /\ EpochOf(b) \in Int /\ epoch[m] \in Nat
    BY <1>1 DEF Unset
  <2>3. epoch'[m] = IF m = n THEN epoch[m] + 1 ELSE epoch[m]
    BY <1>1, <1>2
  <2>4. QED
    BY <2>1, <2>2, <2>3
<1>7. ASSUME NEW m \in Managers, NEW v \in AtWork(m)', NEW w \in AtWork(m)',
             NEW b \in Buffers, NEW c \in Buffers, v # w,
             InSeq(b, worker'[v].buffers), InSeq(c, worker'[w].buffers)
      PROVE  EpochOf(b)' # EpochOf(c)'
  <2>1. \/ v \in AtWork(m) /\ InSeq(b, worker[v].buffers) /\ EpochOf(b) < epoch[m]
        \/ v = new /\ EpochOf(b) = epoch[m]
    BY <1>4, <1>7
  <2>2. \/ w \in AtWork(m) /\ InSeq(c, worker[w].buffers) /\ EpochOf(c) < epoch[m]
        \/ w = new /\ EpochOf(c) = epoch[m]
    BY <1>4, <1>7
  <2>3. EpochOf(b)' = EpochOf(b) /\ EpochOf(c)' = EpochOf(c) /\ epoch[m] \in Nat
    BY <1>1
  <2>4. EpochOf(b) # EpochOf(c)
    BY <1>7, <2>1, <2>2, <2>3 DEF TagInv
  <2>5. QED
    BY <2>3, <2>4
<1>8. QED
  BY <1>5, <1>6, <1>7 DEF TagInv, Managers, InSeq
LEMMA TagsNext == TypeInv /\ PoolInv /\ PlacedInv /\ TagInv /\ [Next]_vars => TagInv'
<1> SUFFICES ASSUME TypeInv, PoolInv, PlacedInv, TagInv, [Next]_vars PROVE TagInv'
  OBVIOUS
<1>1. ASSUME NEW t \in Threads, ThreadStep(t)
      PROVE  TagInv'
  <2>1. CASE CallAllocBuffer(t)
    BY <2>1, TagsAlloc DEF CallAllocBuffer
  <2>2. CASE StartWorker(t) \/ TooManyWorkers(t)
    BY <2>2, TagsEnd DEF StartWorker, TooManyWorkers
  <2>3. CASE ~(CallAllocBuffer(t) \/ StartWorker(t) \/ TooManyWorkers(t))
    <3>1. /\ UNCHANGED <<allocatedBufs, epoch, worker>>
          /\ \/ StoreEvent(t) \/ UpdateEvents(t) \/ UpdateClose(t) \/ EndRun(t) \/ ExitThread(t)
             \/ UNCHANGED eventBuf
      BY <1>1, <2>3
         DEF ThreadStep, LoadForRef, GetRef, LoadCurBuf, LogReclaimed, LogFast, LogSlow, StoreEvent,
             TryIncEpochFails, LoseEpoch, TryIncEpochWins, WinEpoch, ReclaimOne, ReclaimFrom,
             UpdateAssertFails, UpdateEvents, UpdateClose, EndRun, ExitThread, ThreadExit,
             FinishThread
    <3>2. \A b \in Buffers : EpochOf(b)' = EpochOf(b)
      BY <3>1, IdsStay DEF EpochOf
    <3>3. QED
      BY <3>1, <3>2, TagsStay DEF AtWork
  <2>4. QED
    BY <2>1, <2>2, <2>3
<1>2. ASSUME NEW w \in Workers, WorkerStep(w)
      PROVE  TagInv'
  <2>1. UNCHANGED <<allocatedBufs, epoch, eventBuf>>
    BY <1>2 DEF WorkerStep, WaitClosed, StartCounting, CountBuffer, WorkerReleases,
       ReturnBuffers, Release, ReturnToDestroyed
  <2>2. ASSUME NEW m \in Managers, NEW v \in AtWork(m)'
        PROVE  v \in AtWork(m) /\ worker'[v].buffers = worker[v].buffers
    <3>1. /\ v \in Workers /\ worker'[v].buffers = worker[v].buffers
          /\ worker[v].manager = m /\ worker'[v].pc \in Owning
      BY <1>2, <2>2, WorkerKeepsArguments DEF AtWork
    <3>2. worker[v].pc \in Owning
      BY <1>2, <3>1
         DEF WorkerStep, WaitClosed, StartCounting, CountBuffer, WorkerReleases, ReturnBuffers,
             ReturnToDestroyed, Owning, TypeInv, TypeOK
    <3>3. QED
      BY <3>1, <3>2 DEF AtWork
  <2>3. \A b \in Buffers : EpochOf(b)' = EpochOf(b)
    BY <2>1 DEF EpochOf
  <2>4. QED
    BY <2>1, <2>2, <2>3, TagsStay
<1>3. CASE MainReturns \/ Halted \/ UNCHANGED vars
  BY <1>3, TagsStay DEF MainReturns, Halted, AtWork, EpochOf
<1>4. QED
  BY <1>1, <1>2, <1>3 DEF Next

\* With one manager for all threads, an epoch has one coordinator: no two
\* workers are at work on buffers of the same epoch (BufferManager.cc:70-72).
THEOREM OneCoordinator == Spec => [](~ThreadLocalManager => OneCoordinatorPerEpoch)
<1>1. Init => TagInv
  <2>1. Init => \A m \in Managers : AtWork(m) = {} /\ allocatedBufs[m] = << >>
    BY DEF Init, BufferManagerInit, WorkerInit, IdleWorker, AtWork, Owning
  <2>2. QED
    BY <2>1, InSeqEmpty DEF TagInv
<1>2. TypeInv /\ PoolInv /\ TagInv => (~ThreadLocalManager => OneCoordinatorPerEpoch)
  <2> SUFFICES ASSUME TypeInv, PoolInv, TagInv, ~ThreadLocalManager,
                      NEW v \in Workers, NEW w \in Workers, v # w, Busy(v), Busy(w),
                      NEW b \in ToSet(worker[v].buffers), NEW c \in ToSet(worker[w].buffers)
               PROVE  EpochOf(b) # EpochOf(c)
    BY DEF OneCoordinatorPerEpoch, EpochOf
  <2>1. v \in AtWork(Singleton) /\ w \in AtWork(Singleton) /\ Singleton \in Managers
    BY DEF AtWork, Busy, Owning, PoolInv, Managers
  <2>2. InSeq(b, worker[v].buffers) /\ InSeq(c, worker[w].buffers)
    BY DEF ToSet, InSeq
  <2>3. b \in Buffers /\ c \in Buffers
    <3>1. worker[v].buffers \in Seq(Buffers) /\ worker[w].buffers \in Seq(Buffers)
      BY DEF TypeInv, TypeOK, WorkerType
    <3>2. QED
      BY <3>1, ElementOfSeq DEF ToSet
  <2>4. QED
    BY <2>1, <2>2, <2>3 DEF TagInv
<1>3. QED
  BY PlacedInvariant, <1>1, TagsNext, <1>2, PTL DEF Spec
-----------------------------------------------------------------------------
(***************************************************************************)
(* What the workers count, with a manager for each thread.                 *)
(***************************************************************************)

\* The events logged so far, whatever became of them.
Logged == { e \in Threads \X Nat : e[2] < Executed(e[1]) }

\* The worker w has yet to count the buffer b.
Awaits(w, b) ==
  \E i \in DOMAIN worker[w].buffers :
    /\ worker[w].buffers[i] = b
    /\ \/ worker[w].pc = "wait"
       \/ worker[w].pc = "count" /\ i >= worker[w].next

Live(b) ==
  \/ \E t \in Threads : ref[t].logBuf = b
  \/ \E m \in Managers : InSeq(b, allocatedBufs[m])
  \/ \E w \in Workers : Awaits(w, b)

\* The slots of b that are counted by the buffer, or by a reference to it.
Used(b) ==
  { i \in Slots : \/ i < eventBuf[b].events
                  \/ \E t \in Threads : ref[t].logBuf = b /\ i < ref[t].events }

\* No event is in two slots that somebody has yet to count.
SlotInv ==
  /\ \A b \in Buffers : Live(b) => \A i \in Used(b) : eventBuf[b].buf[i] \in Logged
  /\ \A b, c \in Buffers : Live(b) /\ Live(c) =>
       \A i \in Used(b), j \in Used(c) :
         eventBuf[b].buf[i] = eventBuf[c].buf[j] => b = c /\ i = j

\* The counter of a reference is ahead of the buffer's, and both are within buf[].
CountersOK(t) ==
  /\ idx[t] <= Length
  /\ pc[t] = "store" => idx[t] < Length
  /\ ref[t].events <= Capacity
  /\ ref[t].logBuf # Null => eventBuf[ref[t].logBuf].events <= ref[t].events
  /\ pc[t] \in {"update", "close"} =>
       curBuf[t] = ref[t].logBuf \/ eventBuf[curBuf[t]].events = 0

CountersInv ==
  /\ \A b \in Buffers : eventBuf[b].events <= Capacity
  /\ \A t \in Threads : CountersOK(t)

\* What a worker has counted are the events it has met, and it will not meet
\* them again.
ProcessedInv ==
  \A w \in Workers :
    /\ processed[w] \subseteq Logged /\ IsFiniteSet(processed[w])
    /\ worker[w].events = Cardinality(processed[w])
    /\ worker[w].pc \in {"none", "wait"} => processed[w] = {}
    /\ worker[w].pc = "count" =>
         \A b \in Buffers : Awaits(w, b) =>
           \A i \in Used(b) : eventBuf[b].buf[i] \notin processed[w]

CountInv == SlotInv /\ CountersInv /\ ProcessedInv

LEMMA ExecutedIs ==
  ASSUME TypeInv, NEW t \in Threads
  PROVE  iter[t] * Length \in Nat /\ Executed(t) \in Nat
<1>1. iter[t] \in Nat /\ idx[t] \in Nat /\ Length \in Nat
  BY FastLogAssumption DEF TypeInv, TypeOK
<1>2. iter[t] * Length \in Nat
  BY <1>1
<1>3. QED
  BY <1>1, <1>2 DEF Executed

LEMMA LoggedGrows ==
  ASSUME TypeInv, CountersInv, [Next]_vars
  PROVE  Logged \subseteq Logged'
<1>1. /\ iter \in [ Threads -> Nat ] /\ idx \in [ Threads -> Nat ] /\ Length \in Nat
      /\ iter' \in [ Threads -> Nat ] /\ idx' \in [ Threads -> Nat ]
  BY FastLogAssumption, TypeNext DEF TypeInv, TypeOK
<1>2. ASSUME NEW t \in Threads, iter'[t] = iter[t], idx'[t] >= idx[t]
      PROVE  Executed(t)' >= Executed(t)
  <2>1. /\ Executed(t) = iter[t] * Length + idx[t]
        /\ Executed(t)' = iter[t] * Length + idx'[t]
    BY <1>2 DEF Executed
  <2>2. iter[t] * Length \in Nat
    BY ExecutedIs
  <2>3. QED
    BY <1>1, <1>2, <2>1, <2>2
<1>3. \A t \in Threads : Executed(t)' >= Executed(t)
  <2>1. CASE UNCHANGED <<iter, idx>>
    BY <1>1, <1>2, <2>1
  <2>2. ASSUME NEW t \in Threads, StoreEvent(t)
        PROVE  \A s \in Threads : Executed(s)' >= Executed(s)
    <3>1. \A s \in Threads : iter'[s] = iter[s] /\ idx'[s] >= idx[s]
      BY <1>1, <2>2 DEF StoreEvent
    <3>2. QED
      BY <1>2, <3>1
  <2>3. ASSUME NEW t \in Threads, EndRun(t)
        PROVE  \A s \in Threads : Executed(s)' >= Executed(s)
    <3>1. \A s \in Threads \ {t} : iter'[s] = iter[s] /\ idx'[s] >= idx[s]
      BY <1>1, <2>3 DEF EndRun
    <3>2. iter'[t] = iter[t] + 1 /\ idx'[t] = 0 /\ idx[t] <= Length
      BY <1>1, <2>3 DEF EndRun, CountersInv, CountersOK
    <3>3. /\ Executed(t) = iter[t] * Length + idx[t]
          /\ Executed(t)' = iter[t] * Length + Length
      <4>1. (iter[t] + 1) * Length + 0 = iter[t] * Length + Length
        BY <1>1
      <4>2. Executed(t)' = (iter[t] + 1) * Length + 0
        BY <3>2 DEF Executed
      <4>3. QED
        BY <4>1, <4>2 DEF Executed
    <3>4. Executed(t)' >= Executed(t)
      BY <1>1, <3>2, <3>3, ExecutedIs
    <3>5. QED
      BY <1>2, <3>1, <3>4
  <2>4. QED
    BY <2>1, <2>2, <2>3
       DEF Next, ThreadStep, LoadForRef, CallAllocBuffer, GetRef, LoadCurBuf, LogReclaimed, LogFast,
           LogSlow, TryIncEpochFails, TryIncEpochWins, ReclaimOne, StartWorker, TooManyWorkers,
           UpdateAssertFails, UpdateEvents, UpdateClose, ExitThread, FinishThread, WorkerStep,
           MainReturns, Halted
<1>4. \A t \in Threads : Executed(t) \in Nat /\ Executed(t)' \in Nat
  <2>1. TypeInv'
    BY TypeNext
  <2>2. \A t \in Threads : Executed(t) \in Nat
    BY ExecutedIs
  <2>3. \A t \in Threads : (iter'[t] * Length + idx'[t]) \in Nat
    BY <1>1, EventNumberType
  <2>4. QED
    BY <2>2, <2>3 DEF Executed
<1>5. QED
  <2>1. ASSUME NEW s \in Threads, NEW n \in Nat, n < Executed(s)
        PROVE  n < Executed(s)'
    BY <1>3, <1>4, <2>1
  <2>2. QED
    BY <2>1 DEF Logged

\* No step but the store of an event puts anything into a slot in use.
NothingNew ==
  \A b \in Buffers : Live(b)' => \A i \in Used(b)' :
    Live(b) /\ i \in Used(b) /\ eventBuf'[b].buf[i] = eventBuf[b].buf[i]

LEMMA SlotsStay ==
  ASSUME SlotInv, NothingNew, Logged \subseteq Logged'
  PROVE  SlotInv'
<1>1. ASSUME NEW b \in Buffers, Live(b)', NEW i \in Used(b)'
      PROVE  eventBuf'[b].buf[i] \in Logged'
  BY <1>1 DEF SlotInv, NothingNew
<1>2. ASSUME NEW b \in Buffers, NEW c \in Buffers, Live(b)', Live(c)',
             NEW i \in Used(b)', NEW j \in Used(c)',
             eventBuf'[b].buf[i] = eventBuf'[c].buf[j]
      PROVE  b = c /\ i = j
  BY <1>2 DEF SlotInv, NothingNew
<1>3. QED
  BY <1>1, <1>2 DEF SlotInv

LEMMA ProcessedStays ==
  ASSUME ProcessedInv, NothingNew, Logged \subseteq Logged', UNCHANGED processed,
         \A w \in Workers :
           \/ worker'[w] = worker[w]
           \/ worker[w].pc = "none" /\ worker'[w].pc = "wait" /\ worker'[w].events = 0
  PROVE  ProcessedInv'
<1> SUFFICES ASSUME NEW w \in Workers
             PROVE  /\ processed'[w] \subseteq Logged' /\ IsFiniteSet(processed'[w])
                    /\ worker'[w].events = Cardinality(processed'[w])
                    /\ worker'[w].pc \in {"none", "wait"} => processed'[w] = {}
                    /\ worker'[w].pc = "count" =>
                         \A b \in Buffers : Awaits(w, b)' =>
                           \A i \in Used(b)' : eventBuf'[b].buf[i] \notin processed'[w]
  BY DEF ProcessedInv
<1>1. processed'[w] \subseteq Logged' /\ IsFiniteSet(processed'[w])
  BY DEF ProcessedInv
<1>2. CASE worker'[w] = worker[w]
  <2>1. ASSUME worker'[w].pc = "count", NEW b \in Buffers, Awaits(w, b)', NEW i \in Used(b)'
        PROVE  eventBuf'[b].buf[i] \notin processed'[w]
    <3>1. Live(b)'
      BY <2>1 DEF Live
    <3>2. Awaits(w, b)
      BY <1>2, <2>1 DEF Awaits
    <3>3. QED
      BY <1>2, <2>1, <3>1, <3>2 DEF NothingNew, ProcessedInv
  <2>2. QED
    BY <1>1, <1>2, <2>1 DEF ProcessedInv
<1>3. CASE worker[w].pc = "none" /\ worker'[w].pc = "wait" /\ worker'[w].events = 0
  BY <1>1, <1>3, FS_EmptySet DEF ProcessedInv
<1>4. QED
  BY <1>2, <1>3
\* Addresses are not shared, and what a thread is about to log to is a buffer
\* of the current epoch.
LEMMA NoSharedAddress ==
  ASSUME OwnerInvAll, ThreadLocalManager, NEW s \in Threads, NEW t \in Threads, s # t,
         NEW b \in Addresses(s) \cap Addresses(t)
  PROVE  b = Null
<1>1. ManagerOf(s) = s /\ ManagerOf(t) = t /\ s \in Managers /\ t \in Managers
  BY DEF ManagerOf, Managers
<1>2. b # Null => Placed(s, b) /\ Placed(t, b)
  BY <1>1 DEF OwnerInvAll, PlacedInv, Addresses
<1>3. QED
  BY <1>1, <1>2, OneOwner DEF OwnerInvAll

LEMMA CurBufIsLive ==
  ASSUME OwnerInvAll, ThreadLocalManager, NEW t \in Threads, pc[t] \in {"make_ref", "close"}
  PROVE  curBuf[t] \in Buffers /\ Live(curBuf[t])
<1>1. curBuf[t] = logBuffer[t] /\ logBuffer[t] \in Buffers /\ Alive(t)
  BY WriterFacts DEF OwnerInvAll, WriterInv, Alive
<1>2. InSeq(logBuffer[t], allocatedBufs[t]) /\ t \in Managers
  BY <1>1 DEF OwnerInvAll, EpochInv, EpochAgreement, ManagerOf, Managers, Null, Buffers
<1>3. QED
  BY <1>1, <1>2 DEF Live

\* The store of an event, which is a new one, goes to a slot not in use.
LEMMA StoreIsNew ==
  ASSUME OwnerInvAll, ThreadLocalManager, CountInv, NEW t \in Threads,
         LogReclaimed(t) \/ LogFast(t) \/ LogSlow(t)
  PROVE  LET buf == ref[t].logBuf
             k   == ref[t].events
         IN  /\ buf \in Buffers /\ k \in Slots /\ k \notin Used(buf)
             /\ NextEvent(t) \in Logged' \ Logged
             /\ eventBuf'[buf].buf[k] = NextEvent(t)
             /\ \A b \in Buffers : Live(b)' => \A i \in Used(b)' :
                  (b = buf /\ i = k)
                  \/ (Live(b) /\ i \in Used(b) /\ eventBuf'[b].buf[i] = eventBuf[b].buf[i])
<1> DEFINE buf == ref[t].logBuf
           k   == ref[t].events
<1>1. /\ eventBuf \in [ Buffers -> BufferType ] /\ ref \in [ Threads -> RefType ]
      /\ pc \in [ Threads -> PC ] /\ iter \in [ Threads -> Nat ] /\ idx \in [ Threads -> Nat ]
      /\ pc[t] = "store" /\ StoreEvent(t)
  BY DEF OwnerInvAll, TypeInv, TypeOK, LogReclaimed, LogFast, LogSlow, StoreEvent, At
<1>2. buf \in Buffers /\ k \in Slots
  <2>1. buf \in Buffers
    BY <1>1, WriterFacts DEF OwnerInvAll, WriterInv
  <2>2. RefOK(ref[t]) /\ ref[t] \in RefType
    BY <1>1 DEF OwnerInvAll, WriterInv, WriterOK
  <2>3. QED
    BY <2>1, <2>2, EventBufferAssumption DEF RefOK, RefType, Slots, Capacity
<1>3. buf # Null /\ \A s \in Threads \ {t} : ref[s].logBuf # buf
  <2>1. buf # Null
    BY <1>2 DEF Null, Buffers
  <2>2. ASSUME NEW s \in Threads \ {t}, ref[s].logBuf = buf
        PROVE  FALSE
    <3>1. buf \in Addresses(s) \cap Addresses(t)
      BY <2>2 DEF Addresses
    <3>2. QED
      BY <2>1, <3>1, NoSharedAddress
  <2>3. QED
    BY <2>1, <2>2
<1>4. k \notin Used(buf)
  <2>1. eventBuf[buf].events <= k /\ k \in Nat /\ eventBuf[buf].events \in Nat
    BY <1>1, <1>2, <1>3 DEF CountInv, CountersInv, CountersOK, BufferType, RefType
  <2>2. QED
    BY <1>3, <2>1 DEF Used
<1>5. NextEvent(t) \in Logged' \ Logged
  <2>1. iter[t] * Length \in Nat /\ iter' = iter /\ idx' = [ idx EXCEPT ![t] = @ + 1 ]
    BY <1>1, EventNumberType, FastLogAssumption
       DEF StoreEvent, LogReclaimed, LogFast, LogSlow
  <2>2. Executed(t)' = Executed(t) + 1 /\ Executed(t) \in Nat /\ NextEvent(t) = <<t, Executed(t)>>
    BY <1>1, <2>1 DEF Executed, NextEvent
  <2>3. QED
    BY <2>2 DEF Logged
<1>6. /\ \A b \in Buffers : eventBuf'[b].events = eventBuf[b].events
      /\ eventBuf'[buf].buf[k] = NextEvent(t)
      /\ \A b \in Buffers : \A i \in Slots : b # buf \/ i # k => eventBuf'[b].buf[i] = eventBuf[b].buf[i]
  BY <1>1, <1>2 DEF StoreEvent, StoreAt, Record, BufferType
<1>7. /\ \A s \in Threads : ref'[s].logBuf = ref[s].logBuf
      /\ \A s \in Threads \ {t} : ref'[s] = ref[s]
      /\ ref'[t].events <= k + 1 /\ ref'[t].events \in Nat
  BY <1>1 DEF LogReclaimed, LogFast, LogSlow, RefType
<1>8. worker' = worker /\ allocatedBufs' = allocatedBufs
  BY <1>1 DEF StoreEvent
<1> HIDE DEF buf, k
<1>9. ASSUME NEW b \in Buffers, Live(b)', NEW i \in Used(b)', b # buf \/ i # k
      PROVE  Live(b) /\ i \in Used(b)
  <2>1. Live(b)
    BY <1>7, <1>8, <1>9 DEF Live, Awaits, InSeq
  <2>2. i \in Used(b)
    <3>1. CASE i < eventBuf'[b].events
      BY <1>6, <1>9, <3>1 DEF Used
    <3>2. CASE \E s \in Threads \ {t} : ref'[s].logBuf = b /\ i < ref'[s].events
      BY <1>7, <1>9, <3>2 DEF Used
    <3>3. CASE ref'[t].logBuf = b /\ i < ref'[t].events
      <4>1. b = buf /\ i \in Slots /\ i < k + 1 /\ i # k
        BY <1>2, <1>7, <1>9, <3>3 DEF buf, Used, Slots
      <4>2. i < k
        BY <1>2, <4>1 DEF Slots
      <4>3. QED
        BY <4>1, <4>2 DEF Used, buf, k
    <3>4. QED
      BY <1>9, <3>1, <3>2, <3>3 DEF Used
  <2>3. QED
    BY <2>1, <2>2
<1>10. \A b \in Buffers : Used(b)' \subseteq Slots
  BY DEF Used
<1>11. QED
  BY <1>2, <1>4, <1>5, <1>6, <1>9, <1>10 DEF buf, k
LEMMA SlotsStore ==
  ASSUME OwnerInvAll, ThreadLocalManager, CountInv, [Next]_vars, NEW t \in Threads,
         LogReclaimed(t) \/ LogFast(t) \/ LogSlow(t)
  PROVE  SlotInv' /\ ProcessedInv'
<1> DEFINE buf == ref[t].logBuf
           k   == ref[t].events
           New(b, i) == b = buf /\ i = k
           Old(b, i) == Live(b) /\ i \in Used(b) /\ eventBuf'[b].buf[i] = eventBuf[b].buf[i]
<1>1. /\ NextEvent(t) \in Logged' \ Logged
      /\ eventBuf'[buf].buf[k] = NextEvent(t)
      /\ \A b \in Buffers : Live(b)' => \A i \in Used(b)' : New(b, i) \/ Old(b, i)
  BY StoreIsNew
<1>2. Logged \subseteq Logged'
  BY LoggedGrows DEF OwnerInvAll, CountInv
<1>3. \A b \in Buffers : \A i : Old(b, i) => eventBuf'[b].buf[i] \in Logged
  BY DEF CountInv, SlotInv
<1>4. worker' = worker /\ processed' = processed
  BY DEF LogReclaimed, LogFast, LogSlow, StoreEvent
<1>5. SlotInv'
  <2>1. ASSUME NEW b \in Buffers, Live(b)', NEW i \in Used(b)'
        PROVE  eventBuf'[b].buf[i] \in Logged'
    BY <1>1, <1>2, <1>3, <2>1
  <2>2. ASSUME NEW b \in Buffers, NEW c \in Buffers, Live(b)', Live(c)',
               NEW i \in Used(b)', NEW j \in Used(c)',
               eventBuf'[b].buf[i] = eventBuf'[c].buf[j]
        PROVE  b = c /\ i = j
    <3>1. CASE New(b, i) \/ New(c, j)
      BY <1>1, <1>3, <2>2, <3>1
    <3>2. CASE Old(b, i) /\ Old(c, j)
      <4>1. /\ Live(b) /\ Live(c) /\ i \in Used(b) /\ j \in Used(c)
            /\ eventBuf[b].buf[i] = eventBuf[c].buf[j]
        BY <2>2, <3>2
      <4>2. SlotInv
        BY DEF CountInv
      <4>3. QED
        BY <2>2, <4>1, <4>2 DEF SlotInv
    <3>3. QED
      BY <1>1, <2>2, <3>1, <3>2
  <2>3. QED
    BY <2>1, <2>2 DEF SlotInv
<1>6. ASSUME NEW w \in Workers, worker'[w].pc = "count",
             NEW b \in Buffers, Awaits(w, b)', NEW i \in Used(b)'
      PROVE  eventBuf'[b].buf[i] \notin processed'[w]
  <2>1. Live(b)' /\ Awaits(w, b)
    BY <1>4, <1>6 DEF Live, Awaits
  <2>2. CASE New(b, i)
    BY <1>1, <1>4, <2>2 DEF CountInv, ProcessedInv
  <2>3. CASE Old(b, i)
    BY <1>4, <1>6, <2>1, <2>3 DEF CountInv, ProcessedInv
  <2>4. QED
    BY <1>1, <1>6, <2>1, <2>2, <2>3
<1>7. QED
  BY <1>2, <1>4, <1>5, <1>6 DEF CountInv, ProcessedInv

\* Steps that leave the counters and the slots alone.
LEMMA OldSlots ==
  ASSUME \A b \in Buffers : Live(b)' => Live(b),
         \A b \in Buffers : /\ eventBuf'[b].buf = eventBuf[b].buf
                            /\ eventBuf'[b].events = eventBuf[b].events,
         \A b \in Buffers : \A t \in Threads : ref'[t].logBuf = b =>
           ref'[t] = ref[t] \/ ref'[t].events = eventBuf[b].events \/ ref'[t].events = 0,
         TypeInv
  PROVE  NothingNew
<1> SUFFICES ASSUME NEW b \in Buffers, Live(b)', NEW i \in Used(b)'
             PROVE  Live(b) /\ i \in Used(b) /\ eventBuf'[b].buf[i] = eventBuf[b].buf[i]
  BY DEF NothingNew
<1>1. i \in Slots /\ ~(i < 0)
  BY DEF Used, Slots
<1>2. CASE i < eventBuf'[b].events
  BY <1>1, <1>2 DEF Used
<1>3. ASSUME NEW t \in Threads, ref'[t].logBuf = b, i < ref'[t].events
      PROVE  i \in Used(b)
  BY <1>1, <1>3 DEF Used
<1>4. QED
  BY <1>1, <1>2, <1>3 DEF Used

\* The manager's steps.
LEMMA SlotsManager ==
  ASSUME OwnerInvAll, ThreadLocalManager, NEW t \in Threads,
         \/ CallAllocBuffer(t) \/ StartWorker(t) \/ TooManyWorkers(t)
  PROVE  NothingNew
<1> DEFINE n == ManagerOf(t)
<1>1. /\ n \in Managers /\ TypeInv /\ eventBuf \in [ Buffers -> BufferType ]
      /\ allocatedBufs \in [ Managers -> Seq(Buffers) ] /\ worker \in [ Workers -> WorkerType ]
  BY ManagerOfType DEF OwnerInvAll, TypeInv, TypeOK
<1>2. ref' = ref
  BY DEF CallAllocBuffer, StartWorker, TooManyWorkers
<1> HIDE DEF n
<1>3. CASE CallAllocBuffer(t)
  <2>1. PICK buf \in Buffers : AllocBuffer(t, buf)
    BY <1>3 DEF CallAllocBuffer
  <2>2. /\ allocatedBufs' = [ allocatedBufs EXCEPT ![n] = Append(@, buf) ]
        /\ worker' = worker
        /\ eventBuf' = [ eventBuf EXCEPT
              ![buf] = Assign(Reset(@), thrContext[t].threadId, epoch[n]) ]
    BY <1>3, <2>1 DEF CallAllocBuffer, AllocBuffer, TakeBuffer, n
  <2>3. /\ eventBuf'[buf].events = 0
        /\ \A b \in Buffers : eventBuf'[b].buf = eventBuf[b].buf
        /\ \A b \in Buffers \ {buf} : eventBuf'[b] = eventBuf[b]
    BY <1>1, <2>2 DEF Assign, Reset, BufferType
  <2>4. ASSUME NEW b \in Buffers, Live(b)', NEW i \in Used(b)'
        PROVE  Live(b) /\ i \in Used(b) /\ eventBuf'[b].buf[i] = eventBuf[b].buf[i]
    <3>1. CASE b = buf
      <4>1. ~(i < eventBuf'[b].events)
        BY <2>3, <2>4, <3>1 DEF Used, Slots
      <4>2. \E s \in Threads : ref[s].logBuf = b /\ i < ref[s].events
        BY <1>2, <2>4, <4>1 DEF Used
      <4>3. QED
        BY <2>3, <2>4, <4>2 DEF Used, Live
    <3>2. CASE b # buf
      <4>1. Live(b)
        <5>1. \A m \in Managers : InSeq(b, allocatedBufs'[m]) => InSeq(b, allocatedBufs[m])
          BY <1>1, <2>2, <3>2, InSeqAppend
        <5>2. QED
          BY <1>2, <2>2, <2>4, <5>1 DEF Live, Awaits, Managers, InSeq
      <4>2. QED
        BY <1>2, <2>3, <2>4, <3>2, <4>1 DEF Used
    <3>3. QED
      BY <3>1, <3>2
  <2>5. QED
    BY <2>4 DEF NothingNew
<1>4. CASE StartWorker(t) \/ TooManyWorkers(t)
  <2>1. /\ eventBuf' = eventBuf
        /\ allocatedBufs' = [ allocatedBufs EXCEPT ![n] = << >> ]
    BY <1>4 DEF StartWorker, HandOver, TooManyWorkers, SkipEpoch, EndEpoch, n
  <2>2. \A w \in Workers :
          worker'[w] = worker[w] \/ worker'[w].buffers = allocatedBufs[n]
    BY <1>1, <1>4 DEF StartWorker, Spawn, IdleWorker, TooManyWorkers, n
  <2>3. ASSUME NEW b \in Buffers, Live(b)'
        PROVE  Live(b)
    <3>1. ASSUME NEW m \in Managers, InSeq(b, allocatedBufs'[m])
          PROVE  InSeq(b, allocatedBufs[m])
      BY <1>1, <2>1, <3>1, InSeqEmpty
    <3>2. ASSUME NEW w \in Workers, Awaits(w, b)'
          PROVE  Awaits(w, b) \/ InSeq(b, allocatedBufs[n])
      BY <2>2, <3>2 DEF Awaits, InSeq
    <3>3. QED
      BY <1>1, <1>2, <2>3, <3>1, <3>2 DEF Live, Managers, InSeq
  <2>4. QED
    BY <1>1, <1>2, <2>1, <2>3, OldSlots
<1>5. QED
  BY <1>3, <1>4
LEMMA EventsWritten ==
  ASSUME TypeInv, NEW t \in Threads, UpdateEvents(t) \/ EndRun(t)
  PROVE  \A b \in Buffers :
           /\ eventBuf'[b].buf = eventBuf[b].buf
           /\ \/ eventBuf'[b].events = eventBuf[b].events
              \/ b = ref[t].logBuf /\ eventBuf'[b].events = ref[t].events
<1>1. /\ eventBuf \in [ Buffers -> BufferType ] /\ \A b \in Buffers : eventBuf[b] \in BufferType
  BY DEF TypeInv, TypeOK
<1>2. \A b \in Buffers \ {ref[t].logBuf} : eventBuf'[b] = eventBuf[b]
  BY <1>1 DEF UpdateEvents, EndRun
<1>3. ASSUME ref[t].logBuf \in Buffers
      PROVE  /\ eventBuf'[ref[t].logBuf].buf = eventBuf[ref[t].logBuf].buf
             /\ eventBuf'[ref[t].logBuf].events = ref[t].events
  <2>1. CASE UpdateEvents(t)
    BY <1>1, <1>3, <2>1 DEF UpdateEvents, BufferType
  <2>2. CASE EndRun(t)
    <3>1. eventBuf'[ref[t].logBuf] = WriteBack(eventBuf[ref[t].logBuf], ref[t])
      BY <1>1, <1>3, <2>2 DEF EndRun
    <3>2. QED
      BY <1>1, <1>3, <3>1 DEF WriteBack, BufferType
  <2>3. QED
    BY <2>1, <2>2
<1>4. QED
  BY <1>2, <1>3

\* The other steps of a thread.
LEMMA SlotsThread ==
  ASSUME OwnerInvAll, ThreadLocalManager, NEW t \in Threads, ThreadStep(t),
         ~(LogReclaimed(t) \/ LogFast(t) \/ LogSlow(t)),
         ~(CallAllocBuffer(t) \/ StartWorker(t) \/ TooManyWorkers(t))
  PROVE  NothingNew /\ worker' = worker /\ processed' = processed
<1>1. /\ TypeInv /\ eventBuf \in [ Buffers -> BufferType ] /\ ref \in [ Threads -> RefType ]
      /\ \A b \in Buffers : eventBuf[b] \in BufferType
  BY DEF OwnerInvAll, TypeInv, TypeOK
<1>2. UNCHANGED <<worker, processed, allocatedBufs>>
  BY DEF ThreadStep, LoadForRef, GetRef, LoadCurBuf, TryIncEpochFails, LoseEpoch,
         TryIncEpochWins, WinEpoch, ReclaimOne, ReclaimFrom, UpdateAssertFails, UpdateEvents,
         UpdateClose, EndRun, ExitThread, ThreadExit, FinishThread
<1>3. ASSUME NEW b \in Buffers,
             \A s \in Threads : ref'[s].logBuf = b => ref[s].logBuf = b \/ Live(b)
      PROVE  Live(b)' => Live(b)
  BY <1>2, <1>3 DEF Live, Awaits, InSeq, Managers
<1>4. CASE GetRef(t) \/ UpdateClose(t)
  <2>1. curBuf[t] \in Buffers /\ Live(curBuf[t])
    BY <1>4, CurBufIsLive DEF GetRef, UpdateClose, At
  <2>2. /\ ref'[t].logBuf = curBuf[t] /\ ref'[t].events \in {0, eventBuf[curBuf[t]].events}
        /\ \A s \in Threads \ {t} : ref'[s] = ref[s]
    BY <1>1, <1>4 DEF GetRef, UpdateClose, MakeRef, AttachRef, RefType
  <2>3. \A b \in Buffers : /\ eventBuf'[b].buf = eventBuf[b].buf
                           /\ eventBuf'[b].events = eventBuf[b].events
    BY <1>1, <1>4 DEF GetRef, UpdateClose, BufferType
  <2>4. \A b \in Buffers : Live(b)' => Live(b)
    BY <1>3, <2>1, <2>2
  <2>5. \A b \in Buffers : \A s \in Threads : ref'[s].logBuf = b =>
          ref'[s] = ref[s] \/ ref'[s].events = eventBuf[b].events \/ ref'[s].events = 0
    BY <2>2
  <2>6. QED
    BY <1>1, <1>2, <2>3, <2>4, <2>5, OldSlots
<1>5. CASE UpdateEvents(t) \/ EndRun(t)
  <2>1. \A s \in Threads : ref'[s] = ref[s] \/ ref'[s] = NoRef
    BY <1>1, <1>5 DEF UpdateEvents, EndRun
  <2>2. \A b \in Buffers :
          /\ eventBuf'[b].buf = eventBuf[b].buf
          /\ \/ eventBuf'[b].events = eventBuf[b].events
             \/ b = ref[t].logBuf /\ eventBuf'[b].events = ref[t].events
    BY <1>1, <1>5, EventsWritten
  <2>3. ASSUME NEW b \in Buffers, Live(b)', NEW i \in Used(b)'
        PROVE  Live(b) /\ i \in Used(b)
    <3>1. \A s \in Threads : ref'[s].logBuf = b => ref'[s] = ref[s]
      BY <2>1 DEF NoRef, AttachRef, Null, Buffers
    <3>2. Live(b)
      BY <1>3, <2>3, <3>1
    <3>3. QED
      BY <2>2, <2>3, <3>1, <3>2 DEF Used
  <2>4. QED
    BY <1>2, <2>2, <2>3 DEF NothingNew
<1>6. CASE ExitThread(t) \/ UNCHANGED <<eventBuf, ref>>
  <2>1. /\ ref' = ref
        /\ \A b \in Buffers : /\ eventBuf'[b].buf = eventBuf[b].buf
                              /\ eventBuf'[b].events = eventBuf[b].events
    BY <1>1, <1>6 DEF ExitThread, ThreadExit, BufferType
  <2>2. QED
    BY <1>1, <1>2, <1>3, <2>1, OldSlots
<1>7. QED
  BY <1>4, <1>5, <1>6
     DEF ThreadStep, LoadForRef, LoadCurBuf, TryIncEpochFails, TryIncEpochWins, ReclaimOne,
         UpdateAssertFails, FinishThread

\* The slots of a buffer hold as many events as are counted.
LEMMA SlotsCount ==
  ASSUME SlotInv, NEW b \in Buffers, Live(b), NEW n \in Nat, 0 .. n - 1 \subseteq Used(b)
  PROVE  LET held == { eventBuf[b].buf[i] : i \in 0 .. n - 1 }
         IN  IsFiniteSet(held) /\ Cardinality(held) = n
<1> DEFINE D    == 0 .. n - 1
           held == { eventBuf[b].buf[i] : i \in D }
           f    == [ i \in D |-> eventBuf[b].buf[i] ]
<1>1. \A i, j \in D : f[i] = f[j] => i = j
  BY DEF SlotInv
<1>2. f \in Bijection(D, held)
  <2>1. held = { f[i] : i \in D }
    OBVIOUS
  <2> HIDE DEF D, held
  <2>2. f \in [ D -> held ]
    BY <2>1
  <2> HIDE DEF f
  <2>3. f \in Injection(D, held)
    BY <1>1, <2>2 DEF Injection, IsInjective
  <2>4. f \in Surjection(D, held)
    BY <2>1, <2>2 DEF Surjection
  <2>5. QED
    BY <2>3, <2>4 DEF Bijection
<1>3. IsFiniteSet(D) /\ Cardinality(D) = n
  BY FS_Interval
<1> HIDE DEF D, held, f
<1>4. IsFiniteSet(held) /\ Cardinality(held) = n
  BY <1>2, <1>3, FS_Bijection DEF ExistsBijection
<1>5. QED
  BY <1>4 DEF held, D

\* A worker finds in a buffer as many events as it counts, none of them
\* counted before.
LEMMA ProcessedCount ==
  ASSUME OwnerInvAll, CountInv, NEW w \in Workers, CountBuffer(w), Logged \subseteq Logged',
         NothingNew
  PROVE  ProcessedInv'
<1> DEFINE b0   == worker[w].buffers[worker[w].next]
           seen == Contents(eventBuf[b0])
           n    == eventBuf[b0].events
<1>1. /\ worker \in [ Workers -> WorkerType ] /\ eventBuf \in [ Buffers -> BufferType ]
      /\ worker[w].pc = "count" /\ worker[w].next \in DOMAIN worker[w].buffers
      /\ worker[w].buffers \in Seq(Buffers) /\ worker[w].events \in Nat
      /\ processed \in [ Workers -> SUBSET (Events \cup {NoEvent}) ]
  BY DEF CountBuffer, OwnerInvAll, TypeInv, TypeOK, WorkerType
<1>2. b0 \in Buffers /\ Awaits(w, b0) /\ Live(b0)
  <2>1. b0 \in Buffers
    BY <1>1, ElementOfSeq
  <2>2. worker[w].next >= worker[w].next
    BY <1>1 DEF WorkerType
  <2>3. Awaits(w, b0)
    BY <1>1, <2>2 DEF Awaits
  <2>4. QED
    BY <2>1, <2>3 DEF Live
<1>3. /\ eventBuf' = eventBuf
      /\ processed' = [ processed EXCEPT ![w] = @ \cup seen ]
      /\ \A v \in Workers \ {w} : worker'[v] = worker[v]
      /\ worker'[w].pc = "count" /\ worker'[w].events = worker[w].events + n
      /\ worker'[w].buffers = worker[w].buffers /\ worker'[w].next = worker[w].next + 1
  BY <1>1 DEF CountBuffer, WorkerType
<1>4. n \in Nat /\ n <= Capacity
  BY <1>1, <1>2 DEF CountInv, CountersInv, BufferType
<1>5. \A i \in Slots : i < n => i \in Used(b0)
  BY DEF Used
<1>6. seen = { eventBuf[b0].buf[i] : i \in { j \in Slots : j < n } }
  BY DEF Contents
<1> HIDE DEF b0, seen, n
<1>7. IsFiniteSet(seen) /\ Cardinality(seen) = n
  <2>1. 0 .. n - 1 = { j \in Slots : j < n }
    BY <1>4, EventBufferAssumption DEF Slots, Capacity
  <2>2. 0 .. n - 1 \subseteq Used(b0)
    BY <1>5, <2>1
  <2>3. seen = { eventBuf[b0].buf[i] : i \in 0 .. n - 1 }
    BY <1>6, <2>1
  <2>4. SlotInv
    BY DEF CountInv
  <2>5. QED
    BY <1>2, <1>4, <2>2, <2>3, <2>4, SlotsCount
<1>8. seen \subseteq Logged /\ seen \cap processed[w] = {}
  BY <1>1, <1>2, <1>5, <1>6 DEF CountInv, SlotInv, ProcessedInv
<1>9. /\ IsFiniteSet(processed'[w])
      /\ worker'[w].events = Cardinality(processed'[w])
      /\ processed'[w] \subseteq Logged
  <2>1. IsFiniteSet(processed[w]) /\ worker[w].events = Cardinality(processed[w])
        /\ processed[w] \subseteq Logged
    BY DEF CountInv, ProcessedInv
  <2>2. processed'[w] = processed[w] \cup seen
    BY <1>1, <1>3
  <2>3. /\ IsFiniteSet(processed[w] \cup seen)
        /\ Cardinality(processed[w] \cup seen)
             = Cardinality(processed[w]) + Cardinality(seen) - Cardinality(processed[w] \cap seen)
    BY <1>7, <2>1, FS_Union
  <2>4. Cardinality(processed[w] \cap seen) = 0
    BY <1>8, FS_EmptySet
  <2>5. QED
    BY <1>1, <1>3, <1>4, <1>7, <1>8, <2>1, <2>2, <2>3, <2>4
\* The worker has no buffer twice.
<1>10. ASSUME NEW c \in Buffers, Awaits(w, c)', NEW i \in Used(c)'
       PROVE  eventBuf'[c].buf[i] \notin processed'[w]
  <2>1. PICK p \in DOMAIN worker[w].buffers : worker[w].buffers[p] = c /\ p >= worker[w].next + 1
    BY <1>3, <1>10 DEF Awaits
  <2>2. p # worker[w].next /\ p >= worker[w].next
    BY <1>1, <2>1 DEF WorkerType
  <2>3. c # b0
    <3> DEFINE h == <<"worker", w>>
    <3>1. h \in Holders /\ Pool[h] = worker[w].buffers
      BY <1>1, PoolAt DEF Owning
    <3> HIDE DEF h
    <3>2. \A i1, j1 \in DOMAIN worker[w].buffers :
            worker[w].buffers[i1] = worker[w].buffers[j1] => i1 = j1
      BY <3>1 DEF OwnerInvAll, PoolInv, OnePlace
    <3>3. QED
      BY <1>1, <2>1, <2>2, <3>2 DEF b0
  <2>4. Awaits(w, c) /\ Live(c) /\ i \in Used(c) /\ eventBuf'[c].buf[i] = eventBuf[c].buf[i]
    <3>1. Awaits(w, c)
      BY <1>1, <2>1, <2>2 DEF Awaits
    <3>2. Live(c)'
      BY <1>10 DEF Live
    <3>3. QED
      BY <1>10, <3>1, <3>2 DEF NothingNew
  <2>5. eventBuf[c].buf[i] \notin processed[w]
    BY <1>1, <2>4 DEF CountInv, ProcessedInv
  <2>6. eventBuf[c].buf[i] \notin seen
    BY <1>2, <1>5, <1>6, <2>3, <2>4 DEF CountInv, SlotInv
  <2>7. QED
    BY <1>1, <1>3, <2>4, <2>5, <2>6
<1>11. ASSUME NEW v \in Workers \ {w}
       PROVE  /\ processed'[v] = processed[v] /\ worker'[v] = worker[v]
              /\ worker'[v].pc = "count" =>
                   \A b \in Buffers : Awaits(v, b)' =>
                     \A i \in Used(b)' : eventBuf'[b].buf[i] \notin processed'[v]
  <2>1. processed'[v] = processed[v] /\ worker'[v] = worker[v]
    BY <1>1, <1>3
  <2>2. \A b \in Buffers : Awaits(v, b)' => Live(b)' /\ Awaits(v, b)
    BY <2>1 DEF Live, Awaits
  <2>3. QED
    BY <2>1, <2>2 DEF NothingNew, CountInv, ProcessedInv
<1>12. QED
  BY <1>3, <1>9, <1>10, <1>11 DEF CountInv, ProcessedInv
\* The counters.
LEMMA CountersOthers ==
  ASSUME OwnerInvAll, ThreadLocalManager, CountersInv, NEW t \in Threads, ThreadStep(t),
         \A b \in Buffers :
           \/ eventBuf'[b].events \in {eventBuf[b].events, 0}
           \/ b = ref[t].logBuf /\ eventBuf'[b].events = ref[t].events
  PROVE  /\ \A b \in Buffers : eventBuf'[b].events <= Capacity
         /\ \A s \in Threads \ {t} : CountersOK(s)'
<1>1. /\ pc \in [ Threads -> PC ] /\ ref \in [ Threads -> RefType ] /\ idx \in [ Threads -> Nat ]
      /\ curBuf \in [ Threads -> Buffers \cup {Null} ] /\ Capacity \in Nat
  BY EventBufferAssumption DEF OwnerInvAll, TypeInv, TypeOK, Capacity
<1>2. \A b \in Buffers : eventBuf'[b].events <= Capacity
  BY <1>1 DEF CountersInv, CountersOK
<1>3. ASSUME NEW s \in Threads \ {t}
      PROVE  CountersOK(s)'
  <2>1. pc'[s] = pc[s] /\ ref'[s] = ref[s] /\ idx'[s] = idx[s] /\ curBuf'[s] = curBuf[s]
    BY <1>1 DEF ThreadStep, LoadForRef, CallAllocBuffer, GetRef, LoadCurBuf, LogReclaimed, LogFast,
       LogSlow, StoreEvent, TryIncEpochFails, TryIncEpochWins, ReclaimOne, StartWorker,
       TooManyWorkers, UpdateAssertFails, UpdateEvents, UpdateClose, EndRun, ExitThread,
       FinishThread, Goto
  <2>2. ASSUME NEW b \in Addresses(s), b # Null
        PROVE  b \in Buffers /\ eventBuf'[b].events \in {eventBuf[b].events, 0}
    <3>1. b \in Buffers
      BY <2>2, AddressesType DEF OwnerInvAll
    <3>2. b = ref[t].logBuf => b \in Addresses(t)
      BY DEF Addresses
    <3>3. QED
      BY <2>2, <3>1, <3>2, NoSharedAddress
  <2>3. ref[s].logBuf \in Addresses(s) /\ curBuf[s] \in Addresses(s)
    BY DEF Addresses
  <2>4. CountersOK(s) /\ ref[s].events \in Nat
    BY <1>1 DEF CountersInv, RefType
  <2>5. ref[s].logBuf # Null => eventBuf'[ref[s].logBuf].events <= ref[s].events
    BY <2>2, <2>3, <2>4 DEF CountersOK
  <2>6. pc[s] \in {"update", "close"} =>
          curBuf[s] = ref[s].logBuf \/ eventBuf'[curBuf[s]].events = 0
    <3>1. pc[s] \in {"update", "close"} => curBuf[s] # Null
      BY WriterFacts DEF OwnerInvAll, WriterInv, Null, Buffers
    <3>2. QED
      BY <2>2, <2>3, <2>4, <3>1 DEF CountersOK
  <2>7. QED
    BY <2>1, <2>4, <2>5, <2>6 DEF CountersOK
<1>4. QED
  BY <1>2, <1>3

LEMMA CountersThread ==
  ASSUME OwnerInvAll, ThreadLocalManager, CountersInv, NEW t \in Threads, ThreadStep(t)
  PROVE  CountersInv'
<1> SUFFICES /\ CountersOK(t)'
             /\ \A b \in Buffers :
                  \/ eventBuf'[b].events \in {eventBuf[b].events, 0}
                  \/ b = ref[t].logBuf /\ eventBuf'[b].events = ref[t].events
  BY CountersOthers DEF CountersInv
<1>1. /\ pc \in [ Threads -> PC ] /\ ref \in [ Threads -> RefType ] /\ idx \in [ Threads -> Nat ]
      /\ curBuf \in [ Threads -> Buffers \cup {Null} ] /\ eventBuf \in [ Buffers -> BufferType ]
      /\ Capacity \in Nat /\ Length \in Nat
      /\ ref[t] \in RefType /\ \A b \in Buffers : eventBuf[b] \in BufferType
  BY EventBufferAssumption, FastLogAssumption DEF OwnerInvAll, TypeInv, TypeOK, Capacity
<1>2. CountersOK(t) /\ \A b \in Buffers : eventBuf[b].events <= Capacity
  BY DEF CountersInv
<1>3. CASE LogReclaimed(t) \/ LogFast(t) \/ LogSlow(t)
  <2>1. \A b \in Buffers : eventBuf'[b].events = eventBuf[b].events
    <3>1. StoreEvent(t)
      BY <1>3 DEF LogReclaimed, LogFast, LogSlow
    <3>2. QED
      BY <1>1, <3>1 DEF StoreEvent, StoreAt, Record, BufferType
  <2>2. /\ ref'[t].logBuf = ref[t].logBuf /\ ref'[t].events \in {ref[t].events, ref[t].events + 1}
        /\ idx'[t] = idx[t] + 1 /\ pc[t] = "store" /\ pc'[t] \in {"run", "alloc_update", "try_inc"}
    BY <1>1, <1>3 DEF LogReclaimed, LogFast, LogSlow, StoreEvent, At, Goto, RefType
  <2>3. ref[t].logBuf \in Buffers /\ ref[t].events < Capacity
    <3>1. ref[t].logBuf \in Buffers /\ RefOK(ref[t])
      BY <2>2, WriterFacts DEF OwnerInvAll, WriterInv, WriterOK
    <3>2. QED
      BY <1>1, <3>1, EventBufferAssumption DEF RefOK, RefType, Capacity
  <2>4. CountersOK(t)'
    BY <1>1, <1>2, <2>1, <2>2, <2>3 DEF CountersOK, RefType, BufferType
  <2>5. QED
    BY <2>1, <2>4
<1>4. CASE CallAllocBuffer(t)
  <2>1. PICK buf \in Buffers : AllocBuffer(t, buf) /\ curBuf' = [ curBuf EXCEPT ![t] = buf ]
    BY <1>4 DEF CallAllocBuffer
  <2>2. /\ eventBuf'[buf].events = 0
        /\ \A b \in Buffers \ {buf} : eventBuf'[b] = eventBuf[b]
    <3>1. eventBuf' = [ eventBuf EXCEPT
            ![buf] = Assign(Reset(@), thrContext[t].threadId, epoch[ManagerOf(t)]) ]
      BY <2>1 DEF AllocBuffer, TakeBuffer
    <3>2. QED
      BY <1>1, <3>1 DEF Assign, Reset, BufferType
  <2>3. /\ ref' = ref /\ idx' = idx /\ curBuf'[t] = buf /\ pc'[t] \in {"make_ref", "update"}
    BY <1>1, <1>4, <2>1 DEF CallAllocBuffer, Goto
  <2>4. ref[t].logBuf # Null => eventBuf'[ref[t].logBuf].events <= ref[t].events
    BY <1>1, <1>2, <2>2 DEF CountersOK, RefType
  <2>5. CountersOK(t)'
    BY <1>1, <1>2, <2>2, <2>3, <2>4 DEF CountersOK
  <2>6. QED
    BY <2>2, <2>5
<1>5. CASE GetRef(t)
  <2>1. curBuf[t] \in Buffers
    BY <1>5, CurBufIsLive DEF GetRef, At
  <2>2. /\ ref'[t] = MakeRef(curBuf[t], eventBuf[curBuf[t]]) /\ pc'[t] = "run"
        /\ eventBuf' = eventBuf /\ idx' = idx
    BY <1>1, <1>5 DEF GetRef, Goto
  <2>3. ref'[t].logBuf = curBuf[t] /\ ref'[t].events = eventBuf[curBuf[t]].events
    BY <2>2 DEF MakeRef
  <2>4. CountersOK(t)'
    BY <1>1, <1>2, <2>1, <2>2, <2>3 DEF CountersOK, BufferType
  <2>5. QED
    BY <2>2, <2>4
<1>6. CASE UpdateEvents(t) \/ EndRun(t)
  <2>1. \A b \in Buffers :
          \/ eventBuf'[b].events = eventBuf[b].events
          \/ b = ref[t].logBuf /\ eventBuf'[b].events = ref[t].events
    BY <1>6, EventsWritten DEF OwnerInvAll
  <2>2. CASE UpdateEvents(t)
    <3>1. /\ ref' = ref /\ idx' = idx /\ curBuf' = curBuf /\ pc'[t] = "close"
          /\ pc[t] = "update" /\ curBuf[t] # ref[t].logBuf /\ curBuf[t] \in Buffers
      BY <1>1, <2>2 DEF UpdateEvents, Goto, At
    <3>2. QED
      BY <1>1, <1>2, <2>1, <3>1 DEF CountersOK, RefType
  <2>3. CASE EndRun(t)
    <3>1. ref'[t] = NoRef /\ idx'[t] = 0 /\ pc'[t] = "idle"
      BY <1>1, <2>3 DEF EndRun, Goto
    <3>2. QED
      BY <1>1, <2>1, <3>1 DEF CountersOK, NoRef, AttachRef
  <2>4. QED
    BY <1>6, <2>2, <2>3
<1>7. CASE UpdateClose(t)
  <2>1. \A b \in Buffers : eventBuf'[b].events = eventBuf[b].events
    BY <1>1, <1>7 DEF UpdateClose, BufferType
  <2>2. /\ ref'[t].logBuf = curBuf[t] /\ ref'[t].events = 0 /\ idx' = idx /\ pc'[t] = "run"
        /\ pc[t] = "close"
    BY <1>1, <1>7 DEF UpdateClose, AttachRef, Goto, At
  <2>3. curBuf[t] \in Buffers /\ curBuf[t] # ref[t].logBuf
    BY <2>2, WriterFacts DEF OwnerInvAll, WriterInv, WriterOK
  <2>4. CountersOK(t)'
    BY <1>1, <1>2, <2>1, <2>2, <2>3 DEF CountersOK
  <2>5. QED
    BY <2>1, <2>4
<1>8. CASE LoadForRef(t) \/ LoadCurBuf(t)
  <2>1. /\ eventBuf' = eventBuf /\ ref' = ref /\ idx' = idx
        /\ pc'[t] \in {"alloc_ref", "make_ref", "store"} /\ (pc'[t] = "store" => idx[t] < Length)
    BY <1>1, <1>8 DEF LoadForRef, LoadCurBuf, Goto
  <2>2. QED
    BY <1>2, <2>1 DEF CountersOK
<1>9. CASE ExitThread(t)
  <2>1. \A b \in Buffers : eventBuf'[b].events = eventBuf[b].events
    BY <1>1, <1>9 DEF ExitThread, ThreadExit, BufferType
  <2>2. ref' = ref /\ idx' = idx /\ pc'[t] = "destroy" /\ ref[t].logBuf \in Buffers \cup {Null}
    BY <1>1, <1>9 DEF ExitThread, Goto, RefType
  <2>3. QED
    BY <1>2, <2>1, <2>2 DEF CountersOK
<1>10. CASE \/ TryIncEpochFails(t) \/ TryIncEpochWins(t) \/ ReclaimOne(t) \/ StartWorker(t)
            \/ TooManyWorkers(t) \/ UpdateAssertFails(t) \/ FinishThread(t)
  <2>1. /\ eventBuf' = eventBuf /\ ref' = ref /\ idx' = idx /\ curBuf' = curBuf
        /\ pc'[t] = pc[t] \/ pc'[t] \in {"alloc_update", "reclaim", "done"}
    BY <1>1, <1>10 DEF TryIncEpochFails, TryIncEpochWins, ReclaimOne, StartWorker, TooManyWorkers,
       UpdateAssertFails, FinishThread, Goto
  <2>2. QED
    BY <1>2, <2>1 DEF CountersOK
<1>11. QED
  BY <1>3, <1>4, <1>5, <1>6, <1>7, <1>8, <1>9, <1>10 DEF ThreadStep
\* A worker's other steps.
LEMMA SlotsWorker ==
  ASSUME TypeInv, NEW w \in Workers, WorkerStep(w)
  PROVE  NothingNew
<1>1. worker \in [ Workers -> WorkerType ]
  BY DEF TypeInv, TypeOK
<1>2. /\ UNCHANGED <<eventBuf, ref, allocatedBufs>>
      /\ \A v \in Workers \ {w} : worker'[v] = worker[v]
  BY <1>1 DEF WorkerStep, WaitClosed, StartCounting, CountBuffer, WorkerReleases, ReturnBuffers,
     Release, ReturnToDestroyed
<1>3. ASSUME NEW b \in Buffers, Awaits(w, b)'
      PROVE  Awaits(w, b)
  <2>1. CASE WaitClosed(w) \/ StartCounting(w)
    BY <1>1, <1>3, <2>1 DEF WaitClosed, StartCounting, Awaits, WorkerType
  <2>2. CASE CountBuffer(w)
    <3>1. /\ worker'[w].buffers = worker[w].buffers /\ worker'[w].next = worker[w].next + 1
          /\ worker'[w].pc = "count" /\ worker[w].pc = "count"
      BY <1>1, <2>2 DEF CountBuffer, WorkerType
    <3>2. worker[w].next \in Nat /\ worker[w].buffers \in Seq(Buffers)
      BY <1>1 DEF WorkerType
    <3>3. QED
      BY <1>3, <3>1, <3>2 DEF Awaits
  <2>3. CASE ReturnBuffers(w) \/ ReturnToDestroyed(w)
    BY <1>1, <1>3, <2>3 DEF ReturnBuffers, ReturnToDestroyed, Awaits, WorkerType
  <2>4. QED
    BY <2>1, <2>2, <2>3 DEF WorkerStep, WorkerReleases
<1>4. ASSUME NEW b \in Buffers, NEW v \in Workers, Awaits(v, b)'
      PROVE  Awaits(v, b)
  <2>1. v # w => Awaits(v, b)
    BY <1>2, <1>4 DEF Awaits
  <2>2. QED
    BY <1>3, <1>4, <2>1
<1>5. \A b \in Buffers : Live(b)' => Live(b)
  BY <1>2, <1>4 DEF Live, InSeq, Managers
<1>6. QED
  BY <1>2, <1>5, OldSlots

LEMMA ProcessedWorker ==
  ASSUME OwnerInvAll, CountInv, NEW w \in Workers, WorkerStep(w), Logged \subseteq Logged',
         NothingNew
  PROVE  ProcessedInv'
<1>1. worker \in [ Workers -> WorkerType ]
  BY DEF OwnerInvAll, TypeInv, TypeOK
<1>2. CASE CountBuffer(w)
  BY <1>2, ProcessedCount
<1>3. CASE ~CountBuffer(w)
  <2>1. /\ UNCHANGED <<processed, eventBuf>>
        /\ \A v \in Workers \ {w} : worker'[v] = worker[v]
        /\ worker'[w].events = worker[w].events
        /\ worker[w].pc # "none"
        /\ worker'[w].pc \in {"none", "wait"} => worker[w].pc = "wait"
        /\ worker'[w].pc = "count" => worker[w].pc = "wait"
    BY <1>1, <1>3 DEF WorkerStep, WaitClosed, StartCounting, WorkerReleases, ReturnBuffers,
       ReturnToDestroyed, WorkerType
  <2>2. ASSUME NEW v \in Workers
        PROVE  /\ processed'[v] \subseteq Logged' /\ IsFiniteSet(processed'[v])
               /\ worker'[v].events = Cardinality(processed'[v])
               /\ worker'[v].pc \in {"none", "wait"} => processed'[v] = {}
    BY <2>1 DEF CountInv, ProcessedInv
  <2>3. ASSUME NEW v \in Workers, worker'[v].pc = "count", NEW b \in Buffers, Awaits(v, b)',
               NEW i \in Used(b)'
        PROVE  eventBuf'[b].buf[i] \notin processed'[v]
    <3>1. CASE v = w
      BY <2>1, <3>1, <2>3 DEF CountInv, ProcessedInv
    <3>2. CASE v # w
      <4>1. worker'[v] = worker[v] /\ Live(b)'
        BY <2>1, <2>3, <3>2 DEF Live
      <4>2. Awaits(v, b)
        BY <2>3, <4>1 DEF Awaits
      <4>3. QED
        BY <2>1, <2>3, <4>1, <4>2 DEF NothingNew, CountInv, ProcessedInv
    <3>3. QED
      BY <3>1, <3>2
  <2>4. QED
    BY <2>2, <2>3 DEF ProcessedInv
<1>4. QED
  BY <1>2, <1>3

LEMMA CountNext ==
  ASSUME OwnerInvAll, ThreadLocalManager, CountInv, [Next]_vars
  PROVE  CountInv'
<1>1. Logged \subseteq Logged'
  BY LoggedGrows DEF OwnerInvAll, CountInv
<1>2. ASSUME NEW t \in Threads, ThreadStep(t)
      PROVE  CountInv'
  <2>1. CountersInv'
    BY <1>2, CountersThread DEF CountInv
  <2>2. CASE LogReclaimed(t) \/ LogFast(t) \/ LogSlow(t)
    BY <2>1, <2>2, SlotsStore DEF CountInv
  <2>3. CASE CallAllocBuffer(t) \/ StartWorker(t) \/ TooManyWorkers(t)
    <3>1. NothingNew
      BY <2>3, SlotsManager
    <3>2. processed' = processed
      BY <2>3 DEF CallAllocBuffer, StartWorker, Spawn, TooManyWorkers
    <3>3. ASSUME NEW w \in Workers
          PROVE  \/ worker'[w] = worker[w]
                 \/ worker[w].pc = "none" /\ worker'[w].pc = "wait" /\ worker'[w].events = 0
      <4>1. CASE StartWorker(t)
        <5>1. /\ worker \in [ Workers -> WorkerType ] /\ spawned \in Nat
              /\ \A v \in Workers : v > spawned => worker[v].pc = "none"
          BY WorkerAssumption DEF OwnerInvAll, TypeInv, TypeOK, PoolInv
        <5>2. QED
          BY <4>1, <5>1 DEF StartWorker, Spawn, IdleWorker
      <4>2. CASE CallAllocBuffer(t) \/ TooManyWorkers(t)
        BY <4>2 DEF CallAllocBuffer, TooManyWorkers
      <4>3. QED
        BY <2>3, <4>1, <4>2
    <3>4. QED
      BY <1>1, <2>1, <3>1, <3>2, <3>3, SlotsStay, ProcessedStays DEF CountInv
  <2>4. CASE ~(\/ LogReclaimed(t) \/ LogFast(t) \/ LogSlow(t)
               \/ CallAllocBuffer(t) \/ StartWorker(t) \/ TooManyWorkers(t))
    <3>1. NothingNew /\ worker' = worker /\ processed' = processed
      BY <1>2, <2>4, SlotsThread
    <3>2. QED
      BY <1>1, <2>1, <3>1, SlotsStay, ProcessedStays DEF CountInv
  <2>5. QED
    BY <2>2, <2>3, <2>4
<1>3. ASSUME UNCHANGED <<eventBuf, threadVars>>
      PROVE  CountersInv'
  BY <1>3 DEF CountInv, CountersInv, CountersOK
<1>4. ASSUME NEW w \in Workers, WorkerStep(w)
      PROVE  CountInv'
  <2>1. NothingNew
    BY <1>4, SlotsWorker DEF OwnerInvAll
  <2>2. UNCHANGED <<eventBuf, threadVars>>
    BY <1>4 DEF WorkerStep, WaitClosed, StartCounting, CountBuffer, WorkerReleases, ReturnBuffers,
       ReturnToDestroyed
  <2>3. QED
    BY <1>1, <1>3, <1>4, <2>1, <2>2, SlotsStay, ProcessedWorker DEF CountInv
<1>5. CASE MainReturns \/ Halted \/ UNCHANGED vars
  <2>1. UNCHANGED <<eventBuf, threadVars, worker, processed, allocatedBufs>>
    BY <1>5 DEF MainReturns, Halted
  <2>2. \A b \in Buffers : Live(b)' => Live(b)
    BY <2>1 DEF Live, Awaits, InSeq, Managers
  <2>3. NothingNew
    BY <2>1, <2>2, OldSlots DEF OwnerInvAll
  <2>4. QED
    BY <1>1, <1>3, <2>1, <2>3, SlotsStay, ProcessedStays DEF CountInv
<1>6. QED
  BY <1>2, <1>4, <1>5 DEF Next

LEMMA CountInvariant == Spec => [](ThreadLocalManager => CountInv)
<1>1. Init => CountInv
  <2> SUFFICES ASSUME Init PROVE CountInv
    OBVIOUS
  <2>1. /\ \A b \in Buffers : eventBuf[b].events = 0
        /\ \A t \in Threads : /\ pc[t] = "idle" /\ idx[t] = 0
                              /\ ref[t].logBuf = Null /\ ref[t].events = 0
        /\ \A w \in Workers : /\ processed[w] = {} /\ worker[w].events = 0
                              /\ worker[w].pc = "none"
        /\ Capacity \in Nat /\ Length \in Nat
    BY EventBufferAssumption, FastLogAssumption
       DEF Init, BufferManagerInit, WorkerInit, NewBuffer, NoRef, AttachRef, IdleWorker, Capacity
  <2>2. \A b \in Buffers : Used(b) = {}
    BY <2>1 DEF Used, Slots, Null, Buffers
  <2>3. SlotInv
    BY <2>2 DEF SlotInv
  <2>4. CountersInv
    BY <2>1 DEF CountersInv, CountersOK
  <2>5. ProcessedInv
    BY <2>1, FS_EmptySet DEF ProcessedInv
  <2>6. QED
    BY <2>3, <2>4, <2>5 DEF CountInv
<1>2. OwnerInvAll /\ (ThreadLocalManager => CountInv) /\ [Next]_vars
        => (ThreadLocalManager => CountInv)'
  BY CountNext
<1>3. QED
  BY OwnerInvariant, <1>1, <1>2, PTL DEF Spec

-----------------------------------------------------------------------------
(***************************************************************************)
(* What a worker is started with, with a manager for each thread.          *)
(***************************************************************************)

\* MaxEvents events or more have been logged to b.
Full(b) ==
  \/ \E t \in Threads : ref[t].logBuf = b /\ ref[t].events >= MaxEvents
  \/ /\ \A t \in Threads : ref[t].logBuf # b
     /\ eventBuf[b].events >= MaxEvents

\* The coordinator's buffer is full and is handed over; its counter is
\* written back before the reference turns to the next buffer.
EndingOK(t) ==
  /\ pc[t] \in {"idle", "alloc_ref", "make_ref"} => ref[t].logBuf = Null
  /\ pc[t] \in {"try_inc", "reclaim"} => ref[t].events >= MaxEvents
  /\ pc[t] = "reclaim" => InSeq(ref[t].logBuf, allocatedBufs[ManagerOf(t)])
  /\ pc[t] = "close" =>
       ref[t].logBuf # Null /\ eventBuf[ref[t].logBuf].events = ref[t].events

FullInv ==
  /\ \A t \in Threads : EndingOK(t)
  /\ \A w \in Workers : worker[w].pc = "wait" =>
       \E b \in Buffers : InSeq(b, worker[w].buffers) /\ Full(b)

\* Who has a buffer that is waiting for its worker.
LEMMA WaitingNotTaken ==
  ASSUME OwnerInvAll, ThreadLocalManager, NEW w \in Workers, worker[w].pc = "wait",
         NEW b \in Buffers, InSeq(b, worker[w].buffers), NEW t \in Threads
  PROVE  /\ pc[t] \in {"run", "store", "make_ref", "update", "close"} => logBuffer[t] # b
         /\ ~AllocBuffer(t, b)
<1> DEFINE h == <<"worker", w>>
<1>1. /\ ManagerOf(t) = t /\ t \in Managers /\ worker[w].pc \in Owning /\ worker[w].pc # "none"
      /\ freeBufs \in [ Managers -> Seq(Buffers) ]
  BY DEF ManagerOf, Managers, Owning, OwnerInvAll, TypeInv, TypeOK
<1>2. h \in Holders /\ InSeq(b, Pool[h])
  BY <1>1, PoolAt
<1>3. ~InSeq(b, allocatedBufs[t])
  BY <1>1, AllocatedNowhereElse DEF OwnerInvAll
<1>4. ~InSeq(b, freeBufs[t])
  <2>1. ASSUME InSeq(b, freeBufs[t])
        PROVE  FALSE
    <3>1. <<"free", t>> \in Holders /\ InSeq(b, Pool[<<"free", t>>])
      BY <1>1, <2>1, PoolAt
    <3>2. <<"free", t>> = h
      BY <1>2, <3>1 DEF OwnerInvAll, PoolInv, OnePlace, InSeq
    <3>3. QED
      BY <3>2
  <2>2. QED
    BY <2>1
<1>5. b # heap + 1
  <2>1. worker[w].manager \in Managers
    BY <1>1 DEF OwnerInvAll, PoolInv, Owning
  <2>2. Placed(worker[w].manager, b)
    BY <1>1 DEF Placed
  <2>3. b \in 1 .. heap /\ heap \in Nat
    BY <2>1, <2>2, PlacedInHeap, BufferManagerAssumption DEF OwnerInvAll, TypeInv, TypeOK
  <2>4. QED
    BY <2>3
<1>6. ASSUME pc[t] \in {"run", "store", "make_ref", "update", "close"}
      PROVE  logBuffer[t] # b
  <2>1. logBuffer[t] # Null /\ Alive(t)
    BY <1>6 DEF OwnerInvAll, WriterInv, WriterOK, Alive
  <2>2. QED
    BY <1>1, <1>3, <2>1 DEF OwnerInvAll, EpochInv, EpochAgreement
<1>7. ~AllocBuffer(t, b)
  BY <1>1, <1>4, <1>5, InSeqFront DEF AllocBuffer
<1>8. QED
  BY <1>6, <1>7

\* What is full stays full until the worker counts it.
LEMMA FullStays ==
  ASSUME OwnerInvAll, ThreadLocalManager, NEW t \in Threads, EndingOK(t), ThreadStep(t),
         NEW w \in Workers, worker[w].pc = "wait",
         NEW b \in Buffers, InSeq(b, worker[w].buffers), Full(b)
  PROVE  Full(b)'
<1>1. /\ TypeInv /\ eventBuf \in [ Buffers -> BufferType ] /\ ref \in [ Threads -> RefType ]
      /\ eventBuf[b] \in BufferType /\ ref[t] \in RefType /\ MaxEvents \in Nat
      /\ curBuf \in [ Threads -> Buffers \cup {Null} ]
  BY EventBufferAssumption DEF OwnerInvAll, TypeInv, TypeOK
<1>2. /\ pc[t] \in {"run", "store"} => ref[t].logBuf # b
      /\ pc[t] \in {"make_ref", "close"} => curBuf[t] # b
  BY WaitingNotTaken, WriterFacts DEF OwnerInvAll, WriterInv
<1>3. ASSUME eventBuf'[b].events = eventBuf[b].events, ref' = ref
      PROVE  Full(b)'
  BY <1>3 DEF Full
<1>4. CASE LogReclaimed(t) \/ LogFast(t) \/ LogSlow(t)
  <2>1. ref[t].logBuf # b
    BY <1>2, <1>4 DEF LogReclaimed, LogFast, LogSlow, StoreEvent, At
  <2>2. /\ \A s \in Threads \ {t} : ref'[s] = ref[s]
        /\ ref'[t].logBuf = ref[t].logBuf
    BY <1>1, <1>4 DEF LogReclaimed, LogFast, LogSlow, RefType
  <2>3. eventBuf'[b] = eventBuf[b]
    <3>1. StoreEvent(t)
      BY <1>4 DEF LogReclaimed, LogFast, LogSlow
    <3>2. QED
      BY <1>1, <2>1, <3>1 DEF StoreEvent
  <2>4. QED
    BY <2>1, <2>2, <2>3 DEF Full
<1>5. CASE CallAllocBuffer(t)
  <2>1. PICK buf \in Buffers : AllocBuffer(t, buf)
    BY <1>5 DEF CallAllocBuffer
  <2>2. buf # b /\ ref' = ref
    BY <1>5, <2>1, WaitingNotTaken DEF CallAllocBuffer
  <2>3. QED
    BY <1>1, <1>3, <2>1, <2>2, TakenBuffer
<1>6. CASE GetRef(t)
  <2>1. /\ \A s \in Threads \ {t} : ref'[s] = ref[s]
        /\ ref'[t].logBuf = curBuf[t] /\ curBuf[t] # b /\ eventBuf' = eventBuf
    BY <1>1, <1>2, <1>6 DEF GetRef, MakeRef, At
  <2>2. ref[t].logBuf # b
    BY <1>6 DEF GetRef, At, EndingOK, Null, Buffers
  <2>3. QED
    BY <2>1, <2>2 DEF Full
<1>7. CASE UpdateClose(t)
  <2>1. /\ \A s \in Threads \ {t} : ref'[s] = ref[s]
        /\ ref'[t].logBuf = curBuf[t] /\ curBuf[t] # b
        /\ eventBuf'[b].events = eventBuf[b].events
    BY <1>1, <1>2, <1>7 DEF UpdateClose, AttachRef, At, BufferType
  <2>2. CASE ref[t].logBuf = b
    <3>1. eventBuf[b].events = ref[t].events
      BY <1>7, <2>2 DEF UpdateClose, At, EndingOK
    <3>2. ASSUME NEW s \in Threads \ {t}, ref[s].logBuf = b
          PROVE  FALSE
      <4>1. b \in Addresses(s) \cap Addresses(t) /\ b # Null
        BY <2>2, <3>2 DEF Addresses, Null, Buffers
      <4>2. QED
        BY <4>1, NoSharedAddress
    <3>3. ref[t].events >= MaxEvents
      BY <2>2, <3>2 DEF Full
    <3>4. QED
      BY <2>1, <3>1, <3>2, <3>3 DEF Full
  <2>3. CASE ref[t].logBuf # b
    BY <2>1, <2>3 DEF Full
  <2>4. QED
    BY <2>2, <2>3
<1>8. CASE UpdateEvents(t)
  <2>1. /\ ref' = ref
        /\ ref[t].logBuf # b => eventBuf'[b].events = eventBuf[b].events
    BY <1>1, <1>8, EventsWritten DEF UpdateEvents
  <2>2. QED
    BY <1>3, <2>1 DEF Full
<1>9. CASE EndRun(t)
  <2>1. /\ \A s \in Threads \ {t} : ref'[s] = ref[s]
        /\ ref'[t].logBuf # b /\ ref[t].logBuf # b
    BY <1>1, <1>2, <1>9 DEF EndRun, At, NoRef, AttachRef, Null, Buffers
  <2>2. eventBuf'[b].events = eventBuf[b].events
    BY <1>1, <1>9, <2>1, EventsWritten
  <2>3. QED
    BY <2>1, <2>2 DEF Full
<1>10. CASE ExitThread(t)
  <2>1. eventBuf'[b].events = eventBuf[b].events /\ ref' = ref
    BY <1>1, <1>10 DEF ExitThread, ThreadExit, BufferType
  <2>2. QED
    BY <1>3, <2>1
<1>11. CASE UNCHANGED <<eventBuf, ref>>
  BY <1>3, <1>11
<1>12. QED
  BY <1>4, <1>5, <1>6, <1>7, <1>8, <1>9, <1>10, <1>11
     DEF ThreadStep, LoadForRef, LoadCurBuf, TryIncEpochFails, TryIncEpochWins, ReclaimOne,
         StartWorker, TooManyWorkers, UpdateAssertFails, FinishThread

LEMMA EndingThread ==
  ASSUME OwnerInvAll, ThreadLocalManager, NEW t \in Threads, EndingOK(t), ThreadStep(t)
  PROVE  EndingOK(t)'
<1>1. /\ TypeInv /\ eventBuf \in [ Buffers -> BufferType ] /\ ref \in [ Threads -> RefType ]
      /\ pc \in [ Threads -> PC ] /\ ref[t] \in RefType /\ ManagerOf(t) = t /\ t \in Managers
      /\ MaxEvents \in Nat /\ BatchSize \in Nat
  BY EventBufferAssumption DEF OwnerInvAll, TypeInv, TypeOK, ManagerOf, Managers
<1>2. CASE LoadForRef(t) \/ CallAllocBuffer(t)
  <2>1. /\ ref' = ref
        /\ pc[t] \in {"idle", "alloc_ref"} /\ pc'[t] \in {"alloc_ref", "make_ref"}
        \/ pc'[t] = "update"
    BY <1>1, <1>2 DEF LoadForRef, CallAllocBuffer, At, Goto
  <2>2. QED
    BY <2>1 DEF EndingOK
<1>3. CASE GetRef(t) \/ LoadCurBuf(t) \/ LogReclaimed(t) \/ LogFast(t) \/ UpdateClose(t)
  <2>1. pc'[t] \in {"run", "store", "alloc_update"}
    BY <1>1, <1>3 DEF GetRef, LoadCurBuf, LogReclaimed, LogFast, UpdateClose, Goto
  <2>2. QED
    BY <2>1 DEF EndingOK
<1>4. CASE LogSlow(t)
  <2>1. /\ ref'[t].events = ref[t].events + 1
        /\ \/ pc'[t] = "run"
           \/ pc'[t] = "try_inc" /\ ref[t].events + 1 >= MaxEvents
    BY <1>1, <1>4 DEF LogSlow, Goto, RefType
  <2>2. QED
    BY <2>1 DEF EndingOK
<1>5. CASE TryIncEpochWins(t)
  <2>1. /\ ref' = ref /\ allocatedBufs' = allocatedBufs /\ pc[t] = "try_inc" /\ pc'[t] = "reclaim"
    BY <1>1, <1>5 DEF TryIncEpochWins, WinEpoch, At, Goto
  <2>2. ref[t].logBuf = logBuffer[t] /\ logBuffer[t] \in Buffers /\ Alive(t)
    BY <2>1, WriterFacts DEF OwnerInvAll, WriterInv, Alive
  <2>3. InSeq(ref[t].logBuf, allocatedBufs[t])
    BY <1>1, <2>2 DEF OwnerInvAll, EpochInv, EpochAgreement, Null, Buffers
  <2>4. QED
    BY <1>1, <2>1, <2>3 DEF EndingOK, InSeq, ManagerOf
<1>6. CASE ReclaimOne(t)
  <2>1. ref' = ref /\ allocatedBufs' = allocatedBufs /\ pc' = pc /\ pc[t] = "reclaim"
    BY <1>6 DEF ReclaimOne, ReclaimFrom, At
  <2>2. QED
    BY <2>1 DEF EndingOK, InSeq, ManagerOf
<1>7. CASE TryIncEpochFails(t) \/ StartWorker(t) \/ TooManyWorkers(t)
  <2>1. pc'[t] = "alloc_update"
    BY <1>1, <1>7 DEF TryIncEpochFails, StartWorker, TooManyWorkers, Goto
  <2>2. QED
    BY <2>1 DEF EndingOK
<1>8. CASE UpdateAssertFails(t)
  BY <1>8 DEF UpdateAssertFails, EndingOK, InSeq, ManagerOf
<1>9. CASE UpdateEvents(t)
  <2>1. ref' = ref /\ pc'[t] = "close" /\ pc[t] = "update"
    BY <1>1, <1>9 DEF UpdateEvents, At, Goto
  <2>2. ref[t].logBuf \in Buffers
    BY <1>1, <2>1 DEF OwnerInvAll, WriterInv, WriterOK, RefType
  <2>3. eventBuf'[ref[t].logBuf].events = ref[t].events
    BY <1>1, <1>9, <2>2 DEF UpdateEvents, BufferType
  <2>4. QED
    BY <2>1, <2>2, <2>3 DEF EndingOK, Null, Buffers
<1>10. CASE EndRun(t)
  <2>1. ref'[t].logBuf = Null /\ pc'[t] = "idle"
    BY <1>1, <1>10 DEF EndRun, NoRef, AttachRef, Goto
  <2>2. QED
    BY <2>1 DEF EndingOK
<1>11. CASE ExitThread(t) \/ FinishThread(t)
  <2>1. pc'[t] \in {"destroy", "done"}
    BY <1>1, <1>11 DEF ExitThread, FinishThread, Goto
  <2>2. QED
    BY <2>1 DEF EndingOK
<1>12. QED
  BY <1>2, <1>3, <1>4, <1>5, <1>6, <1>7, <1>8, <1>9, <1>10, <1>11 DEF ThreadStep

LEMMA EndingOthers ==
  ASSUME OwnerInvAll, ThreadLocalManager, NEW s \in Threads, NEW t \in Threads \ {s},
         EndingOK(t), ThreadStep(s)
  PROVE  EndingOK(t)'
<1>1. /\ ManagerOf(s) = s /\ ManagerOf(t) = t /\ s \in Managers /\ t \in Managers
      /\ ref \in [ Threads -> RefType ] /\ ref[t] \in RefType
      /\ allocatedBufs \in [ Managers -> Seq(Buffers) ]
  BY DEF OwnerInvAll, TypeInv, TypeOK, ManagerOf, Managers
<1>2. /\ pc'[t] = pc[t] /\ ref'[t] = ref[t]
      /\ \A b \in Buffers : Placed(t, b) => eventBuf'[b] = eventBuf[b]
  BY OthersLeaveAlone DEF OwnerInvAll
<1>3. allocatedBufs'[t] = allocatedBufs[t]
  BY <1>1 DEF ThreadStep, LoadForRef, CallAllocBuffer, AllocBuffer, TakeBuffer, GetRef, LoadCurBuf,
     LogReclaimed, LogFast, LogSlow, StoreEvent, TryIncEpochFails, LoseEpoch, TryIncEpochWins,
     WinEpoch, ReclaimOne, ReclaimFrom, StartWorker, HandOver, TooManyWorkers, SkipEpoch, EndEpoch,
     UpdateAssertFails, UpdateEvents, UpdateClose, EndRun, ExitThread, ThreadExit, FinishThread
<1>4. pc[t] = "close" => eventBuf'[ref[t].logBuf] = eventBuf[ref[t].logBuf]
  <2>1. ref[t].logBuf # Null => Placed(t, ref[t].logBuf) /\ ref[t].logBuf \in Buffers
    BY <1>1 DEF OwnerInvAll, PlacedInv, RefType
  <2>2. QED
    BY <1>2, <2>1 DEF EndingOK
<1>5. QED
  BY <1>1, <1>2, <1>3, <1>4 DEF EndingOK, InSeq, ManagerOf

LEMMA FullNext ==
  ASSUME OwnerInvAll, ThreadLocalManager, FullInv, [Next]_vars
  PROVE  FullInv'
<1>1. /\ worker \in [ Workers -> WorkerType ] /\ spawned \in Nat
      /\ \A t \in Threads : ManagerOf(t) = t /\ ref[t].logBuf \in Buffers \cup {Null}
      /\ MaxEvents \in Nat \ {0}
  BY EventBufferAssumption, WorkerAssumption
     DEF OwnerInvAll, TypeInv, TypeOK, RefType, ManagerOf
<1>2. ASSUME NEW t \in Threads, ThreadStep(t)
      PROVE  FullInv'
  <2>1. \A s \in Threads : EndingOK(s)'
    BY <1>2, EndingThread, EndingOthers DEF FullInv
  <2>2. ASSUME NEW w \in Workers, worker[w].pc = "wait", worker'[w] = worker[w]
        PROVE  \E b \in Buffers : InSeq(b, worker'[w].buffers) /\ Full(b)'
    BY <1>2, <2>2, FullStays DEF FullInv
  <2>3. CASE StartWorker(t)
    <3>1. /\ worker' = [ worker EXCEPT ![spawned + 1] =
               [ IdleWorker EXCEPT !.pc = "wait", !.manager = ManagerOf(t),
                                   !.buffers = allocatedBufs[ManagerOf(t)] ] ]
          /\ eventBuf' = eventBuf /\ ref' = ref /\ pc[t] = "reclaim"
      BY <2>3 DEF StartWorker, Spawn, At
    <3>2. PICK buf \in Buffers :
            /\ ref[t].logBuf = buf /\ ref[t].events >= MaxEvents
            /\ InSeq(buf, allocatedBufs[ManagerOf(t)])
      BY <1>1, <3>1 DEF FullInv, EndingOK, OwnerInvAll, WriterInv, WriterOK
    <3>3. Full(buf)'
      BY <3>1, <3>2 DEF Full
    <3>4. ASSUME NEW w \in Workers, w # spawned + 1
          PROVE  worker'[w] = worker[w]
      BY <1>1, <3>1, <3>4
    <3>5. spawned + 1 \in Workers => worker'[spawned + 1].buffers = allocatedBufs[ManagerOf(t)]
      BY <1>1, <3>1 DEF IdleWorker
    <3>6. ASSUME NEW w \in Workers, worker'[w].pc = "wait"
          PROVE  \E b \in Buffers : InSeq(b, worker'[w].buffers) /\ Full(b)'
      <4>1. CASE w = spawned + 1
        <5>1. InSeq(buf, worker'[w].buffers)
          BY <3>2, <3>5, <4>1
        <5>2. QED
          BY <3>2, <3>3, <5>1
      <4>2. CASE w # spawned + 1
        BY <2>2, <3>4, <3>6, <4>2
      <4>3. QED
        BY <4>1, <4>2
    <3>7. QED
      BY <2>1, <3>6 DEF FullInv
  <2>4. CASE ~StartWorker(t)
    <3>1. worker' = worker
      BY <1>2, <2>4 DEF ThreadStep, LoadForRef, CallAllocBuffer, GetRef, LoadCurBuf, LogReclaimed,
         LogFast, LogSlow, StoreEvent, TryIncEpochFails, TryIncEpochWins, ReclaimOne,
         TooManyWorkers, UpdateAssertFails, UpdateEvents, UpdateClose, EndRun, ExitThread,
         FinishThread
    <3>2. QED
      BY <2>1, <2>2, <3>1 DEF FullInv
  <2>5. QED
    BY <2>3, <2>4
<1>3. CASE (\E w \in Workers : WorkerStep(w)) \/ MainReturns \/ Halted \/ UNCHANGED vars
  <2>1. UNCHANGED <<eventBuf, ref, pc, allocatedBufs>>
    BY <1>3 DEF WorkerStep, WaitClosed, StartCounting, CountBuffer, WorkerReleases, ReturnBuffers,
       Release, ReturnToDestroyed, MainReturns, Halted
  <2>2. ASSUME NEW v \in Workers, worker'[v].pc = "wait"
        PROVE  worker[v].pc = "wait" /\ worker'[v].buffers = worker[v].buffers
    <3>1. ASSUME NEW w \in Workers, WorkerStep(w)
          PROVE  worker[v].pc = "wait" /\ worker'[v].buffers = worker[v].buffers
      <4>1. CASE v # w
        BY <1>1, <2>2, <3>1, <4>1 DEF WorkerStep, WaitClosed, StartCounting, CountBuffer,
           WorkerReleases, ReturnBuffers, ReturnToDestroyed
      <4>2. CASE v = w
        <5>1. CASE WaitClosed(w)
          BY <1>1, <4>2, <5>1 DEF WaitClosed, WorkerType
        <5>2. CASE ~WaitClosed(w)
          BY <1>1, <2>2, <3>1, <4>2, <5>2 DEF WorkerStep, StartCounting, CountBuffer,
             WorkerReleases, ReturnBuffers, ReturnToDestroyed, WorkerType
        <5>3. QED
          BY <5>1, <5>2
      <4>3. QED
        BY <4>1, <4>2
    <3>2. CASE MainReturns \/ Halted \/ UNCHANGED vars
      BY <2>2, <3>2 DEF MainReturns, Halted
    <3>3. QED
      BY <1>3, <3>1, <3>2
  <2>3. \A b \in Buffers : Full(b) => Full(b)'
    BY <2>1 DEF Full
  <2>4. \A t \in Threads : EndingOK(t)'
    BY <2>1 DEF FullInv, EndingOK, InSeq, ManagerOf
  <2>5. QED
    BY <2>2, <2>3, <2>4 DEF FullInv
<1>4. QED
  BY <1>2, <1>3 DEF Next

\* A full buffer that has to be counted holds MaxEvents events.
LEMMA FullHolds ==
  ASSUME OwnerInvAll, ThreadLocalManager, CountInv, NEW b \in Buffers, Live(b), Full(b)
  PROVE  Cardinality(Held(b)) >= MaxEvents
<1>1. /\ ref \in [ Threads -> RefType ] /\ eventBuf[b] \in BufferType
      /\ MaxEvents \in Nat /\ Capacity \in Nat /\ b # Null
  <2>1. ref \in [ Threads -> RefType ] /\ eventBuf[b] \in BufferType
    BY DEF OwnerInvAll, TypeInv, TypeOK
  <2>2. MaxEvents \in Nat /\ Capacity \in Nat
    BY EventBufferAssumption DEF Capacity
  <2>3. b # Null
    BY DEF Null, Buffers
  <2>4. QED
    BY <2>1, <2>2, <2>3
<1>2. ASSUME NEW n \in Nat, n <= Capacity, n >= MaxEvents,
             \A i \in Slots : i < n => i \in Used(b),
             Held(b) = { eventBuf[b].buf[i] : i \in 0 .. n - 1 }
      PROVE  Cardinality(Held(b)) >= MaxEvents
  <2>1. SlotInv /\ 0 .. n - 1 \subseteq Used(b)
    BY <1>1, <1>2, EventBufferAssumption DEF CountInv, Slots, Capacity
  <2>2. Cardinality(Held(b)) = n
    BY <1>2, <2>1, SlotsCount
  <2>3. QED
    BY <1>1, <1>2, <2>2
<1>3. CASE \E t \in Threads : ref[t].logBuf = b
  <2> DEFINE u == CHOOSE t \in Threads : ref[t].logBuf = b
  <2>1. u \in Threads /\ ref[u].logBuf = b
    BY <1>3
  <2>2. Held(b) = { eventBuf[b].buf[i] : i \in 0 .. ref[u].events - 1 }
    BY <1>3 DEF Held
  <2> HIDE DEF u
  <2>3. ref[u].events >= MaxEvents
    <3>1. PICK t \in Threads : ref[t].logBuf = b /\ ref[t].events >= MaxEvents
      BY <1>3 DEF Full
    <3>2. b \in Addresses(t) \cap Addresses(u)
      BY <2>1, <3>1 DEF Addresses
    <3>3. t = u
      BY <1>1, <2>1, <3>2, NoSharedAddress
    <3>4. QED
      BY <3>1, <3>3
  <2>4. ref[u].events \in Nat /\ ref[u].events <= Capacity
    BY <1>1, <2>1 DEF RefType, CountInv, CountersInv, CountersOK
  <2>5. \A i \in Slots : i < ref[u].events => i \in Used(b)
    BY <2>1 DEF Used
  <2>6. QED
    BY <1>2, <2>2, <2>3, <2>4, <2>5
<1>4. CASE ~\E t \in Threads : ref[t].logBuf = b
  <2>1. Held(b) = { eventBuf[b].buf[i] : i \in 0 .. eventBuf[b].events - 1 }
    BY <1>4 DEF Held
  <2>2. /\ eventBuf[b].events \in Nat /\ eventBuf[b].events <= Capacity
        /\ eventBuf[b].events >= MaxEvents
    BY <1>1, <1>4 DEF BufferType, CountInv, CountersInv, Full
  <2>3. \A i \in Slots : i < eventBuf[b].events => i \in Used(b)
    BY DEF Used
  <2>4. QED
    BY <1>2, <2>1, <2>2, <2>3
<1>5. QED
  BY <1>3, <1>4

\* With a manager a thread, no worker is started before a buffer is full.
THEOREM EpochsAreFull == Spec => [](ThreadLocalManager => EpochsEndFull)
<1>1. Init => FullInv
  BY DEF Init, WorkerInit, IdleWorker, FullInv, EndingOK, NoRef, AttachRef
<1>2. OwnerInvAll /\ (ThreadLocalManager => FullInv) /\ [Next]_vars
        => (ThreadLocalManager => FullInv)'
  BY FullNext
<1>3. OwnerInvAll /\ (ThreadLocalManager => CountInv /\ FullInv)
        => (ThreadLocalManager => EpochsEndFull)
  <2> SUFFICES ASSUME OwnerInvAll, ThreadLocalManager, CountInv, FullInv,
                      NEW w \in Workers, worker[w].pc = "wait"
               PROVE  \E b \in ToSet(worker[w].buffers) : Cardinality(Held(b)) >= MaxEvents
    BY DEF EpochsEndFull
  <2>1. PICK b \in Buffers : InSeq(b, worker[w].buffers) /\ Full(b)
    BY DEF FullInv
  <2>2. Live(b) /\ b \in ToSet(worker[w].buffers)
    BY <2>1 DEF Live, Awaits, InSeq, ToSet
  <2>3. QED
    BY <2>1, <2>2, FullHolds
<1>4. QED
  BY OwnerInvariant, CountInvariant, <1>1, <1>2, <1>3, PTL DEF Spec
=============================================================================
