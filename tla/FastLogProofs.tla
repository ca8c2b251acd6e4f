--------------------------- MODULE FastLogProofs ---------------------------
(***************************************************************************)
(* Theorems about FastLog, for every number of threads, every buffer and   *)
(* batch size, every workload and both wirings of the manager.             *)
(***************************************************************************)
EXTENDS FastLogProps, SequenceTheorems, TLAPS

-----------------------------------------------------------------------------
\* The operators of EventBuffer.h keep the type of their argument.

LEMMA ResetType ==
  ASSUME NEW buffer \in BufferType
  PROVE  Reset(buffer) \in BufferType
BY EventBufferAssumption DEF BufferType, Reset, Unset

LEMMA NewBufferType == NewBuffer \in BufferType
BY EventBufferAssumption DEF BufferType, NewBuffer, Unset

LEMMA AssignType ==
  ASSUME NEW buffer \in BufferType,
         NEW id \in Nat \cup {Unset}, NEW ep \in Nat \cup {Unset}
  PROVE  Assign(buffer, id, ep) \in BufferType
BY DEF BufferType, Assign

LEMMA StoreAtType ==
  ASSUME NEW buffer \in BufferType, NEW i, NEW e \in Events
  PROVE  Record(StoreAt(buffer, i, e), e) \in BufferType
<1>1. StoreAt(buffer, i, e) \in BufferType
  BY DEF BufferType, StoreAt
<1>2. QED
  BY <1>1 DEF BufferType, Record

LEMMA WriteBackType ==
  ASSUME NEW buffer \in BufferType, NEW r \in RefType
  PROVE  WriteBack(buffer, r) \in BufferType
BY DEF BufferType, WriteBack, RefType

LEMMA ClosedType ==
  ASSUME NEW buffer \in BufferType
  PROVE  [ buffer EXCEPT !.closed = TRUE ] \in BufferType
BY DEF BufferType

LEMMA WorkerPcType ==
  ASSUME NEW wk \in WorkerType, NEW p \in {"wait", "count", "done", "lost"}
  PROVE  [ wk EXCEPT !.pc = p ] \in WorkerType
BY DEF WorkerType

LEMMA MakeRefType ==
  ASSUME NEW buffer \in BufferType, NEW addr \in Buffers
  PROVE  MakeRef(addr, buffer) \in RefType
BY DEF BufferType, MakeRef, RefType

LEMMA AttachRefType ==
  ASSUME NEW addr \in Buffers \cup {Null}
  PROVE  AttachRef(addr) \in RefType
BY EventBufferAssumption DEF AttachRef, RefType

LEMMA ContentsType ==
  ASSUME NEW buffer \in BufferType
  PROVE  Contents(buffer) \subseteq Events \cup {NoEvent}
BY DEF BufferType, Contents

\* Sequences of buffers stay sequences of buffers.
LEMMA LastFrontType ==
  ASSUME NEW s \in Seq(Buffers), s # << >>
  PROVE  /\ Last(s) \in Buffers
         /\ Front(s) \in Seq(Buffers)
<1>1. Len(s) \in Nat \ {0}
  BY EmptySeq, LenProperties
<1>2. Last(s) \in Buffers
  BY <1>1, ElementOfSeq DEF Last
<1>3. Front(s) \in Seq(Buffers)
  BY <1>1, ElementOfSeq, SubSeqProperties DEF Front
<1>4. QED
  BY <1>2, <1>3

LEMMA EventNumberType ==
  ASSUME NEW i \in Nat, NEW n \in Nat
  PROVE  i * Length + n \in Nat
BY FastLogAssumption

-----------------------------------------------------------------------------
(***************************************************************************)
(* Type correctness.  The reference GetRef is about to make has to point   *)
(* to a buffer for its counters to be numbers, so the invariant says that  *)
(* as well.                                                                *)
(***************************************************************************)
TypeInv ==
  /\ TypeOK
  /\ \A t \in Threads : pc[t] = "make_ref" => curBuf[t] # Null

USE DEF vars, bufferVars, contextVars, managerVars, workerVars, threadVars

LEMMA ManagerOfType == \A t \in Threads : ManagerOf(t) \in Managers
BY DEF ManagerOf, Managers

LEMMA TypeInit == Init => TypeInv
<1> SUFFICES ASSUME Init PROVE TypeInv
  OBVIOUS
<1> USE DEF Init, BufferManagerInit, WorkerInit
<1>1. eventBuf \in [ Buffers -> BufferType ]
  BY NewBufferType
<1>2. thrContext \in [ Threads -> ContextType ]
  BY DEF ContextType, Unset
<1>3. worker \in [ Workers -> WorkerType ]
  BY DEF IdleWorker, WorkerType
<1>4. ref \in [ Threads -> RefType ]
  BY AttachRefType DEF NoRef
<1>5. QED
  BY <1>1, <1>2, <1>3, <1>4, BufferManagerAssumption, WorkerAssumption
     DEF TypeInv, TypeOK, PC

\* One lemma for each group of actions.

LEMMA TypeAlloc ==
  ASSUME TypeInv, NEW t \in Threads, NEW buf \in Buffers, AllocBuffer(t, buf)
  PROVE  /\ heap' \in 0 .. MaxBuffers
         /\ eventBuf'      \in [ Buffers -> BufferType ]
         /\ logBuffer'     \in [ Threads -> Buffers \cup {Null} ]
         /\ thrContext'    \in [ Threads -> ContextType ]
         /\ allocatedBufs' \in [ Managers -> Seq(Buffers) ]
         /\ freeBufs'      \in [ Managers -> Seq(Buffers) ]
         /\ tlsBufAddrs'   \in [ Managers -> SUBSET Threads ]
         /\ UNCHANGED <<threadCounter, monitor, activeWorkers, epoch>>
<1> DEFINE m == ManagerOf(t)
<1>1. m \in Managers
  BY ManagerOfType
<1>2. PICK reused \in BOOLEAN : TakeBuffer(t, buf, reused) /\ (reused => freeBufs[m] # << >>)
  BY DEF AllocBuffer
<1>3. heap' \in 0 .. MaxBuffers
  BY <1>2, BufferManagerAssumption DEF TypeInv, TypeOK, TakeBuffer, Buffers
<1>4. eventBuf' \in [ Buffers -> BufferType ]
  <2>1. Reset(eventBuf[buf]) \in BufferType
    BY ResetType DEF TypeInv, TypeOK
  <2>2. Assign(Reset(eventBuf[buf]), thrContext[t].threadId, epoch[m]) \in BufferType
    BY <1>1, <2>1, AssignType DEF TypeInv, TypeOK, ContextType
  <2>3. QED
    BY <1>2, <2>2 DEF TypeInv, TypeOK, TakeBuffer
<1>5. /\ logBuffer'  \in [ Threads -> Buffers \cup {Null} ]
      /\ thrContext' \in [ Threads -> ContextType ]
  <2>1. [ thrContext[t] EXCEPT !.logBuffer = buf ] \in ContextType
    <3>1. thrContext[t] \in ContextType
      BY DEF TypeInv, TypeOK
    <3>2. QED
      BY <3>1 DEF ContextType
  <2>2. QED
    BY <1>2, <2>1 DEF TypeInv, TypeOK, TakeBuffer
<1>6. allocatedBufs' \in [ Managers -> Seq(Buffers) ]
  BY <1>1, <1>2, AppendProperties DEF TypeInv, TypeOK, TakeBuffer
<1>7. freeBufs' \in [ Managers -> Seq(Buffers) ]
  BY <1>1, <1>2, LastFrontType DEF TypeInv, TypeOK, TakeBuffer
<1>8. tlsBufAddrs' \in [ Managers -> SUBSET Threads ]
  BY <1>1, <1>2 DEF TypeInv, TypeOK, TakeBuffer
<1>9. QED
  BY <1>2, <1>3, <1>4, <1>5, <1>6, <1>7, <1>8 DEF TakeBuffer

LEMMA TypeGetRef ==
  ASSUME TypeInv, NEW t \in Threads,
         LoadForRef(t) \/ CallAllocBuffer(t) \/ GetRef(t)
  PROVE  TypeInv'
<1>1. CASE LoadForRef(t)
  <2>1. /\ thrContext' \in [ Threads -> ContextType ]
        /\ threadCounter' \in Nat
    <3>1. ConstructContext(t) => threadCounter' \in Nat
      BY DEF ConstructContext, TypeInv, TypeOK
    <3>2. ConstructContext(t) => thrContext' \in [ Threads -> ContextType ]
      <4>1. threadCounter \in Nat \cup {Unset}
        BY DEF TypeInv, TypeOK
      <4>2. thrContext \in [ Threads -> ContextType ]
        BY DEF TypeInv, TypeOK
      <4>3. [ thrContext EXCEPT ![t].threadId = threadCounter ] \in [ Threads -> ContextType ]
        BY <4>1, <4>2 DEF ContextType
      <4>4. QED
        BY <4>2, <4>3 DEF ConstructContext
    <3>3. QED
      BY <1>1, <3>1, <3>2 DEF LoadForRef, TypeInv, TypeOK
  <2>2. /\ curBuf' \in [ Threads -> Buffers \cup {Null} ]
        /\ pc' \in [ Threads -> PC ]
        /\ \A s \in Threads : pc'[s] = "make_ref" => curBuf'[s] # Null
    BY <1>1 DEF LoadForRef, TypeInv, TypeOK, Goto, PC
  <2>3. QED
    BY <1>1, <2>1, <2>2 DEF LoadForRef, TypeInv, TypeOK
<1>2. CASE CallAllocBuffer(t)
  <2>1. PICK buf \in Buffers : /\ AllocBuffer(t, buf)
                               /\ curBuf' = [ curBuf EXCEPT ![t] = buf ]
    BY <1>2 DEF CallAllocBuffer
  <2>2. /\ curBuf' \in [ Threads -> Buffers \cup {Null} ]
        /\ pc' \in [ Threads -> PC ]
        /\ \A s \in Threads : pc'[s] = "make_ref" => curBuf'[s] # Null
    <3>1. buf # Null
      BY BufferManagerAssumption DEF Buffers, Null
    <3>2. pc' = [ pc EXCEPT ![t] = "make_ref" ] \/ pc' = [ pc EXCEPT ![t] = "update" ]
      BY <1>2 DEF CallAllocBuffer, Goto
    <3>3. QED
      BY <2>1, <3>1, <3>2 DEF TypeInv, TypeOK, PC
  <2>3. QED
    BY <1>2, <2>1, <2>2, TypeAlloc DEF CallAllocBuffer, TypeInv, TypeOK
<1>3. CASE GetRef(t)
  <2>1. curBuf[t] \in Buffers
    BY <1>3 DEF GetRef, At, TypeInv, TypeOK
  <2>2. ref' \in [ Threads -> RefType ]
    BY <1>3, <2>1, MakeRefType DEF GetRef, TypeInv, TypeOK
  <2>3. /\ pc' \in [ Threads -> PC ]
        /\ \A s \in Threads : pc'[s] = "make_ref" => curBuf'[s] # Null
    BY <1>3 DEF GetRef, Goto, TypeInv, TypeOK, PC
  <2>4. QED
    BY <1>3, <2>2, <2>3 DEF GetRef, TypeInv, TypeOK
<1>4. QED
  BY <1>1, <1>2, <1>3

LEMMA TypeLog ==
  ASSUME TypeInv, NEW t \in Threads,
         LoadCurBuf(t) \/ LogReclaimed(t) \/ LogFast(t) \/ LogSlow(t)
  PROVE  TypeInv'
<1>1. CASE LoadCurBuf(t)
  <2>1. curBuf' \in [ Threads -> Buffers \cup {Null} ]
    BY <1>1 DEF LoadCurBuf, TypeInv, TypeOK
  <2>2. /\ pc' \in [ Threads -> PC ]
        /\ \A s \in Threads : pc'[s] = "make_ref" => curBuf'[s] # Null
    BY <1>1 DEF LoadCurBuf, TypeInv, TypeOK, Goto, PC
  <2>3. QED
    BY <1>1, <2>1, <2>2 DEF LoadCurBuf, TypeInv, TypeOK
<1>2. ASSUME StoreEvent(t)
      PROVE  /\ eventBuf' \in [ Buffers -> BufferType ]
             /\ idx' \in [ Threads -> Nat ]
             /\ UNCHANGED <<heap, contextVars, managerVars, workerVars, curBuf, iter, status>>
  <2>1. NextEvent(t) \in Events
    BY EventNumberType DEF NextEvent, Events, TypeInv, TypeOK
  <2>2. ref[t].logBuf \in Buffers =>
          Record(StoreAt(eventBuf[ref[t].logBuf], ref[t].events, NextEvent(t)), NextEvent(t)) \in BufferType
    BY <2>1, StoreAtType DEF TypeInv, TypeOK
  <2>3. eventBuf' \in [ Buffers -> BufferType ]
    BY <1>2, <2>2 DEF StoreEvent, TypeInv, TypeOK
  <2>4. QED
    BY <1>2, <2>3 DEF StoreEvent, TypeInv, TypeOK
<1>3. CASE LogReclaimed(t)
  <2>1. /\ pc' \in [ Threads -> PC ]
        /\ \A s \in Threads : pc'[s] = "make_ref" => curBuf'[s] # Null
    BY <1>2, <1>3 DEF LogReclaimed, TypeInv, TypeOK, Goto, PC
  <2>2. QED
    BY <1>2, <1>3, <2>1 DEF LogReclaimed, TypeInv, TypeOK
<1>4. CASE LogFast(t)
  <2>1. /\ pc' \in [ Threads -> PC ]
        /\ \A s \in Threads : pc'[s] = "make_ref" => curBuf'[s] # Null
    BY <1>2, <1>4 DEF LogFast, TypeInv, TypeOK, Goto, PC
  <2>2. ref' \in [ Threads -> RefType ]
    <3>1. /\ ref \in [ Threads -> RefType ]
          /\ ref' = [ ref EXCEPT ![t].events = @ + 1 ]
      BY <1>4 DEF LogFast, TypeInv, TypeOK
    <3>2. QED
      BY <3>1 DEF RefType
  <2>3. QED
    BY <1>2, <1>4, <2>1, <2>2 DEF LogFast, TypeInv, TypeOK
<1>5. CASE LogSlow(t)
  <2>1. pc' = [ pc EXCEPT ![t] = "try_inc" ] \/ pc' = [ pc EXCEPT ![t] = "run" ]
    BY <1>5 DEF LogSlow, Goto
  <2>2. /\ pc' \in [ Threads -> PC ]
        /\ \A s \in Threads : pc'[s] = "make_ref" => curBuf'[s] # Null
    BY <1>2, <1>5, <2>1 DEF LogSlow, TypeInv, TypeOK, PC
  <2>3. ref' \in [ Threads -> RefType ]
    <3>1. /\ ref \in [ Threads -> RefType ]
          /\ ref' = [ ref EXCEPT ![t].events = @ + 1, ![t].nextRdtscTime = @ + BatchSize ]
      BY <1>5 DEF LogSlow, TypeInv, TypeOK
    <3>2. QED
      BY <3>1, EventBufferAssumption DEF RefType
  <2>4. QED
    BY <1>2, <1>5, <2>2, <2>3 DEF LogSlow, TypeInv, TypeOK
<1>6. QED
  BY <1>1, <1>3, <1>4, <1>5

LEMMA TypeSpawn ==
  ASSUME TypeInv, NEW m \in Managers, Spawn(m)
  PROVE  /\ spawned' \in 0 .. MaxSpawns
         /\ worker' \in [ Workers -> WorkerType ]
         /\ UNCHANGED processed
<1>1. spawned' \in 0 .. MaxSpawns
  BY WorkerAssumption DEF Spawn, TypeInv, TypeOK
<1>2. [ IdleWorker EXCEPT !.pc = "wait", !.manager = m, !.buffers = allocatedBufs[m] ]
        \in WorkerType
  <2>1. allocatedBufs[m] \in Seq(Buffers)
    BY DEF TypeInv, TypeOK
  <2>2. IdleWorker \in WorkerType
    BY DEF IdleWorker, WorkerType
  <2>3. QED
    BY <2>1, <2>2 DEF WorkerType
<1>3. worker' \in [ Workers -> WorkerType ]
  BY <1>2 DEF Spawn, TypeInv, TypeOK
<1>4. QED
  BY <1>1, <1>3 DEF Spawn

LEMMA TypeTryIncEpoch ==
  ASSUME TypeInv, NEW t \in Threads,
         \/ TryIncEpochFails(t) \/ TryIncEpochWins(t) \/ ReclaimOne(t)
         \/ StartWorker(t) \/ TooManyWorkers(t)
  PROVE  TypeInv'
<1> DEFINE m == ManagerOf(t)
<1>1. m \in Managers
  BY ManagerOfType
<1>2. ASSUME NEW to \in PC \ {"make_ref"}, Goto(t, to), UNCHANGED curBuf
      PROVE  /\ pc' \in [ Threads -> PC ]
             /\ \A s \in Threads : pc'[s] = "make_ref" => curBuf'[s] # Null
  BY <1>2 DEF TypeInv, TypeOK, Goto
<1> HIDE DEF m
<1>3. {"alloc_update", "reclaim"} \subseteq PC \ {"make_ref"}
  BY DEF PC
<1>4. CASE TryIncEpochFails(t)
  BY <1>2, <1>3, <1>4 DEF TryIncEpochFails, LoseEpoch, TypeInv, TypeOK
<1>5. CASE TryIncEpochWins(t)
  <2>1. monitor' \in [ Managers -> Threads \cup {NoThread} ]
    BY <1>5 DEF TryIncEpochWins, WinEpoch, TypeInv, TypeOK
  <2>2. QED
    BY <1>2, <1>3, <1>5, <2>1 DEF TryIncEpochWins, WinEpoch, TypeInv, TypeOK
<1>6. CASE ReclaimOne(t)
  <2>1. PICK s \in Threads : ReclaimFrom(t, s)
    BY <1>6 DEF ReclaimOne
  <2>2. /\ logBuffer' \in [ Threads -> Buffers \cup {Null} ]
        /\ tlsBufAddrs' \in [ Managers -> SUBSET Threads ]
    BY <1>1, <2>1 DEF ReclaimFrom, TypeInv, TypeOK, m
  <2>3. QED
    BY <1>6, <2>1, <2>2 DEF ReclaimOne, ReclaimFrom, TypeInv, TypeOK
<1>7. ASSUME EndEpoch(t)
      PROVE  /\ allocatedBufs' \in [ Managers -> Seq(Buffers) ]
             /\ epoch' \in [ Managers -> Nat ]
             /\ monitor' \in [ Managers -> Threads \cup {NoThread} ]
             /\ UNCHANGED tlsBufAddrs
  BY <1>1, <1>7, EmptySeq DEF EndEpoch, TypeInv, TypeOK, m
<1>8. CASE StartWorker(t)
  <2>1. activeWorkers' \in [ Managers -> Int ]
    BY <1>1, <1>8 DEF StartWorker, HandOver, TypeInv, TypeOK, m
  <2>2. /\ EndEpoch(t) /\ Spawn(m) /\ UNCHANGED freeBufs
        /\ Goto(t, "alloc_update") /\ UNCHANGED curBuf
    BY <1>8 DEF StartWorker, HandOver, m
  <2>3. QED
    BY <1>1, <1>2, <1>3, <1>7, <1>8, <2>1, <2>2, TypeSpawn DEF StartWorker, TypeInv, TypeOK
<1>9. CASE TooManyWorkers(t)
  <2>1. freeBufs' \in [ Managers -> Seq(Buffers) ]
    BY <1>1, <1>9, ConcatProperties DEF TooManyWorkers, SkipEpoch, TypeInv, TypeOK, m
  <2>2. /\ EndEpoch(t) /\ UNCHANGED activeWorkers
        /\ Goto(t, "alloc_update") /\ UNCHANGED curBuf
    BY <1>9 DEF TooManyWorkers, SkipEpoch
  <2>3. QED
    BY <1>2, <1>3, <1>7, <1>9, <2>1, <2>2 DEF TooManyWorkers, TypeInv, TypeOK
<1>10. QED
  BY <1>4, <1>5, <1>6, <1>8, <1>9

LEMMA TypeUpdate ==
  ASSUME TypeInv, NEW t \in Threads,
         UpdateAssertFails(t) \/ UpdateEvents(t) \/ UpdateClose(t)
  PROVE  TypeInv'
<1>1. CASE UpdateAssertFails(t)
  BY <1>1 DEF UpdateAssertFails, TypeInv, TypeOK
<1>2. ASSUME UpdateEvents(t) \/ UpdateClose(t)
      PROVE  /\ pc' \in [ Threads -> PC ]
             /\ \A s \in Threads : pc'[s] = "make_ref" => curBuf'[s] # Null
  <2>1. pc' = [ pc EXCEPT ![t] = "close" ] \/ pc' = [ pc EXCEPT ![t] = "run" ]
    BY <1>2 DEF UpdateEvents, UpdateClose, Goto
  <2>2. UNCHANGED curBuf
    BY <1>2 DEF UpdateEvents, UpdateClose
  <2>3. QED
    BY <2>1, <2>2 DEF TypeInv, TypeOK, PC
<1>3. CASE UpdateEvents(t)
  <2>1. /\ eventBuf \in [ Buffers -> BufferType ]
        /\ ref[t].events \in Nat
        /\ eventBuf' = [ eventBuf EXCEPT ![ref[t].logBuf].events = ref[t].events ]
    BY <1>3 DEF UpdateEvents, TypeInv, TypeOK, RefType
  <2>2. eventBuf' \in [ Buffers -> BufferType ]
    BY <2>1 DEF BufferType
  <2>3. QED
    BY <1>2, <1>3, <2>2 DEF UpdateEvents, TypeInv, TypeOK
<1>4. CASE UpdateClose(t)
  <2>1. /\ eventBuf \in [ Buffers -> BufferType ]
        /\ eventBuf' = [ eventBuf EXCEPT ![ref[t].logBuf].closed = TRUE ]
    BY <1>4 DEF UpdateClose, TypeInv, TypeOK
  <2>2. eventBuf' \in [ Buffers -> BufferType ]
    BY <2>1, ClosedType
  <2>3. ref' \in [ Threads -> RefType ]
    BY <1>4, AttachRefType DEF UpdateClose, TypeInv, TypeOK
  <2>4. QED
    BY <1>2, <1>4, <2>2, <2>3 DEF UpdateClose, TypeInv, TypeOK
<1>5. QED
  BY <1>1, <1>3, <1>4

LEMMA TypeEnd ==
  ASSUME TypeInv, NEW t \in Threads,
         EndRun(t) \/ ExitThread(t) \/ FinishThread(t)
  PROVE  TypeInv'
<1>1. /\ pc' \in [ Threads -> PC ]
      /\ \A s \in Threads : pc'[s] = "make_ref" => curBuf'[s] # Null
  <2>1. \/ pc' = [ pc EXCEPT ![t] = "idle" ]
        \/ pc' = [ pc EXCEPT ![t] = "destroy" ]
        \/ pc' = [ pc EXCEPT ![t] = "done" ]
    BY DEF EndRun, ExitThread, FinishThread, Goto
  <2>2. UNCHANGED curBuf
    BY DEF EndRun, ExitThread, FinishThread
  <2>3. QED
    BY <2>1, <2>2 DEF TypeInv, TypeOK, PC
<1>2. CASE EndRun(t)
  <2>1. eventBuf' \in [ Buffers -> BufferType ]
    <3>1. ref[t].logBuf \in Buffers =>
            WriteBack(eventBuf[ref[t].logBuf], ref[t]) \in BufferType
      BY WriteBackType DEF TypeInv, TypeOK
    <3>2. QED
      BY <1>2, <3>1 DEF EndRun, TypeInv, TypeOK
  <2>2. ref' \in [ Threads -> RefType ]
    BY <1>2, AttachRefType DEF EndRun, NoRef, TypeInv, TypeOK
  <2>3. /\ iter' \in [ Threads -> Nat ]
        /\ idx'  \in [ Threads -> Nat ]
    BY <1>2 DEF EndRun, TypeInv, TypeOK
  <2>4. QED
    BY <1>1, <1>2, <2>1, <2>2, <2>3 DEF EndRun, TypeInv, TypeOK
<1>3. CASE ExitThread(t)
  <2>1. /\ ThreadExit(t)
        /\ UNCHANGED <<contextVars, workerVars, ref, curBuf, iter, idx, status>>
    BY <1>3 DEF ExitThread
  <2>2. eventBuf' \in [ Buffers -> BufferType ]
    <3>1. \/ UNCHANGED eventBuf
          \/ eventBuf' = [ eventBuf EXCEPT ![thrContext[t].logBuffer].closed = TRUE ]
      BY <2>1 DEF ThreadExit
    <3>2. eventBuf \in [ Buffers -> BufferType ]
      BY DEF TypeInv, TypeOK
    <3>3. QED
      BY <3>1, <3>2, ClosedType
  <2>3. tlsBufAddrs' \in [ Managers -> SUBSET Threads ]
    BY <2>1, ManagerOfType DEF ThreadExit, TypeInv, TypeOK
  <2>4. QED
    BY <1>1, <2>1, <2>2, <2>3 DEF ThreadExit, TypeInv, TypeOK
<1>4. CASE FinishThread(t)
  BY <1>1, <1>4 DEF FinishThread, TypeInv, TypeOK
<1>5. QED
  BY <1>2, <1>3, <1>4

LEMMA TypeWorker ==
  ASSUME TypeInv, NEW w \in Workers, WorkerStep(w)
  PROVE  TypeInv'
<1>1. worker[w] \in WorkerType
  BY DEF TypeInv, TypeOK
<1>2. UNCHANGED <<threadVars, status>>
  BY DEF WorkerStep
<1>3. CASE WaitClosed(w) \/ StartCounting(w)
  <2>1. worker \in [ Workers -> WorkerType ]
    BY DEF TypeInv, TypeOK
  <2>2. worker' \in [ Workers -> WorkerType ]
    <3>1. CASE worker' = [ worker EXCEPT ![w].next = @ + 1 ]
      <4>1. worker[w].next + 1 \in Nat \ {0}
        BY <1>1 DEF WorkerType
      <4>2. QED
        BY <2>1, <3>1, <4>1, ZenonT(60) DEF WorkerType
    <3>2. CASE worker' = [ worker EXCEPT ![w].next = 1, ![w].pc = "count" ]
      <4>1. 1 \in Nat \ {0}
        OBVIOUS
      <4>2. QED
        BY <2>1, <3>2, <4>1, ZenonT(60) DEF WorkerType
    <3>3. QED
      BY <1>3, <3>1, <3>2 DEF WaitClosed, StartCounting
  <2>3. QED
    BY <1>2, <1>3, <2>2 DEF WaitClosed, StartCounting, TypeInv, TypeOK
<1>4. CASE CountBuffer(w)
  <2> DEFINE b == worker[w].buffers[worker[w].next]
  <2>1. b \in Buffers
    <3>1. /\ worker[w].buffers \in Seq(Buffers)
          /\ worker[w].next \in 1 .. Len(worker[w].buffers)
      BY <1>1, <1>4, LenProperties DEF CountBuffer, WorkerType
    <3>2. QED
      BY <3>1, ElementOfSeq
  <2>2. eventBuf[b] \in BufferType
    BY <2>1 DEF TypeInv, TypeOK
  <2> HIDE DEF b
  <2>3. /\ worker \in [ Workers -> WorkerType ]
        /\ eventBuf[b].events \in Nat
        /\ worker' = [ worker EXCEPT ![w].events = @ + eventBuf[b].events,
                                     ![w].next   = @ + 1 ]
    BY <1>4, <2>2 DEF CountBuffer, b, TypeInv, TypeOK, BufferType
  <2>4. worker' \in [ Workers -> WorkerType ]
    BY <2>3 DEF WorkerType
  <2>5. processed' \in [ Workers -> SUBSET (Events \cup {NoEvent}) ]
    BY <1>4, <2>2, ContentsType DEF CountBuffer, b, TypeInv, TypeOK
  <2>6. QED
    BY <1>2, <1>4, <2>4, <2>5 DEF CountBuffer, TypeInv, TypeOK
<1>5. CASE WorkerReleases(w)
  <2>1. worker' \in [ Workers -> WorkerType ]
    <3>1. /\ worker \in [ Workers -> WorkerType ]
          /\ \/ worker' = [ worker EXCEPT ![w].pc = "done" ]
             \/ worker' = [ worker EXCEPT ![w].pc = "lost" ]
      BY <1>5 DEF WorkerReleases, ReturnBuffers, ReturnToDestroyed, TypeInv, TypeOK
    <3>2. CASE worker' = [ worker EXCEPT ![w].pc = "done" ]
      BY <3>1, <3>2, WorkerPcType
    <3>3. CASE worker' = [ worker EXCEPT ![w].pc = "lost" ]
      BY <3>1, <3>3, WorkerPcType
    <3>4. QED
      BY <3>1, <3>2, <3>3
  <2>2. CASE ReturnToDestroyed(w)
    BY <1>2, <2>1, <2>2 DEF ReturnToDestroyed, TypeInv, TypeOK
  <2>3. CASE ReturnBuffers(w)
    <3>1. activeWorkers' \in [ Managers -> Int ]
      <4> DEFINE m == worker[w].manager
      <4>1. /\ activeWorkers \in [ Managers -> Int ]
            /\ activeWorkers' = [ activeWorkers EXCEPT ![m] = @ - 1 ]
        BY <2>3 DEF ReturnBuffers, Release, TypeInv, TypeOK
      <4>2. CASE m \in Managers
        BY <4>1, <4>2
      <4>3. CASE m \notin Managers
        BY <4>1, <4>3
      <4>4. QED
        BY <4>2, <4>3
    <3>2. freeBufs' \in [ Managers -> Seq(Buffers) ]
      BY <1>1, <2>3, ConcatProperties DEF ReturnBuffers, Release, WorkerType, TypeInv, TypeOK
    <3>3. QED
      BY <1>2, <2>1, <2>3, <3>1, <3>2 DEF ReturnBuffers, Release, TypeInv, TypeOK
  <2>4. QED
    BY <1>5, <2>2, <2>3 DEF WorkerReleases
<1>6. QED
  BY <1>3, <1>4, <1>5 DEF WorkerStep

LEMMA TypeNext == TypeInv /\ [Next]_vars => TypeInv'
<1> SUFFICES ASSUME TypeInv, [Next]_vars PROVE TypeInv'
  OBVIOUS
<1>1. CASE \E t \in Threads : ThreadStep(t)
  BY <1>1, TypeGetRef, TypeLog, TypeTryIncEpoch, TypeUpdate, TypeEnd DEF ThreadStep
<1>2. CASE \E w \in Workers : WorkerStep(w)
  BY <1>2, TypeWorker
<1>3. CASE MainReturns
  BY <1>3 DEF MainReturns, TypeInv, TypeOK
<1>4. CASE Halted
  BY <1>4 DEF Halted, TypeInv, TypeOK
<1>5. CASE UNCHANGED vars
  BY <1>5 DEF TypeInv, TypeOK
<1>6. QED
  BY <1>1, <1>2, <1>3, <1>4, <1>5 DEF Next

\* Every variable keeps its type: no reference is taken of a buffer that does
\* not exist, and no counter leaves its range.
THEOREM TypeCorrect == Spec => []TypeOK
<1>1. Spec => []TypeInv
  BY TypeInit, TypeNext, PTL DEF Spec
<1>2. TypeInv => TypeOK
  BY DEF TypeInv
<1>3. QED
  BY <1>1, <1>2, PTL

=============================================================================
