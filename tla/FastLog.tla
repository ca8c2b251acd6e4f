------------------------------ MODULE FastLog ------------------------------
(***************************************************************************)
(* The BUFFER_MANAGER logging path of Main.cc put together: application    *)
(* threads that log every write of their array (run_buf_manager), the      *)
(* buffer managers, the workers, and the main thread that joins the        *)
(* application threads and returns.                                        *)
(*                                                                         *)
(* A step is one access to state that another thread can reach: a load of  *)
(* __log_buffer, a store into a buffer, a call made under the monitor.     *)
(* The atomics are interleaved: on x86 a store made inside the critical    *)
(* section is visible when the monitor is released.                        *)
(***************************************************************************)
EXTENDS Worker, FiniteSets

CONSTANTS
  Length,        \* length: array writes, hence events, in one run
  NumIterations  \* numIterations: runs per thread

ASSUME FastLogAssumption ==
  /\ Length \in Nat
  /\ NumIterations \in Nat \ {0}

VARIABLES
  pc,      \* where each application thread is
  ref,     \* bufRef, the EventBuffer::Ref of run_buf_manager
  curBuf,  \* the buffer pointer loaded or obtained last (curBuf, logBuf)
  iter,    \* i of workerMain: runs completed
  idx,     \* i of run_buf_manager: events of this run
  status   \* the process: "running", "aborted" (assert) or "returned" (main)

threadVars == <<pc, ref, curBuf, iter, idx>>
vars == <<bufferVars, contextVars, managerVars, workerVars, threadVars, status>>

NoRef == AttachRef(Null)

Init ==
  /\ BufferManagerInit
  /\ WorkerInit
  /\ pc     = [ t \in Threads |-> "idle" ]
  /\ ref    = [ t \in Threads |-> NoRef ]
  /\ curBuf = [ t \in Threads |-> Null ]
  /\ iter   = [ t \in Threads |-> 0 ]
  /\ idx    = [ t \in Threads |-> 0 ]
  /\ status = "running"

At(t, from) == status = "running" /\ pc[t] = from

Goto(t, to) == pc' = [ pc EXCEPT ![t] = to ]

-----------------------------------------------------------------------------
\* getLogBufferRef(): load __log_buffer; without a buffer, get one.  The
\* first use of __buf_manager constructs the thread's Context.
LoadForRef(t) ==
  /\ At(t, "idle")
  /\ iter[t] < NumIterations
  /\ curBuf' = [ curBuf EXCEPT ![t] = logBuffer[t] ]
  /\ IF logBuffer[t] = Null
       THEN ConstructContext(t) /\ Goto(t, "alloc_ref")
       ELSE UNCHANGED <<thrContext, threadCounter>> /\ Goto(t, "make_ref")
  /\ UNCHANGED <<bufferVars, logBuffer, managerVars, workerVars, ref, iter, idx, status>>

\* __buf_manager.allocBuffer(), from getLogBufferRef or from the slow path.
CallAllocBuffer(t) ==
  /\ \/ At(t, "alloc_ref") /\ Goto(t, "make_ref")
     \/ At(t, "alloc_update") /\ Goto(t, "update")
  /\ \E buf \in Buffers : AllocBuffer(t, buf) /\ curBuf' = [ curBuf EXCEPT ![t] = buf ]
  /\ UNCHANGED <<workerVars, ref, iter, idx, status>>

\* logBuf->getRef()
GetRef(t) ==
  /\ At(t, "make_ref")
  /\ ref' = [ ref EXCEPT ![t] = MakeRef(curBuf[t], eventBuf[curBuf[t]]) ]
  /\ Goto(t, "run")
  /\ UNCHANGED <<bufferVars, contextVars, managerVars, workerVars, curBuf, iter, idx, status>>

-----------------------------------------------------------------------------
\* __tsan_write8_buf_manager, first line: EventBuffer* curBuf = getLogBuffer()
LoadCurBuf(t) ==
  /\ At(t, "run")
  /\ idx[t] < Length
  /\ curBuf' = [ curBuf EXCEPT ![t] = logBuffer[t] ]
  /\ Goto(t, "store")
  /\ UNCHANGED <<bufferVars, contextVars, managerVars, workerVars, ref, iter, idx, status>>

\* The event a thread is about to log is named by its position in the run
\* of the whole thread.
NextEvent(t) == <<t, iter[t] * Length + idx[t]>>

\* ref->buf[ref->events] = ..., whatever became of the buffer meanwhile.
StoreEvent(t) ==
  /\ At(t, "store")
  /\ eventBuf' = [ eventBuf EXCEPT
       ![ref[t].logBuf] = Record(StoreAt(@, ref[t].events, NextEvent(t)), NextEvent(t)) ]
  /\ idx' = [ idx EXCEPT ![t] = @ + 1 ]
  /\ UNCHANGED <<heap, contextVars, managerVars, workerVars, curBuf, iter, status>>

\* Mutant: carries on with the reclaimed buffer.
LogReclaimedAnyway(t) ==
  /\ StoreEvent(t)
  /\ curBuf[t] = Null
  /\ Goto(t, "run")
  /\ UNCHANGED ref

\* The buffer has been reclaimed: the event is not counted, so lost.
LogReclaimed(t) ==
  /\ StoreEvent(t)
  /\ curBuf[t] = Null
  /\ Goto(t, "alloc_update")
  /\ UNCHANGED ref

\* The fast path.
LogFast(t) ==
  /\ StoreEvent(t)
  /\ curBuf[t] # Null
  /\ ref[t].events < ref[t].nextRdtscTime
  /\ ref' = [ ref EXCEPT ![t].events = @ + 1 ]
  /\ Goto(t, "run")

\* The slow path, __tsan_write8_buf_manager_slow: the batch is complete, and
\* possibly the buffer is full.
LogSlow(t) ==
  /\ StoreEvent(t)
  /\ curBuf[t] # Null
  /\ ref[t].events >= ref[t].nextRdtscTime
  /\ ref' = [ ref EXCEPT ![t].events = @ + 1, ![t].nextRdtscTime = @ + BatchSize ]
  /\ IF ref[t].events + 1 >= MaxEvents THEN Goto(t, "try_inc") ELSE Goto(t, "run")

-----------------------------------------------------------------------------
\* tryIncEpoch(ref), the epoch has moved on already.
TryIncEpochFails(t) ==
  /\ At(t, "try_inc")
  /\ LoseEpoch(t, ref[t].logBuf)
  /\ Goto(t, "alloc_update")
  /\ UNCHANGED <<bufferVars, contextVars, workerVars, ref, curBuf, iter, idx, status>>

\* tryIncEpoch(ref), this thread is the coordinator.
TryIncEpochWins(t) ==
  /\ At(t, "try_inc")
  /\ WinEpoch(t, ref[t].logBuf)
  /\ Goto(t, "reclaim")
  /\ UNCHANGED <<bufferVars, contextVars, workerVars, ref, curBuf, iter, idx, status>>

\* Mutant: the coordinator closes the buffers it reclaims.
ReclaimAndClose(t) ==
  /\ At(t, "reclaim")
  /\ \E s \in Threads :
       /\ ReclaimFrom(t, s)
       /\ eventBuf' = [ eventBuf EXCEPT ![thrContext[s].logBuffer].closed = TRUE ]
  /\ UNCHANGED <<heap, thrContext, threadCounter, workerVars, threadVars, status>>

ReclaimOne(t) ==
  /\ At(t, "reclaim")
  /\ \E s \in Threads : ReclaimFrom(t, s)
  /\ UNCHANGED <<bufferVars, thrContext, threadCounter, workerVars, threadVars, status>>

StartWorker(t) ==
  /\ At(t, "reclaim")
  /\ HandOver(t)
  /\ Spawn(ManagerOf(t))
  /\ Goto(t, "alloc_update")
  /\ UNCHANGED <<bufferVars, contextVars, ref, curBuf, iter, idx, status>>

TooManyWorkers(t) ==
  /\ At(t, "reclaim")
  /\ SkipEpoch(t)
  /\ Goto(t, "alloc_update")
  /\ UNCHANGED <<bufferVars, contextVars, workerVars, ref, curBuf, iter, idx, status>>

-----------------------------------------------------------------------------
\* Ref::updateLogBuffer(curBuf): assert(curBuf && (curBuf != logBuf)) ...
UpdateAssertFails(t) ==
  /\ At(t, "update")
  /\ curBuf[t] \in {Null, ref[t].logBuf}
  /\ status' = "aborted"
  /\ UNCHANGED <<bufferVars, contextVars, managerVars, workerVars, threadVars>>

\* Mutants of UpdateEvents: as in a build without assert; without write-back.
UpdateEventsUnchecked(t) ==
  /\ At(t, "update")
  /\ eventBuf' = [ eventBuf EXCEPT ![ref[t].logBuf].events = ref[t].events ]
  /\ Goto(t, "close")
  /\ UNCHANGED <<heap, contextVars, managerVars, workerVars, ref, curBuf, iter, idx, status>>

UpdateNothing(t) ==
  /\ At(t, "update")
  /\ curBuf[t] \notin {Null, ref[t].logBuf}
  /\ Goto(t, "close")
  /\ UNCHANGED <<bufferVars, contextVars, managerVars, workerVars, ref, curBuf, iter, idx, status>>

\* ... logBuf->events = events ...
UpdateEvents(t) ==
  /\ At(t, "update")
  /\ curBuf[t] \notin {Null, ref[t].logBuf}
  /\ eventBuf' = [ eventBuf EXCEPT ![ref[t].logBuf].events = ref[t].events ]
  /\ Goto(t, "close")
  /\ UNCHANGED <<heap, contextVars, managerVars, workerVars, ref, curBuf, iter, idx, status>>

\* Mutant: the old buffer stays open.
UpdateLeavesOpen(t) ==
  /\ At(t, "close")
  /\ ref' = [ ref EXCEPT ![t] = AttachRef(curBuf[t]) ]
  /\ Goto(t, "run")
  /\ UNCHANGED <<bufferVars, contextVars, managerVars, workerVars, curBuf, iter, idx, status>>

\* ... logBuf->closed = true, and attach to the new buffer.
UpdateClose(t) ==
  /\ At(t, "close")
  /\ eventBuf' = [ eventBuf EXCEPT ![ref[t].logBuf].closed = TRUE ]
  /\ ref' = [ ref EXCEPT ![t] = AttachRef(curBuf[t]) ]
  /\ Goto(t, "run")
  /\ UNCHANGED <<heap, contextVars, managerVars, workerVars, curBuf, iter, idx, status>>

-----------------------------------------------------------------------------
\* The end of run_buf_manager: ~Ref() writes the counters back.
EndRun(t) ==
  /\ At(t, "run")
  /\ idx[t] >= Length
  /\ eventBuf' = [ eventBuf EXCEPT ![ref[t].logBuf] = WriteBack(@, ref[t]) ]
  /\ ref'  = [ ref EXCEPT ![t] = NoRef ]
  /\ iter' = [ iter EXCEPT ![t] = @ + 1 ]
  /\ idx'  = [ idx EXCEPT ![t] = 0 ]
  /\ Goto(t, "idle")
  /\ UNCHANGED <<heap, contextVars, managerVars, workerVars, curBuf, status>>

\* workerMain returns: ~Context() ...
ExitThread(t) ==
  /\ At(t, "idle")
  /\ iter[t] >= NumIterations
  /\ ThreadExit(t)
  /\ Goto(t, "destroy")
  /\ UNCHANGED <<contextVars, workerVars, ref, curBuf, iter, idx, status>>

\* ... then the thread-local __buf_manager goes, if there is one.
FinishThread(t) ==
  /\ At(t, "destroy")
  /\ Goto(t, "done")
  /\ UNCHANGED <<bufferVars, contextVars, managerVars, workerVars,
                 ref, curBuf, iter, idx, status>>

Destroyed(m) == ThreadLocalManager /\ pc[m] = "done"

-----------------------------------------------------------------------------
WorkerReleases(w) ==
  \/ ~Destroyed(worker[w].manager) /\ ReturnBuffers(w)
  \/ Destroyed(worker[w].manager) /\ ReturnToDestroyed(w)

WorkerStep(w) ==
  /\ status = "running"
  /\ w <= spawned
  /\ WaitClosed(w) \/ StartCounting(w) \/ CountBuffer(w) \/ WorkerReleases(w)
  /\ UNCHANGED <<threadVars, status>>

\* main(): every thread joined, return.  Detached workers do not outlive it.
MainReturns ==
  /\ status = "running"
  /\ \A t \in Threads : pc[t] = "done"
  /\ status' = "returned"
  /\ UNCHANGED <<bufferVars, contextVars, managerVars, workerVars, threadVars>>

\* The process is gone: not a deadlock.
Halted == status # "running" /\ UNCHANGED vars

ThreadStep(t) ==
  \/ LoadForRef(t) \/ CallAllocBuffer(t) \/ GetRef(t)
  \/ LoadCurBuf(t) \/ LogReclaimed(t) \/ LogFast(t) \/ LogSlow(t)
  \/ TryIncEpochFails(t) \/ TryIncEpochWins(t) \/ ReclaimOne(t)
  \/ StartWorker(t) \/ TooManyWorkers(t)
  \/ UpdateAssertFails(t) \/ UpdateEvents(t) \/ UpdateClose(t)
  \/ EndRun(t) \/ ExitThread(t) \/ FinishThread(t)

Next ==
  \/ \E t \in Threads : ThreadStep(t)
  \/ \E w \in Workers : WorkerStep(w)
  \/ MainReturns
  \/ Halted

\* The scheduler runs every runnable thread; nothing makes main return.
Fairness ==
  /\ \A t \in Threads : WF_vars(ThreadStep(t))
  /\ \A w \in Workers : WF_vars(WorkerStep(w))

Spec     == Init /\ [][Next]_vars
FairSpec == Spec /\ Fairness
=============================================================================
