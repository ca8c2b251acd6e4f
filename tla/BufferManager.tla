--------------------------- MODULE BufferManager ---------------------------
(***************************************************************************)
(* class BufferManager (BufferManager.h, BufferManager.cc) and the         *)
(* per-thread state it works on (Context.h, Context.cc): which thread logs *)
(* to which buffer, which buffers are free, and the current epoch.         *)
(*                                                                         *)
(* Every member function is serialised by `monitor'.  Those that touch     *)
(* nothing a thread reads without the monitor are one step; tryIncEpoch    *)
(* clears the thread-local pointers of other threads, which they load      *)
(* without locking, so it holds the monitor over several steps.            *)
(*                                                                         *)
(* Context.cc:4 defines the manager thread_local: every application thread *)
(* has one of its own, built and destroyed with it.  The class itself is   *)
(* written to be shared by all threads.  ThreadLocalManager selects the    *)
(* wiring; TRUE is the program as it is built.                             *)
(***************************************************************************)
EXTENDS EventBuffer, Sequences, SequencesExt

CONSTANTS
  Threads,             \* the application threads
  ThreadLocalManager,  \* TRUE: one manager per thread (the build); FALSE: one
  Singleton,           \* the manager shared by all threads, when there is one
  NoThread,            \* the owner of an unlocked monitor
  MaxWorkers,          \* BufferManager::MAX_WORKERS
  MaxBuffers           \* bound: EventBuffers the heap has room for

ASSUME BufferManagerAssumption ==
  /\ ThreadLocalManager \in BOOLEAN
  /\ Singleton \notin Threads
  /\ NoThread \notin Threads
  /\ MaxWorkers \in Nat
  /\ MaxBuffers \in Nat

Managers     == IF ThreadLocalManager THEN Threads ELSE {Singleton}
ManagerOf(t) == IF ThreadLocalManager THEN t ELSE Singleton

\* Addresses: of event buffers, and of __log_buffer variables (one a thread).
Null    == 0
Buffers == 1 .. MaxBuffers

VARIABLES
  heap,           \* number of EventBuffers allocated so far: 1 .. heap
  eventBuf,       \* EventBuffer objects by address
  logBuffer,      \* __log_buffer of each thread
  thrContext,     \* __thr_context of each thread: threadId and logBuffer
  threadCounter,  \* Context::threadCounter
  monitor,        \* BufferManager::monitor: the thread inside tryIncEpoch
  activeWorkers,
  epoch,
  allocatedBufs,
  freeBufs,
  tlsBufAddrs     \* threads whose __log_buffer is registered

contextVars == <<logBuffer, thrContext, threadCounter>>
managerVars == <<monitor, activeWorkers, epoch, allocatedBufs, freeBufs, tlsBufAddrs>>
bufferVars  == <<heap, eventBuf>>

BufferManagerInit ==
  /\ heap          = 0
  /\ eventBuf      = [ b \in Buffers |-> NewBuffer ]
  /\ logBuffer     = [ t \in Threads |-> Null ]
  /\ thrContext    = [ t \in Threads |-> [ threadId |-> Unset, logBuffer |-> Null ] ]
  /\ threadCounter = 0
  /\ monitor       = [ m \in Managers |-> NoThread ]
  /\ activeWorkers = [ m \in Managers |-> 0 ]
  /\ epoch         = [ m \in Managers |-> 0 ]
  /\ allocatedBufs = [ m \in Managers |-> << >> ]
  /\ freeBufs      = [ m \in Managers |-> << >> ]
  /\ tlsBufAddrs   = [ m \in Managers |-> {} ]

Unlocked(m) == monitor[m] = NoThread

-----------------------------------------------------------------------------
\* Context::Context(): run once a thread, when it first touches a
\* thread-local object of Context.cc.
ConstructContext(t) ==
  IF thrContext[t].threadId = Unset
    THEN /\ thrContext'    = [ thrContext EXCEPT ![t].threadId = threadCounter ]
         /\ threadCounter' = threadCounter + 1
    ELSE UNCHANGED <<thrContext, threadCounter>>

\* Mutant: the buffer keeps the epoch -1 of reset().
TakeBufferWithoutEpoch(t, buf, reused) ==
  LET m == ManagerOf(t)
  IN  /\ eventBuf' = [ eventBuf EXCEPT
           ![buf] = Assign(Reset(@), thrContext[t].threadId, Unset) ]
      /\ heap' = IF reused THEN heap ELSE buf
      /\ freeBufs' = IF reused THEN [ freeBufs EXCEPT ![m] = Front(@) ] ELSE freeBufs
      /\ logBuffer'     = [ logBuffer EXCEPT ![t] = buf ]
      /\ thrContext'    = [ thrContext EXCEPT ![t].logBuffer = buf ]
      /\ allocatedBufs' = [ allocatedBufs EXCEPT ![m] = Append(@, buf) ]
      /\ tlsBufAddrs'   = [ tlsBufAddrs EXCEPT ![m] = @ \cup {t} ]
      /\ UNCHANGED <<threadCounter, monitor, activeWorkers, epoch>>

\* BufferManager::allocBuffer(): buf is the free buffer returned last, or a
\* new one.  The assertion on line 29 is the guard logBuffer[t] = Null; that
\* no caller ever fails it is an invariant (AllocPrecondition in FastLogProps).
TakeBuffer(t, buf, reused) ==
  LET m == ManagerOf(t)
  IN  /\ eventBuf' = [ eventBuf EXCEPT
           ![buf] = Assign(Reset(@), thrContext[t].threadId, epoch[m]) ]
      /\ heap' = IF reused THEN heap ELSE buf
      /\ freeBufs' = IF reused THEN [ freeBufs EXCEPT ![m] = Front(@) ] ELSE freeBufs
      /\ logBuffer'     = [ logBuffer EXCEPT ![t] = buf ]
      /\ thrContext'    = [ thrContext EXCEPT ![t].logBuffer = buf ]
      /\ allocatedBufs' = [ allocatedBufs EXCEPT ![m] = Append(@, buf) ]
      /\ tlsBufAddrs'   = [ tlsBufAddrs EXCEPT ![m] = @ \cup {t} ]
      /\ UNCHANGED <<threadCounter, monitor, activeWorkers, epoch>>

AllocBuffer(t, buf) ==
  LET m == ManagerOf(t)
  IN  /\ Unlocked(m)
      /\ logBuffer[t] = Null
      /\ \/ /\ freeBufs[m] # << >>
            /\ buf = Last(freeBufs[m])
            /\ TakeBuffer(t, buf, TRUE)
         \/ /\ freeBufs[m] = << >>
            /\ buf = heap + 1
            /\ TakeBuffer(t, buf, FALSE)

-----------------------------------------------------------------------------
\* BufferManager::tryIncEpoch(), first lines: the caller's buffer is of an
\* epoch somebody else has ended already.
LoseEpoch(t, buf) ==
  /\ Unlocked(ManagerOf(t))
  /\ epoch[ManagerOf(t)] # eventBuf[buf].epoch
  /\ UNCHANGED managerVars

\* Mutant: any caller with a full buffer ends the epoch, whichever it is.
WinAnyEpoch(t, buf) ==
  /\ Unlocked(ManagerOf(t))
  /\ monitor' = [ monitor EXCEPT ![ManagerOf(t)] = t ]
  /\ UNCHANGED <<activeWorkers, epoch, allocatedBufs, freeBufs, tlsBufAddrs>>

\* ... or the caller becomes the coordinator, and keeps the monitor.
WinEpoch(t, buf) ==
  /\ Unlocked(ManagerOf(t))
  /\ epoch[ManagerOf(t)] = eventBuf[buf].epoch
  /\ monitor' = [ monitor EXCEPT ![ManagerOf(t)] = t ]
  /\ UNCHANGED <<activeWorkers, epoch, allocatedBufs, freeBufs, tlsBufAddrs>>

\* Mutant: the address is dropped and the pointer left.
ReclaimNothing(t, s) ==
  LET m == ManagerOf(t)
  IN  /\ s \in tlsBufAddrs[m]
      /\ tlsBufAddrs' = [ tlsBufAddrs EXCEPT ![m] = @ \ {s} ]
      /\ UNCHANGED <<logBuffer, monitor, activeWorkers, epoch, allocatedBufs, freeBufs>>

\* One turn of the loop over tlsBufAddrs (any order: it is a hash set).
\* Nobody else reads the set before it is cleared, so it shrinks as it goes.
ReclaimFrom(t, s) ==
  LET m == ManagerOf(t)
  IN  /\ s \in tlsBufAddrs[m]
      /\ logBuffer'   = [ logBuffer EXCEPT ![s] = Null ]
      /\ tlsBufAddrs' = [ tlsBufAddrs EXCEPT ![m] = @ \ {s} ]
      /\ UNCHANGED <<monitor, activeWorkers, epoch, allocatedBufs, freeBufs>>

\* Mutants of EndEpoch: some pointers are not reclaimed; allocatedBufs is not
\* cleared; the epoch does not advance.
EndEpochEarly(t) ==
  LET m == ManagerOf(t)
  IN  /\ allocatedBufs' = [ allocatedBufs EXCEPT ![m] = << >> ]
      /\ epoch'         = [ epoch EXCEPT ![m] = @ + 1 ]
      /\ monitor'       = [ monitor EXCEPT ![m] = NoThread ]
      /\ UNCHANGED tlsBufAddrs

EndEpochKeepsBuffers(t) ==
  LET m == ManagerOf(t)
  IN  /\ tlsBufAddrs[m] = {}
      /\ epoch'   = [ epoch EXCEPT ![m] = @ + 1 ]
      /\ monitor' = [ monitor EXCEPT ![m] = NoThread ]
      /\ UNCHANGED <<allocatedBufs, tlsBufAddrs>>

EndEpochStays(t) ==
  LET m == ManagerOf(t)
  IN  /\ tlsBufAddrs[m] = {}
      /\ allocatedBufs' = [ allocatedBufs EXCEPT ![m] = << >> ]
      /\ monitor'       = [ monitor EXCEPT ![m] = NoThread ]
      /\ UNCHANGED <<epoch, tlsBufAddrs>>

\* The rest of tryIncEpoch: the buffers of the epoch go to a new worker, or
\* back to the pool when there are too many workers; then the epoch advances.
EndEpoch(t) ==
  LET m == ManagerOf(t)
  IN  /\ tlsBufAddrs[m] = {}
      /\ allocatedBufs' = [ allocatedBufs EXCEPT ![m] = << >> ]
      /\ epoch'         = [ epoch EXCEPT ![m] = @ + 1 ]
      /\ monitor'       = [ monitor EXCEPT ![m] = NoThread ]
      /\ UNCHANGED tlsBufAddrs

HandOver(t) ==
  LET m == ManagerOf(t)
  IN  /\ activeWorkers[m] < MaxWorkers
      /\ activeWorkers' = [ activeWorkers EXCEPT ![m] = @ + 1 ]
      /\ UNCHANGED freeBufs
      /\ EndEpoch(t)

\* Mutant: the buffers of a skipped epoch are dropped.
SkipEpochLeaks(t) ==
  /\ activeWorkers[ManagerOf(t)] >= MaxWorkers
  /\ UNCHANGED <<activeWorkers, freeBufs>>
  /\ EndEpoch(t)

SkipEpoch(t) ==
  LET m == ManagerOf(t)
  IN  /\ activeWorkers[m] >= MaxWorkers
      /\ freeBufs' = [ freeBufs EXCEPT ![m] = @ \o allocatedBufs[m] ]
      /\ UNCHANGED activeWorkers
      /\ EndEpoch(t)

-----------------------------------------------------------------------------
\* Mutants of Release: the worker stays counted; the pool is one for all
\* managers.
ReleaseKeepsWorker(m, bufs) ==
  /\ Unlocked(m)
  /\ freeBufs' = [ freeBufs EXCEPT ![m] = @ \o bufs ]
  /\ UNCHANGED <<activeWorkers, monitor, epoch, allocatedBufs, tlsBufAddrs>>

ReleaseToAll(m, bufs) ==
  /\ Unlocked(m)
  /\ activeWorkers' = [ activeWorkers EXCEPT ![m] = @ - 1 ]
  /\ freeBufs'      = [ n \in Managers |-> freeBufs[n] \o bufs ]
  /\ UNCHANGED <<monitor, epoch, allocatedBufs, tlsBufAddrs>>

\* BufferManager::release()
Release(m, bufs) ==
  /\ Unlocked(m)
  /\ activeWorkers' = [ activeWorkers EXCEPT ![m] = @ - 1 ]
  /\ freeBufs'      = [ freeBufs EXCEPT ![m] = @ \o bufs ]
  /\ UNCHANGED <<monitor, epoch, allocatedBufs, tlsBufAddrs>>

\* Mutants of ThreadExit: the buffer stays open; the address stays registered.
ThreadExitLeavesOpen(t) ==
  /\ Unlocked(ManagerOf(t))
  /\ tlsBufAddrs' = [ tlsBufAddrs EXCEPT ![ManagerOf(t)] = @ \ {t} ]
  /\ UNCHANGED <<bufferVars, monitor, activeWorkers, epoch, allocatedBufs, freeBufs>>

ThreadExitKeepsAddr(t) ==
  LET buf == thrContext[t].logBuffer
  IN  /\ Unlocked(ManagerOf(t))
      /\ eventBuf' = IF buf = Null THEN eventBuf
                     ELSE [ eventBuf EXCEPT ![buf].closed = TRUE ]
      /\ UNCHANGED <<heap, managerVars>>

\* BufferManager::threadExit(), called by ~Context().
ThreadExit(t) ==
  LET m   == ManagerOf(t)
      buf == thrContext[t].logBuffer
  IN  /\ Unlocked(m)
      /\ eventBuf' = IF buf = Null THEN eventBuf
                     ELSE [ eventBuf EXCEPT ![buf].closed = TRUE ]
      /\ tlsBufAddrs' = [ tlsBufAddrs EXCEPT ![m] = @ \ {t} ]
      /\ UNCHANGED <<heap, monitor, activeWorkers, epoch, allocatedBufs, freeBufs>>
=============================================================================
