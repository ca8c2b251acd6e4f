----------------------------- MODULE EpochProto -----------------------------
(***************************************************************************)
(* local_writes_benchmarks.cc: the single-file prototype that the buffer   *)
(* manager grew out of.  INSTRUMENT_CHOICE selects at compile time what    *)
(* __tsan_write8 does with a write.  ADDR .. RDTSC log into a buffer that  *)
(* wraps around, EPOCH hands full buffers to an EventBufferManager whose   *)
(* epoch counter is advanced by compare-and-swap, outside its lock.        *)
(*                                                                         *)
(* Threads may come to share a buffer (see FreeBuffersUnused).  Its fields *)
(* are plain ints: each read and each write of one is a step of its own,   *)
(* in program order, and a test of a field just written may use the value  *)
(* written or read the field again, as the compiler likes.  The contents   *)
(* of the slots are left out: nothing reads them.                          *)
(*                                                                         *)
(* Two things a thread can do are undefined.  A store beyond buf[]: the    *)
(* thread is followed no further ("lost").  An access through a pointer    *)
(* that is NULL, or to the __log_buffer of a thread that has returned: it  *)
(* hits what is left there, finds NULL, or ends the process ("fault").     *)
(***************************************************************************)
EXTENDS Integers, Sequences, SequencesExt, FiniteSets

CONSTANTS
  Threads,       \* threads main() can create
  Bodies,        \* the values of INSTRUMENT_CHOICE looked at
  NoThread,      \* the owner of an unlocked mutex
  MaxEvents,     \* EventBuffer::MAX_EVENTS
  SamplingRate,  \* EventBuffer::RDTSC_SAMPLING_RATE
  Length,        \* len * kNumIter: events of a thread
  MaxBuffers     \* bound: EventBuffers the heap has room for

\* EMPTY and COUNT log nothing.  Bodies whose test for a full buffer is =, and
\* those whose test is >=.
EqualBodies == {"ADDR", "DYNBUF", "HEADER"}
AtLeastBodies == {"VALUE", "LOCID"}
RingBodies == EqualBodies \cup AtLeastBodies \cup {"RDTSC"}

ASSUME EpochProtoAssumption ==
  /\ Bodies \subseteq RingBodies \cup {"EPOCH"}
  /\ NoThread \notin Threads
  /\ IsFiniteSet(Threads)
  /\ MaxEvents \in Nat \ {0}
  /\ SamplingRate \in Nat \ {0}
  /\ Length \in Nat
  /\ MaxBuffers \in Nat

\* Mutant: no room for the last timestamp.
CapacityWithoutStamp == MaxEvents + SamplingRate - 1

\* uint64_t buf[MAX_EVENTS + RDTSC_SAMPLING_RATE]
Capacity == MaxEvents + SamplingRate
Slots    == 0 .. Capacity - 1

Null    == 0
Buffers == 1 .. MaxBuffers

\* EventBuffer(), and reset().
ResetBuffer == [ epoch |-> -1, events |-> 0, eventsToRdtsc |-> SamplingRate ]

\* The local variables when __tsan_write8 is not running.
NoLocals == [ logBuf |-> Null, epoch |-> 0, events |-> 0, eventsToRdtsc |-> 0 ]

VARIABLES
  choice,           \* INSTRUMENT_CHOICE
  globalEpoch,      \* __global_epoch
  heap,             \* number of EventBuffers allocated so far: 1 .. heap
  eventBuf,         \* EventBuffer objects by address
  logBuffer,        \* __log_buffer of each thread
  mutex,            \* epochMutex: the thread inside endEpoch
  freeBufs,
  bufsInUse,
  threadLocalBufs,  \* threads whose __log_buffer is registered
  toVisit,          \* pointers the loop of endEpoch has still to visit
  next,             \* position of its loop over bufsInUse
  pc,               \* where each thread is
  local,            \* its local variables: logBuf, epoch, and the counters it read
  idx,              \* events it has executed
  dropped           \* ... and has not logged, for want of a buffer

managerVars == <<mutex, freeBufs, bufsInUse, threadLocalBufs, toVisit, next>>
countVars   == <<idx, dropped>>
vars == <<choice, globalEpoch, heap, eventBuf, logBuffer, managerVars, pc, local, countVars>>

\* main() creates n_threads threads; the others are "none".
Init ==
  /\ choice \in Bodies
  /\ \E created \in SUBSET Threads \ {{}} :
       pc = [ t \in Threads |-> IF t \in created THEN "start" ELSE "none" ]
  /\ globalEpoch = 0
  /\ heap        = 0
  /\ eventBuf    = [ b \in Buffers |-> ResetBuffer ]
  /\ logBuffer   = [ t \in Threads |-> Null ]
  /\ mutex       = NoThread
  /\ freeBufs    = << >>
  /\ bufsInUse   = << >>
  /\ threadLocalBufs = {}
  /\ toVisit     = {}
  /\ next        = 1
  /\ local       = [ t \in Threads |-> NoLocals ]
  /\ idx         = [ t \in Threads |-> 0 ]
  /\ dropped     = [ t \in Threads |-> 0 ]

Move(t, from, to) == pc[t] = from /\ pc' = [ pc EXCEPT ![t] = to ]

\* The event buffer t is logging to.
BufferOf(t) == eventBuf[local[t].logBuf]

\* A function returns: its local variables are gone.
Return(t) == local' = [ local EXCEPT ![t] = NoLocals ]

Branch(t, from, cond, yes, no) ==
  pc[t] = from /\ pc' = [ pc EXCEPT ![t] = IF cond THEN yes ELSE no ]

-----------------------------------------------------------------------------
\* Mutant: the address is not registered.
AllocUnregistered(t, buf) ==
  /\ mutex = NoThread
  /\ \/ freeBufs # << >> /\ buf = Last(freeBufs) /\ freeBufs' = Front(freeBufs) /\ heap' = heap
     \/ freeBufs = << >> /\ buf = heap + 1 /\ freeBufs' = freeBufs /\ heap' = buf
  /\ eventBuf'  = [ eventBuf EXCEPT ![buf].epoch = globalEpoch ]
  /\ logBuffer' = [ logBuffer EXCEPT ![t] = buf ]
  /\ UNCHANGED <<globalEpoch, mutex, bufsInUse, threadLocalBufs, toVisit, next>>

\* EventBufferManager::allocBuffer(): the buffer freed last, or a new one.  Its
\* counters are as reset() or the constructor left them, or as a thread that
\* still had the buffer made them since.
AllocBuffer(t, buf) ==
  /\ mutex = NoThread
  /\ \/ freeBufs # << >> /\ buf = Last(freeBufs) /\ freeBufs' = Front(freeBufs) /\ heap' = heap
     \/ freeBufs = << >> /\ buf = heap + 1 /\ freeBufs' = freeBufs /\ heap' = buf
  /\ eventBuf'  = [ eventBuf EXCEPT ![buf].epoch = globalEpoch ]
  /\ logBuffer' = [ logBuffer EXCEPT ![t] = buf ]
  /\ threadLocalBufs' = threadLocalBufs \cup {t}
  /\ UNCHANGED <<globalEpoch, mutex, bufsInUse, toVisit, next>>

\* Thread(): &__tsan_buffers.at(idx), a buffer of its own for each thread.  The
\* array has eight; at() throws if main() was asked for more threads.
AttachStatic(t) ==
  /\ choice = "ADDR"
  /\ Move(t, "start", "run")
  /\ heap + 1 \in Buffers
  /\ heap' = heap + 1
  /\ logBuffer' = [ logBuffer EXCEPT ![t] = heap' ]
  /\ UNCHANGED <<choice, globalEpoch, eventBuf, managerVars, local, countVars>>

\* Mutant: the slow path returns without asking for a buffer.
AllocOnlyAtStart(t) ==
  /\ \/ /\ choice # "ADDR" /\ Move(t, "start", "run")
        /\ \E buf \in Buffers : AllocBuffer(t, buf)
     \/ /\ Move(t, "alloc", "run")
        /\ UNCHANGED <<globalEpoch, heap, eventBuf, logBuffer, managerVars>>
  /\ Return(t)
  /\ UNCHANGED <<choice, countVars>>

\* bufferManager.allocBuffer(), from Thread() or from the slow path.
CallAllocBuffer(t) ==
  /\ \/ choice # "ADDR" /\ Move(t, "start", "run")
     \/ Move(t, "alloc", "run")
  /\ \E buf \in Buffers : AllocBuffer(t, buf)
  /\ Return(t)
  /\ UNCHANGED <<choice, countVars>>

-----------------------------------------------------------------------------
\* The ring bodies.  No other thread ever sees the buffer, and an event is one
\* step.  c is the EventBuffer.
WrapEqual(c)   == IF c.events = MaxEvents THEN [ c EXCEPT !.events = 0 ] ELSE c
WrapAtLeast(c) == IF c.events >= MaxEvents THEN [ c EXCEPT !.events = 0 ] ELSE c

\* eventsToRdtsc--, and __tsan_rdtsc() when it gets to 0.
CountRdtsc(c) ==
  IF c.eventsToRdtsc = 1
    THEN WrapAtLeast([ c EXCEPT !.events = @ + 1, !.eventsToRdtsc = SamplingRate ])
    ELSE [ c EXCEPT !.eventsToRdtsc = @ - 1 ]

\* events++, and what follows it.
CountRing(c) ==
  LET one == [ c EXCEPT !.events = @ + 1 ]
  IN  CASE choice \in EqualBodies   -> WrapEqual(one)
        [] choice \in AtLeastBodies -> WrapAtLeast(one)
        [] choice = "RDTSC"         -> CountRdtsc(one)

LogRing(t) ==
  /\ choice \in RingBodies
  /\ Move(t, "run", "run")
  /\ idx[t] < Length
  /\ eventBuf' = [ eventBuf EXCEPT ![logBuffer[t]] = CountRing(@) ]
  /\ idx' = [ idx EXCEPT ![t] = @ + 1 ]
  /\ UNCHANGED <<choice, globalEpoch, heap, logBuffer, managerVars, local, dropped>>

-----------------------------------------------------------------------------
\* EPOCH, the fast path: load __log_buffer.  Without a buffer the event is
\* dropped.
LoadNothing(t) ==
  /\ choice = "EPOCH"
  /\ idx[t] < Length
  /\ logBuffer[t] = Null
  /\ Move(t, "run", "slow")
  /\ idx'     = [ idx EXCEPT ![t] = @ + 1 ]
  /\ dropped' = [ dropped EXCEPT ![t] = @ + 1 ]
  /\ UNCHANGED <<choice, globalEpoch, heap, eventBuf, logBuffer, managerVars, local>>

LoadBuffer(t) ==
  /\ choice = "EPOCH"
  /\ idx[t] < Length
  /\ logBuffer[t] # Null
  /\ Move(t, "run", "read")
  /\ local' = [ local EXCEPT ![t].logBuf = logBuffer[t] ]
  /\ UNCHANGED <<choice, globalEpoch, heap, eventBuf, logBuffer, managerVars, countVars>>

\* logBuf->events, for the event or for a timestamp.
ReadEvents(t) ==
  /\ Move(t, "read", "append") \/ Move(t, "again", "stamp")
  /\ local' = [ local EXCEPT ![t].events = BufferOf(t).events ]
  /\ UNCHANGED <<choice, globalEpoch, heap, eventBuf, logBuffer, managerVars, countVars>>

\* A store beyond buf[], of an event or a timestamp.
Overrun(t) ==
  /\ local[t].events \notin Slots
  /\ Move(t, "append", "lost") \/ Move(t, "stamp", "lost")
  /\ UNCHANGED <<choice, globalEpoch, heap, eventBuf, logBuffer, managerVars, local, countVars>>

\* logBuf->buf[logBuf->events++] = ..., the store and the new count.
StoreAndCount(t) ==
  /\ local[t].events \in Slots
  /\ eventBuf' = [ eventBuf EXCEPT ![local[t].logBuf].events = local[t].events + 1 ]
  /\ UNCHANGED <<choice, globalEpoch, heap, logBuffer, managerVars, local>>

AppendEvent(t) ==
  /\ Move(t, "append", "count")
  /\ StoreAndCount(t)
  /\ UNCHANGED countVars

\* logBuf->eventsToRdtsc--
ReadCountdown(t) ==
  /\ Move(t, "count", "down")
  /\ local' = [ local EXCEPT ![t].eventsToRdtsc = BufferOf(t).eventsToRdtsc ]
  /\ UNCHANGED <<choice, globalEpoch, heap, eventBuf, logBuffer, managerVars, countVars>>

CountDown(t) ==
  /\ Move(t, "down", "test")
  /\ eventBuf' = [ eventBuf EXCEPT
       ![local[t].logBuf].eventsToRdtsc = local[t].eventsToRdtsc - 1 ]
  /\ UNCHANGED <<choice, globalEpoch, heap, logBuffer, managerVars, local, countVars>>

\* if (!logBuf || (logBuf->eventsToRdtsc == 0))
TestCountdown(t) ==
  /\ pc[t] = "test"
  /\ \E left \in {local[t].eventsToRdtsc - 1, BufferOf(t).eventsToRdtsc} :
       pc' = [ pc EXCEPT ![t] = IF left = 0 THEN "slow" ELSE "run" ]
  /\ Return(t)
  /\ idx' = [ idx EXCEPT ![t] = @ + 1 ]
  /\ UNCHANGED <<choice, globalEpoch, heap, eventBuf, logBuffer, managerVars, dropped>>

-----------------------------------------------------------------------------
\* __tsan_mem_access_slow(): load __log_buffer once more.
Reload(t) ==
  /\ Branch(t, "slow", logBuffer[t] = Null, "alloc", "check")
  /\ local' = [ local EXCEPT ![t].logBuf = logBuffer[t] ]
  /\ UNCHANGED <<choice, globalEpoch, heap, eventBuf, logBuffer, managerVars, countVars>>

\* if (logBuf->eventsToRdtsc == 0)
CheckRdtsc(t) ==
  /\ Branch(t, "check", BufferOf(t).eventsToRdtsc = 0, "again", "run")
  /\ IF BufferOf(t).eventsToRdtsc = 0 THEN UNCHANGED local ELSE Return(t)
  /\ UNCHANGED <<choice, globalEpoch, heap, eventBuf, logBuffer, managerVars, countVars>>

\* The timestamp is stored and counted ...
Stamp(t) ==
  /\ Move(t, "stamp", "restart")
  /\ StoreAndCount(t)
  /\ UNCHANGED countVars

\* ... the countdown restarted ...
RestartCountdown(t) ==
  /\ Move(t, "restart", "full")
  /\ eventBuf' = [ eventBuf EXCEPT ![local[t].logBuf].eventsToRdtsc = SamplingRate ]
  /\ UNCHANGED <<choice, globalEpoch, heap, logBuffer, managerVars, local, countVars>>

\* ... and in a full buffer the epoch read.
TestFull(t) ==
  /\ pc[t] = "full"
  /\ \E events \in {local[t].events + 1, BufferOf(t).events} :
       IF events >= MaxEvents
         THEN pc' = [ pc EXCEPT ![t] = "epoch" ] /\ UNCHANGED local
         ELSE pc' = [ pc EXCEPT ![t] = "run" ] /\ Return(t)
  /\ UNCHANGED <<choice, globalEpoch, heap, eventBuf, logBuffer, managerVars, countVars>>

ReadEpoch(t) ==
  /\ Move(t, "epoch", "cas")
  /\ local' = [ local EXCEPT ![t].epoch = BufferOf(t).epoch ]
  /\ UNCHANGED <<choice, globalEpoch, heap, eventBuf, logBuffer, managerVars, countVars>>

\* __global_epoch.compare_exchange_strong(epoch, epoch + 1)
WinEpoch(t) ==
  /\ local[t].epoch = globalEpoch
  /\ Move(t, "cas", "end")
  /\ globalEpoch' = globalEpoch + 1
  /\ UNCHANGED <<choice, heap, eventBuf, logBuffer, managerVars, local, countVars>>

LoseEpoch(t) ==
  /\ local[t].epoch # globalEpoch
  /\ Move(t, "cas", "alloc")
  /\ UNCHANGED <<choice, globalEpoch, heap, eventBuf, logBuffer, managerVars, local, countVars>>

-----------------------------------------------------------------------------
\* endEpoch(): take the lock ...
BeginEndEpoch(t) ==
  /\ mutex = NoThread
  /\ Move(t, "end", "collect")
  /\ mutex'   = t
  /\ toVisit' = threadLocalBufs
  /\ UNCHANGED <<choice, globalEpoch, heap, eventBuf, logBuffer, freeBufs, bufsInUse,
                 threadLocalBufs, next, local, countVars>>

\* What is read from the __log_buffer of s.  A thread that has returned does not
\* have one any more; its registered address is still visited.
Pointees(s) == IF pc[s] = "done" THEN {logBuffer[s], Null} ELSE {logBuffer[s]}

\* ... collect the buffers the registered pointers point to (in any order: it
\* is a hash set) ...
Collect(t, s) ==
  /\ Move(t, "collect", "collect")
  /\ s \in toVisit
  /\ \E buf \in Pointees(s) : bufsInUse' = Append(bufsInUse, buf)
  /\ toVisit'   = toVisit \ {s}
  /\ UNCHANGED <<choice, globalEpoch, heap, eventBuf, logBuffer, mutex, freeBufs,
                 threadLocalBufs, next, local, countVars>>

BeginReclaim(t) ==
  /\ toVisit = {}
  /\ Move(t, "collect", "reclaim")
  /\ toVisit' = threadLocalBufs
  /\ UNCHANGED <<choice, globalEpoch, heap, eventBuf, logBuffer, mutex, freeBufs, bufsInUse,
                 threadLocalBufs, next, local, countVars>>

\* ... clear the pointers ...
Reclaim(t, s) ==
  /\ Move(t, "reclaim", "reclaim")
  /\ s \in toVisit
  /\ logBuffer' = [ logBuffer EXCEPT ![s] = Null ]
  /\ toVisit'   = toVisit \ {s}
  /\ UNCHANGED <<choice, globalEpoch, heap, eventBuf, mutex, freeBufs, bufsInUse,
                 threadLocalBufs, next, local, countVars>>

\* Mutant: the set of pointers is not cleared.
StopSpinningKeepsSet(t) ==
  /\ toVisit \in {{}, threadLocalBufs}
  /\ Move(t, "reclaim", "recycle")
  /\ next' = 1
  /\ toVisit' = {}
  /\ UNCHANGED <<choice, globalEpoch, heap, eventBuf, logBuffer, mutex, freeBufs, bufsInUse,
                 threadLocalBufs, local, countVars>>

\* ... for 1000 cycles.  Time is up between two passes over the set; further
\* passes would change nothing.  It may be up before the first pass, if the
\* coordinator is descheduled after reading the clock.
StopSpinning(t) ==
  /\ toVisit \in {{}, threadLocalBufs}
  /\ Move(t, "reclaim", "recycle")
  /\ next' = 1
  /\ toVisit' = {}
  /\ threadLocalBufs' = {}
  /\ UNCHANGED <<choice, globalEpoch, heap, eventBuf, logBuffer, mutex, freeBufs, bufsInUse,
                 local, countVars>>

\* Reset the buffers, one field after the other, and free them; they stay in
\* bufsInUse ...
ResetEpoch(t) ==
  /\ Move(t, "recycle", "reset_events")
  /\ next <= Len(bufsInUse)
  /\ bufsInUse[next] # Null
  /\ eventBuf' = [ eventBuf EXCEPT ![bufsInUse[next]].epoch = -1 ]
  /\ UNCHANGED <<choice, globalEpoch, heap, logBuffer, managerVars, local, countVars>>

\* Mutant: the count is unset, like the epoch.
ResetUnsetsEvents(t) ==
  /\ Move(t, "reset_events", "reset_countdown")
  /\ eventBuf' = [ eventBuf EXCEPT ![bufsInUse[next]].events = -1 ]
  /\ UNCHANGED <<choice, globalEpoch, heap, logBuffer, managerVars, local, countVars>>

ResetEvents(t) ==
  /\ Move(t, "reset_events", "reset_countdown")
  /\ eventBuf' = [ eventBuf EXCEPT ![bufsInUse[next]].events = 0 ]
  /\ UNCHANGED <<choice, globalEpoch, heap, logBuffer, managerVars, local, countVars>>

Recycle(t) ==
  /\ Move(t, "reset_countdown", "recycle")
  /\ eventBuf' = [ eventBuf EXCEPT ![bufsInUse[next]].eventsToRdtsc = SamplingRate ]
  /\ freeBufs' = Append(freeBufs, bufsInUse[next])
  /\ next' = next + 1
  /\ UNCHANGED <<choice, globalEpoch, heap, logBuffer, mutex, bufsInUse, threadLocalBufs,
                 toVisit, local, countVars>>

\* ... and unlock.
EndEndEpoch(t) ==
  /\ next > Len(bufsInUse)
  /\ Move(t, "recycle", "alloc")
  /\ mutex' = NoThread
  /\ UNCHANGED <<choice, globalEpoch, heap, eventBuf, logBuffer, freeBufs, bufsInUse,
                 threadLocalBufs, toVisit, next, local, countVars>>

\* Undefined: the coordinator visits the __log_buffer of a thread that has
\* returned, or resets a buffer at NULL.
Fault(t) ==
  /\ \/ \E s \in toVisit :
          pc[s] = "done" /\ (Move(t, "collect", "fault") \/ Move(t, "reclaim", "fault"))
     \/ /\ Move(t, "recycle", "fault")
        /\ next <= Len(bufsInUse) /\ bufsInUse[next] = Null
  /\ UNCHANGED <<choice, globalEpoch, heap, eventBuf, logBuffer, managerVars, local, countVars>>

-----------------------------------------------------------------------------
\* Thread() returns, and its __log_buffer is gone.  Nothing calls threadExit(),
\* so the address stays registered, or release().
EndThread(t) ==
  /\ idx[t] >= Length
  /\ Move(t, "run", "done")
  /\ UNCHANGED <<choice, globalEpoch, heap, eventBuf, logBuffer, managerVars, local, countVars>>

\* All threads joined, or the process killed.
Finished ==
  /\ \/ \A t \in Threads : pc[t] \in {"none", "done", "lost"}
     \/ \E t \in Threads : pc[t] = "fault"
  /\ UNCHANGED vars

EndEpoch(t) ==
  \/ BeginEndEpoch(t) \/ BeginReclaim(t) \/ StopSpinning(t)
  \/ \E s \in Threads : Collect(t, s) \/ Reclaim(t, s)
  \/ ResetEpoch(t) \/ ResetEvents(t) \/ Recycle(t) \/ EndEndEpoch(t)
  \/ Fault(t)

ThreadStep(t) ==
  \/ AttachStatic(t) \/ CallAllocBuffer(t) \/ LogRing(t)
  \/ LoadNothing(t) \/ LoadBuffer(t) \/ ReadEvents(t) \/ Overrun(t) \/ AppendEvent(t)
  \/ ReadCountdown(t) \/ CountDown(t) \/ TestCountdown(t)
  \/ Reload(t) \/ CheckRdtsc(t) \/ Stamp(t) \/ RestartCountdown(t)
  \/ TestFull(t) \/ ReadEpoch(t) \/ WinEpoch(t) \/ LoseEpoch(t)
  \/ EndEpoch(t)
  \/ EndThread(t)

Next ==
  \/ (\A t \in Threads : pc[t] # "fault") /\ \E t \in Threads : ThreadStep(t)
  \/ Finished

Spec == Init /\ [][Next]_vars
=============================================================================
