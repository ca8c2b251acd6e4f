---------------------------- MODULE LogVariants ----------------------------
(***************************************************************************)
(* The log operations of Main.cc that do without the buffer manager: each  *)
(* thread owns one EventBuffer for good and starts over at its first slot  *)
(* when it is full.  They differ in where the counters live (in the buffer *)
(* or in a local copy), how often fullness is tested, and how.             *)
(*                                                                         *)
(* The `curBuf == NULL' branches of the slow paths are left out: nobody    *)
(* reclaims a buffer in these experiments (Main.cc:723).                   *)
(***************************************************************************)
EXTENDS EventBuffer, FiniteSets

CONSTANTS
  Threads,         \* the application threads
  LogOps,          \* the log operations main() may be called with
  MaxEventsSmall,  \* EventBuffer::MAX_EVENTS_SMALL
  IdLimit,         \* 2^32: __event_id_counter is a uint32_t
  Length,          \* length: array writes, hence events, in one run
  NumIterations    \* numIterations: runs per thread

\* Log operations that count in the buffer, test fullness by = after each
\* event, and differ in what an event holds only.
PlainOps == {"LOG_ADDR", "VOLATILE_BUF_PTR", "LOG_HEADER", "LOG_FULL_NAIVE"}

\* ... that count in a local copy for the length of a run.
RefOps   == {"CACHED_BUF_PTR", "LOG_FULL", "LOG_FULL_128"}
LocalOps == RefOps \cup {"LOG_DIRECT_LOAD"}

\* ... that test for fullness once a batch.
BatchOps == RefOps \cup {"PREFETCH_LOG_ENTRY"}

RingOps ==
  PlainOps \cup LocalOps
    \cup {"LOG_VALUE", "LOG_SRC_LOC", "PREFETCH_LOG_ENTRY", "GLOBAL_COUNTER"}

ASSUME LogVariantsAssumption ==
  /\ LogOps \subseteq RingOps
  /\ MaxEventsSmall \in 1 .. MaxEvents
  /\ BatchSize <= MaxEvents
  /\ IdLimit \in Nat \ {0}
  /\ Length \in Nat
  /\ NumIterations \in Nat

VARIABLES
  logOp,           \* the operation of this experiment
  buffer,          \* the EventBuffer of each thread
  local,           \* bufRef, or the local `events' of run_log_addr_direct
  pc,              \* where each thread is: between runs, in a run, ...
  iter,            \* runs completed
  idx,             \* events of this run
  eventIdCounter,  \* __event_id_counter
  eventId          \* eventId of __tsan_write8_global_counter

vars == <<logOp, buffer, local, pc, iter, idx, eventIdCounter, eventId>>

Init ==
  /\ logOp \in LogOps
  /\ buffer  = [ t \in Threads |-> NewBuffer ]
  /\ local   = [ t \in Threads |-> AttachRef(0) ]
  /\ pc      = [ t \in Threads |-> "idle" ]
  /\ iter    = [ t \in Threads |-> 0 ]
  /\ idx     = [ t \in Threads |-> 0 ]
  /\ eventId = [ t \in Threads |-> 0 ]
  /\ eventIdCounter = 0

\* BUFFER_SIZE[logOp]
BufferSize ==
  IF logOp \in {"PREFETCH_LOG_ENTRY", "LOG_FULL", "LOG_FULL_128", "LOG_FULL_NAIVE"}
    THEN MaxEvents ELSE MaxEventsSmall

-----------------------------------------------------------------------------
\* How each operation counts an event.  c is the buffer or the local copy.

\* if (events++ == BUFFER_SIZE) events = 0
CountPlain(c) ==
  [ c EXCEPT !.events = IF @ = BufferSize THEN 0 ELSE @ + 1 ]

\* if (events++ >= BUFFER_SIZE) events = 0
CountValue(c) ==
  [ c EXCEPT !.events = IF @ >= BufferSize THEN 0 ELSE @ + 1 ]

\* if (++events >= BUFFER_SIZE) events = 0
CountSrcLoc(c) ==
  [ c EXCEPT !.events = IF @ + 1 >= BufferSize THEN 0 ELSE @ + 1 ]

\* PREFETCH_LOG_ENTRY.  On overflow the time of the next test is set to
\* BatchSize and then, as always, increased by BatchSize.
CountPrefetch(c) ==
  LET one == [ c EXCEPT !.events = @ + 1 ]
  IN  IF c.events < c.nextRdtscTime THEN one
      ELSE IF one.events >= BufferSize
        THEN [ c EXCEPT !.events = 0, !.nextRdtscTime = BatchSize + BatchSize ]
        ELSE [ one EXCEPT !.nextRdtscTime = @ + BatchSize ]

\* Mutant: tests for a completely full buffer at the end of a batch only.
NextBatchTooLate(c) ==
  IF c.events >= BufferSize + BatchSize
    THEN [ c EXCEPT !.events = 0, !.nextRdtscTime = BatchSize ]
    ELSE [ c EXCEPT !.nextRdtscTime = @ + BatchSize ]

\* The slow path of CACHED_BUF_PTR, LOG_FULL and LOG_FULL_128.
NextBatch(c) ==
  IF c.events >= BufferSize
    THEN [ c EXCEPT !.events = 0, !.nextRdtscTime = BatchSize ]
    ELSE [ c EXCEPT !.nextRdtscTime = @ + BatchSize ]

\* if (events++ >= nextRdtscTime) ..._slow()
CountCached(c) ==
  LET one == [ c EXCEPT !.events = @ + 1 ]
  IN  IF c.events < c.nextRdtscTime THEN one ELSE NextBatch(one)

\* if (++events >= nextRdtscTime) ..._slow()
CountFull(c) ==
  LET one == [ c EXCEPT !.events = @ + 1 ]
  IN  IF one.events < one.nextRdtscTime THEN one ELSE NextBatch(one)

\* The same after two slots.
CountFull128(c) ==
  LET two == [ c EXCEPT !.events = @ + 2 ]
  IN  IF two.events < two.nextRdtscTime THEN two ELSE NextBatch(two)

Count(c) ==
  CASE logOp \in PlainOps \cup {"LOG_DIRECT_LOAD", "GLOBAL_COUNTER"} -> CountPlain(c)
    [] logOp = "LOG_VALUE"          -> CountValue(c)
    [] logOp = "LOG_SRC_LOC"        -> CountSrcLoc(c)
    [] logOp = "PREFETCH_LOG_ENTRY" -> CountPrefetch(c)
    [] logOp = "CACHED_BUF_PTR"     -> CountCached(c)
    [] logOp = "LOG_FULL"           -> CountFull(c)
    [] logOp = "LOG_FULL_128"       -> CountFull128(c)

-----------------------------------------------------------------------------
\* The slot entry of a thread's n-th event: all of it or a half of it, and
\* the id GLOBAL_COUNTER gives it.
Executed(t) == iter[t] * Length + idx[t]

Entry(t, part, id) == <<Executed(t), part, id>>

At(t, from) == pc[t] = from

Goto(t, to) == pc' = [ pc EXCEPT ![t] = to ]

\* Mutant: the local copy starts at the first slot again.
StartRunAfresh(t) ==
  /\ At(t, "idle")
  /\ iter[t] < NumIterations
  /\ local' = [ local EXCEPT ![t] = AttachRef(0) ]
  /\ Goto(t, "run")
  /\ UNCHANGED <<logOp, buffer, iter, idx, eventIdCounter, eventId>>

\* run_log_...(): getLogBufferRef() or a plain copy, where there is one.
StartRun(t) ==
  /\ At(t, "idle")
  /\ iter[t] < NumIterations
  /\ local' = IF logOp \in LocalOps
                THEN [ local EXCEPT ![t] = MakeRef(0, buffer[t]) ] ELSE local
  /\ Goto(t, "run")
  /\ UNCHANGED <<logOp, buffer, iter, idx, eventIdCounter, eventId>>

InRun(t) == At(t, "run") /\ idx[t] < Length

\* Counters in the buffer.
LogInBuffer(t) ==
  /\ InRun(t)
  /\ logOp \in RingOps \ (LocalOps \cup {"GLOBAL_COUNTER"})
  /\ buffer' = [ buffer EXCEPT
       ![t] = Count(StoreAt(@, @.events, Entry(t, "event", 0))) ]
  /\ idx' = [ idx EXCEPT ![t] = @ + 1 ]
  /\ UNCHANGED <<logOp, local, pc, iter, eventIdCounter, eventId>>

\* Counters in the local copy.
LogThroughRef(t) ==
  /\ InRun(t)
  /\ logOp \in LocalOps \ {"LOG_FULL_128"}
  /\ buffer' = [ buffer EXCEPT
       ![t] = StoreAt(@, local[t].events, Entry(t, "event", 0)) ]
  /\ local' = [ local EXCEPT ![t] = Count(@) ]
  /\ idx' = [ idx EXCEPT ![t] = @ + 1 ]
  /\ UNCHANGED <<logOp, pc, iter, eventIdCounter, eventId>>

\* Header, location and value in one slot, the address in the next.
LogFull128(t) ==
  /\ InRun(t)
  /\ logOp = "LOG_FULL_128"
  /\ LET e == local[t].events
     IN  buffer' = [ buffer EXCEPT
           ![t] = StoreAt(StoreAt(@, e, Entry(t, "info", 0)), e + 1, Entry(t, "addr", 0)) ]
  /\ local' = [ local EXCEPT ![t] = Count(@) ]
  /\ idx' = [ idx EXCEPT ![t] = @ + 1 ]
  /\ UNCHANGED <<logOp, pc, iter, eventIdCounter, eventId>>

\* Mutant: a counter that does not wrap.
FetchEventIdUnbounded(t) ==
  /\ InRun(t)
  /\ logOp = "GLOBAL_COUNTER"
  /\ eventId' = [ eventId EXCEPT ![t] = eventIdCounter ]
  /\ eventIdCounter' = eventIdCounter + 1
  /\ Goto(t, "store")
  /\ UNCHANGED <<logOp, buffer, local, iter, idx>>

\* eventId = __event_id_counter.fetch_add(1), a uint32_t.
FetchEventId(t) ==
  /\ InRun(t)
  /\ logOp = "GLOBAL_COUNTER"
  /\ eventId' = [ eventId EXCEPT ![t] = eventIdCounter ]
  /\ eventIdCounter' = (eventIdCounter + 1) % IdLimit
  /\ Goto(t, "store")
  /\ UNCHANGED <<logOp, buffer, local, iter, idx>>

\* Mutant: the counter is read again after the fetch_add.
LogEventIdReadAgain(t) ==
  /\ At(t, "store")
  /\ buffer' = [ buffer EXCEPT
       ![t] = Count(StoreAt(@, @.events, Entry(t, "event", eventIdCounter))) ]
  /\ idx' = [ idx EXCEPT ![t] = @ + 1 ]
  /\ Goto(t, "run")
  /\ UNCHANGED <<logOp, local, iter, eventIdCounter, eventId>>

LogEventId(t) ==
  /\ At(t, "store")
  /\ buffer' = [ buffer EXCEPT
       ![t] = Count(StoreAt(@, @.events, Entry(t, "event", eventId[t]))) ]
  /\ idx' = [ idx EXCEPT ![t] = @ + 1 ]
  /\ Goto(t, "run")
  /\ UNCHANGED <<logOp, local, iter, eventIdCounter, eventId>>

\* The end of run_log_...(): ~Ref(), or the copy of `events' alone.
EndRun(t) ==
  /\ At(t, "run")
  /\ idx[t] >= Length
  /\ buffer' = CASE logOp \in RefOps -> [ buffer EXCEPT ![t] = WriteBack(@, local[t]) ]
                 [] logOp = "LOG_DIRECT_LOAD" ->
                      [ buffer EXCEPT ![t].events = local[t].events ]
                 [] OTHER -> buffer
  /\ iter' = [ iter EXCEPT ![t] = @ + 1 ]
  /\ idx'  = [ idx EXCEPT ![t] = 0 ]
  /\ Goto(t, "idle")
  /\ UNCHANGED <<logOp, local, eventIdCounter, eventId>>

\* All threads joined.
Finished ==
  /\ \A t \in Threads : pc[t] = "idle" /\ iter[t] >= NumIterations
  /\ UNCHANGED vars

Next ==
  \/ \E t \in Threads :
       \/ StartRun(t) \/ EndRun(t)
       \/ LogInBuffer(t) \/ LogThroughRef(t) \/ LogFull128(t)
       \/ FetchEventId(t) \/ LogEventId(t)
  \/ Finished

Spec == Init /\ [][Next]_vars
=============================================================================
