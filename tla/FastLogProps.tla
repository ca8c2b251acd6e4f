---------------------------- MODULE FastLogProps ----------------------------
(***************************************************************************)
(* What FastLog is meant to guarantee.                                     *)
(***************************************************************************)
EXTENDS FastLog

PC == { "idle", "alloc_ref", "make_ref", "run", "store", "try_inc", "reclaim",
        "alloc_update", "update", "close", "destroy", "done" }

Events == Threads \X Nat

BufferType ==
  [ events : Nat, nextRdtscTime : Nat, buf : [ Slots -> Events \cup {NoEvent} ],
    threadId : Nat \cup {Unset}, epoch : Nat \cup {Unset}, closed : BOOLEAN,
    logged : SUBSET Events ]

ContextType == [ threadId : Nat \cup {Unset}, logBuffer : Buffers \cup {Null} ]

RefType == [ logBuf : Buffers \cup {Null}, events : Nat, nextRdtscTime : Nat ]

WorkerType ==
  [ pc : {"none", "wait", "count", "done", "lost"},
    manager : Managers \cup {NoThread}, buffers : Seq(Buffers),
    next : Nat \ {0}, events : Nat ]

\* The types of all variables.
TypeOK ==
  /\ heap          \in 0 .. MaxBuffers
  /\ eventBuf      \in [ Buffers -> BufferType ]
  /\ logBuffer     \in [ Threads -> Buffers \cup {Null} ]
  /\ thrContext    \in [ Threads -> ContextType ]
  /\ threadCounter \in Nat
  /\ monitor       \in [ Managers -> Threads \cup {NoThread} ]
  /\ activeWorkers \in [ Managers -> Int ]
  /\ epoch         \in [ Managers -> Nat ]
  /\ allocatedBufs \in [ Managers -> Seq(Buffers) ]
  /\ freeBufs      \in [ Managers -> Seq(Buffers) ]
  /\ tlsBufAddrs   \in [ Managers -> SUBSET Threads ]
  /\ spawned       \in 0 .. MaxSpawns
  /\ worker        \in [ Workers -> WorkerType ]
  /\ processed     \in [ Workers -> SUBSET (Events \cup {NoEvent}) ]
  /\ pc            \in [ Threads -> PC ]
  /\ ref           \in [ Threads -> RefType ]
  /\ curBuf        \in [ Threads -> Buffers \cup {Null} ]
  /\ iter          \in [ Threads -> Nat ]
  /\ idx           \in [ Threads -> Nat ]
  /\ status        \in {"running", "aborted", "returned"}

-----------------------------------------------------------------------------
\* Who has what.

\* t can still append to the buffer its reference points to.
Writing(t) == pc[t] \in {"run", "store"}

\* Threads between the construction of their Context and its destructor.
Alive(t) == pc[t] \notin {"destroy", "done"}

\* Workers that have not given their buffers back.
Busy(w) == worker[w].pc \in {"wait", "count"}

InSeq(b, s) == \E i \in DOMAIN s : s[i] = b

\* The places a buffer can be in: the pool of a manager, the epoch of a
\* manager, or the hands of a worker that has not returned it.
Holders ==
  ({"free", "allocated"} \X Managers) \cup ({"worker"} \X Workers)

BufsOf(h) ==
  CASE h[1] = "free"      -> freeBufs[h[2]]
    [] h[1] = "allocated" -> allocatedBufs[h[2]]
    [] h[1] = "worker"    -> IF worker[h[2]].pc \in {"wait", "count", "lost"}
                               THEN worker[h[2]].buffers ELSE << >>

Places(b) ==
  UNION { {h} \X { i \in DOMAIN BufsOf(h) : BufsOf(h)[i] = b } : h \in Holders }

\* The buffers a thread can reach, directly, through its manager and through
\* the workers its manager has started.
Reachable(t) ==
  LET m == ManagerOf(t) IN
  { b \in Buffers :
      \/ b \in {ref[t].logBuf, curBuf[t], logBuffer[t], thrContext[t].logBuffer}
      \/ InSeq(b, freeBufs[m]) \/ InSeq(b, allocatedBufs[m])
      \/ \E w \in Workers : worker[w].manager = m /\ InSeq(b, worker[w].buffers) }

\* Events of the buffer b; while a reference to it is alive, the reference
\* knows how many they are.
Held(b) ==
  { eventBuf[b].buf[i] :
      i \in 0 .. (IF \E t \in Threads : ref[t].logBuf = b
                  THEN ref[CHOOSE t \in Threads : ref[t].logBuf = b].events
                  ELSE eventBuf[b].events) - 1 }

\* Buffers whose events nobody has analysed and nobody has given up.
Uncounted ==
  { b \in Buffers :
      \/ \E m \in Managers : InSeq(b, allocatedBufs[m])
      \/ \E w \in Workers : LET wk == worker[w] IN
           \/ wk.pc = "wait" /\ InSeq(b, wk.buffers)
           \/ wk.pc = "count" /\ InSeq(b, SubSeq(wk.buffers, wk.next, Len(wk.buffers))) }

Executed(t) == iter[t] * Length + idx[t]
Pending     == UNION { Held(b) : b \in Uncounted }
Delivered   == UNION { processed[w] : w \in Workers }

-----------------------------------------------------------------------------
\* The assertion of allocBuffer (BufferManager.cc:29) holds for every caller:
\* nobody asks for a buffer while __log_buffer still points to one.
AllocPrecondition ==
  \A t \in Threads : pc[t] \in {"alloc_ref", "alloc_update"} => logBuffer[t] = Null

\* A live thread whose __log_buffer is set takes part in the current epoch:
\* it is registered in tlsBufAddrs, its buffer is of this epoch, and the
\* coordinator will find the buffer in allocatedBufs.
EpochAgreement ==
  \A t \in Threads : Alive(t) /\ logBuffer[t] # Null =>
    LET m == ManagerOf(t) IN
      /\ t \in tlsBufAddrs[m]
      /\ InSeq(logBuffer[t], allocatedBufs[m])
      /\ eventBuf[logBuffer[t]].epoch = epoch[m]
      /\ eventBuf[logBuffer[t]].threadId = thrContext[t].threadId
      /\ thrContext[t].logBuffer = logBuffer[t]

\* A coordinator never clears the __log_buffer of a thread that has exited
\* (BufferManager.h:48-51).
OnlyLiveTlsAddrs ==
  \A m \in Managers : \A t \in tlsBufAddrs[m] : Alive(t)

\* The slots of a buffer have room for whatever a thread logs before it
\* notices that the buffer is full (EventBuffer.h:109).
IndexInBounds ==
  \A t \in Threads : pc[t] = "store" => ref[t].events \in Slots

\* As long as a thread can append to a buffer, no other thread has a
\* reference to it, it is not free, and no worker has started to count it.
WriterExclusive ==
  \A t \in Threads : Writing(t) =>
    /\ \A s \in Threads \ {t} : ref[s].logBuf # ref[t].logBuf
    /\ \A m \in Managers : ~InSeq(ref[t].logBuf, freeBufs[m])
    /\ \A w \in Workers : worker[w].pc = "count" => ~InSeq(ref[t].logBuf, worker[w].buffers)

\* With a manager a thread, no EventBuffer is ever reachable from two threads,
\* their managers or their workers: a thread never sees the log of another.
ThreadConfined ==
  \A s, t \in Threads : s # t => Reachable(s) \cap Reachable(t) = {}

\* Every EventBuffer is in one place: the pool, the epoch it was allocated
\* in, or the hands of one worker.  None is leaked, none is in two places.
PoolAccounting == \A b \in 1 .. heap : Cardinality(Places(b)) = 1

\* activeWorkers is the number of workers at work for the manager.
WorkersAccounted ==
  \A m \in Managers :
    activeWorkers[m] = Cardinality({ w \in Workers :
      worker[w].manager = m /\ worker[w].pc \in {"wait", "count", "lost"} })

\* tryIncEpoch succeeds for one thread an epoch: no two workers have buffers
\* of the same epoch (BufferManager.cc:70-72).
OneCoordinatorPerEpoch ==
  \A v, w \in Workers : v # w /\ Busy(v) /\ Busy(w) =>
    \A b \in ToSet(worker[v].buffers), c \in ToSet(worker[w].buffers) :
      eventBuf[b].epoch # eventBuf[c].epoch

\* An epoch ends because a buffer of that epoch is full: among the buffers a
\* worker is started with, one holds MaxEvents events or more.
EpochsEndFull ==
  \A w \in Workers : worker[w].pc = "wait" =>
    \E b \in ToSet(worker[w].buffers) : Cardinality(Held(b)) >= MaxEvents

\* The buffers a worker has counted so far.
Counted(w) == { worker[w].buffers[i] : i \in 1 .. worker[w].next - 1 }

\* A worker counts what was logged to its buffers since they were reset, each
\* event once: nothing an earlier epoch left in the slots, and nothing is
\* missing, except, where a coordinator can reclaim the buffer of another
\* thread, one event a buffer (FIXME on Main.cc:568).
CountExact ==
  \A w \in Workers :
    /\ worker[w].events = Cardinality(processed[w])
    /\ worker[w].pc = "count" =>
         /\ processed[w] \subseteq UNION { eventBuf[b].logged : b \in Counted(w) }
         /\ \A b \in Counted(w) :
              Cardinality(eventBuf[b].logged \ processed[w]) <= IF ThreadLocalManager THEN 0 ELSE 1

\* A thread loses at most one event an epoch: the one it was logging when it
\* found its buffer reclaimed (FIXME on Main.cc:568).  An epoch whose buffers
\* are being reclaimed counts already.
LossBounded ==
  \A t \in Threads :
    LET m    == ManagerOf(t)
        lost == { n \in 0 .. Executed(t) - 1 : <<t, n>> \notin Pending \cup Delivered }
    IN  Cardinality(lost) <= epoch[m] + (IF Unlocked(m) THEN 0 ELSE 1)

-----------------------------------------------------------------------------
\* A closed buffer is not written to any more (EventBuffer.h:120) until it
\* is recycled.
ClosedIsFinal ==
  [][ \A b \in Buffers : eventBuf[b].closed /\ eventBuf'[b].closed =>
        /\ eventBuf'[b].buf = eventBuf[b].buf
        /\ eventBuf'[b].events = eventBuf[b].events ]_vars

\* The abstract specification, without loss and with loss.
Lossless == INSTANCE EventDelivery WITH
  Lossy <- FALSE, executed <- [ t \in Threads |-> Executed(t) ],
  pending <- Pending, delivered <- Delivered

MayLose == INSTANCE EventDelivery WITH
  Lossy <- TRUE, executed <- [ t \in Threads |-> Executed(t) ],
  pending <- Pending, delivered <- Delivered

\* The events of a thread reach the workers in chunks of consecutive events,
\* none twice and none lost.
LosslessDelivery == Lossless!Spec

\* The same, when events may get lost: none is delivered twice, and what is
\* lost stays lost.
LossyDelivery == MayLose!Spec

\* A worker once started sees all its buffers closed and calls release(),
\* on a manager that may be gone by then ("lost", ManagerOutlivesWorkers
\* below), unless the process ends first.
WorkersFinish ==
  \A w \in Workers :
    worker[w].pc = "wait" ~> worker[w].pc \in {"done", "lost"} \/ status # "running"

\* No assert fails.
NoAssertFails == status # "aborted"

\* A worker returns its buffers to a manager that still exists.
ManagerOutlivesWorkers == \A w \in Workers : worker[w].pc # "lost"
=============================================================================
