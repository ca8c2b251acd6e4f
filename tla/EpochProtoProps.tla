--------------------------- MODULE EpochProtoProps ---------------------------
(***************************************************************************)
(* What the prototype of local_writes_benchmarks.cc guarantees, and what   *)
(* its comments promise.                                                   *)
(***************************************************************************)
EXTENDS EpochProto

PC == { "none", "start", "run", "read", "append", "count", "down", "test",
        "slow", "check", "again", "stamp", "restart", "full", "epoch", "cas",
        "end", "collect", "reclaim", "recycle", "reset_events", "reset_countdown",
        "alloc", "done", "lost", "fault" }

BufferType == [ epoch : Nat \cup {-1}, events : Nat, eventsToRdtsc : Int ]

LocalType ==
  [ logBuf : Buffers \cup {Null}, epoch : Nat \cup {-1}, events : Nat, eventsToRdtsc : Int ]

\* The types of all variables.
TypeOK ==
  /\ choice      \in Bodies
  /\ globalEpoch \in Nat
  /\ heap        \in 0 .. MaxBuffers
  /\ eventBuf    \in [ Buffers -> BufferType ]
  /\ logBuffer   \in [ Threads -> Buffers \cup {Null} ]
  /\ mutex       \in Threads \cup {NoThread}
  /\ freeBufs    \in Seq(Buffers)
  /\ bufsInUse   \in Seq(Buffers \cup {Null})
  /\ threadLocalBufs \in SUBSET Threads
  /\ toVisit     \in SUBSET threadLocalBufs
  /\ next        \in Nat \ {0}
  /\ pc          \in [ Threads -> PC ]
  /\ local       \in [ Threads -> LocalType ]
  /\ idx         \in [ Threads -> Nat ]
  /\ dropped     \in [ Threads -> Nat ]

-----------------------------------------------------------------------------
\* t runs alone, or shares nothing with others.
Private(t) ==
  choice # "EPOCH" \/ \A s \in Threads \ {t} : pc[s] = "none"

InSeq(b, s) == \E i \in DOMAIN s : s[i] = b

\* endEpoch dereferences what it finds behind the registered pointers without
\* a test (lines 181 and 199).  It ends badly only if a thread has returned and
\* left its address behind; nothing the threads do before they return, losing
\* their buffers, asking for new ones and racing for the end of the epoch, has
\* it collect a NULL.
FaultsOnlyOnReturned ==
  \A t \in Threads : pc[t] = "fault" => \E s \in Threads : pc[s] = "done"

\* The event, and the timestamp that follows every SamplingRate events, are
\* stored within buf[MAX_EVENTS + RDTSC_SAMPLING_RATE]: the last timestamp
\* gets the last slot.  For EPOCH this holds as long as there is one thread.
IndexInBounds ==
  \A t \in Threads : Private(t) =>
    /\ pc[t] # "lost"
    /\ pc[t] \in {"append", "stamp"} => local[t].events \in Slots
    /\ pc[t] = "run" /\ choice # "EPOCH" =>
         LET c == eventBuf[logBuffer[t]]
         IN  /\ c.events \in Slots
             /\ choice = "RDTSC" /\ c.eventsToRdtsc = 1 => c.events + 1 \in Slots

\* A thread drops at most one event an epoch, even when coordinators overtake
\* each other between advancing the epoch and taking the lock.
DroppedBounded == \A t \in Threads : dropped[t] <= globalEpoch

\* A buffer is leaked when nothing points to it any more: a thread that loses
\* the race for the end of the epoch gets a new one before the coordinator has
\* the lock to collect the old one (line 305).  The buffer a returned thread had
\* is not counted, nor is anything once a coordinator has collected a NULL: it
\* does not get to unlock the mutex.
Leaked ==
  { b \in 1 .. heap :
      ~InSeq(b, freeBufs) /\ ~InSeq(b, bufsInUse) /\ \A t \in Threads : logBuffer[t] # b }

LeakBounded ==
  ~InSeq(Null, bufsInUse) =>
    Cardinality(Leaked) <= globalEpoch * (Cardinality({ t \in Threads : pc[t] # "none" }) - 1)

\* "Event buffers that are currently available." (line 248): a thread between
\* two events does not have a buffer that is in freeBufs as well.
FreeBuffersUnused ==
  \A t \in Threads : pc[t] = "run" => ~InSeq(logBuffer[t], freeBufs)
=============================================================================
