-------------------------- MODULE LogVariantsProps --------------------------
(***************************************************************************)
(* What the log operations without buffer manager are meant to guarantee.  *)
(***************************************************************************)
EXTENDS LogVariants

Parts == {"event", "info", "addr"}

BufferType ==
  [ events : Nat, nextRdtscTime : Nat,
    buf : [ Slots -> (Nat \X Parts \X Nat) \cup {NoEvent} ],
    threadId : {Unset}, epoch : {Unset}, closed : {FALSE}, logged : {{}} ]

RefType == [ logBuf : {0}, events : Nat, nextRdtscTime : Nat ]

\* The types of all variables.
TypeOK ==
  /\ logOp   \in LogOps
  /\ buffer  \in [ Threads -> BufferType ]
  /\ local   \in [ Threads -> RefType ]
  /\ pc      \in [ Threads -> {"idle", "run", "store"} ]
  /\ iter    \in [ Threads -> Nat ]
  /\ idx     \in [ Threads -> Nat ]
  /\ eventId \in [ Threads -> 0 .. IdLimit - 1 ]
  /\ eventIdCounter \in 0 .. IdLimit - 1

-----------------------------------------------------------------------------
SlotsPerEvent == IF logOp = "LOG_FULL_128" THEN 2 ELSE 1

\* The counters in force: within a run the local copy, if there is one.
Counters(t) ==
  IF logOp \in LocalOps /\ pc[t] = "run" THEN local[t] ELSE buffer[t]

\* The k-th event in a buffer, when all of it is there.
WholeEvent(t, k) ==
  LET buf == buffer[t].buf
      e   == SlotsPerEvent * k
  IN  IF logOp = "LOG_FULL_128"
        THEN /\ buf[e] # NoEvent /\ buf[e + 1] # NoEvent
             /\ buf[e][2] = "info" /\ buf[e + 1][2] = "addr"
             /\ buf[e][1] = buf[e + 1][1]
        ELSE buf[e] # NoEvent

\* The events of t a reader of its buffer finds, in slots 0 .. events - 1.
Held(t) ==
  { buffer[t].buf[SlotsPerEvent * k][1] :
      k \in { k \in Slots : /\ SlotsPerEvent * (k + 1) <= Counters(t).events
                            /\ WholeEvent(t, k) } }

\* The events with ids in a buffer: thread, number, id.
Numbered(t) ==
  { <<t, buffer[t].buf[k][1], buffer[t].buf[k][3]>> :
      k \in { k \in Slots : k < buffer[t].events } }

-----------------------------------------------------------------------------
\* Whatever the operation stores next is within buf[]: also when fullness is
\* tested once a batch, and when an event takes two slots (EventBuffer.h:109).
IndexInBounds ==
  \A t \in Threads :
    pc[t] \in {"run", "store"} => Counters(t).events + SlotsPerEvent - 1 \in Slots

\* Every operation keeps a gapless tail of its thread's events, across the
\* runs of an experiment, and starts over only when BUFFER_SIZE slots are
\* used; an event of two slots is never torn.
Ring == INSTANCE EventRing WITH
  size     <- (BufferSize + SlotsPerEvent - 1) \div SlotsPerEvent,
  executed <- [ t \in Threads |-> Executed(t) ],
  held     <- [ t \in Threads |-> Held(t) ]

RingOfRecentEvents == Ring!Spec

\* The global counter puts all events at hand in a total order that agrees
\* with the order of each thread (Main.cc:619-621).
EventIdsOrderEvents ==
  logOp = "GLOBAL_COUNTER" =>
    LET all == UNION { Numbered(t) : t \in Threads }
    IN  \A e, f \in all :
          /\ e # f => e[3] # f[3]
          /\ e[1] = f[1] /\ e[2] < f[2] => e[3] < f[3]
=============================================================================
