------------------------- MODULE LogVariantsProofs -------------------------
(***************************************************************************)
(* Theorems about the log operations, whatever the sizes of buffer and     *)
(* batch, the length of a run and the number of runs: none stores outside  *)
(* its buffer, each keeps the events its thread logged last, and the ids   *)
(* of GLOBAL_COUNTER order the events.                                     *)
(***************************************************************************)
EXTENDS LogVariantsProps, FiniteSetTheorems, TLAPS

\* The counters in force.  An operation that tests for fullness after every
\* event never counts beyond BufferSize.  One that tests once a batch is either
\* in a batch that began with room, or knows that there is room.  After an
\* overflow PREFETCH_LOG_ENTRY begins with two batches at once.
CountersInBounds(c) ==
  /\ logOp \notin BatchOps => c.events <= BufferSize
  /\ logOp \in BatchOps    => c.events <= c.nextRdtscTime \/ c.events < BufferSize
  /\ logOp \in RefOps      => c.nextRdtscTime < BufferSize + BatchSize
  /\ logOp = "PREFETCH_LOG_ENTRY" => c.nextRdtscTime <= BufferSize + BatchSize

Inv ==
  /\ TypeOK
  /\ \A t \in Threads : CountersInBounds(Counters(t))
  /\ \A t \in Threads : pc[t] = "store" => logOp = "GLOBAL_COUNTER"

LEMMA Sizes ==
  ASSUME TypeOK
  PROVE  /\ BufferSize \in 1 .. MaxEvents
         /\ logOp \in RefOps \cup {"PREFETCH_LOG_ENTRY"} <=> logOp \in BatchOps
         /\ logOp = "PREFETCH_LOG_ENTRY" => BatchSize <= BufferSize /\ logOp \notin RefOps
         /\ MaxEvents \in Nat \ {0} /\ BatchSize \in Nat \ {0}
BY EventBufferAssumption, LogVariantsAssumption DEF BufferSize, BatchOps, RefOps

-----------------------------------------------------------------------------
\* Counting an event keeps the counters in bounds, wherever they are.

LEMMA RefFields ==
  ASSUME NEW c \in RefType, NEW e \in Nat
  PROVE  /\ [ c EXCEPT !.events = e ] \in RefType
         /\ [ c EXCEPT !.events = e ].events = e
         /\ [ c EXCEPT !.events = e ].nextRdtscTime = c.nextRdtscTime
BY DEF RefType

LEMMA BufferFields ==
  ASSUME NEW c \in BufferType, NEW e \in Nat
  PROVE  /\ [ c EXCEPT !.events = e ] \in BufferType
         /\ [ c EXCEPT !.events = e ].events = e
         /\ [ c EXCEPT !.events = e ].nextRdtscTime = c.nextRdtscTime
BY DEF BufferType

LEMMA CountRef ==
  ASSUME TypeOK, NEW c \in RefType, CountersInBounds(c)
  PROVE  Count(c) \in RefType /\ CountersInBounds(Count(c))
<1>1. /\ BufferSize \in Nat \ {0}
      /\ BatchSize \in Nat \ {0}
      /\ c.events \in Nat
      /\ c.nextRdtscTime \in Nat
  BY Sizes DEF RefType
<1>2. CASE logOp \notin BatchOps
  <2>1. Count(c) \in { CountPlain(c), CountValue(c), CountSrcLoc(c) }
    BY <1>2, LogVariantsAssumption
    DEF TypeOK, Count, RingOps, BatchOps, RefOps, LocalOps, PlainOps
  <2>2. c.events <= BufferSize
    BY <1>2 DEF CountersInBounds
  <2>3. \E n \in 0 .. BufferSize : Count(c) = [ c EXCEPT !.events = n ]
    <3>1. CASE Count(c) = CountPlain(c)
      BY <1>1, <2>2, <3>1 DEF CountPlain
    <3>2. CASE Count(c) = CountValue(c)
      <4>1. CASE c.events = BufferSize
        BY <1>1, <3>2, <4>1 DEF CountValue
      <4>2. CASE c.events < BufferSize
        BY <1>1, <3>2, <4>2 DEF CountValue
      <4>3. QED
        BY <1>1, <2>2, <4>1, <4>2
    <3>3. CASE Count(c) = CountSrcLoc(c)
      BY <1>1, <2>2, <3>3 DEF CountSrcLoc
    <3>4. QED
      BY <2>1, <3>1, <3>2, <3>3
  <2>4. PICK n \in 0 .. BufferSize : Count(c) = [ c EXCEPT !.events = n ]
    BY <2>3
  <2>5. Count(c) \in RefType /\ Count(c).events = n
    BY <1>1, <2>4, RefFields
  <2>6. QED
    BY <1>1, <1>2, <2>5 DEF CountersInBounds, BatchOps
<1>3. CASE logOp = "PREFETCH_LOG_ENTRY"
  <2>1. /\ Count(c) = CountPrefetch(c)
        /\ logOp \in BatchOps
        /\ logOp \notin RefOps
        /\ BatchSize <= BufferSize
    BY <1>3, Sizes DEF Count, PlainOps
  <2>2. /\ c.events <= c.nextRdtscTime \/ c.events < BufferSize
        /\ c.nextRdtscTime <= BufferSize + BatchSize
    BY <1>3, <2>1 DEF CountersInBounds
  <2>3. CASE c.events < c.nextRdtscTime
    <3>1. Count(c) = [ c EXCEPT !.events = c.events + 1 ]
      BY <2>1, <2>3 DEF CountPrefetch
    <3>2. /\ Count(c) \in RefType
          /\ Count(c).events = c.events + 1
          /\ Count(c).nextRdtscTime = c.nextRdtscTime
      BY <1>1, <3>1, RefFields
    <3>3. QED
      BY <1>1, <2>1, <2>2, <2>3, <3>2 DEF CountersInBounds
  <2>4. CASE c.events >= c.nextRdtscTime /\ c.events + 1 >= BufferSize
    <3>1. Count(c) = [ c EXCEPT !.events = 0, !.nextRdtscTime = BatchSize + BatchSize ]
      BY <1>1, <2>1, <2>4 DEF CountPrefetch, RefType
    <3>2. ASSUME NEW d, d = [ c EXCEPT !.events = 0, !.nextRdtscTime = BatchSize + BatchSize ]
          PROVE  d \in RefType /\ d.events = 0 /\ d.nextRdtscTime = BatchSize + BatchSize
      <4>1. PICK e \in Nat, m \in Nat : e = 0 /\ m = BatchSize + BatchSize
        BY <1>1
      <4>2. d = [ c EXCEPT !.events = e, !.nextRdtscTime = m ]
        BY <3>2, <4>1
      <4>3. d \in RefType /\ d.events = e /\ d.nextRdtscTime = m
        BY <4>2 DEF RefType
      <4>4. QED
        BY <4>1, <4>3
    <3>3. /\ Count(c) \in RefType
          /\ Count(c).events = 0
          /\ Count(c).nextRdtscTime = BatchSize + BatchSize
      BY <3>1, <3>2
    <3>4. QED
      BY <1>1, <2>1, <3>3 DEF CountersInBounds
  <2>5. CASE c.events >= c.nextRdtscTime /\ c.events + 1 < BufferSize
    <3>1. Count(c) = [ c EXCEPT !.events = c.events + 1,
                                !.nextRdtscTime = c.nextRdtscTime + BatchSize ]
      BY <1>1, <2>1, <2>5 DEF CountPrefetch, RefType
    <3>2. ASSUME NEW d, d = [ c EXCEPT !.events = c.events + 1,
                                        !.nextRdtscTime = c.nextRdtscTime + BatchSize ]
          PROVE  d \in RefType /\ d.events = c.events + 1 /\ d.nextRdtscTime = c.nextRdtscTime + BatchSize
      <4>1. PICK e \in Nat, m \in Nat : e = c.events + 1 /\ m = c.nextRdtscTime + BatchSize
        BY <1>1
      <4>2. d = [ c EXCEPT !.events = e, !.nextRdtscTime = m ]
        BY <3>2, <4>1
      <4>3. d \in RefType /\ d.events = e /\ d.nextRdtscTime = m
        BY <4>2 DEF RefType
      <4>4. QED
        BY <4>1, <4>3
    <3>3. /\ Count(c) \in RefType
          /\ Count(c).events = c.events + 1
          /\ Count(c).nextRdtscTime = c.nextRdtscTime + BatchSize
      BY <3>1, <3>2
    <3>4. QED
      BY <1>1, <2>1, <2>5, <3>3 DEF CountersInBounds
  <2>6. QED
    BY <1>1, <2>3, <2>4, <2>5
<1>4. CASE logOp \in RefOps
  <2>1. /\ logOp \in BatchOps
        /\ logOp # "PREFETCH_LOG_ENTRY"
        /\ Count(c) \in { CountCached(c), CountFull(c), CountFull128(c) }
    BY <1>4 DEF Count, PlainOps, RefOps, BatchOps
  <2>2. /\ c.events <= c.nextRdtscTime \/ c.events < BufferSize
        /\ c.nextRdtscTime < BufferSize + BatchSize
    BY <1>4, <2>1 DEF CountersInBounds
  <2>3. PICK n \in {1, 2} :
          \/ /\ c.events + n <= c.nextRdtscTime
             /\ Count(c) = [ c EXCEPT !.events = c.events + n ]
          \/ /\ c.nextRdtscTime <= c.events + n
             /\ Count(c) = NextBatch([ c EXCEPT !.events = c.events + n ])
    <3>1. CASE Count(c) = CountCached(c)
      BY <1>1, <3>1 DEF CountCached, RefType
    <3>2. CASE Count(c) = CountFull(c)
      BY <1>1, <3>2 DEF CountFull, RefType
    <3>3. CASE Count(c) = CountFull128(c)
      BY <1>1, <3>3 DEF CountFull128, RefType
    <3>4. QED
      BY <2>1, <3>1, <3>2, <3>3
  <2>4. CASE /\ c.events + n <= c.nextRdtscTime
             /\ Count(c) = [ c EXCEPT !.events = c.events + n ]
    <3>1. /\ Count(c) \in RefType
          /\ Count(c).events = c.events + n
          /\ Count(c).nextRdtscTime = c.nextRdtscTime
      BY <1>1, <2>4, RefFields
    <3>2. QED
      BY <1>1, <1>4, <2>1, <2>2, <2>4, <3>1 DEF CountersInBounds
  <2>5. CASE /\ c.nextRdtscTime <= c.events + n
             /\ Count(c) = NextBatch([ c EXCEPT !.events = c.events + n ])
    <3>1. CASE c.events + n >= BufferSize
      <4>1. Count(c) = [ c EXCEPT !.events = 0, !.nextRdtscTime = BatchSize ]
        BY <1>1, <2>5, <3>1 DEF NextBatch, RefType
      <4>2. ASSUME NEW d, d = [ c EXCEPT !.events = 0, !.nextRdtscTime = BatchSize ]
            PROVE  d \in RefType /\ d.events = 0 /\ d.nextRdtscTime = BatchSize
        <5>1. PICK e \in Nat, m \in Nat : e = 0 /\ m = BatchSize
          BY <1>1
        <5>2. d = [ c EXCEPT !.events = e, !.nextRdtscTime = m ]
          BY <4>2, <5>1
        <5>3. d \in RefType /\ d.events = e /\ d.nextRdtscTime = m
          BY <5>2 DEF RefType
        <5>4. QED
          BY <5>1, <5>3
      <4>3. /\ Count(c) \in RefType
            /\ Count(c).events = 0
            /\ Count(c).nextRdtscTime = BatchSize
        BY <4>1, <4>2
      <4>4. QED
        BY <1>1, <1>4, <2>1, <4>3 DEF CountersInBounds
    <3>2. CASE c.events + n < BufferSize
      <4>1. Count(c) = [ c EXCEPT !.events = c.events + n,
                                  !.nextRdtscTime = c.nextRdtscTime + BatchSize ]
        BY <1>1, <2>5, <3>2 DEF NextBatch, RefType
      <4>2. ASSUME NEW d, d = [ c EXCEPT !.events = c.events + n,
                                          !.nextRdtscTime = c.nextRdtscTime + BatchSize ]
            PROVE  d \in RefType /\ d.events = c.events + n /\ d.nextRdtscTime = c.nextRdtscTime + BatchSize
        <5>1. PICK e \in Nat, m \in Nat : e = c.events + n /\ m = c.nextRdtscTime + BatchSize
          BY <1>1
        <5>2. d = [ c EXCEPT !.events = e, !.nextRdtscTime = m ]
          BY <4>2, <5>1
        <5>3. d \in RefType /\ d.events = e /\ d.nextRdtscTime = m
          BY <5>2 DEF RefType
        <5>4. QED
          BY <5>1, <5>3
      <4>3. /\ Count(c) \in RefType
            /\ Count(c).events = c.events + n
            /\ Count(c).nextRdtscTime = c.nextRdtscTime + BatchSize
        BY <4>1, <4>2
      <4>4. QED
        BY <1>1, <1>4, <2>1, <2>5, <3>2, <4>3 DEF CountersInBounds
    <3>3. QED
      BY <1>1, <3>1, <3>2
  <2>6. QED
    BY <2>3, <2>4, <2>5
<1>5. QED
  BY <1>2, <1>3, <1>4 DEF BatchOps

LEMMA CountBuffer ==
  ASSUME TypeOK, NEW c \in BufferType, CountersInBounds(c), logOp \notin RefOps
  PROVE  Count(c) \in BufferType /\ CountersInBounds(Count(c))
<1>1. /\ BufferSize \in Nat \ {0}
      /\ BatchSize \in Nat \ {0}
      /\ c.events \in Nat
      /\ c.nextRdtscTime \in Nat
  BY Sizes DEF BufferType
<1>2. CASE logOp \notin BatchOps
  <2>1. Count(c) \in { CountPlain(c), CountValue(c), CountSrcLoc(c) }
    BY <1>2, LogVariantsAssumption
    DEF TypeOK, Count, RingOps, BatchOps, RefOps, LocalOps, PlainOps
  <2>2. c.events <= BufferSize
    BY <1>2 DEF CountersInBounds
  <2>3. \E n \in 0 .. BufferSize : Count(c) = [ c EXCEPT !.events = n ]
    <3>1. CASE Count(c) = CountPlain(c)
      BY <1>1, <2>2, <3>1 DEF CountPlain
    <3>2. CASE Count(c) = CountValue(c)
      <4>1. CASE c.events = BufferSize
        BY <1>1, <3>2, <4>1 DEF CountValue
      <4>2. CASE c.events < BufferSize
        BY <1>1, <3>2, <4>2 DEF CountValue
      <4>3. QED
        BY <1>1, <2>2, <4>1, <4>2
    <3>3. CASE Count(c) = CountSrcLoc(c)
      BY <1>1, <2>2, <3>3 DEF CountSrcLoc
    <3>4. QED
      BY <2>1, <3>1, <3>2, <3>3
  <2>4. PICK n \in 0 .. BufferSize : Count(c) = [ c EXCEPT !.events = n ]
    BY <2>3
  <2>5. Count(c) \in BufferType /\ Count(c).events = n
    BY <1>1, <2>4, BufferFields
  <2>6. QED
    BY <1>1, <1>2, <2>5 DEF CountersInBounds, BatchOps
<1>3. CASE logOp = "PREFETCH_LOG_ENTRY"
  <2>1. /\ Count(c) = CountPrefetch(c)
        /\ logOp \in BatchOps
        /\ logOp \notin RefOps
        /\ BatchSize <= BufferSize
    BY <1>3, Sizes DEF Count, PlainOps
  <2>2. /\ c.events <= c.nextRdtscTime \/ c.events < BufferSize
        /\ c.nextRdtscTime <= BufferSize + BatchSize
    BY <1>3, <2>1 DEF CountersInBounds
  <2>3. CASE c.events < c.nextRdtscTime
    <3>1. Count(c) = [ c EXCEPT !.events = c.events + 1 ]
      BY <2>1, <2>3 DEF CountPrefetch
    <3>2. /\ Count(c) \in BufferType
          /\ Count(c).events = c.events + 1
          /\ Count(c).nextRdtscTime = c.nextRdtscTime
      BY <1>1, <3>1, BufferFields
    <3>3. QED
      BY <1>1, <2>1, <2>2, <2>3, <3>2 DEF CountersInBounds
  <2>4. CASE c.events >= c.nextRdtscTime /\ c.events + 1 >= BufferSize
    <3>1. Count(c) = [ c EXCEPT !.events = 0, !.nextRdtscTime = BatchSize + BatchSize ]
      BY <1>1, <2>1, <2>4 DEF CountPrefetch, BufferType
    <3>2. ASSUME NEW d, d = [ c EXCEPT !.events = 0, !.nextRdtscTime = BatchSize + BatchSize ]
          PROVE  d \in BufferType /\ d.events = 0 /\ d.nextRdtscTime = BatchSize + BatchSize
      <4>1. PICK e \in Nat, m \in Nat : e = 0 /\ m = BatchSize + BatchSize
        BY <1>1
      <4>2. d = [ c EXCEPT !.events = e, !.nextRdtscTime = m ]
        BY <3>2, <4>1
      <4>3. d \in BufferType /\ d.events = e /\ d.nextRdtscTime = m
        BY <4>2 DEF BufferType
      <4>4. QED
        BY <4>1, <4>3
    <3>3. /\ Count(c) \in BufferType
          /\ Count(c).events = 0
          /\ Count(c).nextRdtscTime = BatchSize + BatchSize
      BY <3>1, <3>2
    <3>4. QED
      BY <1>1, <2>1, <3>3 DEF CountersInBounds
  <2>5. CASE c.events >= c.nextRdtscTime /\ c.events + 1 < BufferSize
    <3>1. Count(c) = [ c EXCEPT !.events = c.events + 1,
                                !.nextRdtscTime = c.nextRdtscTime + BatchSize ]
      BY <1>1, <2>1, <2>5 DEF CountPrefetch, BufferType
    <3>2. ASSUME NEW d, d = [ c EXCEPT !.events = c.events + 1,
                                        !.nextRdtscTime = c.nextRdtscTime + BatchSize ]
          PROVE  d \in BufferType /\ d.events = c.events + 1 /\ d.nextRdtscTime = c.nextRdtscTime + BatchSize
      <4>1. PICK e \in Nat, m \in Nat : e = c.events + 1 /\ m = c.nextRdtscTime + BatchSize
        BY <1>1
      <4>2. d = [ c EXCEPT !.events = e, !.nextRdtscTime = m ]
        BY <3>2, <4>1
      <4>3. d \in BufferType /\ d.events = e /\ d.nextRdtscTime = m
        BY <4>2 DEF BufferType
      <4>4. QED
        BY <4>1, <4>3
    <3>3. /\ Count(c) \in BufferType
          /\ Count(c).events = c.events + 1
          /\ Count(c).nextRdtscTime = c.nextRdtscTime + BatchSize
      BY <3>1, <3>2
    <3>4. QED
      BY <1>1, <2>1, <2>5, <3>3 DEF CountersInBounds
  <2>6. QED
    BY <1>1, <2>3, <2>4, <2>5
<1>4. QED
  BY <1>2, <1>3 DEF BatchOps

\* Storing leaves the counters alone.
LEMMA StoreKeeps ==
  ASSUME NEW c \in BufferType, NEW i, NEW e \in Nat \X Parts \X Nat
  PROVE  /\ StoreAt(c, i, e) \in BufferType
         /\ StoreAt(c, i, e).events = c.events
         /\ StoreAt(c, i, e).nextRdtscTime = c.nextRdtscTime
BY DEF StoreAt, BufferType

LEMMA EntryType ==
  ASSUME TypeOK, NEW t \in Threads, NEW part \in Parts, NEW id \in Nat
  PROVE  Entry(t, part, id) \in Nat \X Parts \X Nat
<1>1. Executed(t) \in Nat
  BY LogVariantsAssumption DEF Executed, TypeOK
<1>2. QED
  BY <1>1 DEF Entry

-----------------------------------------------------------------------------
LEMMA InvInit == Init => Inv
<1> SUFFICES ASSUME Init PROVE Inv
  OBVIOUS
<1>1. NewBuffer \in BufferType /\ AttachRef(0) \in RefType
  BY EventBufferAssumption DEF NewBuffer, AttachRef, BufferType, RefType
<1>2. TypeOK
  BY <1>1, LogVariantsAssumption DEF Init, TypeOK
<1>3. ASSUME NEW t \in Threads
      PROVE  CountersInBounds(Counters(t))
  <2>1. /\ Counters(t).events = 0
        /\ Counters(t).nextRdtscTime = BatchSize
    BY DEF Counters, Init, NewBuffer
  <2>2. QED
    BY <1>2, <2>1, Sizes DEF CountersInBounds
<1>4. QED
  BY <1>2, <1>3 DEF Inv, Init

\* A step of t concerns its own counters only.
LEMMA OthersKeep ==
  ASSUME Inv, NEW t \in Threads, logOp' = logOp,
         \A s \in Threads \ {t} : /\ buffer'[s] = buffer[s]
                                  /\ local'[s] = local[s]
                                  /\ pc'[s] = pc[s],
         TypeOK', CountersInBounds(Counters(t))',
         pc'[t] = "store" => logOp = "GLOBAL_COUNTER"
  PROVE  Inv'
<1>1. ASSUME NEW s \in Threads \ {t}
      PROVE  CountersInBounds(Counters(s))' /\ (pc'[s] = "store" => logOp' = "GLOBAL_COUNTER")
  BY <1>1 DEF Inv, Counters, CountersInBounds, BufferSize
<1>2. QED
  BY <1>1 DEF Inv

LEMMA InvRuns ==
  ASSUME Inv, NEW t \in Threads, StartRun(t) \/ EndRun(t)
  PROVE  Inv'
<1>1. TypeOK /\ CountersInBounds(Counters(t))
  BY DEF Inv
<1>2. CASE StartRun(t)
  <2>1. MakeRef(0, buffer[t]) \in RefType
    BY <1>1 DEF TypeOK, MakeRef, BufferType, RefType
  <2>2. TypeOK'
    BY <1>1, <1>2, <2>1 DEF StartRun, Goto, TypeOK
  <2>3. CountersInBounds(Counters(t))'
    <3>1. /\ logOp' = logOp
          /\ Counters(t) = buffer[t]
          /\ Counters(t)' \in {buffer[t], MakeRef(0, buffer[t])}
      BY <1>1, <1>2 DEF StartRun, At, Goto, Counters, TypeOK
    <3>2. /\ Counters(t)'.events = buffer[t].events
          /\ Counters(t)'.nextRdtscTime = buffer[t].nextRdtscTime
      BY <3>1 DEF MakeRef
    <3>3. QED
      BY <1>1, <3>1, <3>2 DEF CountersInBounds, BufferSize
  <2>4. QED
    BY <1>1, <1>2, <2>2, <2>3, OthersKeep DEF StartRun, Goto, TypeOK
<1>3. CASE EndRun(t)
  <2>1. /\ buffer[t] \in BufferType
        /\ local[t] \in RefType
        /\ pc[t] = "run"
        /\ UNCHANGED <<logOp, local, eventIdCounter, eventId>>
    BY <1>1, <1>3 DEF TypeOK, EndRun, At
  <2>2. /\ WriteBack(buffer[t], local[t]) \in BufferType
        /\ WriteBack(buffer[t], local[t]).events = local[t].events
        /\ WriteBack(buffer[t], local[t]).nextRdtscTime = local[t].nextRdtscTime
    <3>1. PICK e \in Nat, m \in Nat : e = local[t].events /\ m = local[t].nextRdtscTime
      BY <2>1 DEF RefType
    <3>2. ASSUME NEW d, NEW c \in BufferType, d = [ c EXCEPT !.events = e, !.nextRdtscTime = m ]
          PROVE  d \in BufferType /\ d.events = e /\ d.nextRdtscTime = m
      BY <3>2 DEF BufferType
    <3>3. WriteBack(buffer[t], local[t])
            = [ buffer[t] EXCEPT !.events = e, !.nextRdtscTime = m ]
      BY <3>1 DEF WriteBack
    <3>4. QED
      BY <2>1, <3>1, <3>2, <3>3
  <2>3. /\ [ buffer[t] EXCEPT !.events = local[t].events ] \in BufferType
        /\ [ buffer[t] EXCEPT !.events = local[t].events ].events = local[t].events
    BY <2>1 DEF BufferType, RefType
  <2>4. \/ logOp \in RefOps /\ buffer' = [ buffer EXCEPT ![t] = WriteBack(buffer[t], local[t]) ]
        \/ /\ logOp = "LOG_DIRECT_LOAD" /\ logOp \notin RefOps
           /\ buffer' = [ buffer EXCEPT ![t] = [ buffer[t] EXCEPT !.events = local[t].events ] ]
        \/ logOp \notin LocalOps /\ buffer' = buffer
    BY <1>3 DEF EndRun, RefOps, LocalOps
  <2>5. buffer' \in [ Threads -> BufferType ]
    BY <1>1, <2>2, <2>3, <2>4 DEF TypeOK
  <2>6. /\ iter' \in [ Threads -> Nat ]
        /\ idx' \in [ Threads -> Nat ]
        /\ pc' = [ pc EXCEPT ![t] = "idle" ]
    BY <1>1, <1>3 DEF EndRun, Goto, TypeOK
  <2>7. TypeOK'
    BY <1>1, <2>1, <2>5, <2>6 DEF TypeOK
  <2>8. CountersInBounds(Counters(t))'
    <3>1. Counters(t)' = buffer'[t]
      BY <1>1, <2>6 DEF Counters, TypeOK
    <3>2. CASE logOp \in RefOps
      <4>1. /\ Counters(t) = local[t]
            /\ buffer'[t] = WriteBack(buffer[t], local[t])
        BY <1>1, <2>1, <2>4, <3>2 DEF Counters, LocalOps, RefOps, TypeOK
      <4>2. QED
        BY <1>1, <2>1, <2>2, <3>1, <4>1 DEF CountersInBounds, BufferSize
    <3>3. CASE logOp = "LOG_DIRECT_LOAD"
      <4>1. /\ Counters(t) = local[t]
            /\ buffer'[t].events = local[t].events
            /\ logOp \notin BatchOps
        BY <1>1, <2>1, <2>3, <2>4, <3>3 DEF Counters, LocalOps, RefOps, BatchOps, TypeOK
      <4>2. QED
        BY <1>1, <2>1, <3>1, <3>3, <4>1 DEF CountersInBounds, BufferSize, BatchOps
    <3>4. CASE logOp \notin LocalOps
      <4>1. Counters(t) = buffer[t] /\ buffer' = buffer
        BY <2>4, <3>4 DEF Counters, LocalOps
      <4>2. QED
        BY <1>1, <2>1, <3>1, <4>1 DEF CountersInBounds, BufferSize
    <3>5. QED
      BY <3>2, <3>3, <3>4 DEF LocalOps
  <2>9. QED
    BY <1>1, <2>1, <2>4, <2>6, <2>7, <2>8, OthersKeep DEF TypeOK
<1>4. QED
  BY <1>2, <1>3

LEMMA InvLogInBuffer ==
  ASSUME Inv, NEW t \in Threads, LogInBuffer(t) \/ LogEventId(t)
  PROVE  Inv'
<1>1. TypeOK /\ CountersInBounds(Counters(t))
  BY DEF Inv
<1>2. /\ logOp \notin LocalOps
      /\ UNCHANGED <<logOp, local, iter, eventIdCounter, eventId>>
      /\ pc' \in {pc, [ pc EXCEPT ![t] = "run" ]}
      /\ idx' = [ idx EXCEPT ![t] = @ + 1 ]
  BY DEF LogInBuffer, LogEventId, Inv, At, Goto, LocalOps, RefOps
<1>3. PICK id \in Nat :
        buffer' = [ buffer EXCEPT
          ![t] = Count(StoreAt(buffer[t], buffer[t].events, Entry(t, "event", id))) ]
  <2>1. 0 \in Nat /\ eventId[t] \in Nat
    BY <1>1, LogVariantsAssumption DEF TypeOK
  <2>2. QED
    BY <2>1 DEF LogInBuffer, LogEventId
<1> DEFINE c == StoreAt(buffer[t], buffer[t].events, Entry(t, "event", id))
<1>4. Entry(t, "event", id) \in Nat \X Parts \X Nat
  BY <1>1, EntryType DEF Parts
<1>5. /\ c \in BufferType
      /\ c.events = buffer[t].events
      /\ c.nextRdtscTime = buffer[t].nextRdtscTime
  BY <1>1, <1>4, StoreKeeps DEF TypeOK
<1> HIDE DEF c
<1>6. CountersInBounds(c)
  BY <1>1, <1>2, <1>5 DEF Counters, CountersInBounds
<1>7. Count(c) \in BufferType /\ CountersInBounds(Count(c))
  BY <1>1, <1>2, <1>5, <1>6, CountBuffer DEF LocalOps
<1>8. buffer' = [ buffer EXCEPT ![t] = Count(c) ]
  BY <1>3 DEF c
<1>9. TypeOK'
  BY <1>1, <1>2, <1>7, <1>8 DEF TypeOK
<1>10. CountersInBounds(Counters(t))'
  <2>1. Counters(t)' = Count(c)
    BY <1>1, <1>2, <1>8 DEF Counters, TypeOK
  <2>2. QED
    BY <1>2, <1>7, <2>1 DEF CountersInBounds, BufferSize
<1>11. QED
  <2>1. \A s \in Threads \ {t} : buffer'[s] = buffer[s] /\ local'[s] = local[s] /\ pc'[s] = pc[s]
    BY <1>1, <1>2, <1>8 DEF TypeOK
  <2>2. pc'[t] = "store" => logOp = "GLOBAL_COUNTER"
    BY <1>1, <1>2 DEF Inv, TypeOK
  <2>3. QED
    BY <1>2, <1>9, <1>10, <2>1, <2>2, OthersKeep

LEMMA InvLogThroughRef ==
  ASSUME Inv, NEW t \in Threads, LogThroughRef(t) \/ LogFull128(t)
  PROVE  Inv'
<1>1. TypeOK /\ CountersInBounds(Counters(t))
  BY DEF Inv
<1>2. /\ logOp \in LocalOps
      /\ pc[t] = "run"
      /\ UNCHANGED <<logOp, pc, iter, eventIdCounter, eventId>>
      /\ idx' = [ idx EXCEPT ![t] = @ + 1 ]
      /\ local' = [ local EXCEPT ![t] = Count(local[t]) ]
  BY DEF LogThroughRef, LogFull128, InRun, At, LocalOps, RefOps
<1>3. buffer' \in [ Threads -> BufferType ] /\ \A s \in Threads \ {t} : buffer'[s] = buffer[s]
  <2>1. \A part \in Parts : Entry(t, part, 0) \in Nat \X Parts \X Nat
    BY <1>1, EntryType
  <2>2. CASE LogThroughRef(t)
    <3>1. StoreAt(buffer[t], local[t].events, Entry(t, "event", 0)) \in BufferType
      BY <1>1, <2>1, StoreKeeps DEF TypeOK, Parts
    <3>2. QED
      BY <1>1, <2>2, <3>1 DEF LogThroughRef, TypeOK
  <2>3. CASE LogFull128(t)
    <3> DEFINE e == local[t].events
               half == StoreAt(buffer[t], e, Entry(t, "info", 0))
    <3>1. half \in BufferType
      BY <1>1, <2>1, StoreKeeps DEF TypeOK, Parts
    <3>2. buffer' = [ buffer EXCEPT ![t] = StoreAt(half, e + 1, Entry(t, "addr", 0)) ]
      BY <2>3 DEF LogFull128
    <3> HIDE DEF half
    <3>3. StoreAt(half, e + 1, Entry(t, "addr", 0)) \in BufferType
      BY <2>1, <3>1, StoreKeeps DEF Parts
    <3>4. QED
      BY <1>1, <3>2, <3>3 DEF TypeOK
  <2>4. QED
    BY <2>2, <2>3
<1>4. local[t] \in RefType /\ CountersInBounds(local[t])
  BY <1>1, <1>2 DEF TypeOK, Counters
<1>5. Count(local[t]) \in RefType /\ CountersInBounds(Count(local[t]))
  BY <1>1, <1>4, CountRef
<1>6. TypeOK'
  <2>1. local' \in [ Threads -> RefType ]
    BY <1>1, <1>2, <1>5 DEF TypeOK
  <2>2. idx' \in [ Threads -> Nat ]
    BY <1>1, <1>2 DEF TypeOK
  <2>3. QED
    BY <1>1, <1>2, <1>3, <2>1, <2>2 DEF TypeOK
<1>7. CountersInBounds(Counters(t))'
  <2>1. Counters(t)' = Count(local[t])
    BY <1>1, <1>2 DEF Counters, TypeOK
  <2>2. QED
    BY <1>2, <1>5, <2>1 DEF CountersInBounds, BufferSize
<1>8. QED
  <2>1. \A s \in Threads \ {t} : buffer'[s] = buffer[s] /\ local'[s] = local[s] /\ pc'[s] = pc[s]
    BY <1>1, <1>2, <1>3 DEF TypeOK
  <2>2. QED
    BY <1>2, <1>6, <1>7, <2>1, OthersKeep

LEMMA InvFetch ==
  ASSUME Inv, NEW t \in Threads, FetchEventId(t)
  PROVE  Inv'
<1>1. TypeOK /\ CountersInBounds(Counters(t))
  BY DEF Inv
<1>2. /\ logOp = "GLOBAL_COUNTER"
      /\ pc' = [ pc EXCEPT ![t] = "store" ]
      /\ UNCHANGED <<logOp, buffer, local, iter, idx>>
  BY DEF FetchEventId, Goto
<1>3. eventIdCounter' \in 0 .. IdLimit - 1
  BY <1>1, LogVariantsAssumption DEF FetchEventId, TypeOK
<1>4. TypeOK'
  BY <1>1, <1>2, <1>3 DEF FetchEventId, TypeOK
<1>5. CountersInBounds(Counters(t))'
  <2>1. Counters(t) = buffer[t] /\ Counters(t)' = buffer[t]
    BY <1>2 DEF Counters, LocalOps, RefOps
  <2>2. QED
    BY <1>1, <1>2, <2>1 DEF CountersInBounds, BufferSize
<1>6. QED
  BY <1>1, <1>2, <1>4, <1>5, OthersKeep DEF TypeOK

LEMMA InvNext == Inv /\ [Next]_vars => Inv'
<1> SUFFICES ASSUME Inv, [Next]_vars PROVE Inv'
  OBVIOUS
<1>1. CASE UNCHANGED vars
  BY <1>1 DEF vars, Inv, TypeOK, Counters, CountersInBounds, BufferSize
<1>2. CASE \E t \in Threads :
             \/ StartRun(t) \/ EndRun(t)
             \/ LogInBuffer(t) \/ LogThroughRef(t) \/ LogFull128(t)
             \/ FetchEventId(t) \/ LogEventId(t)
  BY <1>2, InvRuns, InvLogInBuffer, InvLogThroughRef, InvFetch
<1>3. QED
  BY <1>1, <1>2 DEF Next, Finished

LEMMA InvBounds == Inv => IndexInBounds
<1> SUFFICES ASSUME Inv, NEW t \in Threads, pc[t] \in {"run", "store"}
             PROVE  Counters(t).events + SlotsPerEvent - 1 \in Slots
  BY DEF IndexInBounds
<1>1. /\ Counters(t).events \in Nat
      /\ Counters(t).nextRdtscTime \in Nat
      /\ CountersInBounds(Counters(t))
  BY DEF Inv, TypeOK, Counters, BufferType, RefType
<1>2. /\ BufferSize \in 1 .. MaxEvents
      /\ MaxEvents \in Nat
      /\ BatchSize \in Nat \ {0}
      /\ logOp \in BatchOps <=> logOp \in RefOps \/ logOp = "PREFETCH_LOG_ENTRY"
  BY Sizes DEF Inv
<1>3. CASE logOp = "LOG_FULL_128"
  BY <1>1, <1>2, <1>3 DEF CountersInBounds, RefOps, SlotsPerEvent, Slots, Capacity
<1>4. CASE logOp # "LOG_FULL_128"
  BY <1>1, <1>2, <1>4 DEF CountersInBounds, SlotsPerEvent, Slots, Capacity
<1>5. QED
  BY <1>3, <1>4

\* Whatever an operation stores next is within buf[].
THEOREM BufferNeverOverrun == Spec => []IndexInBounds
<1>1. Spec => []Inv
  BY InvInit, InvNext, PTL DEF Spec
<1>2. QED
  BY <1>1, InvBounds, PTL

\* The types of all variables, for every choice of sizes and operations.
THEOREM VariantsTypeCorrect == Spec => []TypeOK
<1>1. Spec => []Inv
  BY InvInit, InvNext, PTL DEF Spec
<1>2. Inv => TypeOK
  BY DEF Inv
<1>3. QED
  BY <1>1, <1>2, PTL

-----------------------------------------------------------------------------
(***************************************************************************)
(* Each thread has its most recent events at hand: every step is a step of *)
(* EventRing, or leaves what EventRing speaks of alone.                    *)
(***************************************************************************)

\* The buffer of t holds its last n events, in order.
TailOf(t, n) ==
  /\ Counters(t).events = SlotsPerEvent * n
  /\ n <= Executed(t)
  /\ \A k \in 0 .. n - 1 :
       WholeEvent(t, k) /\ buffer[t].buf[SlotsPerEvent * k][1] = Executed(t) - n + k

TailInv ==
  \A t \in Threads :
    /\ idx[t] <= Length
    /\ pc[t] = "store" => idx[t] < Length
    /\ \E n \in Nat : TailOf(t, n)

LEMMA RingSizes ==
  ASSUME TypeOK
  PROVE  /\ SlotsPerEvent \in {1, 2} /\ (SlotsPerEvent = 2 <=> logOp = "LOG_FULL_128")
         /\ \A t \in Threads : iter[t] * Length \in Nat /\ Executed(t) \in Nat
         /\ \A t \in Threads : Executed(t) = iter[t] * Length + idx[t]
<1>1. SlotsPerEvent \in {1, 2} /\ (SlotsPerEvent = 2 <=> logOp = "LOG_FULL_128")
  BY DEF SlotsPerEvent
<1>2. ASSUME NEW t \in Threads
      PROVE  iter[t] * Length \in Nat /\ Executed(t) \in Nat
  <2>1. iter[t] \in Nat /\ idx[t] \in Nat /\ Length \in Nat
    BY LogVariantsAssumption DEF TypeOK
  <2>2. iter[t] * Length \in Nat
    BY <2>1
  <2>3. QED
    BY <2>1, <2>2 DEF Executed
<1>3. QED
  BY <1>1, <1>2 DEF Executed

\* An event takes its slots, or the buffer had no room left and starts over:
\* counters in the buffer, ...
LEMMA CountInBuffer ==
  ASSUME TypeOK, logOp \notin LocalOps, NEW c \in BufferType
  PROVE  /\ Count(c).events \in {0, c.events + SlotsPerEvent}
         /\ Count(c).events = 0 => c.events + SlotsPerEvent >= BufferSize
         /\ Count(c).buf = c.buf
<1>1. /\ BufferSize \in Nat \ {0} /\ BatchSize \in Nat \ {0}
      /\ c.events \in Nat /\ c.nextRdtscTime \in Nat
  BY Sizes DEF BufferType
<1>2. SlotsPerEvent = 1
  BY DEF SlotsPerEvent, LocalOps, RefOps
<1>3. Count(c) \in { CountPlain(c), CountValue(c), CountSrcLoc(c), CountPrefetch(c) }
  BY LogVariantsAssumption DEF TypeOK, Count, RingOps, RefOps, LocalOps, PlainOps
<1>4. CASE Count(c) \in { CountPlain(c), CountValue(c), CountSrcLoc(c) }
  <2>1. PICK e \in {0, c.events + 1} :
          (e = 0 => c.events + 1 >= BufferSize) /\ Count(c) = [ c EXCEPT !.events = e ]
    BY <1>1, <1>4 DEF CountPlain, CountValue, CountSrcLoc, BufferType
  <2>2. Count(c).events = e /\ Count(c).buf = c.buf
    BY <2>1 DEF BufferType
  <2>3. QED
    BY <1>2, <2>1, <2>2
<1>5. CASE Count(c) = CountPrefetch(c)
  <2>1. CASE c.events < c.nextRdtscTime
    BY <1>1, <1>2, <1>5, <2>1 DEF CountPrefetch, BufferType
  <2>2. CASE c.events >= c.nextRdtscTime /\ c.events + 1 >= BufferSize
    BY <1>1, <1>2, <1>5, <2>2 DEF CountPrefetch, BufferType
  <2>3. CASE c.events >= c.nextRdtscTime /\ c.events + 1 < BufferSize
    BY <1>1, <1>2, <1>5, <2>3 DEF CountPrefetch, BufferType
  <2>4. QED
    BY <1>1, <2>1, <2>2, <2>3
<1>6. QED
  BY <1>3, <1>4, <1>5

\* ... and in a local copy.
LEMMA NextBatchEvents ==
  ASSUME TypeOK, NEW c \in RefType
  PROVE  /\ NextBatch(c).events \in {0, c.events}
         /\ c.events # 0 /\ NextBatch(c).events = 0 => c.events >= BufferSize
<1>1. CASE c.events >= BufferSize
  BY <1>1 DEF NextBatch, RefType
<1>2. CASE ~(c.events >= BufferSize)
  BY <1>2 DEF NextBatch, RefType
<1>3. QED
  BY <1>1, <1>2

LEMMA CountInRef ==
  ASSUME TypeOK, logOp \in LocalOps, NEW c \in RefType
  PROVE  /\ Count(c).events \in {0, c.events + SlotsPerEvent}
         /\ Count(c).events = 0 => c.events + SlotsPerEvent >= BufferSize
<1>1. /\ BufferSize \in Nat \ {0} /\ c.events \in Nat /\ c.nextRdtscTime \in Nat
      /\ c.events + 1 \in Nat /\ c.events + 2 \in Nat
  BY Sizes DEF RefType
<1>2. CASE logOp = "LOG_FULL_128"
  <2> DEFINE two == [ c EXCEPT !.events = @ + 2 ]
  <2>1. SlotsPerEvent = 2 /\ Count(c) = CountFull128(c)
    BY <1>2 DEF SlotsPerEvent, Count, PlainOps
  <2>2. two \in RefType /\ two.events = c.events + 2 /\ Count(c) \in {two, NextBatch(two)}
    BY <1>1, <2>1 DEF CountFull128, RefType
  <2>3. /\ NextBatch(two).events \in {0, two.events}
        /\ two.events # 0 /\ NextBatch(two).events = 0 => two.events >= BufferSize
    BY <2>2, NextBatchEvents
  <2> HIDE DEF two
  <2>4. QED
    BY <1>1, <2>1, <2>2, <2>3
<1>3. CASE logOp # "LOG_FULL_128"
  <2> DEFINE one == [ c EXCEPT !.events = @ + 1 ]
  <2>1. SlotsPerEvent = 1
    BY <1>3 DEF SlotsPerEvent
  <2>2. Count(c) \in { CountPlain(c), CountCached(c), CountFull(c) }
    BY <1>3 DEF Count, RefOps, LocalOps, PlainOps
  <2>3. one \in RefType /\ one.events = c.events + 1
    BY <1>1 DEF RefType
  <2>4. \/ Count(c) \in {one, NextBatch(one)}
        \/ c.events = BufferSize /\ Count(c) = [ c EXCEPT !.events = 0 ]
    BY <1>1, <2>2 DEF CountPlain, CountCached, CountFull
  <2>5. /\ NextBatch(one).events \in {0, one.events}
        /\ one.events # 0 /\ NextBatch(one).events = 0 => one.events >= BufferSize
    BY <2>3, NextBatchEvents
  <2> HIDE DEF one
  <2>6. CASE Count(c) \in {one, NextBatch(one)}
    BY <1>1, <2>1, <2>3, <2>5, <2>6
  <2>7. CASE c.events = BufferSize /\ Count(c) = [ c EXCEPT !.events = 0 ]
    <3>1. Count(c).events = 0
      BY <2>7 DEF RefType
    <3>2. QED
      BY <1>1, <2>1, <2>7, <3>1
  <2>8. QED
    BY <2>4, <2>6, <2>7
<1>4. QED
  BY <1>2, <1>3

\* What a reader of the buffer finds.
LEMMA HeldIsTail ==
  ASSUME Inv, NEW t \in Threads, NEW n \in Nat, TailOf(t, n)
  PROVE  Held(t) = Executed(t) - n .. Executed(t) - 1
<1> DEFINE X == Executed(t)
           S == SlotsPerEvent
           Ks == { k \in Slots : S * (k + 1) <= Counters(t).events /\ WholeEvent(t, k) }
<1>1. S \in {1, 2} /\ X \in Nat /\ n <= X /\ Counters(t).events = S * n
  BY RingSizes DEF Inv, TailOf
<1>2. n <= Capacity /\ Capacity \in Nat
  <2>1. /\ CountersInBounds(Counters(t)) /\ Counters(t).nextRdtscTime \in Nat
        /\ BufferSize \in 1 .. MaxEvents /\ MaxEvents \in Nat /\ BatchSize \in Nat \ {0}
        /\ (logOp \in BatchOps <=> logOp \in RefOps \/ logOp = "PREFETCH_LOG_ENTRY")
    BY Sizes DEF Inv, TypeOK, Counters, BufferType, RefType
  <2>2. S * n <= MaxEvents + BatchSize
    BY <1>1, <2>1 DEF CountersInBounds
  <2>3. QED
    BY <1>1, <2>1, <2>2 DEF Capacity
<1>3. Ks = 0 .. n - 1
  <2>1. \A k \in 0 .. n - 1 : WholeEvent(t, k) /\ k \in Slots
    BY <1>2 DEF TailOf, Slots
  <2>2. \A k \in Slots : S * (k + 1) <= S * n <=> k <= n - 1
    BY <1>1 DEF Slots
  <2> HIDE DEF S
  <2>3. QED
    BY <1>1, <1>2, <2>1, <2>2 DEF Slots
<1>4. Held(t) = { buffer[t].buf[S * k][1] : k \in Ks }
  BY DEF Held
<1>5. \A k \in 0 .. n - 1 : buffer[t].buf[S * k][1] = X - n + k
  BY DEF TailOf
<1> HIDE DEF X, S, Ks
<1>6. Held(t) = { X - n + k : k \in 0 .. n - 1 }
  BY <1>3, <1>4, <1>5
<1>7. ASSUME NEW j \in X - n .. X - 1
      PROVE  j \in { X - n + k : k \in 0 .. n - 1 }
  <2>1. j - (X - n) \in 0 .. n - 1 /\ j = X - n + (j - (X - n))
    BY <1>1, <1>7
  <2>2. QED
    BY <2>1
<1>8. QED
  BY <1>1, <1>6, <1>7 DEF X

\* A step that moves the counters, but neither counts nor stores.
LEMMA TailKept ==
  ASSUME NEW t \in Threads, logOp' = logOp, buffer'[t].buf = buffer[t].buf,
         Counters(t)'.events = Counters(t).events, Executed(t)' = Executed(t)
  PROVE  Held(t)' = Held(t) /\ \A n : TailOf(t, n) => TailOf(t, n)'
<1>1. SlotsPerEvent' = SlotsPerEvent
  BY DEF SlotsPerEvent
<1>2. \A k : WholeEvent(t, k)' = WholeEvent(t, k)
  BY <1>1 DEF WholeEvent
<1>3. Held(t)' = Held(t)
  BY <1>1, <1>2 DEF Held
<1>4. QED
  BY <1>1, <1>2, <1>3 DEF TailOf

\* The other threads.
LEMMA TailOfOthers ==
  ASSUME NEW s \in Threads, logOp' = logOp, buffer'[s] = buffer[s], local'[s] = local[s],
         pc'[s] = pc[s], iter'[s] = iter[s], idx'[s] = idx[s]
  PROVE  /\ Executed(s)' = Executed(s)
         /\ Held(s)' = Held(s)
         /\ \A n : TailOf(s, n) => TailOf(s, n)'
<1>1. Executed(s)' = Executed(s) /\ Counters(s)' = Counters(s)
  BY DEF Executed, Counters
<1>2. QED
  BY <1>1, TailKept

TailsHeld ==
  \A t \in Threads, n \in Nat :
    TailOf(t, n) => Held(t) = Executed(t) - n .. Executed(t) - 1

LEMMA HeldIsATail == Inv => TailsHeld
BY HeldIsTail DEF TailsHeld

\* What t has at hand after it has logged its next event.
RingSize == (BufferSize + SlotsPerEvent - 1) \div SlotsPerEvent

Logged(t) ==
  /\ Executed(t)' = Executed(t) + 1
  /\ \/ Held(t)' = Held(t) \cup {Executed(t)}
     \/ Cardinality(Held(t) \cup {Executed(t)}) >= RingSize /\ Held(t)' = {}

\* A step that stores the event in the next slots and counts it.
LEMMA TailLogged ==
  ASSUME Inv, Inv', NEW t \in Threads, NEW n \in Nat, TailOf(t, n), logOp' = logOp,
         Executed(t)' = Executed(t) + 1,
         Counters(t)'.events \in {0, Counters(t).events + SlotsPerEvent},
         Counters(t)'.events = 0 => Counters(t).events + SlotsPerEvent >= BufferSize,
         \A k \in 0 .. n - 1 : \A j \in 0 .. SlotsPerEvent - 1 :
           buffer'[t].buf[SlotsPerEvent * k + j] = buffer[t].buf[SlotsPerEvent * k + j],
         WholeEvent(t, n)', buffer'[t].buf[SlotsPerEvent * n][1] = Executed(t)
  PROVE  Logged(t) /\ \E m \in Nat : TailOf(t, m)'
<1> DEFINE X == Executed(t)
           S == SlotsPerEvent
<1>1. /\ S \in {1, 2} /\ (S = 2 <=> logOp = "LOG_FULL_128") /\ S' = S
      /\ X \in Nat /\ n <= X /\ Counters(t).events = S * n
  BY RingSizes DEF Inv, TailOf, SlotsPerEvent
<1>2. Held(t) = X - n .. X - 1
  BY HeldIsTail
<1>3. Held(t) \cup {X} = X - n .. X
  BY <1>1, <1>2
<1>0. TailsHeld'
  BY HeldIsATail, PTL
<1>4. CASE Counters(t)'.events = Counters(t).events + S
  <2>1. Counters(t)'.events = S * (n + 1)
    BY <1>1, <1>4
  <2>2. \A k \in 0 .. n - 1 : WholeEvent(t, k)' = WholeEvent(t, k)
                              /\ buffer'[t].buf[S * k] = buffer[t].buf[S * k]
    <3>1. ASSUME NEW k \in 0 .. n - 1
          PROVE  /\ buffer'[t].buf[S * k] = buffer[t].buf[S * k]
                 /\ S = 2 => buffer'[t].buf[S * k + 1] = buffer[t].buf[S * k + 1]
      <4>1. S * k + 0 = S * k /\ 0 \in 0 .. S - 1 /\ (S = 2 => 1 \in 0 .. S - 1)
        BY <1>1
      <4>2. QED
        BY <4>1
    <3>2. QED
      BY <1>1, <3>1 DEF WholeEvent
  <2>3. \A k \in 0 .. n : WholeEvent(t, k)' /\ buffer'[t].buf[S * k][1] = X - n + k
    <3>1. \A k \in 0 .. n - 1 : WholeEvent(t, k) /\ buffer[t].buf[S * k][1] = X - n + k
      BY DEF TailOf
    <3>2. X - n + n = X /\ \A k \in 0 .. n : k = n \/ k \in 0 .. n - 1
      BY <1>1
    <3>3. QED
      BY <2>2, <3>1, <3>2
  <2>4. TailOf(t, n + 1)'
    <3>1. /\ n + 1 <= X + 1 /\ (n + 1) - 1 = n
          /\ \A k \in 0 .. n : X + 1 - (n + 1) + k = X - n + k
      BY <1>1
    <3>2. QED
      BY <1>1, <2>1, <2>3, <3>1 DEF TailOf
  <2>5. Held(t)' = X + 1 - (n + 1) .. X + 1 - 1
    BY <1>0, <1>1, <2>4 DEF TailsHeld
  <2>6. Held(t)' = Held(t) \cup {X}
    BY <1>1, <1>3, <2>5
  <2>7. QED
    BY <2>4, <2>6 DEF Logged
<1>5. CASE Counters(t)'.events = 0
  <2>1. TailOf(t, 0)'
    BY <1>1, <1>5 DEF TailOf
  <2>2. Held(t)' = {}
    <3>1. PICK z \in Nat : z = 0
      OBVIOUS
    <3>2. Held(t)' = Executed(t)' - z .. Executed(t)' - 1
      BY <1>0, <2>1, <3>1 DEF TailsHeld
    <3>3. Executed(t)' = X + 1
      OBVIOUS
    <3> HIDE DEF X
    <3>4. z > X + 1 - 1 - (X + 1 - z) /\ X + 1 - z \in Int /\ X + 1 - 1 \in Int
      BY <1>1, <3>1
    <3>5. QED
      BY <1>1, <3>1, <3>2, <3>3
  <2>3. Cardinality(Held(t) \cup {X}) = n + 1
    <3>1. /\ X - n \in Int /\ X \in Int /\ ~(X - n > X) /\ X - (X - n) + 1 = n + 1
      BY <1>1
    <3>2. Cardinality(X - n .. X) = IF X - n > X THEN 0 ELSE X - (X - n) + 1
      BY <3>1, FS_Interval
    <3>3. QED
      BY <1>3, <3>1, <3>2
  <2>4. n + 1 >= RingSize
    <3>1. BufferSize \in Nat /\ S * n + S >= BufferSize
      BY <1>1, <1>5, Sizes DEF Inv
    <3>2. QED
      BY <1>1, <3>1 DEF RingSize
  <2>5. QED
    BY <2>1, <2>2, <2>3, <2>4 DEF Logged
<1>6. QED
  BY <1>4, <1>5

-----------------------------------------------------------------------------
\* The steps that log an event.
LEMMA EntryParts ==
  ASSUME NEW t \in Threads, NEW part, NEW id
  PROVE  /\ Entry(t, part, id) # NoEvent
         /\ Entry(t, part, id)[1] = Executed(t)
         /\ Entry(t, part, id)[2] = part
         /\ Entry(t, part, id)[3] = id
BY DEF Entry, NoEvent

LEMMA StoreSlot ==
  ASSUME NEW c \in BufferType, NEW i \in Slots, NEW e
  PROVE  /\ StoreAt(c, i, e).buf[i] = e
         /\ \A j \in Slots : j # i => StoreAt(c, i, e).buf[j] = c.buf[j]
BY DEF StoreAt, BufferType

\* The slots of the events before.
LEMMA SlotsBefore ==
  ASSUME Inv, NEW t \in Threads, NEW n \in Nat, TailOf(t, n), pc[t] \in {"run", "store"}
  PROVE  /\ SlotsPerEvent * n \in Nat
         /\ SlotsPerEvent * n + SlotsPerEvent - 1 \in Slots
         /\ \A k \in 0 .. n - 1 : \A j \in 0 .. SlotsPerEvent - 1 :
              /\ SlotsPerEvent * k + j \in Slots
              /\ SlotsPerEvent * k + j < SlotsPerEvent * n
<1>1. /\ SlotsPerEvent \in {1, 2}
      /\ Counters(t).events = SlotsPerEvent * n
      /\ Counters(t).events + SlotsPerEvent - 1 \in Slots
  BY RingSizes, InvBounds DEF Inv, TailOf, IndexInBounds
<1>2. SlotsPerEvent * n + SlotsPerEvent - 1 \in Slots /\ SlotsPerEvent * n \in Nat
  BY <1>1
<1>3. Capacity \in Nat
  BY EventBufferAssumption DEF Capacity
<1>4. ASSUME NEW k \in 0 .. n - 1, NEW j \in 0 .. SlotsPerEvent - 1
      PROVE  SlotsPerEvent * k + j \in 0 .. SlotsPerEvent * n - 1
  <2>1. CASE SlotsPerEvent = 1
    BY <2>1
  <2>2. CASE SlotsPerEvent = 2
    BY <2>2
  <2>3. QED
    BY <1>1, <2>1, <2>2
<1>5. QED
  BY <1>1, <1>2, <1>3, <1>4 DEF Slots

LEMMA ExecutedNext ==
  ASSUME TypeOK, NEW t \in Threads, iter' = iter, idx' = [ idx EXCEPT ![t] = @ + 1 ]
  PROVE  Executed(t)' = Executed(t) + 1
<1>1. /\ Executed(t) = iter[t] * Length + idx[t]
      /\ iter[t] * Length \in Nat
      /\ idx[t] \in Nat /\ idx'[t] = idx[t] + 1
  BY RingSizes DEF TypeOK
<1>2. Executed(t)' = iter[t] * Length + (idx[t] + 1)
  BY <1>1 DEF Executed
<1>3. QED
  BY <1>1, <1>2

LEMMA StoredInBuffer ==
  ASSUME Inv, NEW t \in Threads, NEW n \in Nat, TailOf(t, n), logOp \notin LocalOps,
         pc[t] \in {"run", "store"}, NEW id \in Nat,
         buffer'[t] = Count(StoreAt(buffer[t], buffer[t].events, Entry(t, "event", id)))
  PROVE  /\ SlotsPerEvent = 1 /\ buffer[t].events = n /\ Counters(t) = buffer[t]
         /\ n \in Slots
         /\ buffer'[t].events \in {0, n + 1}
         /\ buffer'[t].events = 0 => n + 1 >= BufferSize
         /\ buffer'[t].buf[n] = Entry(t, "event", id)
         /\ \A k \in 0 .. n - 1 : buffer'[t].buf[k] = buffer[t].buf[k]
<1>1. TypeOK
  BY DEF Inv
<1> DEFINE e == Entry(t, "event", id)
           c == StoreAt(buffer[t], n, e)
<1>2. SlotsPerEvent = 1 /\ buffer[t].events = n /\ Counters(t) = buffer[t]
  BY DEF SlotsPerEvent, LocalOps, RefOps, TailOf, Counters
<1>3. n \in Slots /\ \A k \in 0 .. n - 1 : k \in Slots /\ k # n
  <2>1. \A k \in 0 .. n - 1 : k + 0 \in Slots /\ k + 0 < n
    <3>1. 1 * n = n /\ (\A k \in 0 .. n - 1 : 1 * k + 0 = k + 0) /\ 0 \in 0 .. 1 - 1
      OBVIOUS
    <3>2. QED
      BY <1>2, <3>1, SlotsBefore
  <2>2. n \in Slots
    <3>1. 1 * n + 1 - 1 = n
      OBVIOUS
    <3>2. QED
      BY <1>2, <3>1, SlotsBefore
  <2>3. QED
    BY <2>1, <2>2
<1>4. c \in BufferType /\ c.events = n
  <2>1. e \in Nat \X Parts \X Nat
    BY <1>1, EntryType DEF Parts
  <2>2. QED
    BY <1>1, <1>2, <2>1, StoreKeeps DEF TypeOK
<1>5. c.buf[n] = e /\ \A k \in 0 .. n - 1 : c.buf[k] = buffer[t].buf[k]
  BY <1>1, <1>3, StoreSlot DEF TypeOK
<1> HIDE DEF c, e
<1>6. buffer'[t] = Count(c)
  BY <1>2 DEF c, e
<1>7. /\ Count(c).events \in {0, c.events + SlotsPerEvent}
      /\ Count(c).events = 0 => c.events + SlotsPerEvent >= BufferSize
      /\ Count(c).buf = c.buf
  BY <1>1, <1>4, CountInBuffer
<1>8. QED
  BY <1>2, <1>3, <1>4, <1>5, <1>6, <1>7 DEF e

LEMMA LoggedInBuffer ==
  ASSUME Inv, Inv', NEW t \in Threads, LogInBuffer(t) \/ LogEventId(t),
         NEW n \in Nat, TailOf(t, n)
  PROVE  Logged(t) /\ \E m \in Nat : TailOf(t, m)'
<1>1. TypeOK
  BY DEF Inv
<1>2. /\ logOp \notin LocalOps /\ logOp' = logOp /\ pc[t] \in {"run", "store"}
      /\ iter' = iter /\ idx' = [ idx EXCEPT ![t] = @ + 1 ]
  BY DEF LogInBuffer, LogEventId, Inv, InRun, At, LocalOps, RefOps
<1>3. PICK id \in Nat :
        buffer'[t] = Count(StoreAt(buffer[t], buffer[t].events, Entry(t, "event", id)))
  <2>1. 0 \in Nat /\ eventId[t] \in Nat
    BY <1>1, LogVariantsAssumption DEF TypeOK
  <2>2. QED
    BY <1>1, <2>1 DEF LogInBuffer, LogEventId, TypeOK
<1>4. /\ SlotsPerEvent = 1 /\ buffer[t].events = n /\ Counters(t) = buffer[t]
      /\ buffer'[t].events \in {0, n + 1}
      /\ buffer'[t].events = 0 => n + 1 >= BufferSize
      /\ buffer'[t].buf[n] = Entry(t, "event", id)
      /\ \A k \in 0 .. n - 1 : buffer'[t].buf[k] = buffer[t].buf[k]
  BY <1>2, <1>3, StoredInBuffer
<1>5. Counters(t)' = buffer'[t]
  BY <1>2 DEF Counters
<1>6. WholeEvent(t, n)' /\ buffer'[t].buf[SlotsPerEvent * n][1] = Executed(t)
  <2>1. buffer'[t].buf[n] # NoEvent /\ buffer'[t].buf[n][1] = Executed(t)
    BY <1>4, EntryParts
  <2>2. SlotsPerEvent' = 1 /\ logOp' # "LOG_FULL_128" /\ 1 * n = n
    BY <1>2 DEF SlotsPerEvent, LocalOps, RefOps
  <2>3. QED
    BY <1>4, <2>1, <2>2 DEF WholeEvent
<1>7. \A k \in 0 .. n - 1 : \A j \in 0 .. SlotsPerEvent - 1 :
        buffer'[t].buf[SlotsPerEvent * k + j] = buffer[t].buf[SlotsPerEvent * k + j]
  BY <1>4
<1>8. Executed(t)' = Executed(t) + 1
  BY <1>1, <1>2, ExecutedNext
<1>9. QED
  BY <1>2, <1>4, <1>5, <1>6, <1>7, <1>8, TailLogged

LEMMA LoggedThroughRef ==
  ASSUME Inv, Inv', NEW t \in Threads, LogThroughRef(t),
         NEW n \in Nat, TailOf(t, n)
  PROVE  Logged(t) /\ \E m \in Nat : TailOf(t, m)'
<1>1. TypeOK
  BY DEF Inv
<1>2. /\ logOp \in LocalOps /\ logOp # "LOG_FULL_128" /\ logOp' = logOp
      /\ pc[t] = "run" /\ pc' = pc
      /\ iter' = iter /\ idx' = [ idx EXCEPT ![t] = @ + 1 ]
  BY DEF LogThroughRef, InRun, At
<1> DEFINE e == Entry(t, "event", 0)
           c == StoreAt(buffer[t], n, e)
<1>3. SlotsPerEvent = 1 /\ local[t].events = n /\ Counters(t) = local[t]
  BY <1>2 DEF SlotsPerEvent, TailOf, Counters
<1>4. buffer'[t] = c /\ local'[t] = Count(local[t])
  BY <1>1, <1>3 DEF LogThroughRef, TypeOK
<1>5. n \in Slots /\ \A k \in 0 .. n - 1 : k \in Slots /\ k # n
  <2>1. \A k \in 0 .. n - 1 : k + 0 \in Slots /\ k + 0 < n
    <3>1. 1 * n = n /\ (\A k \in 0 .. n - 1 : 1 * k + 0 = k + 0) /\ 0 \in 0 .. 1 - 1
      OBVIOUS
    <3>2. QED
      BY <1>2, <1>3, <3>1, SlotsBefore
  <2>2. n \in Slots
    <3>1. 1 * n + 1 - 1 = n
      OBVIOUS
    <3>2. QED
      BY <1>2, <1>3, <3>1, SlotsBefore
  <2>3. QED
    BY <2>1, <2>2
<1>6. e # NoEvent /\ e[1] = Executed(t)
  BY EntryParts
<1>7. c.buf[n] = e /\ \A k \in 0 .. n - 1 : c.buf[k] = buffer[t].buf[k]
  BY <1>1, <1>5, StoreSlot DEF TypeOK
<1> HIDE DEF c, e
<1>8. local[t] \in RefType
  BY <1>1 DEF TypeOK
<1>9. /\ Count(local[t]).events \in {0, local[t].events + SlotsPerEvent}
      /\ Count(local[t]).events = 0 => local[t].events + SlotsPerEvent >= BufferSize
  BY <1>1, <1>2, <1>8, CountInRef
<1>10. Counters(t)' = Count(local[t])
  BY <1>2, <1>4 DEF Counters
<1>11. WholeEvent(t, n)' /\ buffer'[t].buf[SlotsPerEvent * n][1] = Executed(t)
  BY <1>2, <1>3, <1>4, <1>6, <1>7 DEF WholeEvent, SlotsPerEvent
<1>12. \A k \in 0 .. n - 1 : \A j \in 0 .. SlotsPerEvent - 1 :
         buffer'[t].buf[SlotsPerEvent * k + j] = buffer[t].buf[SlotsPerEvent * k + j]
  BY <1>3, <1>4, <1>7
<1>13. Executed(t)' = Executed(t) + 1
  BY <1>1, <1>2, ExecutedNext
<1>14. QED
  BY <1>2, <1>3, <1>9, <1>10, <1>11, <1>12, <1>13, TailLogged

LEMMA LoggedFull128 ==
  ASSUME Inv, Inv', NEW t \in Threads, LogFull128(t),
         NEW n \in Nat, TailOf(t, n)
  PROVE  Logged(t) /\ \E m \in Nat : TailOf(t, m)'
<1>1. TypeOK
  BY DEF Inv
<1>2. /\ logOp = "LOG_FULL_128" /\ logOp \in LocalOps /\ logOp' = logOp
      /\ pc[t] = "run" /\ pc' = pc
      /\ iter' = iter /\ idx' = [ idx EXCEPT ![t] = @ + 1 ]
  BY DEF LogFull128, InRun, At, LocalOps, RefOps
<1> DEFINE info == Entry(t, "info", 0)
           addr == Entry(t, "addr", 0)
           half == StoreAt(buffer[t], 2 * n, info)
           full == StoreAt(half, 2 * n + 1, addr)
<1>3. SlotsPerEvent = 2 /\ local[t].events = 2 * n /\ Counters(t) = local[t]
  BY <1>2 DEF SlotsPerEvent, TailOf, Counters
<1>4. buffer'[t] = full /\ local'[t] = Count(local[t])
  BY <1>1, <1>3 DEF LogFull128, TypeOK
<1>5. /\ 2 * n \in Slots /\ 2 * n + 1 \in Slots /\ 2 * n # 2 * n + 1
      /\ \A k \in 0 .. n - 1 : \A j \in 0 .. 1 :
           2 * k + j \in Slots /\ 2 * k + j # 2 * n /\ 2 * k + j # 2 * n + 1
  <2>1. \A k \in 0 .. n - 1 : \A j \in 0 .. 2 - 1 : 2 * k + j \in Slots /\ 2 * k + j < 2 * n
    BY <1>2, <1>3, SlotsBefore
  <2>2. 2 * n \in Nat /\ 2 * n + 2 - 1 \in Slots
    BY <1>2, <1>3, SlotsBefore
  <2>3. Capacity \in Nat
    BY EventBufferAssumption DEF Capacity
  <2>4. 2 * n \in Slots /\ 2 * n + 1 \in Slots
    BY <2>2, <2>3 DEF Slots
  <2>5. \A k \in 0 .. n - 1 : \A j \in 0 .. 1 : 2 * k + j \in Slots /\ 2 * k + j < 2 * n
    BY <2>1
  <2>6. QED
    BY <2>2, <2>4, <2>5
<1>6. /\ info # NoEvent /\ info[1] = Executed(t) /\ info[2] = "info"
      /\ addr # NoEvent /\ addr[1] = Executed(t) /\ addr[2] = "addr"
  BY EntryParts
<1>7. half \in BufferType
  <2>1. info \in Nat \X Parts \X Nat
    BY <1>1, EntryType DEF Parts
  <2>2. QED
    BY <1>1, <2>1, StoreKeeps DEF TypeOK
<1> HIDE DEF info, addr
<1>8. /\ half.buf[2 * n] = info
      /\ \A j \in Slots : j # 2 * n => half.buf[j] = buffer[t].buf[j]
  BY <1>1, <1>5, StoreSlot DEF TypeOK
<1> HIDE DEF half
<1>9. /\ full.buf[2 * n + 1] = addr
      /\ \A j \in Slots : j # 2 * n + 1 => full.buf[j] = half.buf[j]
  BY <1>5, <1>7, StoreSlot
<1> HIDE DEF full
<1>10. local[t] \in RefType
  BY <1>1 DEF TypeOK
<1>11. /\ Count(local[t]).events \in {0, local[t].events + SlotsPerEvent}
       /\ Count(local[t]).events = 0 => local[t].events + SlotsPerEvent >= BufferSize
  BY <1>1, <1>2, <1>10, CountInRef
<1>12. Counters(t)' = Count(local[t])
  BY <1>2, <1>4 DEF Counters
<1>13. full.buf[2 * n] = info /\ full.buf[2 * n + 1] = addr
  BY <1>5, <1>8, <1>9
<1>14. WholeEvent(t, n)' /\ buffer'[t].buf[SlotsPerEvent * n][1] = Executed(t)
  BY <1>2, <1>3, <1>4, <1>6, <1>13 DEF WholeEvent, SlotsPerEvent
<1>15. \A k \in 0 .. n - 1 : \A j \in 0 .. SlotsPerEvent - 1 :
         buffer'[t].buf[SlotsPerEvent * k + j] = buffer[t].buf[SlotsPerEvent * k + j]
  BY <1>3, <1>4, <1>5, <1>8, <1>9
<1>16. Executed(t)' = Executed(t) + 1
  BY <1>1, <1>2, ExecutedNext
<1>17. QED
  BY <1>2, <1>3, <1>11, <1>12, <1>14, <1>15, <1>16, TailLogged

-----------------------------------------------------------------------------
\* The steps that leave what is at hand alone.
LEMMA TailOverRuns ==
  ASSUME Inv, TailInv, NEW t \in Threads, StartRun(t) \/ EndRun(t) \/ FetchEventId(t)
  PROVE  /\ Executed(t)' = Executed(t)
         /\ Held(t)' = Held(t)
         /\ \A n : TailOf(t, n) => TailOf(t, n)'
<1>1. TypeOK /\ buffer[t] \in BufferType /\ local[t] \in RefType
  BY DEF Inv, TypeOK
<1>2. CASE StartRun(t)
  <2>1. /\ logOp' = logOp /\ buffer' = buffer /\ pc[t] = "idle" /\ iter' = iter /\ idx' = idx
        /\ logOp \in LocalOps => local'[t] = MakeRef(0, buffer[t])
    BY <1>1, <1>2 DEF StartRun, At, TypeOK
  <2>2. Counters(t)'.events = Counters(t).events
    BY <2>1 DEF Counters, MakeRef
  <2>3. Executed(t)' = Executed(t)
    BY <2>1 DEF Executed
  <2>4. QED
    BY <2>1, <2>2, <2>3, TailKept
<1>3. CASE EndRun(t)
  <2>1. /\ logOp' = logOp /\ pc[t] = "run" /\ pc'[t] = "idle"
        /\ iter'[t] = iter[t] + 1 /\ idx'[t] = 0 /\ idx[t] = Length
    <3>1. idx[t] <= Length /\ idx[t] >= Length /\ idx[t] \in Nat /\ Length \in Nat
      BY <1>1, <1>3, LogVariantsAssumption DEF TailInv, EndRun, TypeOK
    <3>2. QED
      BY <1>1, <1>3, <3>1 DEF EndRun, At, Goto, TypeOK
  <2>2. Executed(t)' = Executed(t)
    <3>1. iter[t] \in Nat /\ Length \in Nat
      BY <1>1, LogVariantsAssumption DEF TypeOK
    <3>2. (iter[t] + 1) * Length + 0 = iter[t] * Length + Length
      BY <3>1
    <3>3. QED
      BY <2>1, <3>2 DEF Executed
  <2>3. buffer'[t].buf = buffer[t].buf /\ buffer'[t].events = Counters(t).events
    <3>1. CASE logOp \in RefOps
      <4>1. buffer' = [ buffer EXCEPT ![t] = WriteBack(buffer[t], local[t]) ]
        BY <1>3, <3>1 DEF EndRun, RefOps, LocalOps
      <4>2. buffer'[t] = WriteBack(buffer[t], local[t]) /\ Counters(t) = local[t]
        BY <1>1, <2>1, <3>1, <4>1 DEF Counters, LocalOps, TypeOK
      <4>3. QED
        BY <1>1, <4>2 DEF WriteBack, BufferType
    <3>2. CASE logOp = "LOG_DIRECT_LOAD"
      <4>1. /\ buffer'[t] = [ buffer[t] EXCEPT !.events = local[t].events ]
            /\ Counters(t) = local[t]
        BY <1>1, <1>3, <2>1, <3>2 DEF EndRun, Counters, LocalOps, RefOps, TypeOK
      <4>2. QED
        BY <1>1, <4>1 DEF BufferType
    <3>3. CASE logOp \notin LocalOps
      BY <1>3, <3>3 DEF EndRun, Counters, LocalOps
    <3>4. QED
      BY <3>1, <3>2, <3>3 DEF LocalOps
  <2>4. Counters(t)'.events = Counters(t).events
    BY <2>1, <2>3 DEF Counters
  <2>5. QED
    BY <2>1, <2>2, <2>3, <2>4, TailKept
<1>4. CASE FetchEventId(t)
  <2>1. /\ logOp' = logOp /\ buffer' = buffer /\ iter' = iter /\ idx' = idx
        /\ logOp \notin LocalOps
    BY <1>4 DEF FetchEventId, LocalOps, RefOps
  <2>2. Counters(t)'.events = Counters(t).events
    BY <2>1 DEF Counters
  <2>3. Executed(t)' = Executed(t)
    BY <2>1 DEF Executed
  <2>4. QED
    BY <2>1, <2>2, <2>3, TailKept
<1>5. QED
  BY <1>2, <1>3, <1>4

-----------------------------------------------------------------------------
LEMMA TailInit == Init => TailInv
<1> SUFFICES ASSUME Init, NEW t \in Threads
             PROVE  idx[t] <= Length /\ pc[t] # "store" /\ TailOf(t, 0)
  BY DEF TailInv
<1>1. TypeOK
  BY InvInit DEF Inv
<1>2. Counters(t).events = 0 /\ idx[t] = 0 /\ pc[t] # "store"
  BY DEF Counters, Init, NewBuffer
<1>3. Executed(t) \in Nat /\ SlotsPerEvent \in {1, 2}
  BY <1>1, RingSizes
<1>4. QED
  BY <1>2, <1>3, LogVariantsAssumption DEF TailOf

\* What a step of t leaves alone.
LEMMA OthersAlone ==
  ASSUME Inv, NEW t \in Threads,
         \/ StartRun(t) \/ EndRun(t)
         \/ LogInBuffer(t) \/ LogThroughRef(t) \/ LogFull128(t)
         \/ FetchEventId(t) \/ LogEventId(t),
         NEW s \in Threads \ {t}
  PROVE  /\ logOp' = logOp /\ buffer'[s] = buffer[s] /\ local'[s] = local[s]
         /\ pc'[s] = pc[s] /\ iter'[s] = iter[s] /\ idx'[s] = idx[s]
<1>1. TypeOK
  BY DEF Inv
<1>2. CASE StartRun(t)
  BY <1>1, <1>2 DEF StartRun, Goto, TypeOK
<1>3. CASE EndRun(t)
  <2>1. \/ buffer' = [ buffer EXCEPT ![t] = WriteBack(buffer[t], local[t]) ]
        \/ buffer' = [ buffer EXCEPT ![t] = [ buffer[t] EXCEPT !.events = local[t].events ] ]
        \/ buffer' = buffer
    BY <1>3 DEF EndRun, RefOps
  <2>2. buffer'[s] = buffer[s]
    BY <1>1, <2>1 DEF TypeOK
  <2>3. QED
    BY <1>1, <1>3, <2>2 DEF EndRun, Goto, TypeOK
<1>4. CASE LogInBuffer(t)
  BY <1>1, <1>4 DEF LogInBuffer, TypeOK
<1>5. CASE LogThroughRef(t)
  BY <1>1, <1>5 DEF LogThroughRef, TypeOK
<1>6. CASE LogFull128(t)
  BY <1>1, <1>6 DEF LogFull128, TypeOK
<1>7. CASE FetchEventId(t)
  BY <1>1, <1>7 DEF FetchEventId, Goto, TypeOK
<1>8. CASE LogEventId(t)
  BY <1>1, <1>8 DEF LogEventId, Goto, TypeOK
<1>9. QED
  BY <1>2, <1>3, <1>4, <1>5, <1>6, <1>7, <1>8

\* A step of t logs an event of t, or changes nothing of what is at hand.
LEMMA RingStep ==
  ASSUME Inv, Inv', TailInv, NEW t \in Threads,
         \/ StartRun(t) \/ EndRun(t)
         \/ LogInBuffer(t) \/ LogThroughRef(t) \/ LogFull128(t)
         \/ FetchEventId(t) \/ LogEventId(t)
  PROVE  /\ TailInv'
         /\ logOp' = logOp
         /\ Logged(t) \/ (Executed(t)' = Executed(t) /\ Held(t)' = Held(t))
         /\ \A s \in Threads \ {t} : Executed(s)' = Executed(s) /\ Held(s)' = Held(s)
<1>1. TypeOK /\ Length \in Nat /\ idx[t] \in Nat
  BY LogVariantsAssumption DEF Inv, TypeOK
<1>2. logOp' = logOp
  BY DEF StartRun, EndRun, LogInBuffer, LogThroughRef, LogFull128, FetchEventId, LogEventId
<1>3. PICK n \in Nat : TailOf(t, n)
  BY DEF TailInv
<1>4. /\ Logged(t) \/ (Executed(t)' = Executed(t) /\ Held(t)' = Held(t))
      /\ \E m \in Nat : TailOf(t, m)'
  <2>1. CASE LogInBuffer(t) \/ LogEventId(t)
    BY <1>3, <2>1, LoggedInBuffer
  <2>2. CASE LogThroughRef(t)
    BY <1>3, <2>2, LoggedThroughRef
  <2>3. CASE LogFull128(t)
    BY <1>3, <2>3, LoggedFull128
  <2>4. CASE StartRun(t) \/ EndRun(t) \/ FetchEventId(t)
    BY <1>3, <2>4, TailOverRuns
  <2>5. QED
    BY <2>1, <2>2, <2>3, <2>4
<1>5. idx'[t] <= Length /\ (pc'[t] = "store" => idx'[t] < Length)
  <2>1. CASE LogInBuffer(t) \/ LogThroughRef(t) \/ LogFull128(t) \/ LogEventId(t)
    BY <1>1, <2>1
    DEF TailInv, TypeOK, LogInBuffer, LogThroughRef, LogFull128, LogEventId, InRun, At, Goto
  <2>2. CASE StartRun(t) \/ EndRun(t) \/ FetchEventId(t)
    BY <1>1, <2>2 DEF TailInv, TypeOK, StartRun, EndRun, FetchEventId, InRun, At, Goto
  <2>3. QED
    BY <2>1, <2>2
<1>6. ASSUME NEW s \in Threads \ {t}
      PROVE  /\ Executed(s)' = Executed(s) /\ Held(s)' = Held(s)
             /\ idx'[s] <= Length /\ (pc'[s] = "store" => idx'[s] < Length)
             /\ \E m \in Nat : TailOf(s, m)'
  <2>1. PICK m \in Nat : TailOf(s, m)
    BY DEF TailInv
  <2>2. /\ logOp' = logOp /\ buffer'[s] = buffer[s] /\ local'[s] = local[s]
        /\ pc'[s] = pc[s] /\ iter'[s] = iter[s] /\ idx'[s] = idx[s]
    BY OthersAlone
  <2>3. QED
    BY <2>1, <2>2, TailOfOthers DEF TailInv
<1>7. TailInv'
  BY <1>4, <1>5, <1>6 DEF TailInv
<1>8. QED
  BY <1>2, <1>4, <1>6, <1>7

LEMMA RingCardinality == \A S : Ring!Cardinality(S) = Cardinality(S)
BY Zenon DEF Ring!Cardinality, Cardinality

LEMMA TailNext == Inv /\ Inv' /\ TailInv /\ [Next]_vars => TailInv' /\ [Ring!Next]_(Ring!vars)
<1> SUFFICES ASSUME Inv, Inv', TailInv, [Next]_vars
             PROVE  TailInv' /\ [Ring!Next]_(Ring!vars)
  OBVIOUS
<1>1. logOp' = logOp => RingSize' = RingSize
  BY DEF RingSize, BufferSize, SlotsPerEvent
<1>2. CASE UNCHANGED vars
  <2>1. \A s \in Threads : /\ Executed(s)' = Executed(s)
                           /\ Held(s)' = Held(s)
                           /\ \A n : TailOf(s, n) => TailOf(s, n)'
    BY <1>2, TailOfOthers DEF vars
  <2>2. TailInv'
    BY <1>2, <2>1 DEF vars, TailInv
  <2>3. UNCHANGED Ring!vars
    BY <1>1, <1>2, <2>1 DEF vars, Ring!vars, RingSize
  <2>4. QED
    BY <2>2, <2>3
<1>3. ASSUME NEW t \in Threads,
             \/ StartRun(t) \/ EndRun(t)
             \/ LogInBuffer(t) \/ LogThroughRef(t) \/ LogFull128(t)
             \/ FetchEventId(t) \/ LogEventId(t)
      PROVE  TailInv' /\ [Ring!Next]_(Ring!vars)
  <2>1. /\ TailInv'
        /\ logOp' = logOp
        /\ Logged(t) \/ (Executed(t)' = Executed(t) /\ Held(t)' = Held(t))
        /\ \A s \in Threads \ {t} : Executed(s)' = Executed(s) /\ Held(s)' = Held(s)
    BY <1>3, RingStep
  <2>2. CASE Logged(t)
    <3> DEFINE E == [ s \in Threads |-> Executed(s) ]
               H == [ s \in Threads |-> Held(s) ]
    <3>1. E' = [ E EXCEPT ![t] = @ + 1 ]
      BY <2>1, <2>2 DEF Logged
    <3>2. \/ H' = [ H EXCEPT ![t] = H[t] \cup {E[t]} ]
          \/ Cardinality(H[t] \cup {E[t]}) >= RingSize /\ H' = [ H EXCEPT ![t] = {} ]
      <4>1. H[t] = Held(t) /\ E[t] = Executed(t)
        OBVIOUS
      <4>2. CASE Held(t)' = Held(t) \cup {Executed(t)}
        BY <2>1, <4>1, <4>2
      <4>3. CASE Cardinality(Held(t) \cup {Executed(t)}) >= RingSize /\ Held(t)' = {}
        BY <2>1, <4>1, <4>3
      <4>4. QED
        BY <2>2, <4>2, <4>3 DEF Logged
    <3>3. RingSize' = RingSize
      BY <1>1, <2>1
    <3>4. Ring!Log(t)
      BY <3>1, <3>2, <3>3, RingCardinality DEF Ring!Log, RingSize
    <3>5. QED
      BY <2>1, <3>4 DEF Ring!Next
  <2>3. CASE Executed(t)' = Executed(t) /\ Held(t)' = Held(t)
    <3>1. UNCHANGED Ring!vars
      BY <1>1, <2>1, <2>3 DEF Ring!vars, RingSize
    <3>2. QED
      BY <2>1, <3>1
  <2>4. QED
    BY <2>1, <2>2, <2>3
<1>4. QED
  BY <1>2, <1>3 DEF Next, Finished

LEMMA RingInit == Init => Ring!Init
<1> SUFFICES ASSUME Init PROVE Ring!Init
  OBVIOUS
<1>1. RingSize \in Nat
  <2>1. BufferSize \in Nat /\ SlotsPerEvent \in {1, 2}
    BY InvInit, Sizes, RingSizes DEF Inv
  <2>2. QED
    BY <2>1 DEF RingSize
<1>2. ASSUME NEW t \in Threads
      PROVE  Executed(t) = 0 /\ Held(t) = {}
  <2>1. TailOf(t, 0) /\ Inv
    <3>1. Inv /\ SlotsPerEvent \in {1, 2} /\ Executed(t) \in Nat
      BY InvInit, RingSizes DEF Inv
    <3>2. Counters(t).events = 0
      BY DEF Counters, Init, NewBuffer
    <3>3. QED
      BY <3>1, <3>2 DEF TailOf
  <2>2. Executed(t) = 0
    BY LogVariantsAssumption DEF Init, Executed
  <2>3. Held(t) = Executed(t) - 0 .. Executed(t) - 1
    BY <2>1, HeldIsTail
  <2>4. QED
    BY <2>2, <2>3
<1>3. QED
  BY <1>1, <1>2 DEF Ring!Init, RingSize

\* Every operation keeps a gapless tail of its thread's events, across runs,
\* and starts over only when BUFFER_SIZE slots are used.
THEOREM VariantsKeepRecentEvents == Spec => RingOfRecentEvents
<1>1. Spec => []Inv
  BY InvInit, InvNext, PTL DEF Spec
<1>2. Spec => Ring!Spec
  BY <1>1, TailInit, TailNext, RingInit, PTL DEF Spec, Ring!Spec
<1>3. QED
  BY <1>2 DEF RingOfRecentEvents

-----------------------------------------------------------------------------
(***************************************************************************)
(* The ids of GLOBAL_COUNTER order the events, until 2^32 ids are used up. *)
(***************************************************************************)

\* The events that have an id, the one being stored included.
Fetched ==
  { e \in Threads \X Nat :
      e[2] < Executed(e[1]) + (IF pc[e[1]] = "store" THEN 1 ELSE 0) }

\* Their ids, as far as they are in a buffer, or in the hand of a thread.
InHand == { <<t, Executed(t), eventId[t]>> : t \in { s \in Threads : pc[s] = "store" } }
AllIds == (UNION { Numbered(t) : t \in Threads }) \cup InHand

AllIdsMembers ==
  \A e : e \in AllIds <=> (\E s \in Threads : e \in Numbered(s)) \/ e \in InHand

LEMMA AllIdsAre == AllIdsMembers
<1> SUFFICES ASSUME NEW e
             PROVE  e \in AllIds <=> (\E s \in Threads : e \in Numbered(s)) \/ e \in InHand
  BY DEF AllIdsMembers
<1> DEFINE all == { Numbered(s) : s \in Threads }
<1>1. AllIds = (UNION all) \cup InHand
  BY DEF AllIds
<1>2. \A s \in Threads : Numbered(s) \in all
  OBVIOUS
<1>3. \A x \in all : \E s \in Threads : x = Numbered(s)
  OBVIOUS
<1> HIDE DEF all
<1>4. e \in UNION all <=> \E x \in all : e \in x
  OBVIOUS
<1>5. (\E x \in all : e \in x) <=> \E s \in Threads : e \in Numbered(s)
  BY <1>2, <1>3
<1>6. QED
  BY <1>1, <1>4, <1>5

IdInv ==
  logOp = "GLOBAL_COUNTER" =>
    /\ IsFiniteSet(Fetched)
    /\ Cardinality(Fetched) <= IdLimit =>
         /\ Cardinality(Fetched) < IdLimit => eventIdCounter = Cardinality(Fetched)
         /\ \A e \in AllIds : e[3] \in 0 .. Cardinality(Fetched) - 1
         /\ \A e, f \in AllIds : e # f => e[3] # f[3]
         /\ \A e, f \in AllIds : e[1] = f[1] /\ e[2] < f[2] => e[3] < f[3]

\* An event in a buffer has been executed.
LEMMA NumberedBefore ==
  ASSUME Inv, TailInv, logOp = "GLOBAL_COUNTER", NEW t \in Threads, NEW e \in Numbered(t)
  PROVE  e[1] = t /\ e[2] \in Nat /\ e[2] < Executed(t)
<1>1. PICK n \in Nat : TailOf(t, n)
  BY DEF TailInv
<1>2. SlotsPerEvent = 1 /\ Counters(t) = buffer[t] /\ Executed(t) \in Nat
  BY RingSizes DEF SlotsPerEvent, Counters, LocalOps, RefOps, Inv
<1>3. PICK k \in Slots : k < buffer[t].events
                         /\ e = <<t, buffer[t].buf[k][1], buffer[t].buf[k][3]>>
  BY DEF Numbered
<1>4. k \in 0 .. n - 1 /\ 1 * k = k
  BY <1>1, <1>2, <1>3 DEF TailOf, Slots
<1>5. buffer[t].buf[k][1] = Executed(t) - n + k /\ n <= Executed(t)
  BY <1>1, <1>2, <1>4 DEF TailOf
<1>6. QED
  BY <1>2, <1>3, <1>4, <1>5

LEMMA FetchIds ==
  ASSUME Inv, TailInv, NEW t \in Threads, FetchEventId(t)
  PROVE  /\ logOp = "GLOBAL_COUNTER"
         /\ AllIds' = AllIds \cup {<<t, Executed(t), eventIdCounter>>}
         /\ \A e \in AllIds : e[1] = t => e[2] \in Nat /\ e[2] < Executed(t)
         /\ Fetched' = Fetched \cup {<<t, Executed(t)>>}
         /\ <<t, Executed(t)>> \notin Fetched
<1>0. AllIdsMembers'
  BY AllIdsAre, PTL
<1>1. TypeOK /\ \A s \in Threads : Executed(s) \in Nat
  BY RingSizes DEF Inv
<1>2. /\ logOp = "GLOBAL_COUNTER" /\ logOp' = logOp /\ pc[t] = "run"
      /\ UNCHANGED <<buffer, iter, idx>>
      /\ pc' = [ pc EXCEPT ![t] = "store" ]
      /\ eventId' = [ eventId EXCEPT ![t] = eventIdCounter ]
  BY DEF FetchEventId, InRun, At, Goto
<1>3. \A s \in Threads : Executed(s)' = Executed(s) /\ Numbered(s)' = Numbered(s)
  BY <1>2 DEF Executed, Numbered
<1>4. InHand' = InHand \cup {<<t, Executed(t), eventIdCounter>>}
  BY <1>1, <1>2, <1>3 DEF InHand, TypeOK
<1>5. AllIds' = AllIds \cup {<<t, Executed(t), eventIdCounter>>}
  BY <1>3, <1>4, AllIdsAre, <1>0 DEF AllIdsMembers
<1>6. ASSUME NEW e \in AllIds, e[1] = t
      PROVE  e[2] \in Nat /\ e[2] < Executed(t)
  <2>1. e \notin InHand
    BY <1>2, <1>6 DEF InHand
  <2>2. PICK s \in Threads : e \in Numbered(s)
    BY <2>1, AllIdsAre DEF AllIdsMembers
  <2>3. QED
    BY <1>2, <1>6, <2>2, NumberedBefore
<1>7. Fetched' = Fetched \cup {<<t, Executed(t)>>}
  <2>1. ASSUME NEW s \in Threads, NEW n \in Nat
        PROVE  <<s, n>> \in Fetched' <=> <<s, n>> \in Fetched \cup {<<t, Executed(t)>>}
    BY <1>1, <1>2, <1>3 DEF Fetched, TypeOK
  <2>2. Fetched \cup {<<t, Executed(t)>>} \subseteq Threads \X Nat /\ Fetched' \subseteq Threads \X Nat
    BY <1>1 DEF Fetched
  <2>3. QED
    BY <2>1, <2>2
<1>8. <<t, Executed(t)>> \notin Fetched
  BY <1>1, <1>2 DEF Fetched
<1>9. QED
  BY <1>2, <1>5, <1>6, <1>7, <1>8

LEMMA StoreIds ==
  ASSUME Inv, TailInv, NEW t \in Threads, LogEventId(t)
  PROVE  AllIds' \subseteq AllIds /\ Fetched' = Fetched /\ eventIdCounter' = eventIdCounter
<1>0. AllIdsMembers'
  BY AllIdsAre, PTL
<1>1. TypeOK /\ \A s \in Threads : Executed(s) \in Nat
  BY RingSizes DEF Inv
<1>2. /\ logOp \notin LocalOps /\ logOp' = logOp /\ pc[t] = "store"
      /\ iter' = iter /\ idx' = [ idx EXCEPT ![t] = @ + 1 ]
      /\ pc' = [ pc EXCEPT ![t] = "run" ]
      /\ UNCHANGED <<eventId, eventIdCounter>>
      /\ buffer' = [ buffer EXCEPT
           ![t] = Count(StoreAt(buffer[t], buffer[t].events, Entry(t, "event", eventId[t]))) ]
  BY DEF LogEventId, Inv, At, Goto, LocalOps, RefOps
<1>3. PICK n \in Nat : TailOf(t, n)
  BY DEF TailInv
<1>4. /\ buffer[t].events = n /\ n \in Slots
      /\ buffer'[t].events \in {0, n + 1}
      /\ buffer'[t].buf[n] = Entry(t, "event", eventId[t])
      /\ \A k \in 0 .. n - 1 : buffer'[t].buf[k] = buffer[t].buf[k]
  <2>1. eventId[t] \in Nat
    BY <1>1, LogVariantsAssumption DEF TypeOK
  <2>2. buffer'[t] = Count(StoreAt(buffer[t], buffer[t].events, Entry(t, "event", eventId[t])))
    BY <1>1, <1>2 DEF TypeOK
  <2>3. QED
    BY <1>2, <1>3, <2>1, <2>2, StoredInBuffer
<1>5. Executed(t)' = Executed(t) + 1
  BY <1>1, <1>2, ExecutedNext
<1>6. \A s \in Threads \ {t} : Executed(s)' = Executed(s) /\ Numbered(s)' = Numbered(s)
  BY <1>1, <1>2 DEF Executed, Numbered, TypeOK
<1>7. Numbered(t)' \subseteq Numbered(t) \cup {<<t, Executed(t), eventId[t]>>}
  <2> SUFFICES ASSUME NEW k \in Slots, k < buffer'[t].events
               PROVE  <<t, buffer'[t].buf[k][1], buffer'[t].buf[k][3]>>
                        \in Numbered(t) \cup {<<t, Executed(t), eventId[t]>>}
    BY DEF Numbered
  <2>1. k = n \/ k \in 0 .. n - 1
    BY <1>4 DEF Slots
  <2>2. CASE k = n
    BY <1>4, <2>2, EntryParts
  <2>3. CASE k \in 0 .. n - 1
    BY <1>4, <2>3 DEF Numbered
  <2>4. QED
    BY <2>1, <2>2, <2>3
<1>8. <<t, Executed(t), eventId[t]>> \in InHand
  BY <1>2 DEF InHand
<1>9. InHand' \subseteq InHand
  BY <1>1, <1>2, <1>6 DEF InHand, TypeOK
<1>10. AllIds' \subseteq AllIds
  BY <1>6, <1>7, <1>8, <1>9, AllIdsAre, <1>0 DEF AllIdsMembers
<1>11. Fetched' = Fetched
  <2>1. ASSUME NEW s \in Threads, NEW n_1 \in Nat
        PROVE  <<s, n_1>> \in Fetched' <=> <<s, n_1>> \in Fetched
    BY <1>1, <1>2, <1>5, <1>6 DEF Fetched, TypeOK
  <2>2. Fetched \subseteq Threads \X Nat /\ Fetched' \subseteq Threads \X Nat
    BY DEF Fetched
  <2>3. QED
    BY <2>1, <2>2
<1>12. QED
  BY <1>2, <1>10, <1>11

LEMMA RunIds ==
  ASSUME Inv, TailInv, logOp = "GLOBAL_COUNTER", NEW t \in Threads, StartRun(t) \/ EndRun(t)
  PROVE  AllIds' = AllIds /\ Fetched' = Fetched /\ eventIdCounter' = eventIdCounter
<1>0. AllIdsMembers'
  BY AllIdsAre, PTL
<1>1. /\ TypeOK /\ logOp \notin LocalOps /\ pc[t] # "store"
      /\ UNCHANGED <<logOp, buffer, eventId, eventIdCounter>>
      /\ pc' \in { [ pc EXCEPT ![t] = "run" ], [ pc EXCEPT ![t] = "idle" ] }
  BY DEF StartRun, EndRun, Inv, At, Goto, LocalOps, RefOps
<1>2. Executed(t)' = Executed(t)
  BY TailOverRuns
<1>3. \A s \in Threads : Executed(s)' = Executed(s) /\ Numbered(s)' = Numbered(s)
                         /\ (pc'[s] = "store" <=> pc[s] = "store")
  <2>1. \A s \in Threads \ {t} : iter'[s] = iter[s] /\ idx'[s] = idx[s] /\ pc'[s] = pc[s]
    BY OthersAlone
  <2>2. pc'[t] # "store"
    BY <1>1 DEF TypeOK
  <2>3. QED
    BY <1>1, <1>2, <2>1, <2>2 DEF Executed, Numbered
<1>4. InHand' = InHand
  BY <1>1, <1>3 DEF InHand
<1>5. AllIds' = AllIds
  BY <1>3, <1>4, AllIdsAre, <1>0 DEF AllIdsMembers
<1>6. Fetched' = Fetched
  <2>1. ASSUME NEW s \in Threads, NEW n \in Nat
        PROVE  <<s, n>> \in Fetched' <=> <<s, n>> \in Fetched
    BY <1>3 DEF Fetched
  <2>2. Fetched \subseteq Threads \X Nat /\ Fetched' \subseteq Threads \X Nat
    BY DEF Fetched
  <2>3. QED
    BY <2>1, <2>2
<1>7. QED
  BY <1>1, <1>5, <1>6

LEMMA IdNext == Inv /\ TailInv /\ IdInv /\ [Next]_vars => IdInv'
<1> SUFFICES ASSUME Inv, TailInv, IdInv, [Next]_vars, logOp' = "GLOBAL_COUNTER"
             PROVE  /\ IsFiniteSet(Fetched')
                    /\ Cardinality(Fetched') <= IdLimit =>
                         /\ Cardinality(Fetched') < IdLimit => eventIdCounter' = Cardinality(Fetched')
                         /\ \A e \in AllIds' : e[3] \in 0 .. Cardinality(Fetched') - 1
                         /\ \A e, f \in AllIds' : e # f => e[3] # f[3]
                         /\ \A e, f \in AllIds' : e[1] = f[1] /\ e[2] < f[2] => e[3] < f[3]
  BY DEF IdInv
<1>1. logOp = "GLOBAL_COUNTER"
  BY DEF Next, Finished, vars, StartRun, EndRun, LogInBuffer, LogThroughRef, LogFull128,
         FetchEventId, LogEventId
<1> DEFINE C == Cardinality(Fetched)
<1>2. /\ IsFiniteSet(Fetched) /\ C \in Nat
      /\ C <= IdLimit =>
           /\ C < IdLimit => eventIdCounter = C
           /\ \A e \in AllIds : e[3] \in 0 .. C - 1
           /\ \A e, f \in AllIds : e # f => e[3] # f[3]
           /\ \A e, f \in AllIds : e[1] = f[1] /\ e[2] < f[2] => e[3] < f[3]
  BY <1>1, FS_CardinalityType DEF IdInv
<1>3. CASE AllIds' \subseteq AllIds /\ Fetched' = Fetched /\ eventIdCounter' = eventIdCounter
  BY <1>2, <1>3
<1>4. ASSUME NEW t \in Threads, FetchEventId(t)
      PROVE  /\ IsFiniteSet(Fetched')
             /\ Cardinality(Fetched') <= IdLimit =>
                  /\ Cardinality(Fetched') < IdLimit => eventIdCounter' = Cardinality(Fetched')
                  /\ \A e \in AllIds' : e[3] \in 0 .. Cardinality(Fetched') - 1
                  /\ \A e, f \in AllIds' : e # f => e[3] # f[3]
                  /\ \A e, f \in AllIds' : e[1] = f[1] /\ e[2] < f[2] => e[3] < f[3]
  <2> DEFINE new == <<t, Executed(t), eventIdCounter>>
             D == Cardinality(Fetched')
  <2>1. /\ AllIds' = AllIds \cup {new}
        /\ \A e \in AllIds : e[1] = t => e[2] \in Nat /\ e[2] < Executed(t)
        /\ Fetched' = Fetched \cup {<<t, Executed(t)>>}
        /\ <<t, Executed(t)>> \notin Fetched
        /\ Executed(t) \in Nat
    BY <1>4, FetchIds, RingSizes DEF Inv
  <2>2. IsFiniteSet(Fetched') /\ D = C + 1
    BY <1>2, <2>1, FS_AddElement
  <2>3. IdLimit \in Nat \ {0}
    BY LogVariantsAssumption
  <2>4. new[1] = t /\ new[2] = Executed(t) /\ new[3] = eventIdCounter
    OBVIOUS
  <2> HIDE DEF new, C, D
  <2>5. ASSUME D <= IdLimit
        PROVE  /\ D < IdLimit => eventIdCounter' = D
               /\ \A e \in AllIds' : e[3] \in 0 .. D - 1
               /\ \A e, f \in AllIds' : e # f => e[3] # f[3]
               /\ \A e, f \in AllIds' : e[1] = f[1] /\ e[2] < f[2] => e[3] < f[3]
    <3>1. /\ eventIdCounter = C
          /\ \A e \in AllIds : e[3] \in 0 .. C - 1
          /\ \A e, f \in AllIds : e # f => e[3] # f[3]
          /\ \A e, f \in AllIds : e[1] = f[1] /\ e[2] < f[2] => e[3] < f[3]
      BY <1>2, <2>2, <2>3, <2>5
    <3>2. D < IdLimit => eventIdCounter' = D
      <4>1. eventIdCounter' = (C + 1) % IdLimit
        BY <1>4, <3>1 DEF FetchEventId
      <4>2. C + 1 < IdLimit => (C + 1) % IdLimit = C + 1
        BY <1>2, <2>3
      <4>3. QED
        BY <2>2, <4>1, <4>2
    <3>3. \A e \in AllIds' : e[3] \in 0 .. D - 1
      BY <1>2, <2>1, <2>2, <2>4, <3>1
    <3>4. \A e, f \in AllIds' : e # f => e[3] # f[3]
      BY <1>2, <2>1, <2>2, <2>4, <3>1
    <3>5. ASSUME NEW e \in AllIds', NEW f \in AllIds', e[1] = f[1], e[2] < f[2]
          PROVE  e[3] < f[3]
      <4>1. CASE e \in AllIds /\ f \in AllIds
        BY <3>1, <3>5, <4>1
      <4>2. CASE e \in AllIds /\ f = new
        BY <1>2, <2>4, <3>1, <4>2
      <4>3. CASE e = new /\ f \in AllIds
        <5>1. f[2] \in Nat /\ f[2] < Executed(t) /\ Executed(t) < f[2]
          BY <2>1, <2>4, <3>5, <4>3
        <5>2. QED
          BY <2>1, <5>1
      <4>4. CASE e = new /\ f = new
        BY <2>1, <2>4, <3>5, <4>4
      <4>5. QED
        BY <2>1, <4>1, <4>2, <4>3, <4>4
    <3>6. QED
      BY <3>2, <3>3, <3>4, <3>5
  <2>6. QED
    BY <2>2, <2>5 DEF D
<1>5. ASSUME NEW t \in Threads,
             \/ StartRun(t) \/ EndRun(t)
             \/ LogInBuffer(t) \/ LogThroughRef(t) \/ LogFull128(t)
             \/ LogEventId(t)
      PROVE  AllIds' \subseteq AllIds /\ Fetched' = Fetched /\ eventIdCounter' = eventIdCounter
  <2>1. ~(LogInBuffer(t) \/ LogThroughRef(t) \/ LogFull128(t))
    BY <1>1 DEF LogInBuffer, LogThroughRef, LogFull128, LocalOps, RefOps
  <2>2. CASE StartRun(t) \/ EndRun(t)
    BY <1>1, <2>2, RunIds
  <2>3. CASE LogEventId(t)
    BY <2>3, StoreIds
  <2>4. QED
    BY <1>5, <2>1, <2>2, <2>3
<1>6. CASE UNCHANGED vars
  BY <1>3, <1>6 DEF vars, AllIds, InHand, Numbered, Fetched, Executed
<1>7. QED
  BY <1>3, <1>4, <1>5, <1>6 DEF Next, Finished

LEMMA IdInit == Init => IdInv
<1> SUFFICES ASSUME Init PROVE IdInv
  OBVIOUS
<1>1. \A t \in Threads : Executed(t) = 0 /\ pc[t] # "store" /\ buffer[t].events = 0
  BY LogVariantsAssumption DEF Init, Executed, NewBuffer
<1>2. Fetched = {}
  BY <1>1 DEF Fetched
<1>3. IsFiniteSet(Fetched) /\ Cardinality(Fetched) = 0
  BY <1>2, FS_EmptySet
<1>4. \A e : e \notin AllIds
  BY <1>1, AllIdsAre DEF AllIdsMembers, InHand, Numbered, Slots
<1>5. QED
  BY <1>3, <1>4 DEF IdInv, Init

\* The ids put the events at hand in an order that agrees with the order of
\* each thread, as long as there are ids for all events.
THEOREM IdsOrderEvents == Spec => [](Cardinality(Fetched) <= IdLimit => EventIdsOrderEvents)
<1>1. Spec => []Inv
  BY InvInit, InvNext, PTL DEF Spec
<1>2. Spec => []TailInv
  BY <1>1, TailInit, TailNext, PTL DEF Spec
<1>3. Spec => []IdInv
  BY <1>1, <1>2, IdInit, IdNext, PTL DEF Spec
<1>4. IdInv => (Cardinality(Fetched) <= IdLimit => EventIdsOrderEvents)
  <2> SUFFICES ASSUME IdInv, Cardinality(Fetched) <= IdLimit, logOp = "GLOBAL_COUNTER",
                      NEW e \in UNION { Numbered(t) : t \in Threads },
                      NEW f \in UNION { Numbered(t) : t \in Threads }
               PROVE  /\ e # f => e[3] # f[3]
                      /\ e[1] = f[1] /\ e[2] < f[2] => e[3] < f[3]
    BY DEF EventIdsOrderEvents
  <2>1. e \in AllIds /\ f \in AllIds
    BY DEF AllIds
  <2>2. QED
    BY <2>1 DEF IdInv
<1>5. QED
  BY <1>3, <1>4, PTL

\* Runs are bounded, and so are the events.
RunsInv ==
  \A t \in Threads :
    /\ iter[t] <= NumIterations
    /\ pc[t] = "idle" => idx[t] = 0
    /\ pc[t] # "idle" => iter[t] < NumIterations

LEMMA RunsInit == Init => RunsInv
BY LogVariantsAssumption DEF Init, RunsInv

LEMMA RunsNext == Inv /\ RunsInv /\ [Next]_vars => RunsInv'
<1> SUFFICES ASSUME Inv, RunsInv, [Next]_vars, NEW s \in Threads
             PROVE  /\ iter'[s] <= NumIterations
                    /\ pc'[s] = "idle" => idx'[s] = 0
                    /\ pc'[s] # "idle" => iter'[s] < NumIterations
  BY DEF RunsInv
<1>1. TypeOK /\ NumIterations \in Nat /\ iter[s] \in Nat
  BY LogVariantsAssumption DEF Inv, TypeOK
<1>2. CASE UNCHANGED vars
  BY <1>2 DEF vars, RunsInv
<1>3. ASSUME NEW t \in Threads,
             \/ StartRun(t) \/ EndRun(t)
             \/ LogInBuffer(t) \/ LogThroughRef(t) \/ LogFull128(t)
             \/ FetchEventId(t) \/ LogEventId(t)
      PROVE  /\ iter'[s] <= NumIterations
             /\ pc'[s] = "idle" => idx'[s] = 0
             /\ pc'[s] # "idle" => iter'[s] < NumIterations
  <2>1. CASE s # t
    BY <1>3, <2>1, OthersAlone DEF RunsInv
  <2>2. CASE s = t
    <3>1. CASE StartRun(t)
      <4>1. pc'[t] = "run" /\ iter'[t] = iter[t] /\ iter[t] < NumIterations
        BY <1>1, <3>1 DEF StartRun, Goto, TypeOK
      <4>2. QED
        BY <1>1, <2>2, <4>1
    <3>2. CASE EndRun(t)
      <4>1. iter'[t] = iter[t] + 1 /\ pc'[t] = "idle" /\ idx'[t] = 0 /\ iter[t] < NumIterations
        BY <1>1, <2>2, <3>2 DEF EndRun, At, Goto, TypeOK, RunsInv
      <4>2. QED
        BY <1>1, <2>2, <4>1
    <3>3. CASE LogInBuffer(t) \/ LogThroughRef(t) \/ LogFull128(t) \/ FetchEventId(t) \/ LogEventId(t)
      <4>1. iter'[t] = iter[t] /\ pc[t] \in {"run", "store"} /\ pc'[t] \in {"run", "store"}
        BY <1>1, <3>3
        DEF LogInBuffer, LogThroughRef, LogFull128, FetchEventId, LogEventId, InRun, At, Goto, TypeOK
      <4>2. QED
        BY <1>1, <2>2, <4>1 DEF RunsInv
    <3>4. QED
      BY <1>3, <3>1, <3>2, <3>3
  <2>3. QED
    BY <2>1, <2>2
<1>4. QED
  BY <1>2, <1>3 DEF Next, Finished

\* No thread executes more than its runs have events.
LEMMA EventsBounded ==
  ASSUME Inv, TailInv, RunsInv, NEW t \in Threads
  PROVE  Executed(t) + (IF pc[t] = "store" THEN 1 ELSE 0) <= NumIterations * Length
<1>1. /\ iter[t] \in Nat /\ idx[t] \in Nat /\ Length \in Nat /\ NumIterations \in Nat
      /\ idx[t] <= Length
      /\ iter[t] <= NumIterations
      /\ pc[t] = "store" => idx[t] < Length
      /\ pc[t] # "idle" => iter[t] < NumIterations
  BY LogVariantsAssumption DEF Inv, TypeOK, TailInv, RunsInv
<1>2. Executed(t) = iter[t] * Length + idx[t]
  BY DEF Executed
<1>3. CASE iter[t] < NumIterations
  <2>1. PICK d \in Nat : NumIterations = iter[t] + 1 + d
    <3>1. NumIterations - iter[t] - 1 \in Nat
      BY <1>1, <1>3
    <3>2. NumIterations = iter[t] + 1 + (NumIterations - iter[t] - 1)
      BY <1>1
    <3>3. QED
      BY <3>1, <3>2
  <2>2. NumIterations * Length = iter[t] * Length + Length + d * Length
    BY <1>1, <2>1
  <2>3. d * Length \in Nat /\ iter[t] * Length \in Nat
    BY <1>1
  <2>4. QED
    BY <1>1, <1>2, <2>2, <2>3
<1>4. CASE iter[t] = NumIterations
  <2>1. pc[t] # "store"
    BY <1>1, <1>4
  <2>2. idx[t] = 0
    BY <1>1, <1>4 DEF RunsInv
  <2>3. QED
    BY <1>1, <1>2, <1>4, <2>1, <2>2
<1>5. QED
  BY <1>1, <1>3, <1>4

LEMMA FetchedBounded ==
  ASSUME IsFiniteSet(Threads), Inv, TailInv, RunsInv
  PROVE  Cardinality(Fetched) <= Cardinality(Threads) * (NumIterations * Length)
<1> DEFINE N == NumIterations * Length
<1>1. N \in Nat
  BY LogVariantsAssumption
<1> HIDE DEF N
<1>2. IsFiniteSet(0 .. N - 1) /\ Cardinality(0 .. N - 1) = N
  <2>1. Cardinality(0 .. N - 1) = IF 0 > N - 1 THEN 0 ELSE N - 1 - 0 + 1
    BY <1>1, FS_Interval
  <2>2. QED
    BY <1>1, <2>1, FS_Interval
<1>3. IsFiniteSet(Threads \X (0 .. N - 1)) /\ Cardinality(Threads \X (0 .. N - 1)) = Cardinality(Threads) * N
  BY <1>2, FS_Product
<1>4. Fetched \subseteq Threads \X (0 .. N - 1)
  <2> SUFFICES ASSUME NEW e \in Fetched
               PROVE  e \in Threads \X (0 .. N - 1)
    OBVIOUS
  <2>1. PICK t \in Threads, n \in Nat :
          e = <<t, n>> /\ n < Executed(t) + (IF pc[t] = "store" THEN 1 ELSE 0)
    BY DEF Fetched
  <2>2. /\ Executed(t) + (IF pc[t] = "store" THEN 1 ELSE 0) <= N
        /\ Executed(t) \in Nat
    BY EventsBounded, RingSizes DEF N, Inv
  <2>3. n \in 0 .. N - 1
    BY <1>1, <2>1, <2>2
  <2>4. QED
    BY <2>1, <2>3
<1>5. QED
  BY <1>3, <1>4, FS_Subset DEF N

\* In an experiment with no more than 2^32 events the order is always right.
THEOREM IdsOrderAllEvents ==
  ASSUME IsFiniteSet(Threads),
         Cardinality(Threads) * (NumIterations * Length) <= IdLimit
  PROVE  Spec => []EventIdsOrderEvents
<1>1. Spec => []Inv
  BY InvInit, InvNext, PTL DEF Spec
<1>2. Spec => []TailInv
  BY <1>1, TailInit, TailNext, PTL DEF Spec
<1>3. Spec => []RunsInv
  BY <1>1, RunsInit, RunsNext, PTL DEF Spec
<1>4. Inv /\ TailInv /\ RunsInv /\ IdInv => Cardinality(Fetched) <= IdLimit \/ logOp # "GLOBAL_COUNTER"
  <2> SUFFICES ASSUME Inv, TailInv, RunsInv, IdInv, logOp = "GLOBAL_COUNTER"
               PROVE  Cardinality(Fetched) <= IdLimit
    OBVIOUS
  <2>1. Cardinality(Fetched) \in Nat
    BY FS_CardinalityType DEF IdInv
  <2>2. Cardinality(Threads) \in Nat /\ NumIterations * Length \in Nat
    BY FS_CardinalityType, LogVariantsAssumption
  <2>3. Cardinality(Threads) * (NumIterations * Length) \in Nat
    BY <2>2
  <2>4. Cardinality(Fetched) <= Cardinality(Threads) * (NumIterations * Length)
    BY FetchedBounded
  <2>5. IdLimit \in Nat
    BY LogVariantsAssumption
  <2> DEFINE F == Cardinality(Fetched)
             M == Cardinality(Threads) * (NumIterations * Length)
  <2> HIDE DEF F, M
  <2>6. F \in Nat /\ M \in Nat /\ F <= M /\ M <= IdLimit
    BY <2>1, <2>3, <2>4 DEF F, M
  <2>7. QED
    BY <2>5, <2>6 DEF F
<1>5. Spec => []IdInv
  BY <1>1, <1>2, IdInit, IdNext, PTL DEF Spec
<1>6. logOp # "GLOBAL_COUNTER" => EventIdsOrderEvents
  BY DEF EventIdsOrderEvents
<1>7. QED
  BY <1>1, <1>2, <1>3, <1>4, <1>5, <1>6, IdsOrderEvents, PTL
=============================================================================
