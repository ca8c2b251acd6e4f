-------------------------- MODULE EpochProtoProofs --------------------------
(***************************************************************************)
(* Theorems about EpochProto, for every number of threads, buffer size,    *)
(* sampling rate and number of events.                                     *)
(***************************************************************************)
EXTENDS EpochProtoProps, SequenceTheorems, FiniteSetTheorems, TLAPS

-----------------------------------------------------------------------------
(***************************************************************************)
(* Types, the lock, and the registered pointers.                           *)
(***************************************************************************)

Logging   == { "read", "append", "count", "down", "test",
               "check", "again", "stamp", "restart", "full", "epoch" }
Resetting == { "reset_events", "reset_countdown" }
InSection == { "collect", "reclaim", "recycle" } \cup Resetting

\* A thread that counts in a buffer has one to count in.
LogBufInv == \A t \in Threads : pc[t] \in Logging => local[t].logBuf \in Buffers

\* One thread at a time is in endEpoch, and it holds the lock.
LockInv == \A t \in Threads : pc[t] \in InSection => mutex = t

\* Unless somebody is about to clear them, the registered pointers of threads
\* that have not returned are set.
RegisteredInv ==
  (\A t \in Threads : pc[t] \notin {"reclaim", "fault"}) =>
    \A s \in threadLocalBufs : pc[s] = "done" \/ logBuffer[s] # Null

\* A buffer being reset is one.
ResetInv ==
  \A t \in Threads : pc[t] \in Resetting =>
    next \in DOMAIN bufsInUse /\ bufsInUse[next] \in Buffers

ManagerInv == TypeOK /\ LogBufInv /\ LockInv /\ RegisteredInv /\ ResetInv

\* The steps that read a field of the event buffer, those that write one, and
\* those that test one.
ReadField(t)  == ReadEvents(t) \/ ReadCountdown(t) \/ ReadEpoch(t)
WriteField(t) == AppendEvent(t) \/ CountDown(t) \/ Stamp(t) \/ RestartCountdown(t)
Test(t)       == TestCountdown(t) \/ CheckRdtsc(t) \/ TestFull(t)

LEMMA ResetBufferType == ResetBuffer \in BufferType
BY EpochProtoAssumption DEF ResetBuffer, BufferType

LEMMA NoLocalsType == NoLocals \in LocalType
BY DEF NoLocals, LocalType

\* Assignments to the fields of a buffer and of the local variables.
LEMMA SetEventsType ==
  ASSUME NEW c \in BufferType, NEW n \in Nat
  PROVE  [ c EXCEPT !.events = n ] \in BufferType
BY DEF BufferType

LEMMA SetRdtscType ==
  ASSUME NEW c \in BufferType, NEW n \in Int
  PROVE  [ c EXCEPT !.eventsToRdtsc = n ] \in BufferType
BY DEF BufferType

LEMMA SetBothType ==
  ASSUME NEW c \in BufferType, NEW n \in Nat, NEW k \in Int
  PROVE  [ c EXCEPT !.events = n, !.eventsToRdtsc = k ] \in BufferType
BY DEF BufferType

\* Counting does not change the epoch of a buffer.
LEMMA EpochKept ==
  ASSUME NEW c \in BufferType
  PROVE  /\ \A n : [ c EXCEPT !.events = n ].epoch = c.epoch
         /\ \A k : [ c EXCEPT !.eventsToRdtsc = k ].epoch = c.epoch
         /\ \A n, k : [ c EXCEPT !.events = n, !.eventsToRdtsc = k ].epoch = c.epoch
BY DEF BufferType

LEMMA LocalFieldsType ==
  ASSUME NEW c \in LocalType
  PROVE  /\ \A b \in Buffers \cup {Null} : [ c EXCEPT !.logBuf = b ] \in LocalType
         /\ \A n \in Nat : [ c EXCEPT !.events = n ] \in LocalType
         /\ \A k \in Int : [ c EXCEPT !.eventsToRdtsc = k ] \in LocalType
         /\ \A e \in Nat \cup {-1} : [ c EXCEPT !.epoch = e ] \in LocalType
         /\ \A n : [ c EXCEPT !.events = n ].logBuf = c.logBuf
         /\ \A k : [ c EXCEPT !.eventsToRdtsc = k ].logBuf = c.logBuf
         /\ \A e : [ c EXCEPT !.epoch = e ].logBuf = c.logBuf
BY DEF LocalType

LEMMA FrontType ==
  ASSUME NEW s \in Seq(Buffers), s # << >>
  PROVE  Front(s) \in Seq(Buffers)
BY EmptySeq, LenProperties, SubSeqProperties DEF Front

\* A read stays on the way through __tsan_write8, and changes one local variable.
LEMMA ReadFieldFrame ==
  ASSUME TypeOK, LogBufInv, NEW t \in Threads, ReadField(t)
  PROVE  /\ UNCHANGED <<choice, globalEpoch, heap, eventBuf, logBuffer, managerVars, countVars>>
         /\ pc[t] \in Logging
         /\ \E to \in Logging \cup {"cas"} : pc' = [ pc EXCEPT ![t] = to ]
         /\ local' \in [ Threads -> LocalType ]
         /\ \A s \in Threads : local'[s].logBuf = local[s].logBuf
         /\ \A s \in Threads \ {t} : local'[s] = local[s]
<1>1. /\ UNCHANGED <<choice, globalEpoch, heap, eventBuf, logBuffer, managerVars, countVars>>
      /\ pc[t] \in Logging
      /\ \E to \in Logging \cup {"cas"} : pc' = [ pc EXCEPT ![t] = to ]
  BY DEF ReadField, ReadEvents, ReadCountdown, ReadEpoch, Move, Logging
<1>2. \E d \in LocalType : d.logBuf = local[t].logBuf /\ local' = [ local EXCEPT ![t] = d ]
  <2>1. BufferOf(t) \in BufferType
    BY <1>1 DEF TypeOK, LogBufInv, BufferOf
  <2>2. /\ BufferOf(t).events \in Nat /\ BufferOf(t).eventsToRdtsc \in Int
        /\ BufferOf(t).epoch \in Nat \cup {-1}
    BY <2>1 DEF BufferType
  <2>3. local[t] \in LocalType
    BY DEF TypeOK
  <2>4. CASE ReadEvents(t)
    <3>1. local' = [ local EXCEPT ![t] = [ local[t] EXCEPT !.events = BufferOf(t).events ] ]
      BY <2>4 DEF ReadEvents
    <3>2. QED
      BY <2>2, <2>3, <3>1, LocalFieldsType
  <2>5. CASE ReadCountdown(t)
    <3>1. local' = [ local EXCEPT ![t] = [ local[t] EXCEPT !.eventsToRdtsc = BufferOf(t).eventsToRdtsc ] ]
      BY <2>5 DEF ReadCountdown
    <3>2. QED
      BY <2>2, <2>3, <3>1, LocalFieldsType
  <2>6. CASE ReadEpoch(t)
    <3>1. local' = [ local EXCEPT ![t] = [ local[t] EXCEPT !.epoch = BufferOf(t).epoch ] ]
      BY <2>6 DEF ReadEpoch
    <3>2. QED
      BY <2>2, <2>3, <3>1, LocalFieldsType
  <2>7. QED
    BY <2>4, <2>5, <2>6 DEF ReadField
<1>3. QED
  BY <1>1, <1>2 DEF TypeOK

\* A write changes a counter of the event buffer.
LEMMA WriteFieldFrame ==
  ASSUME TypeOK, LogBufInv, NEW t \in Threads, WriteField(t)
  PROVE  /\ UNCHANGED <<choice, globalEpoch, heap, logBuffer, managerVars, local, countVars>>
         /\ pc[t] \in Logging
         /\ \E to \in Logging : pc' = [ pc EXCEPT ![t] = to ]
         /\ local[t].logBuf \in Buffers
         /\ eventBuf' \in [ Buffers -> BufferType ]
         /\ \A b \in Buffers : eventBuf'[b].epoch = eventBuf[b].epoch
         /\ \A b \in Buffers \ {local[t].logBuf} : eventBuf'[b] = eventBuf[b]
<1> DEFINE a == local[t].logBuf
<1>1. /\ UNCHANGED <<choice, globalEpoch, heap, logBuffer, managerVars, local, countVars>>
      /\ pc[t] \in Logging
      /\ \E to \in Logging : pc' = [ pc EXCEPT ![t] = to ]
  BY DEF WriteField, AppendEvent, StoreAndCount, CountDown, Stamp, RestartCountdown, Move, Logging
<1>2. a \in Buffers /\ local[t] \in LocalType
  BY <1>1 DEF TypeOK, LogBufInv
<1>3. eventBuf[a] \in BufferType
  BY <1>2 DEF TypeOK
<1>4. \E d \in BufferType : d.epoch = eventBuf[a].epoch /\ eventBuf' = [ eventBuf EXCEPT ![a] = d ]
  <2>1. CASE AppendEvent(t) \/ Stamp(t)
    <3>1. eventBuf' = [ eventBuf EXCEPT ![a] = [ eventBuf[a] EXCEPT !.events = local[t].events + 1 ] ]
      BY <2>1 DEF AppendEvent, Stamp, StoreAndCount
    <3>2. local[t].events + 1 \in Nat
      BY <1>2 DEF LocalType
    <3>3. QED
      BY <1>3, <3>1, <3>2, SetEventsType, EpochKept
  <2>2. CASE CountDown(t)
    <3>1. eventBuf' = [ eventBuf EXCEPT
                          ![a] = [ eventBuf[a] EXCEPT !.eventsToRdtsc = local[t].eventsToRdtsc - 1 ] ]
      BY <2>2 DEF CountDown
    <3>2. local[t].eventsToRdtsc - 1 \in Int
      BY <1>2 DEF LocalType
    <3>3. QED
      BY <1>3, <3>1, <3>2, SetRdtscType, EpochKept
  <2>3. CASE RestartCountdown(t)
    <3>1. eventBuf' = [ eventBuf EXCEPT ![a] = [ eventBuf[a] EXCEPT !.eventsToRdtsc = SamplingRate ] ]
      BY <2>3 DEF RestartCountdown
    <3>2. SamplingRate \in Int
      BY EpochProtoAssumption
    <3>3. QED
      BY <1>3, <3>1, <3>2, SetRdtscType, EpochKept
  <2>4. QED
    BY <2>1, <2>2, <2>3 DEF WriteField
<1>5. QED
  BY <1>1, <1>2, <1>4 DEF TypeOK

\* A test goes on with the buffer, or forgets it.
LEMMA TestFrame ==
  ASSUME TypeOK, NEW t \in Threads, Test(t)
  PROVE  /\ UNCHANGED <<choice, globalEpoch, heap, eventBuf, logBuffer, managerVars, dropped>>
         /\ idx' \in [ Threads -> Nat ]
         /\ pc[t] \in Logging
         /\ \E to \in {"slow", "run", "again", "epoch"} :
              /\ pc' = [ pc EXCEPT ![t] = to ]
              /\ to \in {"again", "epoch"} => UNCHANGED local
         /\ local' \in [ Threads -> LocalType ]
         /\ \A s \in Threads \ {t} : local'[s] = local[s]
<1>1. /\ UNCHANGED <<choice, globalEpoch, heap, eventBuf, logBuffer, managerVars, dropped>>
      /\ pc[t] \in Logging
      /\ idx' = idx \/ idx' = [ idx EXCEPT ![t] = @ + 1 ]
  BY DEF Test, TestCountdown, CheckRdtsc, TestFull, Branch, Logging, countVars
<1>2. /\ \E to \in {"slow", "run", "again", "epoch"} :
           /\ pc' = [ pc EXCEPT ![t] = to ]
           /\ to \in {"again", "epoch"} => UNCHANGED local
      /\ local' = local \/ local' = [ local EXCEPT ![t] = NoLocals ]
  <2>1. CASE TestCountdown(t)
    BY <2>1 DEF TestCountdown, Return
  <2>2. CASE CheckRdtsc(t)
    BY <2>2 DEF CheckRdtsc, Branch, Return
  <2>3. CASE TestFull(t)
    BY <2>3 DEF TestFull, Return
  <2>4. QED
    BY <2>1, <2>2, <2>3 DEF Test
<1>3. idx' \in [ Threads -> Nat ]
  <2>1. idx \in [ Threads -> Nat ] /\ idx[t] + 1 \in Nat
    BY DEF TypeOK
  <2>2. QED
    BY <1>1, <2>1
<1>4. /\ local' \in [ Threads -> LocalType ]
      /\ \A s \in Threads \ {t} : local'[s] = local[s]
  BY <1>2, NoLocalsType DEF TypeOK
<1>5. QED
  BY <1>1, <1>2, <1>3, <1>4

LEMMA InitManagerInv == Init => ManagerInv
<1> SUFFICES ASSUME Init PROVE ManagerInv
  OBVIOUS
<1>1. TypeOK
  <2>1. /\ << >> \in Seq(Buffers) /\ << >> \in Seq(Buffers \cup {Null})
        /\ \A t \in Threads : pc[t] \in {"none", "start"}
    BY EmptySeq DEF Init
  <2>2. pc \in [ Threads -> PC ]
    BY DEF Init, PC
  <2>3. heap \in 0 .. MaxBuffers
    BY EpochProtoAssumption DEF Init
  <2>4. /\ eventBuf \in [ Buffers -> BufferType ]
        /\ local \in [ Threads -> LocalType ]
    BY ResetBufferType, NoLocalsType DEF Init
  <2>5. QED
    BY <2>1, <2>2, <2>3, <2>4 DEF Init, TypeOK
<1>2. LogBufInv /\ LockInv /\ RegisteredInv /\ ResetInv
  BY DEF Init, LogBufInv, LockInv, RegisteredInv, ResetInv, Logging, InSection, Resetting
<1>3. QED
  BY <1>1, <1>2 DEF ManagerInv

LEMMA CallAllocBufferInv ==
  ASSUME ManagerInv, NEW t \in Threads, CallAllocBuffer(t)
  PROVE  ManagerInv'
<1> USE DEF ManagerInv
<1>1. PICK buf \in Buffers : AllocBuffer(t, buf)
  BY DEF CallAllocBuffer
<1>2. /\ freeBufs' \in Seq(Buffers)
      /\ heap' \in 0 .. MaxBuffers
  BY <1>1, FrontType DEF AllocBuffer, TypeOK, Buffers
<1>3. /\ pc[t] \in {"start", "alloc"}
      /\ pc' = [ pc EXCEPT ![t] = "run" ]
      /\ local' = [ local EXCEPT ![t] = NoLocals ]
  BY DEF CallAllocBuffer, Move, Return
<1>4. eventBuf' \in [ Buffers -> BufferType ]
  BY <1>1 DEF AllocBuffer, TypeOK, BufferType
<1>5. TypeOK'
  BY <1>1, <1>2, <1>3, <1>4, NoLocalsType DEF AllocBuffer, CallAllocBuffer, TypeOK, PC, countVars
<1>6. LogBufInv' /\ LockInv' /\ ResetInv'
  BY <1>1, <1>3 DEF AllocBuffer, LogBufInv, LockInv, ResetInv, TypeOK, Logging, InSection, Resetting
<1>7. RegisteredInv'
  BY <1>1, <1>3 DEF AllocBuffer, RegisteredInv, TypeOK, Null, Buffers
<1>8. QED
  BY <1>5, <1>6, <1>7

LEMMA AttachAndRingInv ==
  ASSUME ManagerInv, NEW t \in Threads, AttachStatic(t) \/ LogRing(t)
  PROVE  ManagerInv'
<1> USE DEF ManagerInv
<1>1. CASE AttachStatic(t)
  <2>1. TypeOK'
    BY <1>1 DEF AttachStatic, Move, TypeOK, PC, Buffers, managerVars, countVars
  <2>2. LogBufInv' /\ LockInv' /\ ResetInv'
    BY <1>1 DEF AttachStatic, Move, TypeOK, LogBufInv, LockInv, ResetInv, Logging, InSection, Resetting,
                managerVars
  <2>3. RegisteredInv'
    BY <1>1 DEF AttachStatic, Move, TypeOK, RegisteredInv, Null, Buffers, managerVars
  <2>4. QED
    BY <2>1, <2>2, <2>3
<1>2. CASE LogRing(t)
  <2>1. ASSUME NEW c \in BufferType
        PROVE  CountRing(c) \in BufferType
    <3> DEFINE d == [ c EXCEPT !.events = @ + 1 ]
    <3>1. d \in BufferType
      <4>1. c.events + 1 \in Nat
        BY DEF BufferType
      <4>2. QED
        BY <4>1, SetEventsType
    <3> HIDE DEF d
    <3>2. WrapEqual(d) \in BufferType
      BY <3>1, SetEventsType DEF WrapEqual
    <3>3. \A e \in BufferType : WrapAtLeast(e) \in BufferType
      BY SetEventsType DEF WrapAtLeast
    <3>4. CountRdtsc(d) \in BufferType
      <4>1. /\ d.events + 1 \in Nat
            /\ d.eventsToRdtsc - 1 \in Int
            /\ SamplingRate \in Int
        BY <3>1, EpochProtoAssumption DEF BufferType
      <4>2. /\ [ d EXCEPT !.events = @ + 1, !.eventsToRdtsc = SamplingRate ] \in BufferType
            /\ [ d EXCEPT !.eventsToRdtsc = @ - 1 ] \in BufferType
        BY <3>1, <4>1, SetBothType, SetRdtscType
      <4>3. QED
        BY <3>3, <4>2 DEF CountRdtsc
    <3>5. choice \in EqualBodies \/ choice \in AtLeastBodies \/ choice = "RDTSC"
      BY <1>2 DEF LogRing, RingBodies
    <3>6. CountRing(c) = CASE choice \in EqualBodies   -> WrapEqual(d)
                           [] choice \in AtLeastBodies -> WrapAtLeast(d)
                           [] choice = "RDTSC"         -> CountRdtsc(d)
      BY DEF CountRing, d
    <3>7. QED
      BY <3>1, <3>2, <3>3, <3>4, <3>5, <3>6 DEF EqualBodies, AtLeastBodies
  <2>2. eventBuf' \in [ Buffers -> BufferType ]
    <3> DEFINE d == CountRing(eventBuf[logBuffer[t]])
    <3>1. eventBuf' = [ eventBuf EXCEPT ![logBuffer[t]] = d ]
      BY <1>2 DEF LogRing
    <3>2. logBuffer[t] \in Buffers => d \in BufferType
      BY <2>1 DEF TypeOK
    <3> HIDE DEF d
    <3>3. QED
      BY <3>1, <3>2 DEF TypeOK
  <2>3. QED
    BY <1>2, <2>2 DEF LogRing, Move, TypeOK, PC, LogBufInv, LockInv, RegisteredInv, ResetInv,
                      Logging, InSection, Resetting, managerVars
<1>3. QED
  BY <1>1, <1>2

\* Steps within __tsan_write8 that leave the manager alone.
LEMMA FieldStepsInv ==
  ASSUME ManagerInv, NEW t \in Threads, ReadField(t) \/ WriteField(t) \/ Test(t)
  PROVE  ManagerInv'
<1> USE DEF ManagerInv
<1>1. CASE ReadField(t)
  <2>0. PICK to \in Logging \cup {"cas"} : pc' = [ pc EXCEPT ![t] = to ]
    BY <1>1, ReadFieldFrame
  <2>1. TypeOK' /\ LogBufInv'
    <3>1. pc' \in [ Threads -> PC ] /\ \A s \in Threads : pc'[s] \in Logging => pc[s] \in Logging
      BY <1>1, <2>0, ReadFieldFrame DEF TypeOK, PC, Logging
    <3>2. TypeOK'
      BY <1>1, <3>1, ReadFieldFrame DEF TypeOK, managerVars, countVars
    <3>3. LogBufInv'
      BY <1>1, <3>1, ReadFieldFrame DEF LogBufInv
    <3>4. QED
      BY <3>2, <3>3
  <2>2. LockInv' /\ RegisteredInv' /\ ResetInv'
    BY <1>1, ReadFieldFrame
       DEF TypeOK, LockInv, RegisteredInv, ResetInv, Logging, InSection, Resetting, managerVars
  <2>3. QED
    BY <2>1, <2>2
<1>2. CASE WriteField(t)
  <2>0. PICK to \in Logging : pc' = [ pc EXCEPT ![t] = to ]
    BY <1>2, WriteFieldFrame
  <2>1. TypeOK' /\ LogBufInv'
    <3>1. pc' \in [ Threads -> PC ] /\ \A s \in Threads : pc'[s] \in Logging => pc[s] \in Logging
      BY <1>2, <2>0, WriteFieldFrame DEF TypeOK, PC, Logging
    <3>2. TypeOK'
      BY <1>2, <3>1, WriteFieldFrame DEF TypeOK, managerVars, countVars
    <3>3. LogBufInv'
      BY <1>2, <3>1, WriteFieldFrame DEF LogBufInv
    <3>4. QED
      BY <3>2, <3>3
  <2>2. LockInv' /\ RegisteredInv' /\ ResetInv'
    BY <1>2, WriteFieldFrame
       DEF TypeOK, LockInv, RegisteredInv, ResetInv, Logging, InSection, Resetting, managerVars
  <2>3. QED
    BY <2>1, <2>2
<1>3. CASE Test(t)
  <2>1. TypeOK' /\ LogBufInv'
    BY <1>3, TestFrame DEF TypeOK, LogBufInv, PC, Logging, managerVars
  <2>2. LockInv' /\ RegisteredInv' /\ ResetInv'
    BY <1>3, TestFrame
       DEF TypeOK, LockInv, RegisteredInv, ResetInv, Logging, InSection, Resetting, managerVars
  <2>3. QED
    BY <2>1, <2>2
<1>4. QED
  BY <1>1, <1>2, <1>3

LEMMA LoadAndEndInv ==
  ASSUME ManagerInv, NEW t \in Threads,
         \/ LoadNothing(t) \/ LoadBuffer(t) \/ Overrun(t) \/ Reload(t)
         \/ WinEpoch(t) \/ LoseEpoch(t) \/ EndThread(t)
  PROVE  ManagerInv'
<1> USE DEF ManagerInv, managerVars, countVars, Move, Branch, LogBufInv, LockInv, RegisteredInv,
            ResetInv, Logging, InSection, Resetting
<1>1. CASE LoadNothing(t)
  BY <1>1 DEF LoadNothing, TypeOK, PC
<1>2. CASE LoadBuffer(t)
  <2>1. local' \in [ Threads -> LocalType ]
    BY <1>2, LocalFieldsType DEF LoadBuffer, TypeOK
  <2>2. /\ local'[t].logBuf \in Buffers
        /\ \A s \in Threads \ {t} : local'[s] = local[s]
    BY <1>2 DEF LoadBuffer, TypeOK, LocalType
  <2>3. QED
    BY <1>2, <2>1, <2>2 DEF LoadBuffer, TypeOK, PC
<1>3. CASE Overrun(t)
  BY <1>3 DEF Overrun, TypeOK, PC
<1>4. CASE Reload(t)
  <2>1. local' \in [ Threads -> LocalType ]
    BY <1>4, LocalFieldsType DEF Reload, TypeOK
  <2>2. TypeOK'
    BY <1>4, <2>1 DEF Reload, TypeOK, PC
  <2>3. LogBufInv'
    BY <1>4 DEF Reload, TypeOK, LocalType
  <2>4. LockInv' /\ RegisteredInv' /\ ResetInv'
    BY <1>4 DEF Reload, TypeOK
  <2>5. QED
    BY <2>2, <2>3, <2>4
<1>5. CASE WinEpoch(t)
  BY <1>5 DEF WinEpoch, TypeOK, PC
<1>6. CASE LoseEpoch(t)
  BY <1>6 DEF LoseEpoch, TypeOK, PC
<1>7. CASE EndThread(t)
  BY <1>7 DEF EndThread, TypeOK, PC
<1>8. QED
  BY <1>1, <1>2, <1>3, <1>4, <1>5, <1>6, <1>7

LEMMA EndEpochInv ==
  ASSUME ManagerInv, NEW t \in Threads, EndEpoch(t)
  PROVE  ManagerInv'
<1> USE DEF ManagerInv, managerVars, countVars, Move
<1>0. \A s \in Threads : pc[s] \in InSection => mutex = s /\ mutex # NoThread
  BY EpochProtoAssumption DEF LockInv
<1>1. CASE BeginEndEpoch(t)
  BY <1>0, <1>1 DEF BeginEndEpoch, TypeOK, PC, LogBufInv, LockInv, RegisteredInv, ResetInv, Logging,
     InSection, Resetting
<1>2. ASSUME NEW s \in Threads, Collect(t, s)
      PROVE  ManagerInv'
  <2>1. bufsInUse' \in Seq(Buffers \cup {Null})
    BY <1>2, AppendProperties DEF Collect, Pointees, TypeOK
  <2>2. ResetInv'
    BY <1>0, <1>2 DEF Collect, ResetInv, TypeOK, InSection, Resetting
  <2>3. QED
    BY <1>2, <2>1, <2>2 DEF Collect, TypeOK, PC, LogBufInv, LockInv, RegisteredInv, Logging, InSection
<1>3. CASE BeginReclaim(t)
  BY <1>0, <1>3 DEF BeginReclaim, TypeOK, PC, LogBufInv, LockInv, RegisteredInv, ResetInv, Logging,
     InSection, Resetting
<1>4. ASSUME NEW s \in Threads, Reclaim(t, s)
      PROVE  ManagerInv'
  BY <1>0, <1>4 DEF Reclaim, TypeOK, PC, LogBufInv, LockInv, RegisteredInv, ResetInv, Logging,
     InSection, Resetting
<1>5. CASE StopSpinning(t)
  BY <1>0, <1>5 DEF StopSpinning, TypeOK, PC, LogBufInv, LockInv, RegisteredInv, ResetInv, Logging,
     InSection, Resetting
<1>6. CASE ResetEpoch(t) \/ ResetEvents(t) \/ Recycle(t)
  <2>1. next \in DOMAIN bufsInUse /\ bufsInUse[next] \in Buffers
    <3>1. CASE ResetEpoch(t)
      <4>1. next \in 1 .. Len(bufsInUse) /\ DOMAIN bufsInUse = 1 .. Len(bufsInUse)
        BY <3>1, LenProperties DEF ResetEpoch, TypeOK
      <4>2. bufsInUse[next] \in Buffers \cup {Null}
        BY <4>1, ElementOfSeq DEF TypeOK
      <4>3. QED
        BY <3>1, <4>1, <4>2 DEF ResetEpoch
    <3>2. CASE ResetEvents(t) \/ Recycle(t)
      BY <3>2 DEF ResetEvents, Recycle, ResetInv, Resetting
    <3>3. QED
      BY <1>6, <3>1, <3>2
  <2>2. freeBufs' \in Seq(Buffers) /\ next' \in Nat \ {0}
    <3>1. CASE Recycle(t)
      BY <2>1, <3>1, AppendProperties DEF Recycle, TypeOK
    <3>2. CASE ResetEpoch(t) \/ ResetEvents(t)
      BY <3>2 DEF ResetEpoch, ResetEvents, TypeOK
    <3>3. QED
      BY <1>6, <3>1, <3>2
  <2>3. eventBuf' \in [ Buffers -> BufferType ]
    <3>1. eventBuf[bufsInUse[next]] \in BufferType
      BY <2>1 DEF TypeOK
    <3>2. /\ [ eventBuf[bufsInUse[next]] EXCEPT !.epoch = -1 ] \in BufferType
          /\ [ eventBuf[bufsInUse[next]] EXCEPT !.events = 0 ] \in BufferType
          /\ [ eventBuf[bufsInUse[next]] EXCEPT !.eventsToRdtsc = SamplingRate ] \in BufferType
      BY <3>1, EpochProtoAssumption DEF BufferType
    <3>3. QED
      BY <1>6, <2>1, <3>2 DEF ResetEpoch, ResetEvents, Recycle, TypeOK
  <2>4. TypeOK'
    BY <1>6, <2>2, <2>3 DEF ResetEpoch, ResetEvents, Recycle, TypeOK, PC
  <2>5. \E to \in InSection \ {"reclaim", "collect"} :
          pc' = [ pc EXCEPT ![t] = to ] /\ (to \in Resetting => next' = next)
    BY <1>6 DEF ResetEpoch, ResetEvents, Recycle, InSection, Resetting
  <2>6. /\ UNCHANGED <<logBuffer, mutex, bufsInUse, threadLocalBufs, local>>
        /\ pc[t] \in InSection \ {"reclaim", "collect"}
    BY <1>6 DEF ResetEpoch, ResetEvents, Recycle, InSection, Resetting
  <2>7. LogBufInv' /\ LockInv'
    BY <2>5, <2>6 DEF TypeOK, LogBufInv, LockInv, Logging, InSection, Resetting
  <2>8. RegisteredInv'
    <3>1. \A s \in Threads : pc[s] \in {"reclaim", "fault"} => pc'[s] = pc[s]
      BY <2>5, <2>6 DEF TypeOK, InSection, Resetting
    <3>2. \A s \in Threads : pc[s] = "done" => pc'[s] = "done"
      BY <2>5, <2>6 DEF TypeOK, InSection, Resetting
    <3>3. QED
      BY <2>6, <3>1, <3>2 DEF RegisteredInv, TypeOK
  <2>9. ResetInv'
    <3>1. \A s \in Threads \ {t} : pc'[s] \notin Resetting
      BY <1>0, <2>5, <2>6 DEF TypeOK, InSection
    <3>2. QED
      BY <2>1, <2>5, <2>6, <3>1 DEF ResetInv, TypeOK
  <2>10. QED
    BY <2>4, <2>7, <2>8, <2>9
<1>7. CASE EndEndEpoch(t)
  <2>1. \A u \in Threads : pc[u] \in {"reclaim", "fault", "done"} => pc'[u] = pc[u]
    BY <1>7 DEF EndEndEpoch, TypeOK
  <2>2. QED
    BY <1>0, <1>7, <2>1 DEF EndEndEpoch, TypeOK, PC, LogBufInv, LockInv, RegisteredInv, ResetInv, Logging,
       InSection, Resetting
<1>8. CASE Fault(t)
  <2>1. /\ UNCHANGED <<choice, globalEpoch, heap, eventBuf, logBuffer, managerVars, local, countVars>>
        /\ pc[t] \in InSection
        /\ pc' = [ pc EXCEPT ![t] = "fault" ]
    BY <1>8 DEF Fault, InSection
  <2>2. TypeOK' /\ LogBufInv' /\ LockInv' /\ ResetInv'
    BY <2>1 DEF TypeOK, PC, LogBufInv, LockInv, ResetInv, Logging, InSection, Resetting
  <2>3. RegisteredInv'
    BY <2>1 DEF RegisteredInv, TypeOK
  <2>4. QED
    BY <2>2, <2>3
<1>9. QED
  BY <1>1, <1>2, <1>3, <1>4, <1>5, <1>6, <1>7, <1>8 DEF EndEpoch

LEMMA NextManagerInv == ManagerInv /\ [Next]_vars => ManagerInv'
<1> SUFFICES ASSUME ManagerInv, [Next]_vars PROVE ManagerInv'
  OBVIOUS
<1>1. ASSUME NEW t \in Threads, ThreadStep(t)
      PROVE  ManagerInv'
  BY <1>1, CallAllocBufferInv, AttachAndRingInv, FieldStepsInv, LoadAndEndInv, EndEpochInv
     DEF ThreadStep, ReadField, WriteField, Test
<1>2. CASE UNCHANGED vars
  BY <1>2 DEF vars, managerVars, countVars, ManagerInv, TypeOK, LogBufInv, LockInv, RegisteredInv,
              ResetInv
<1>3. QED
  BY <1>1, <1>2 DEF Next, Finished

\* The variables of EpochProto have their types, for any number of threads.
THEOREM ProtoTypeCorrect == Spec => []TypeOK
<1>1. ManagerInv => TypeOK
  BY DEF ManagerInv
<1>2. QED
  BY InitManagerInv, NextManagerInv, <1>1, PTL DEF Spec

\* A NULL is collected only from a thread that has returned.
NullInv == InSeq(Null, bufsInUse) => \E s \in Threads : pc[s] = "done"

LEMMA AppendKeeps ==
  ASSUME NEW s \in Seq(Buffers \cup {Null}), NEW e \in Buffers \cup {Null}
  PROVE  \A b : InSeq(b, Append(s, e)) <=> InSeq(b, s) \/ b = e
<1>1. /\ Len(Append(s, e)) = Len(s) + 1 /\ Append(s, e)[Len(s) + 1] = e
      /\ \A i \in 1 .. Len(s) : Append(s, e)[i] = s[i]
      /\ DOMAIN s = 1 .. Len(s) /\ DOMAIN Append(s, e) = 1 .. Len(s) + 1 /\ Len(s) \in Nat
  OBVIOUS
<1>2. QED
  BY <1>1 DEF InSeq

\* The pointer of a registered thread, unless it has returned, leads to a buffer
\* when the coordinator collects it.
LEMMA CollectsBuffers ==
  ASSUME ManagerInv, \A u \in Threads : pc[u] # "fault",
         NEW t \in Threads, NEW s \in Threads, Collect(t, s)
  PROVE  pc[s] = "done" \/ logBuffer[s] \in Buffers
<1>1. \A u \in Threads : pc[u] # "reclaim"
  BY EpochProtoAssumption DEF ManagerInv, LockInv, Collect, Move, InSection
<1>2. QED
  BY <1>1 DEF ManagerInv, RegisteredInv, TypeOK, Collect

\* A thread that has returned stays so, and bufsInUse only grows.
LEMMA GrowsOnly ==
  ASSUME ManagerInv, NEW t \in Threads, ThreadStep(t)
  PROVE  /\ \A s \in Threads : pc[s] = "done" => pc'[s] = "done"
         /\ \/ UNCHANGED bufsInUse
            \/ \E s \in Threads : Collect(t, s)
<1>1. CASE ReadField(t) \/ WriteField(t) \/ Test(t)
  BY <1>1, ReadFieldFrame, WriteFieldFrame, TestFrame DEF ManagerInv, TypeOK, Logging, managerVars
<1>2. CASE \/ AttachStatic(t) \/ CallAllocBuffer(t) \/ LogRing(t) \/ LoadNothing(t) \/ LoadBuffer(t)
           \/ Overrun(t) \/ Reload(t) \/ WinEpoch(t) \/ LoseEpoch(t) \/ EndThread(t)
  BY <1>2 DEF AttachStatic, CallAllocBuffer, AllocBuffer, LogRing, LoadNothing, LoadBuffer, Overrun, Reload,
              WinEpoch, LoseEpoch, EndThread, Move, Branch, ManagerInv, TypeOK, managerVars
<1>3. CASE EndEpoch(t)
  BY <1>3 DEF EndEpoch, BeginEndEpoch, Collect, BeginReclaim, Reclaim, StopSpinning, ResetEpoch,
              ResetEvents, Recycle, EndEndEpoch, Fault, Move, ManagerInv, TypeOK, managerVars
<1>4. QED
  BY <1>1, <1>2, <1>3 DEF ThreadStep, ReadField, WriteField, Test

LEMMA NextNullInv ==
  ASSUME ManagerInv, NullInv, NEW t \in Threads, ThreadStep(t), \A u \in Threads : pc[u] # "fault"
  PROVE  NullInv'
<1>1. \A s \in Threads : pc[s] = "done" => pc'[s] = "done"
  BY GrowsOnly
<1>2. CASE UNCHANGED bufsInUse
  BY <1>1, <1>2 DEF NullInv, InSeq
<1>3. ASSUME NEW s \in Threads, Collect(t, s)
      PROVE  NullInv'
  <2>1. PICK buf \in Pointees(s) : bufsInUse' = Append(bufsInUse, buf)
    BY <1>3 DEF Collect
  <2>2. pc[s] = "done" \/ buf # Null
    BY <1>3, CollectsBuffers DEF Pointees, Null, Buffers
  <2>3. buf \in Buffers \cup {Null}
    BY DEF Pointees, ManagerInv, TypeOK
  <2>4. InSeq(Null, bufsInUse') => InSeq(Null, bufsInUse) \/ buf = Null
    BY <2>1, <2>3, AppendKeeps DEF ManagerInv, TypeOK
  <2>5. QED
    BY <1>1, <2>2, <2>4 DEF NullInv
<1>4. QED
  BY <1>2, <1>3, GrowsOnly

\* endEpoch goes wrong only over a thread that has returned, although pointers
\* are read, cleared and forgotten in three loops that may be cut short.
THEOREM FaultsExplained == Spec => []FaultsOnlyOnReturned
<1>1. Init => NullInv /\ FaultsOnlyOnReturned
  BY DEF Init, NullInv, FaultsOnlyOnReturned, InSeq
<1>2. ManagerInv /\ NullInv /\ FaultsOnlyOnReturned /\ [Next]_vars => NullInv' /\ FaultsOnlyOnReturned'
  <2> SUFFICES ASSUME ManagerInv, NullInv, FaultsOnlyOnReturned, [Next]_vars
               PROVE  NullInv' /\ FaultsOnlyOnReturned'
    OBVIOUS
  <2>1. ASSUME NEW t \in Threads, ThreadStep(t), \A u \in Threads : pc[u] # "fault"
        PROVE  NullInv' /\ FaultsOnlyOnReturned'
    <3>1. NullInv'
      BY <2>1, NextNullInv
    <3>2. CASE Fault(t)
      <4>1. \E s \in Threads : pc[s] = "done"
        <5>1. CASE \E s \in toVisit : pc[s] = "done"
          BY <5>1 DEF ManagerInv, TypeOK
        <5>2. CASE pc[t] = "recycle" /\ next <= Len(bufsInUse) /\ bufsInUse[next] = Null
          <6>1. next \in DOMAIN bufsInUse
            BY <5>2, LenProperties DEF ManagerInv, TypeOK
          <6>2. QED
            BY <5>2, <6>1 DEF NullInv, InSeq
        <5>3. QED
          BY <3>2, <5>1, <5>2 DEF Fault, Move
      <4>2. QED
        BY <2>1, <3>1, <4>1, GrowsOnly DEF FaultsOnlyOnReturned
    <3>3. CASE ~Fault(t)
      <4>1. \A s \in Threads : pc'[s] # "fault"
        <5>1. CASE ReadField(t) \/ WriteField(t) \/ Test(t)
          <6>1. \E to \in Logging \cup {"cas", "slow", "run"} : pc' = [ pc EXCEPT ![t] = to ]
            BY <5>1, ReadFieldFrame, WriteFieldFrame, TestFrame DEF ManagerInv, Logging
          <6>2. QED
            BY <2>1, <6>1 DEF ManagerInv, TypeOK, Logging
        <5>2. CASE \/ AttachStatic(t) \/ CallAllocBuffer(t) \/ LogRing(t) \/ LoadNothing(t)
                   \/ LoadBuffer(t) \/ Overrun(t) \/ Reload(t) \/ WinEpoch(t) \/ LoseEpoch(t)
                   \/ EndThread(t)
          BY <2>1, <5>2 DEF AttachStatic, CallAllocBuffer, LogRing, LoadNothing, LoadBuffer, Overrun,
             Reload, WinEpoch, LoseEpoch, EndThread, Move, Branch, ManagerInv, TypeOK
        <5>3. CASE EndEpoch(t)
          BY <2>1, <3>3, <5>3 DEF EndEpoch, BeginEndEpoch, Collect, BeginReclaim, Reclaim,
             StopSpinning, ResetEpoch, ResetEvents, Recycle, EndEndEpoch, Move, ManagerInv, TypeOK
        <5>4. QED
          BY <2>1, <5>1, <5>2, <5>3 DEF ThreadStep, ReadField, WriteField, Test
      <4>2. QED
        BY <3>1, <4>1 DEF FaultsOnlyOnReturned
    <3>4. QED
      BY <3>2, <3>3
  <2>2. CASE UNCHANGED vars
    BY <2>2 DEF vars, managerVars, NullInv, FaultsOnlyOnReturned, InSeq
  <2>3. QED
    BY <2>1, <2>2 DEF Next, Finished
<1>3. QED
  BY InitManagerInv, NextManagerInv, <1>1, <1>2, PTL DEF Spec

-----------------------------------------------------------------------------
(***************************************************************************)
(* Dropped events.                                                         *)
(***************************************************************************)

\* Coordinators that may still clear the pointer of t.
Ending(t) ==
  { s \in Threads : pc[s] \in {"end", "collect"} \/ (pc[s] = "reclaim" /\ t \in toVisit) }

\* t will drop the next event it logs.
Owed(t) == IF logBuffer[t] = Null /\ pc[t] \notin {"none", "start", "slow", "alloc"} THEN 1 ELSE 0

\* Each advance of the epoch pays for one event of each thread.
DropInv == \A t \in Threads : dropped[t] + Owed(t) + Cardinality(Ending(t)) <= globalEpoch

LEMMA EndingFinite ==
  \A t \in Threads : IsFiniteSet(Ending(t)) /\ Cardinality(Ending(t)) \in Nat
BY EpochProtoAssumption, FS_Subset, FS_CardinalityType DEF Ending

LEMMA EndingFiniteNext ==
  \A t \in Threads : IsFiniteSet(Ending(t)') /\ Cardinality(Ending(t)') \in Nat
BY EpochProtoAssumption, FS_Subset, FS_CardinalityType DEF Ending

\* A thread for which nothing gets worse in a step.
LEMMA NoWorse ==
  ASSUME ManagerInv, DropInv, NEW t \in Threads,
         dropped'[t] + Owed(t)' <= dropped[t] + Owed(t),
         dropped'[t] \in Nat,
         Ending(t)' \subseteq Ending(t),
         globalEpoch' = globalEpoch
  PROVE  dropped'[t] + Owed(t)' + Cardinality(Ending(t)') <= globalEpoch'
<1>1. Cardinality(Ending(t)') <= Cardinality(Ending(t))
  BY EndingFinite, FS_Subset
<1>2. /\ dropped[t] + Owed(t) + Cardinality(Ending(t)) <= globalEpoch
      /\ dropped[t] \in Nat /\ Owed(t) \in Nat /\ Owed(t)' \in Nat /\ globalEpoch \in Nat
  BY DEF DropInv, ManagerInv, TypeOK, Owed
<1>3. QED
  BY <1>1, <1>2, EndingFinite, EndingFiniteNext

LEMMA InitDropInv == Init => DropInv
<1> SUFFICES ASSUME Init, NEW t \in Threads
             PROVE  dropped[t] + Owed(t) + Cardinality(Ending(t)) <= globalEpoch
  BY DEF DropInv
<1>1. Ending(t) = {} /\ Owed(t) = 0 /\ dropped[t] = 0 /\ globalEpoch = 0
  BY DEF Init, Ending, Owed
<1>2. QED
  BY <1>1, FS_EmptySet

\* Steps outside endEpoch and the compare-and-swap.
LEMMA LoggingDropInv ==
  ASSUME ManagerInv, DropInv, NEW t \in Threads,
         \/ AttachStatic(t) \/ CallAllocBuffer(t) \/ LogRing(t)
         \/ LoadNothing(t) \/ LoadBuffer(t) \/ Overrun(t) \/ Reload(t)
         \/ ReadField(t) \/ WriteField(t) \/ Test(t)
         \/ LoseEpoch(t) \/ EndThread(t)
  PROVE  DropInv'
<1> USE DEF ManagerInv
<1>1. /\ pc \in [ Threads -> PC ] /\ dropped \in [ Threads -> Nat ]
      /\ logBuffer \in [ Threads -> Buffers \cup {Null} ]
  BY DEF TypeOK
<1>2. globalEpoch' = globalEpoch /\ toVisit' = toVisit
  BY ReadFieldFrame, WriteFieldFrame, TestFrame
     DEF AttachStatic, CallAllocBuffer, AllocBuffer, LogRing, LoadNothing, LoadBuffer, Overrun, Reload,
         LoseEpoch, EndThread, managerVars
<1>3. \E from, to \in PC : /\ pc[t] = from /\ pc' = [ pc EXCEPT ![t] = to ]
                           /\ to \notin {"end", "collect", "reclaim"}
                           /\ from \notin {"end", "collect", "reclaim"}
  <2>1. CASE ReadField(t)
    <3>1. PICK to \in Logging \cup {"cas"} : pc' = [ pc EXCEPT ![t] = to ]
      BY <2>1, ReadFieldFrame
    <3>2. QED
      BY <2>1, <3>1, ReadFieldFrame DEF Logging, PC
  <2>2. CASE WriteField(t)
    <3>1. PICK to \in Logging : pc' = [ pc EXCEPT ![t] = to ]
      BY <2>2, WriteFieldFrame
    <3>2. QED
      BY <2>2, <3>1, WriteFieldFrame DEF Logging, PC
  <2>3. CASE Test(t)
    BY <2>3, TestFrame DEF Logging, PC
  <2>4. CASE ~(ReadField(t) \/ WriteField(t) \/ Test(t))
    BY <2>4 DEF AttachStatic, CallAllocBuffer, LogRing, LoadNothing, LoadBuffer, Overrun, Reload,
                LoseEpoch, EndThread, Move, Branch, PC
  <2>5. QED
    BY <2>1, <2>2, <2>3, <2>4
<1>4. \A u \in Threads : Ending(u)' = Ending(u)
  BY <1>1, <1>2, <1>3 DEF Ending
<1>5. \A u \in Threads \ {t} : dropped'[u] = dropped[u] /\ Owed(u)' = Owed(u)
  <2>1. /\ \A u \in Threads \ {t} : logBuffer'[u] = logBuffer[u]
        /\ \A u \in Threads \ {t} : dropped'[u] = dropped[u]
    BY <1>1, ReadFieldFrame, WriteFieldFrame, TestFrame
       DEF AttachStatic, CallAllocBuffer, AllocBuffer, LogRing, LoadNothing, LoadBuffer, Overrun, Reload,
           LoseEpoch, EndThread, countVars
  <2>2. QED
    BY <1>1, <1>3, <2>1 DEF Owed
<1>6. dropped'[t] + Owed(t)' <= dropped[t] + Owed(t) /\ dropped'[t] \in Nat
  <2>1. CASE LoadNothing(t)
    BY <1>1, <2>1 DEF LoadNothing, Move, Owed
  <2>2. CASE AttachStatic(t)
    BY <1>1, <2>2 DEF AttachStatic, Move, Owed, countVars, Null, Buffers
  <2>3. CASE CallAllocBuffer(t)
    BY <1>1, <2>3 DEF CallAllocBuffer, AllocBuffer, Move, Owed, countVars, Null, Buffers
  <2>4. CASE Reload(t)
    BY <1>1, <2>4 DEF Reload, Branch, Owed, countVars
  <2>5. CASE \/ LogRing(t) \/ LoadBuffer(t) \/ ReadField(t) \/ WriteField(t) \/ Test(t)
             \/ Overrun(t) \/ LoseEpoch(t) \/ EndThread(t)
    <3>1. /\ dropped' = dropped /\ logBuffer' = logBuffer
          /\ pc[t] \notin {"none", "start", "slow", "alloc"}
      BY <2>5, ReadFieldFrame, WriteFieldFrame, TestFrame
         DEF LogRing, LoadBuffer, Overrun, LoseEpoch, EndThread, Move, countVars, Logging
    <3>2. QED
      BY <1>1, <3>1 DEF Owed
  <2>6. QED
    BY <2>1, <2>2, <2>3, <2>4, <2>5
<1>7. ASSUME NEW u \in Threads
      PROVE  dropped'[u] + Owed(u)' <= dropped[u] + Owed(u) /\ dropped'[u] \in Nat
  <2>1. dropped[u] \in Nat /\ Owed(u) \in Nat
    BY <1>1 DEF Owed
  <2>2. QED
    BY <1>5, <1>6, <2>1
<1>8. QED
  BY <1>2, <1>4, <1>7, NoWorse DEF DropInv

LEMMA WinEpochDropInv ==
  ASSUME ManagerInv, DropInv, NEW t \in Threads, WinEpoch(t)
  PROVE  DropInv'
<1> SUFFICES ASSUME NEW u \in Threads
             PROVE  dropped'[u] + Owed(u)' + Cardinality(Ending(u)') <= globalEpoch'
  BY DEF DropInv
<1>1. /\ dropped' = dropped /\ logBuffer' = logBuffer /\ toVisit' = toVisit
      /\ globalEpoch' = globalEpoch + 1 /\ globalEpoch \in Nat /\ dropped[u] \in Nat
      /\ pc[t] = "cas" /\ pc' = [ pc EXCEPT ![t] = "end" ] /\ pc \in [ Threads -> PC ]
  BY DEF WinEpoch, Move, ManagerInv, TypeOK, managerVars, countVars
<1>2. Owed(u)' = Owed(u) /\ Owed(u) \in Nat
  BY <1>1 DEF Owed
<1>3. Ending(u)' = Ending(u) \cup {t} /\ t \notin Ending(u)
  BY <1>1 DEF Ending
<1>4. Cardinality(Ending(u)') = Cardinality(Ending(u)) + 1
  BY <1>3, EndingFinite, FS_AddElement
<1>5. dropped[u] + Owed(u) + Cardinality(Ending(u)) <= globalEpoch
  BY DEF DropInv
<1>6. QED
  BY <1>1, <1>2, <1>4, <1>5, EndingFinite

LEMMA EndEpochDropInv ==
  ASSUME ManagerInv, DropInv, NEW t \in Threads, EndEpoch(t)
  PROVE  DropInv'
<1> SUFFICES ASSUME NEW u \in Threads
             PROVE  dropped'[u] + Owed(u)' + Cardinality(Ending(u)') <= globalEpoch'
  BY DEF DropInv
<1>0. \A s \in Threads : pc[s] \in InSection => mutex = s /\ mutex # NoThread
  BY EpochProtoAssumption DEF LockInv, ManagerInv
<1>1. /\ pc \in [ Threads -> PC ] /\ dropped \in [ Threads -> Nat ]
      /\ logBuffer \in [ Threads -> Buffers \cup {Null} ] /\ globalEpoch \in Nat
      /\ toVisit \subseteq threadLocalBufs
  BY DEF ManagerInv, TypeOK
<1>2. /\ globalEpoch' = globalEpoch /\ dropped' = dropped
  BY DEF EndEpoch, BeginEndEpoch, Collect, BeginReclaim, Reclaim, StopSpinning, ResetEpoch, ResetEvents,
         Recycle, EndEndEpoch, Fault, countVars
<1>3. ASSUME NEW s \in Threads, Reclaim(t, s), s = u
      PROVE  dropped'[u] + Owed(u)' + Cardinality(Ending(u)') <= globalEpoch'
  <2>1. Ending(u)' = Ending(u) \ {t} /\ t \in Ending(u)
    BY <1>0, <1>1, <1>3 DEF Reclaim, Move, Ending, InSection
  <2>2. Cardinality(Ending(u)') = Cardinality(Ending(u)) - 1
    BY <2>1, EndingFinite, FS_RemoveElement
  <2>3. /\ dropped[u] + Owed(u) + Cardinality(Ending(u)) <= globalEpoch
        /\ Owed(u) \in Nat /\ Owed(u)' \in {0, 1} /\ dropped[u] \in Nat
    BY <1>1 DEF DropInv, Owed
  <2>4. QED
    BY <1>1, <1>2, <2>2, <2>3, EndingFinite
<1>4. ASSUME Ending(u)' \subseteq Ending(u), Owed(u)' <= Owed(u)
      PROVE  dropped'[u] + Owed(u)' + Cardinality(Ending(u)') <= globalEpoch'
  <2>1. dropped'[u] + Owed(u)' <= dropped[u] + Owed(u) /\ dropped'[u] \in Nat
    BY <1>1, <1>2, <1>4 DEF Owed
  <2>2. QED
    BY <1>2, <1>4, <2>1, NoWorse
<1>5. ASSUME NEW s \in Threads, Reclaim(t, s), s # u
      PROVE  Ending(u)' \subseteq Ending(u) /\ Owed(u)' <= Owed(u)
  BY <1>1, <1>5 DEF Reclaim, Move, Ending, Owed
<1>6. CASE BeginEndEpoch(t)
  <2>1. \A v \in Threads : pc[v] # "reclaim"
    BY <1>0, <1>6 DEF BeginEndEpoch, InSection
  <2>2. Ending(u)' \subseteq Ending(u) /\ Owed(u)' <= Owed(u)
    BY <1>1, <1>6, <2>1 DEF BeginEndEpoch, Move, Ending, Owed
  <2>3. QED
    BY <1>4, <2>2
<1>7. ASSUME NEW s \in Threads, Collect(t, s)
      PROVE  Ending(u)' \subseteq Ending(u) /\ Owed(u)' <= Owed(u)
  BY <1>1, <1>7 DEF Collect, Move, Ending, Owed
<1>8. CASE BeginReclaim(t)
  <2>1. \A v \in Threads : pc[v] # "reclaim"
    BY <1>0, <1>8 DEF BeginReclaim, Move, InSection
  <2>2. Ending(u)' \subseteq Ending(u) /\ Owed(u)' <= Owed(u)
    BY <1>1, <1>8, <2>1 DEF BeginReclaim, Move, Ending, Owed
  <2>3. QED
    BY <1>4, <2>2
<1>9. CASE \/ StopSpinning(t) \/ ResetEpoch(t) \/ ResetEvents(t) \/ Recycle(t)
           \/ EndEndEpoch(t) \/ Fault(t)
  <2>1. StopSpinning(t) => Ending(u)' \subseteq Ending(u) /\ Owed(u)' <= Owed(u)
    BY <1>1 DEF StopSpinning, Move, Ending, Owed
  <2>2. ResetEpoch(t) \/ ResetEvents(t) \/ Recycle(t) =>
          Ending(u)' \subseteq Ending(u) /\ Owed(u)' <= Owed(u)
    BY <1>1 DEF ResetEpoch, ResetEvents, Recycle, Move, Ending, Owed, managerVars
  <2>3. EndEndEpoch(t) => Ending(u)' \subseteq Ending(u) /\ Owed(u)' <= Owed(u)
    BY <1>1 DEF EndEndEpoch, Move, Ending, Owed
  <2>4. Fault(t) => Ending(u)' \subseteq Ending(u) /\ Owed(u)' <= Owed(u)
    BY <1>1 DEF Fault, Move, Ending, Owed, managerVars
  <2>5. QED
    BY <1>4, <1>9, <2>1, <2>2, <2>3, <2>4
<1>10. QED
  BY <1>3, <1>4, <1>5, <1>6, <1>7, <1>8, <1>9 DEF EndEpoch

\* A thread drops at most one event an epoch, however many threads race for
\* the ends of epochs and whenever their coordinators get the lock.
THEOREM FewDropped == Spec => []DroppedBounded
<1>1. ManagerInv /\ DropInv /\ [Next]_vars => DropInv'
  <2> SUFFICES ASSUME ManagerInv, DropInv, [Next]_vars PROVE DropInv'
    OBVIOUS
  <2>1. ASSUME NEW t \in Threads, ThreadStep(t)
        PROVE  DropInv'
    BY <2>1, LoggingDropInv, WinEpochDropInv, EndEpochDropInv DEF ThreadStep, ReadField, WriteField, Test
  <2>2. CASE UNCHANGED vars
    BY <2>2 DEF vars, managerVars, countVars, DropInv, Owed, Ending
  <2>3. QED
    BY <2>1, <2>2 DEF Next, Finished
<1>2. ManagerInv /\ DropInv => DroppedBounded
  <2> SUFFICES ASSUME ManagerInv, DropInv, NEW t \in Threads
               PROVE  dropped[t] <= globalEpoch
    BY DEF DroppedBounded
  <2>1. /\ dropped[t] + Owed(t) + Cardinality(Ending(t)) <= globalEpoch
        /\ dropped[t] \in Nat /\ Owed(t) \in Nat /\ globalEpoch \in Nat
    BY DEF DropInv, ManagerInv, TypeOK, Owed
  <2>2. QED
    BY <2>1, EndingFinite
<1>3. QED
  BY InitManagerInv, NextManagerInv, InitDropInv, <1>1, <1>2, PTL DEF Spec

-----------------------------------------------------------------------------
(***************************************************************************)
(* Index in bounds.                                                        *)
(***************************************************************************)

\* Between two timestamps there is room for the events until the next one,
\* and for that one.
InBatch(events, toRdtsc) ==
  toRdtsc \in 1 .. SamplingRate /\ events + toRdtsc < MaxEvents + SamplingRate

RingOK(c) ==
  IF choice = "RDTSC" THEN InBatch(c.events, c.eventsToRdtsc) ELSE c.events < MaxEvents

RingInv ==
  choice # "EPOCH" =>
    /\ \A t \in Threads : pc[t] \in {"none", "start", "run", "done"}
    /\ \A t \in Threads : pc[t] = "run" => logBuffer[t] \in Buffers
    /\ \A b \in Buffers : RingOK(eventBuf[b])

LEMMA RingStaysInBatch ==
  ASSUME NEW c \in BufferType, RingOK(c), choice \in RingBodies
  PROVE  RingOK(CountRing(c))
<1> DEFINE d == [ c EXCEPT !.events = @ + 1 ]
<1>1. /\ d \in BufferType /\ d.events = c.events + 1 /\ d.eventsToRdtsc = c.eventsToRdtsc
      /\ c.events \in Nat /\ c.eventsToRdtsc \in Int
  BY SetEventsType DEF BufferType
<1> HIDE DEF d
<1>2. CASE choice \in EqualBodies
  <2>1. CountRing(c) = WrapEqual(d)
    BY <1>2 DEF CountRing, d, EqualBodies, AtLeastBodies
  <2>2. WrapEqual(d).events < MaxEvents
    <3>1. CASE d.events = MaxEvents
      <4>1. WrapEqual(d).events = 0
        BY <1>1, <3>1 DEF WrapEqual, BufferType
      <4>2. QED
        BY <4>1, EpochProtoAssumption
    <3>2. CASE d.events # MaxEvents
      BY <1>1, <1>2, <3>2, EpochProtoAssumption DEF WrapEqual, RingOK, EqualBodies
    <3>3. QED
      BY <3>1, <3>2
  <2>3. QED
    BY <1>2, <2>1, <2>2 DEF RingOK, EqualBodies
<1>3. ASSUME NEW e \in BufferType
      PROVE  /\ WrapAtLeast(e).events < MaxEvents
             /\ WrapAtLeast(e).eventsToRdtsc = e.eventsToRdtsc
  <2>1. CASE e.events >= MaxEvents
    <3>1. WrapAtLeast(e) = [ e EXCEPT !.events = 0 ]
      BY <2>1 DEF WrapAtLeast
    <3>2. WrapAtLeast(e).events = 0 /\ WrapAtLeast(e).eventsToRdtsc = e.eventsToRdtsc
      BY <3>1 DEF BufferType
    <3>3. QED
      BY <3>2, EpochProtoAssumption
  <2>2. CASE ~(e.events >= MaxEvents)
    BY <2>2, EpochProtoAssumption DEF WrapAtLeast, BufferType
  <2>3. QED
    BY <2>1, <2>2
<1>4. CASE choice \in AtLeastBodies
  <2>1. CountRing(c) = WrapAtLeast(d)
    BY <1>4 DEF CountRing, d, EqualBodies, AtLeastBodies
  <2>2. QED
    BY <1>1, <1>3, <1>4, <2>1 DEF RingOK, AtLeastBodies
<1>5. CASE choice = "RDTSC"
  <2>1. CountRing(c) = CountRdtsc(d)
    BY <1>5 DEF CountRing, d, EqualBodies, AtLeastBodies
  <2>2. InBatch(c.events, c.eventsToRdtsc)
    BY <1>5 DEF RingOK
  <2>3. CASE d.eventsToRdtsc = 1
    <3> DEFINE e == [ d EXCEPT !.events = @ + 1, !.eventsToRdtsc = SamplingRate ]
    <3>1. e \in BufferType /\ e.eventsToRdtsc = SamplingRate
      <4>1. d.events + 1 \in Nat /\ SamplingRate \in Int
        BY <1>1, EpochProtoAssumption
      <4>2. e \in BufferType
        BY <1>1, <4>1, SetBothType
      <4>3. e.eventsToRdtsc = SamplingRate
        BY <1>1 DEF BufferType
      <4>4. QED
        BY <4>2, <4>3
    <3> HIDE DEF e
    <3>2. CountRdtsc(d) = WrapAtLeast(e)
      BY <2>3 DEF CountRdtsc, e
    <3>3. InBatch(WrapAtLeast(e).events, WrapAtLeast(e).eventsToRdtsc)
      <4>1. WrapAtLeast(e).events < MaxEvents /\ WrapAtLeast(e).eventsToRdtsc = SamplingRate
        BY <1>3, <3>1
      <4>2. WrapAtLeast(e).events \in Int
        BY <3>1 DEF WrapAtLeast, BufferType
      <4>3. QED
        BY <4>1, <4>2, EpochProtoAssumption DEF InBatch
    <3>4. QED
      BY <1>5, <2>1, <3>2, <3>3 DEF RingOK
  <2>4. CASE d.eventsToRdtsc # 1
    <3>1. /\ CountRdtsc(d).events = c.events + 1
          /\ CountRdtsc(d).eventsToRdtsc = c.eventsToRdtsc - 1
      BY <1>1, <2>4 DEF CountRdtsc, BufferType
    <3>2. QED
      BY <1>1, <1>5, <2>1, <2>2, <2>4, <3>1, EpochProtoAssumption DEF RingOK, InBatch
  <2>5. QED
    BY <2>3, <2>4
<1>6. QED
  BY <1>2, <1>4, <1>5 DEF RingBodies

LEMMA FreshInBatch == RingOK(ResetBuffer) /\ InBatch(0, SamplingRate)
BY EpochProtoAssumption DEF RingOK, InBatch, ResetBuffer

LEMMA InitRingInv == Init => RingInv
BY FreshInBatch DEF Init, RingInv

\* INSTRUMENT_CHOICE is a constant.
LEMMA ChoiceFixed ==
  ASSUME ManagerInv, NEW t \in Threads, ThreadStep(t)
  PROVE  choice' = choice
<1>1. CASE ReadField(t) \/ WriteField(t) \/ Test(t)
  BY <1>1, ReadFieldFrame, WriteFieldFrame, TestFrame DEF ManagerInv
<1>2. CASE EndEpoch(t)
  BY <1>2 DEF EndEpoch, BeginEndEpoch, Collect, BeginReclaim, Reclaim, StopSpinning, ResetEpoch,
              ResetEvents, Recycle, EndEndEpoch, Fault
<1>3. QED
  BY <1>1, <1>2 DEF ThreadStep, ReadField, WriteField, Test, AttachStatic, CallAllocBuffer, LogRing,
     LoadNothing, LoadBuffer, Overrun, Reload, WinEpoch, LoseEpoch, EndThread

LEMMA NextRingInv == ManagerInv /\ RingInv /\ [Next]_vars => RingInv'
<1> SUFFICES ASSUME ManagerInv, RingInv, [Next]_vars, choice' # "EPOCH"
             PROVE  /\ \A t \in Threads : pc'[t] \in {"none", "start", "run", "done"}
                    /\ \A t \in Threads : pc'[t] = "run" => logBuffer'[t] \in Buffers
                    /\ \A b \in Buffers : RingOK(eventBuf[b])'
  BY DEF RingInv
<1>1. choice' = choice
  <2>1. ASSUME NEW t \in Threads, ThreadStep(t)
        PROVE  choice' = choice
    BY <2>1, ChoiceFixed
  <2>2. QED
    BY <2>1 DEF Next, Finished, vars
<1>2. /\ \A t \in Threads : pc[t] \in {"none", "start", "run", "done"}
      /\ \A t \in Threads : pc[t] = "run" => logBuffer[t] \in Buffers
      /\ \A b \in Buffers : RingOK(eventBuf[b])
      /\ choice \in RingBodies
      /\ pc \in [ Threads -> PC ] /\ logBuffer \in [ Threads -> Buffers \cup {Null} ]
      /\ eventBuf \in [ Buffers -> BufferType ]
  BY <1>1, EpochProtoAssumption DEF RingInv, ManagerInv, TypeOK
<1>4. ASSUME NEW t \in Threads, ThreadStep(t)
      PROVE  AttachStatic(t) \/ CallAllocBuffer(t) \/ LogRing(t) \/ EndThread(t)
  <2>1. ~ReadField(t) /\ ~WriteField(t) /\ ~Test(t)
    BY <1>2, ReadFieldFrame, WriteFieldFrame, TestFrame DEF ManagerInv, Logging
  <2>2. ~EndEpoch(t)
    BY <1>2 DEF EndEpoch, BeginEndEpoch, Collect, BeginReclaim, Reclaim, StopSpinning, ResetEpoch,
       ResetEvents, Recycle, EndEndEpoch, Fault, Move
  <2>3. ~LoadNothing(t) /\ ~LoadBuffer(t) /\ ~Overrun(t) /\ ~Reload(t) /\ ~WinEpoch(t) /\ ~LoseEpoch(t)
    BY <1>1, <1>2 DEF LoadNothing, LoadBuffer, Overrun, Reload, WinEpoch, LoseEpoch, Move, Branch
  <2>4. QED
    BY <1>4, <2>1, <2>2, <2>3 DEF ThreadStep, ReadField, WriteField, Test
<1>5. ASSUME NEW t \in Threads, AttachStatic(t)
      PROVE  /\ \A u \in Threads : pc'[u] \in {"none", "start", "run", "done"}
             /\ \A u \in Threads : pc'[u] = "run" => logBuffer'[u] \in Buffers
             /\ eventBuf' = eventBuf
  BY <1>2, <1>5 DEF AttachStatic, Move
<1>6. ASSUME NEW t \in Threads, CallAllocBuffer(t)
      PROVE  /\ \A u \in Threads : pc'[u] \in {"none", "start", "run", "done"}
             /\ \A u \in Threads : pc'[u] = "run" => logBuffer'[u] \in Buffers
             /\ \A b \in Buffers : RingOK(eventBuf[b])'
  <2>1. PICK buf \in Buffers : AllocBuffer(t, buf)
    BY <1>6 DEF CallAllocBuffer
  <2>2. \A b \in Buffers : /\ eventBuf'[b].events = eventBuf[b].events
                           /\ eventBuf'[b].eventsToRdtsc = eventBuf[b].eventsToRdtsc
    BY <1>2, <2>1 DEF AllocBuffer, BufferType
  <2>3. \A b \in Buffers : RingOK(eventBuf[b])'
    BY <1>1, <1>2, <2>2 DEF RingOK, InBatch
  <2>4. QED
    BY <1>2, <1>6, <2>1, <2>3 DEF AllocBuffer, CallAllocBuffer, Move
<1>7. ASSUME NEW t \in Threads, LogRing(t)
      PROVE  /\ \A u \in Threads : pc'[u] \in {"none", "start", "run", "done"}
             /\ \A u \in Threads : pc'[u] = "run" => logBuffer'[u] \in Buffers
             /\ \A b \in Buffers : RingOK(eventBuf[b])'
  <2>1. \A b \in Buffers : eventBuf'[b] = eventBuf[b] \/ eventBuf'[b] = CountRing(eventBuf[b])
    BY <1>2, <1>7 DEF LogRing
  <2>2. \A b \in Buffers : RingOK(eventBuf'[b])
    BY <1>2, <2>1, RingStaysInBatch
  <2>3. \A b \in Buffers : RingOK(eventBuf[b])'
    BY <1>1, <2>2 DEF RingOK
  <2>4. QED
    BY <1>2, <1>7, <2>3 DEF LogRing, Move
<1>8. ASSUME NEW t \in Threads, EndThread(t)
      PROVE  /\ \A u \in Threads : pc'[u] \in {"none", "start", "run", "done"}
             /\ \A u \in Threads : pc'[u] = "run" => logBuffer'[u] \in Buffers
             /\ eventBuf' = eventBuf
  BY <1>2, <1>8 DEF EndThread, Move
<1>9. eventBuf' = eventBuf => \A b \in Buffers : RingOK(eventBuf[b])'
  BY <1>1, <1>2 DEF RingOK
<1>10. CASE UNCHANGED vars
  BY <1>2, <1>9, <1>10 DEF vars
<1>11. QED
  BY <1>4, <1>5, <1>6, <1>7, <1>8, <1>9, <1>10 DEF Next, Finished

\* The pcs at which a lone thread holds a buffer.
Holding == Logging \cup { "run", "slow", "cas", "end" }

Alone(t) == \A s \in Threads \ {t} : pc[s] = "none"

\* A buffer nobody has logged to since it was reset.
Fresh(b) == eventBuf[b].events = 0 /\ eventBuf[b].eventsToRdtsc = SamplingRate

\* A lone EPOCH thread has its buffer registered, and of its own epoch; all
\* others are fresh.
SoleHolds(t) ==
  pc[t] \in Holding =>
    /\ logBuffer[t] \in Buffers
    /\ t \in threadLocalBufs
    /\ \A b \in Buffers \ {logBuffer[t]} : Fresh(b)
    /\ pc[t] # "end" => eventBuf[logBuffer[t]].epoch = globalEpoch

\* How far it has got with an event, and so with its batch.
SoleLogs(t) ==
  LET c == eventBuf[logBuffer[t]]
      l == local[t]
  IN  /\ pc[t] # "lost"
      /\ pc[t] \in Logging \cup {"cas"} => l.logBuf = logBuffer[t]
      /\ pc[t] \in {"run", "read", "append"} => InBatch(c.events, c.eventsToRdtsc)
      /\ pc[t] \in {"append", "stamp"} => l.events = c.events
      /\ pc[t] \in {"count", "down"} => InBatch(c.events - 1, c.eventsToRdtsc)
      /\ pc[t] = "down" => l.eventsToRdtsc = c.eventsToRdtsc
      /\ pc[t] = "test" => /\ c.eventsToRdtsc = l.eventsToRdtsc - 1
                           /\ c.eventsToRdtsc = 0 \/ InBatch(c.events, c.eventsToRdtsc)
      /\ pc[t] \in {"test", "slow", "check", "again", "stamp"} => c.events < MaxEvents + SamplingRate
      /\ pc[t] \in {"slow", "check", "again", "stamp"} => c.eventsToRdtsc = 0
      /\ pc[t] \in {"restart", "full"} => c.events = l.events + 1
      /\ pc[t] = "full" => c.eventsToRdtsc = SamplingRate
      /\ pc[t] = "cas"  => l.epoch = c.epoch

\* At the end of an epoch it resets every buffer it has logged to.
SoleRecycles(t) ==
  /\ pc[t] \in {"start", "alloc"} => \A b \in Buffers : Fresh(b)
  /\ pc[t] = "collect" =>
       \A b \in Buffers : Fresh(b) \/ InSeq(b, bufsInUse) \/ (b = logBuffer[t] /\ t \in toVisit)
  /\ pc[t] = "reclaim" => \A b \in Buffers : Fresh(b) \/ InSeq(b, bufsInUse)
  /\ pc[t] \in {"recycle"} \cup Resetting =>
       \A b \in Buffers : Fresh(b) \/ \E i \in next .. Len(bufsInUse) : bufsInUse[i] = b
  /\ pc[t] = "reset_countdown" => eventBuf[bufsInUse[next]].events = 0

SoleInv ==
  choice = "EPOCH" =>
    \A t \in Threads : Alone(t) => SoleHolds(t) /\ SoleLogs(t) /\ SoleRecycles(t)

\* A step is one of a thread that was created.
LEMMA ThreadMoves ==
  ASSUME ManagerInv, NEW t \in Threads, ThreadStep(t)
  PROVE  pc[t] # "none" /\ \E to \in PC \ {"none"} : pc' = [ pc EXCEPT ![t] = to ]
<1>1. CASE ReadField(t)
  <2>1. PICK to \in Logging \cup {"cas"} : pc' = [ pc EXCEPT ![t] = to ]
    BY <1>1, ReadFieldFrame DEF ManagerInv
  <2>2. QED
    BY <1>1, <2>1, ReadFieldFrame DEF ManagerInv, Logging, PC
<1>2. CASE WriteField(t)
  <2>1. PICK to \in Logging : pc' = [ pc EXCEPT ![t] = to ]
    BY <1>2, WriteFieldFrame DEF ManagerInv
  <2>2. QED
    BY <1>2, <2>1, WriteFieldFrame DEF ManagerInv, Logging, PC
<1>3. CASE Test(t)
  BY <1>3, TestFrame DEF ManagerInv, Logging, PC
<1>4. CASE \/ AttachStatic(t) \/ CallAllocBuffer(t) \/ LogRing(t) \/ LoadNothing(t) \/ LoadBuffer(t)
           \/ Overrun(t) \/ Reload(t) \/ WinEpoch(t) \/ LoseEpoch(t) \/ EndThread(t)
  BY <1>4 DEF AttachStatic, CallAllocBuffer, LogRing, LoadNothing, LoadBuffer, Overrun, Reload,
              WinEpoch, LoseEpoch, EndThread, Move, Branch, PC
<1>5. CASE EndEpoch(t)
  BY <1>5 DEF EndEpoch, BeginEndEpoch, Collect, BeginReclaim, Reclaim, StopSpinning, ResetEpoch,
              ResetEvents, Recycle, EndEndEpoch, Fault, Move, PC
<1>6. QED
  BY <1>1, <1>2, <1>3, <1>4, <1>5 DEF ThreadStep, ReadField, WriteField, Test

\* A thread that runs stays created: whoever is alone was so before the step.
LEMMA OnlyLoneThreadSteps ==
  ASSUME ManagerInv, NEW s \in Threads, ThreadStep(s), NEW t \in Threads, Alone(t)'
  PROVE  s = t /\ Alone(t)
<1>1. \E to \in PC \ {"none"} : pc' = [ pc EXCEPT ![s] = to ]
  BY ThreadMoves
<1>2. pc'[s] # "none" /\ \A u \in Threads \ {s} : pc'[u] = pc[u]
  BY <1>1 DEF ManagerInv, TypeOK
<1>3. QED
  BY <1>2 DEF Alone

SoleOK(t) == SoleHolds(t) /\ SoleLogs(t) /\ SoleRecycles(t)

LEMMA SoleAllocates ==
  ASSUME ManagerInv, NEW t \in Threads, SoleOK(t), CallAllocBuffer(t)
  PROVE  SoleOK(t)'
<1>1. PICK buf \in Buffers : AllocBuffer(t, buf)
  BY DEF CallAllocBuffer
<1>2. /\ pc'[t] = "run" /\ logBuffer'[t] = buf /\ t \in threadLocalBufs'
      /\ globalEpoch' = globalEpoch /\ eventBuf'[buf].epoch = globalEpoch
  BY <1>1 DEF CallAllocBuffer, AllocBuffer, Move, ManagerInv, TypeOK, BufferType
<1>3. \A b \in Buffers : Fresh(b)
  BY DEF CallAllocBuffer, Move, SoleOK, SoleRecycles
<1>4. \A b \in Buffers : /\ eventBuf'[b].events = eventBuf[b].events
                         /\ eventBuf'[b].eventsToRdtsc = eventBuf[b].eventsToRdtsc
  BY <1>1 DEF AllocBuffer, ManagerInv, TypeOK, BufferType
<1>5. \A b \in Buffers : Fresh(b)'
  BY <1>3, <1>4 DEF Fresh
<1>6. InBatch(eventBuf'[buf].events, eventBuf'[buf].eventsToRdtsc)
  BY <1>5, FreshInBatch DEF Fresh
<1>7. SoleHolds(t)' /\ SoleRecycles(t)'
  BY <1>1, <1>2, <1>5 DEF SoleHolds, SoleRecycles
<1>8. SoleLogs(t)'
  BY <1>2, <1>6 DEF SoleLogs, Logging, InBatch
<1>9. QED
  BY <1>7, <1>8 DEF SoleOK

\* What SoleInv says of a thread that logs, for the lemmas below.
LEMMA SoleFacts ==
  ASSUME ManagerInv, NEW t \in Threads, SoleOK(t), pc[t] \in Holding
  PROVE  /\ logBuffer[t] \in Buffers /\ logBuffer[t] # Null
         /\ eventBuf[logBuffer[t]].events \in Nat
         /\ eventBuf[logBuffer[t]].eventsToRdtsc \in Int
         /\ local[t].events \in Nat /\ local[t].eventsToRdtsc \in Int
         /\ pc[t] \in Logging \cup {"cas"} => local[t].logBuf = logBuffer[t]
BY DEF ManagerInv, TypeOK, BufferType, LocalType, SoleOK, SoleHolds, SoleLogs, Null, Buffers

\* A step that leaves the buffers and the manager alone keeps what is said of
\* them.
LEMMA SoleStill ==
  ASSUME ManagerInv, NEW t \in Threads, SoleOK(t), pc[t] \in Holding \ {"end"}, pc'[t] \in Holding \ {"end"},
         UNCHANGED <<eventBuf, logBuffer, globalEpoch, threadLocalBufs>>
  PROVE  SoleHolds(t)' /\ SoleRecycles(t)'
<1>1. SoleHolds(t)'
  BY DEF SoleOK, SoleHolds, Fresh
<1>2. SoleRecycles(t)'
  BY DEF SoleRecycles, Holding, Logging, Resetting
<1>3. QED
  BY <1>1, <1>2

LEMMA SoleReads ==
  ASSUME ManagerInv, NEW t \in Threads, SoleOK(t),
         LoadNothing(t) \/ LoadBuffer(t) \/ Reload(t) \/ ReadField(t) \/ Test(t)
  PROVE  SoleOK(t)'
<1> DEFINE buf == logBuffer[t]
           c   == eventBuf[buf]
           l   == local[t]
<1>1. pc[t] \in Holding \ {"end"}
  BY ReadFieldFrame, TestFrame
     DEF ManagerInv, LoadNothing, LoadBuffer, Reload, Move, Branch, Holding, Logging
<1>2. UNCHANGED <<eventBuf, logBuffer, globalEpoch, threadLocalBufs>>
  BY ReadFieldFrame, TestFrame DEF ManagerInv, LoadNothing, LoadBuffer, Reload, managerVars
<1>3. /\ buf \in Buffers /\ buf # Null /\ pc \in [ Threads -> PC ] /\ local \in [ Threads -> LocalType ]
      /\ c.events \in Nat /\ c.eventsToRdtsc \in Int /\ l.events \in Nat /\ l.eventsToRdtsc \in Int
      /\ pc[t] \in Logging \cup {"cas"} => l.logBuf = buf
  BY <1>1, SoleFacts DEF ManagerInv, TypeOK
<1>4. ASSUME pc'[t] \in Holding \ {"end"}, SoleLogs(t)'
      PROVE  SoleOK(t)'
  BY <1>1, <1>2, <1>4, SoleStill DEF SoleOK
<1>5. SoleLogs(t)
  BY DEF SoleOK
<1>6. ~LoadNothing(t)
  BY <1>3 DEF LoadNothing
<1>7. CASE LoadBuffer(t)
  <2>1. pc[t] = "run" /\ pc'[t] = "read" /\ local'[t].logBuf = buf
    BY <1>3, <1>7 DEF LoadBuffer, Move, LocalType
  <2>2. SoleLogs(t)'
    BY <1>2, <1>5, <2>1 DEF SoleLogs, InBatch
  <2>3. QED
    BY <1>4, <2>1, <2>2 DEF Holding, Logging
<1>8. CASE Reload(t)
  <2>1. pc[t] = "slow" /\ pc'[t] = "check" /\ local'[t].logBuf = buf
    BY <1>3, <1>8 DEF Reload, Branch, LocalType
  <2>2. SoleLogs(t)'
    BY <1>2, <1>5, <2>1 DEF SoleLogs
  <2>3. QED
    BY <1>4, <2>1, <2>2 DEF Holding, Logging
<1>9. CASE ReadEvents(t)
  <2>1. /\ \/ pc[t] = "read" /\ pc'[t] = "append"
           \/ pc[t] = "again" /\ pc'[t] = "stamp"
        /\ l.logBuf = buf /\ local'[t].logBuf = buf /\ local'[t].events = c.events
    BY <1>3, <1>9 DEF ReadEvents, Move, BufferOf, LocalType, Logging
  <2>2. SoleLogs(t)'
    BY <1>2, <1>5, <2>1 DEF SoleLogs, InBatch
  <2>3. QED
    BY <1>4, <2>1, <2>2 DEF Holding, Logging
<1>10. CASE ReadCountdown(t)
  <2>1. /\ pc[t] = "count" /\ pc'[t] = "down"
        /\ l.logBuf = buf /\ local'[t].logBuf = buf /\ local'[t].eventsToRdtsc = c.eventsToRdtsc
    BY <1>3, <1>10 DEF ReadCountdown, Move, BufferOf, LocalType, Logging
  <2>2. SoleLogs(t)'
    BY <1>2, <1>5, <2>1 DEF SoleLogs, InBatch
  <2>3. QED
    BY <1>4, <2>1, <2>2 DEF Holding, Logging
<1>11. CASE ReadEpoch(t)
  <2>1. /\ pc[t] = "epoch" /\ pc'[t] = "cas"
        /\ l.logBuf = buf /\ local'[t].logBuf = buf /\ local'[t].epoch = c.epoch
    BY <1>3, <1>11 DEF ReadEpoch, Move, BufferOf, LocalType, Logging
  <2>2. SoleLogs(t)'
    BY <1>2, <1>5, <2>1 DEF SoleLogs
  <2>3. QED
    BY <1>4, <2>1, <2>2 DEF Holding, Logging
<1>12. CASE TestCountdown(t)
  <2>1. pc[t] = "test" /\ l.logBuf = buf /\ c.eventsToRdtsc = l.eventsToRdtsc - 1
    BY <1>3, <1>5, <1>12 DEF TestCountdown, SoleLogs, Logging
  <2>2. pc'[t] = IF c.eventsToRdtsc = 0 THEN "slow" ELSE "run"
    BY <1>3, <1>12, <2>1 DEF TestCountdown, BufferOf
  <2>3. SoleLogs(t)'
    BY <1>2, <1>5, <2>1, <2>2 DEF SoleLogs, InBatch, Logging
  <2>4. QED
    BY <1>4, <2>2, <2>3 DEF Holding
<1>13. CASE CheckRdtsc(t)
  <2>1. pc[t] = "check" /\ l.logBuf = buf /\ c.eventsToRdtsc = 0
    BY <1>3, <1>5, <1>13 DEF CheckRdtsc, Branch, SoleLogs, Logging
  <2>2. pc'[t] = "again" /\ local' = local
    BY <1>3, <1>13, <2>1 DEF CheckRdtsc, Branch, BufferOf
  <2>3. SoleLogs(t)'
    BY <1>2, <1>5, <2>1, <2>2 DEF SoleLogs, Logging
  <2>4. QED
    BY <1>4, <2>2, <2>3 DEF Holding, Logging
<1>14. CASE TestFull(t)
  <2>1. pc[t] = "full" /\ l.logBuf = buf /\ c.events = l.events + 1 /\ c.eventsToRdtsc = SamplingRate
    BY <1>3, <1>5, <1>14 DEF TestFull, SoleLogs, Logging
  <2>2. /\ pc'[t] = IF c.events >= MaxEvents THEN "epoch" ELSE "run"
        /\ c.events >= MaxEvents => local' = local
    BY <1>3, <1>14, <2>1 DEF TestFull, BufferOf
  <2>3. SoleLogs(t)'
    BY <1>2, <1>3, <2>1, <2>2, EpochProtoAssumption DEF SoleLogs, InBatch, Logging
  <2>4. QED
    BY <1>4, <2>2, <2>3 DEF Holding, Logging
<1>15. QED
  BY <1>6, <1>7, <1>8, <1>9, <1>10, <1>11, <1>12, <1>13, <1>14 DEF ReadField, Test

LEMMA SoleStaysInSlots ==
  ASSUME ManagerInv, NEW t \in Threads, SoleOK(t), pc[t] \in {"append", "stamp"}
  PROVE  local[t].events \in Slots
<1>1. pc[t] \in Holding
  BY DEF Holding, Logging
<1>2. /\ local[t].events \in Nat
      /\ local[t].events < MaxEvents + SamplingRate
  BY <1>1, SoleFacts, EpochProtoAssumption DEF SoleOK, SoleLogs, InBatch, ManagerInv, TypeOK, BufferType
<1>3. QED
  BY <1>2, EpochProtoAssumption DEF Slots, Capacity

LEMMA SoleWrites ==
  ASSUME ManagerInv, NEW t \in Threads, SoleOK(t), Overrun(t) \/ WriteField(t)
  PROVE  SoleOK(t)'
<1> DEFINE buf == logBuffer[t]
           c   == eventBuf[buf]
           l   == local[t]
<1>1. ~Overrun(t)
  BY SoleStaysInSlots DEF Overrun, Move
<1>2. /\ pc[t] \in Logging /\ local' = local /\ pc' \in [ Threads -> PC ] /\ pc'[t] \in Logging
      /\ UNCHANGED <<logBuffer, globalEpoch, managerVars>>
      /\ eventBuf' \in [ Buffers -> BufferType ]
      /\ \A b \in Buffers : eventBuf'[b].epoch = eventBuf[b].epoch
      /\ \A b \in Buffers \ {l.logBuf} : eventBuf'[b] = eventBuf[b]
  <2>1. PICK to \in Logging : pc' = [ pc EXCEPT ![t] = to ]
    BY <1>1, WriteFieldFrame DEF ManagerInv
  <2>2. pc'[t] \in Logging /\ pc' \in [ Threads -> PC ]
    BY <2>1 DEF ManagerInv, TypeOK, Logging, PC
  <2>3. QED
    BY <1>1, <2>2, WriteFieldFrame DEF ManagerInv
<1>3. /\ buf \in Buffers /\ l.logBuf = buf
      /\ c.events \in Nat /\ c.eventsToRdtsc \in Int /\ l.events \in Nat /\ l.eventsToRdtsc \in Int
      /\ eventBuf \in [ Buffers -> BufferType ] /\ pc \in [ Threads -> PC ]
      /\ \A b \in Buffers \ {buf} : Fresh(b)
      /\ t \in threadLocalBufs /\ c.epoch = globalEpoch
  <2>1. pc[t] \in Holding /\ pc[t] # "end"
    BY <1>2 DEF Holding, Logging
  <2>2. QED
    BY <1>2, <2>1, SoleFacts DEF ManagerInv, TypeOK, SoleOK, SoleHolds
<1>4. SoleHolds(t)' /\ SoleRecycles(t)'
  <2>1. \A b \in Buffers \ {buf} : Fresh(b)'
    BY <1>2, <1>3 DEF Fresh
  <2>2. QED
    BY <1>2, <1>3, <2>1 DEF SoleHolds, SoleRecycles, Logging, Resetting, managerVars
<1>5. SoleLogs(t)
  BY DEF SoleOK
<1>6. CASE AppendEvent(t)
  <2>1. /\ pc[t] = "append" /\ pc'[t] = "count"
        /\ eventBuf'[buf].events = l.events + 1 /\ eventBuf'[buf].eventsToRdtsc = c.eventsToRdtsc
    BY <1>3, <1>6 DEF AppendEvent, StoreAndCount, Move, BufferType
  <2>2. SoleLogs(t)'
    BY <1>2, <1>3, <1>5, <2>1 DEF SoleLogs, InBatch
  <2>3. QED
    BY <1>4, <2>2 DEF SoleOK
<1>7. CASE CountDown(t)
  <2>1. /\ pc[t] = "down" /\ pc'[t] = "test"
        /\ eventBuf'[buf].events = c.events /\ eventBuf'[buf].eventsToRdtsc = l.eventsToRdtsc - 1
    BY <1>3, <1>7 DEF CountDown, Move, BufferType
  <2>2. SoleLogs(t)'
    BY <1>2, <1>3, <1>5, <2>1, EpochProtoAssumption DEF SoleLogs, InBatch
  <2>3. QED
    BY <1>4, <2>2 DEF SoleOK
<1>8. CASE Stamp(t)
  <2>1. /\ pc[t] = "stamp" /\ pc'[t] = "restart" /\ eventBuf'[buf].events = l.events + 1
    BY <1>3, <1>8 DEF Stamp, StoreAndCount, Move, BufferType
  <2>2. SoleLogs(t)'
    BY <1>2, <1>3, <2>1 DEF SoleLogs
  <2>3. QED
    BY <1>4, <2>2 DEF SoleOK
<1>9. CASE RestartCountdown(t)
  <2>1. /\ pc[t] = "restart" /\ pc'[t] = "full"
        /\ eventBuf'[buf].events = c.events /\ eventBuf'[buf].eventsToRdtsc = SamplingRate
    BY <1>3, <1>9 DEF RestartCountdown, Move, BufferType
  <2>2. SoleLogs(t)'
    BY <1>2, <1>3, <1>5, <2>1 DEF SoleLogs
  <2>3. QED
    BY <1>4, <2>2 DEF SoleOK
<1>10. QED
  BY <1>1, <1>6, <1>7, <1>8, <1>9 DEF WriteField

LEMMA SoleEndsItsEpoch ==
  ASSUME ManagerInv, NEW t \in Threads, SoleOK(t), WinEpoch(t) \/ LoseEpoch(t) \/ EndThread(t)
  PROVE  SoleOK(t)'
<1>1. /\ eventBuf' = eventBuf /\ logBuffer' = logBuffer /\ threadLocalBufs' = threadLocalBufs
      /\ pc \in [ Threads -> PC ]
  BY DEF WinEpoch, LoseEpoch, EndThread, managerVars, ManagerInv, TypeOK
<1>2. CASE WinEpoch(t)
  <2>1. pc[t] = "cas" /\ pc'[t] = "end"
    BY <1>1, <1>2 DEF WinEpoch, Move
  <2>2. SoleHolds(t)'
    BY <1>1, <2>1 DEF SoleOK, SoleHolds, Holding, Fresh
  <2>3. QED
    BY <2>1, <2>2 DEF SoleOK, SoleLogs, SoleRecycles, Logging, Resetting
<1>3. ~LoseEpoch(t)
  BY DEF LoseEpoch, Move, SoleOK, SoleHolds, SoleLogs, Holding
<1>4. CASE EndThread(t)
  <2>1. pc'[t] = "done"
    BY <1>1, <1>4 DEF EndThread, Move
  <2>2. QED
    BY <2>1 DEF SoleOK, SoleHolds, SoleLogs, SoleRecycles, Logging, Holding, Resetting
<1>5. QED
  BY <1>2, <1>3, <1>4

LEMMA SoleInEndEpoch ==
  ASSUME ManagerInv, NEW t \in Threads, SoleOK(t), EndEpoch(t)
  PROVE  SoleOK(t)'
<1>1. /\ pc \in [ Threads -> PC ] /\ eventBuf \in [ Buffers -> BufferType ]
      /\ bufsInUse \in Seq(Buffers \cup {Null}) /\ next \in Nat \ {0}
      /\ logBuffer \in [ Threads -> Buffers \cup {Null} ]
  BY DEF ManagerInv, TypeOK
<1>2. ASSUME pc'[t] \in InSection \cup {"alloc", "fault"}, SoleRecycles(t)'
      PROVE  SoleOK(t)'
  BY <1>2 DEF SoleOK, SoleHolds, SoleLogs, InSection, Resetting, Holding, Logging
<1>3. CASE BeginEndEpoch(t)
  <2>1. pc[t] = "end" /\ pc'[t] = "collect" /\ toVisit' = threadLocalBufs /\ eventBuf' = eventBuf
        /\ logBuffer' = logBuffer
    BY <1>1, <1>3 DEF BeginEndEpoch, Move
  <2>2. SoleRecycles(t)'
    BY <2>1 DEF SoleOK, SoleHolds, SoleRecycles, Holding, Fresh, Resetting
  <2>3. QED
    BY <1>2, <2>1, <2>2 DEF InSection
<1>4. ASSUME NEW s \in Threads, Collect(t, s)
      PROVE  SoleOK(t)'
  <2>1. /\ pc[t] = "collect" /\ pc'[t] = "collect" /\ toVisit' = toVisit \ {s} /\ eventBuf' = eventBuf
        /\ logBuffer' = logBuffer
    BY <1>1, <1>4 DEF Collect, Move
  <2>2. \A b \in Buffers : InSeq(b, bufsInUse) \/ (s = t /\ b = logBuffer[t]) => InSeq(b, bufsInUse')
    <3>1. PICK buf \in Pointees(s) : bufsInUse' = Append(bufsInUse, buf)
      BY <1>4 DEF Collect
    <3>2. s = t => buf = logBuffer[t]
      BY <2>1, <3>1 DEF Pointees
    <3>3. buf \in Buffers \cup {Null}
      BY <1>1, <3>1 DEF Pointees
    <3>4. QED
      BY <1>1, <3>1, <3>2, <3>3, AppendKeeps
  <2>3. SoleRecycles(t)'
    BY <2>1, <2>2 DEF SoleOK, SoleRecycles, Fresh, InSeq, Resetting
  <2>4. QED
    BY <1>2, <2>1, <2>3 DEF InSection
<1>5. CASE BeginReclaim(t)
  <2>1. /\ pc[t] = "collect" /\ pc'[t] = "reclaim" /\ toVisit = {} /\ eventBuf' = eventBuf
        /\ bufsInUse' = bufsInUse
    BY <1>1, <1>5 DEF BeginReclaim, Move
  <2>2. SoleRecycles(t)'
    BY <2>1 DEF SoleOK, SoleRecycles, Fresh, Resetting
  <2>3. QED
    BY <1>2, <2>1, <2>2 DEF InSection
<1>6. ASSUME NEW s \in Threads, Reclaim(t, s)
      PROVE  SoleOK(t)'
  <2>1. /\ pc[t] = "reclaim" /\ pc'[t] = "reclaim" /\ eventBuf' = eventBuf /\ bufsInUse' = bufsInUse
    BY <1>1, <1>6 DEF Reclaim, Move
  <2>2. SoleRecycles(t)'
    BY <2>1 DEF SoleOK, SoleRecycles, Fresh, Resetting
  <2>3. QED
    BY <1>2, <2>1, <2>2 DEF InSection
<1>7. CASE StopSpinning(t)
  <2>1. /\ pc[t] = "reclaim" /\ pc'[t] = "recycle" /\ next' = 1 /\ eventBuf' = eventBuf
        /\ bufsInUse' = bufsInUse /\ DOMAIN bufsInUse = 1 .. Len(bufsInUse)
    BY <1>1, <1>7 DEF StopSpinning, Move
  <2>2. SoleRecycles(t)'
    BY <2>1 DEF SoleOK, SoleRecycles, Fresh, InSeq
  <2>3. QED
    BY <1>2, <2>1, <2>2 DEF InSection
<1>8. CASE ResetEpoch(t) \/ ResetEvents(t) \/ Recycle(t)
  <2>0. bufsInUse[next] \in Buffers /\ bufsInUse' = bufsInUse /\ Len(bufsInUse) \in Nat
    <3>1. CASE ResetEpoch(t)
      BY <1>1, <3>1, ElementOfSeq DEF ResetEpoch, managerVars
    <3>2. CASE ResetEvents(t) \/ Recycle(t)
      BY <1>1, <3>2 DEF ResetEvents, Recycle, Move, Resetting, ManagerInv, ResetInv, managerVars
    <3>3. QED
      BY <1>8, <3>1, <3>2
  <2> DEFINE c == eventBuf[bufsInUse[next]]
             d == eventBuf'[bufsInUse[next]]
  <2>1. /\ c \in BufferType
        /\ \A b \in Buffers \ {bufsInUse[next]} : eventBuf'[b] = eventBuf[b]
    BY <1>1, <1>8, <2>0 DEF ResetEpoch, ResetEvents, Recycle
  <2>2. \A b \in Buffers \ {bufsInUse[next]} : Fresh(b) => Fresh(b)'
    BY <2>1 DEF Fresh
  <2>3. \A b \in Buffers : Fresh(b) \/ \E i \in next .. Len(bufsInUse) : bufsInUse[i] = b
    BY <1>8 DEF SoleOK, SoleRecycles, ResetEpoch, ResetEvents, Recycle, Move, Resetting
  <2>4. CASE ResetEpoch(t)
    <3>1. /\ pc'[t] = "reset_events" /\ next' = next /\ next \in next .. Len(bufsInUse)
      BY <1>1, <2>0, <2>4 DEF ResetEpoch, Move, managerVars
    <3>2. SoleRecycles(t)'
      BY <2>0, <2>2, <2>3, <3>1 DEF SoleRecycles, Resetting
    <3>3. QED
      BY <1>2, <3>1, <3>2 DEF InSection, Resetting
  <2>5. CASE ResetEvents(t)
    <3>1. /\ pc[t] = "reset_events" /\ pc'[t] = "reset_countdown" /\ next' = next
          /\ next \in next .. Len(bufsInUse) /\ d.events = 0
      BY <1>1, <2>0, <2>1, <2>5, LenProperties
         DEF ResetEvents, Move, Resetting, ManagerInv, ResetInv, BufferType, managerVars
    <3>2. SoleRecycles(t)'
      BY <2>0, <2>2, <2>3, <3>1 DEF SoleRecycles, Resetting
    <3>3. QED
      BY <1>2, <3>1, <3>2 DEF InSection, Resetting
  <2>6. CASE Recycle(t)
    <3>1. /\ pc[t] = "reset_countdown" /\ pc'[t] = "recycle" /\ next' = next + 1
          /\ d.events = c.events /\ d.eventsToRdtsc = SamplingRate
      BY <1>1, <2>0, <2>1, <2>6 DEF Recycle, Move, BufferType
    <3>2. c.events = 0
      BY <3>1 DEF SoleOK, SoleRecycles
    <3>3. ASSUME NEW b \in Buffers, ~Fresh(b)'
          PROVE  \E i \in next' .. Len(bufsInUse') : bufsInUse'[i] = b
      <4>1. b # bufsInUse[next]
        BY <2>0, <3>1, <3>2, <3>3 DEF Fresh
      <4>2. PICK i \in next .. Len(bufsInUse) : bufsInUse[i] = b
        BY <2>2, <2>3, <3>3, <4>1
      <4>3. i \in next + 1 .. Len(bufsInUse)
        BY <1>1, <2>0, <4>1, <4>2
      <4>4. QED
        BY <2>0, <3>1, <4>2, <4>3
    <3>4. SoleRecycles(t)'
      BY <3>1, <3>3 DEF SoleRecycles, Resetting
    <3>5. QED
      BY <1>2, <3>1, <3>4 DEF InSection
  <2>7. QED
    BY <1>8, <2>4, <2>5, <2>6
<1>9. CASE EndEndEpoch(t)
  <2>1. /\ pc[t] = "recycle" /\ pc'[t] = "alloc" /\ next > Len(bufsInUse) /\ eventBuf' = eventBuf
        /\ Len(bufsInUse) \in Nat
    BY <1>1, <1>9 DEF EndEndEpoch, Move
  <2>2. \A b \in Buffers : Fresh(b)
    BY <1>1, <2>1 DEF SoleOK, SoleRecycles
  <2>3. SoleRecycles(t)'
    BY <2>1, <2>2 DEF SoleRecycles, Fresh
  <2>4. QED
    BY <1>2, <2>1, <2>3
<1>10. CASE Fault(t)
  <2>1. pc'[t] = "fault"
    BY <1>1, <1>10 DEF Fault, Move
  <2>2. SoleRecycles(t)'
    BY <2>1 DEF SoleRecycles, Resetting
  <2>3. QED
    BY <1>2, <2>1, <2>2
<1>11. QED
  BY <1>3, <1>4, <1>5, <1>6, <1>7, <1>8, <1>9, <1>10 DEF EndEpoch

LEMMA InitSoleInv == Init => SoleInv
<1> SUFFICES ASSUME Init, NEW t \in Threads
             PROVE  SoleHolds(t) /\ SoleLogs(t) /\ SoleRecycles(t)
  BY DEF SoleInv
<1>1. pc[t] \in {"none", "start"} /\ \A b \in Buffers : Fresh(b)
  BY DEF Init, Fresh, ResetBuffer
<1>2. QED
  BY <1>1 DEF SoleHolds, SoleLogs, SoleRecycles, Holding, Logging, Resetting

LEMMA NextSoleInv == ManagerInv /\ SoleInv /\ [Next]_vars => SoleInv'
<1> SUFFICES ASSUME ManagerInv, SoleInv, [Next]_vars, choice' = "EPOCH",
                    NEW t \in Threads, Alone(t)'
             PROVE  SoleOK(t)'
  BY DEF SoleInv, SoleOK
<1>1. ASSUME NEW s \in Threads, ThreadStep(s)
      PROVE  SoleOK(t)'
  <2>1. s = t /\ Alone(t)
    BY <1>1, OnlyLoneThreadSteps
  <2>2. choice = "EPOCH"
    BY <1>1, ChoiceFixed
  <2>3. SoleOK(t)
    BY <2>1, <2>2 DEF SoleInv, SoleOK
  <2>4. ~AttachStatic(t) /\ ~LogRing(t)
    BY <2>2 DEF AttachStatic, LogRing, RingBodies, EqualBodies, AtLeastBodies
  <2>5. QED
    BY <1>1, <2>1, <2>3, <2>4, SoleAllocates, SoleReads, SoleWrites, SoleEndsItsEpoch, SoleInEndEpoch
       DEF ThreadStep, ReadField, WriteField, Test
<1>2. CASE UNCHANGED vars
  <2>1. SoleOK(t)
    BY <1>2 DEF SoleInv, SoleOK, Alone, vars
  <2>2. SoleHolds(t)' /\ SoleRecycles(t)'
    BY <1>2, <2>1 DEF vars, managerVars, SoleOK, SoleHolds, SoleRecycles, Fresh
  <2>3. SoleLogs(t)'
    BY <1>2, <2>1 DEF vars, SoleOK, SoleLogs, InBatch
  <2>4. QED
    BY <2>2, <2>3 DEF SoleOK
<1>3. QED
  BY <1>1, <1>2 DEF Next, Finished

\* No body stores beyond its buffer's last slot, whatever the sizes: the ring
\* bodies with any number of threads, EPOCH with one.
THEOREM IndexStaysInBounds == Spec => []IndexInBounds
<1>1. ManagerInv /\ RingInv /\ SoleInv => IndexInBounds
  <2> SUFFICES ASSUME ManagerInv, RingInv, SoleInv, NEW t \in Threads, Private(t)
               PROVE  /\ pc[t] # "lost"
                      /\ pc[t] \in {"append", "stamp"} => local[t].events \in Slots
                      /\ pc[t] = "run" /\ choice # "EPOCH" =>
                           LET c == eventBuf[logBuffer[t]]
                           IN  /\ c.events \in Slots
                               /\ choice = "RDTSC" /\ c.eventsToRdtsc = 1 => c.events + 1 \in Slots
    BY DEF IndexInBounds
  <2>1. CASE choice = "EPOCH"
    <3>1. SoleOK(t)
      BY <2>1 DEF Private, Alone, SoleInv, SoleOK
    <3>2. QED
      BY <2>1, <3>1, SoleStaysInSlots DEF SoleOK, SoleLogs
  <2>2. CASE choice # "EPOCH"
    <3>1. pc[t] \in {"none", "start", "run", "done"}
      BY <2>2 DEF RingInv
    <3>2. ASSUME pc[t] = "run"
          PROVE  LET c == eventBuf[logBuffer[t]]
                 IN  /\ c.events \in Slots
                     /\ choice = "RDTSC" /\ c.eventsToRdtsc = 1 => c.events + 1 \in Slots
      <4>1. /\ RingOK(eventBuf[logBuffer[t]])
            /\ eventBuf[logBuffer[t]].events \in Nat
        BY <2>2, <3>2 DEF RingInv, ManagerInv, TypeOK, BufferType
      <4>2. QED
        BY <4>1, EpochProtoAssumption DEF RingOK, InBatch, Slots, Capacity
    <3>3. QED
      BY <3>1, <3>2
  <2>3. QED
    BY <2>1, <2>2
<1>2. QED
  BY InitManagerInv, NextManagerInv, InitRingInv, NextRingInv, InitSoleInv, NextSoleInv, <1>1, PTL
     DEF Spec

-----------------------------------------------------------------------------
(***************************************************************************)
(* Leaked buffers.                                                         *)
(***************************************************************************)

\* The buffers no coordinator has collected yet.  They were allocated once,
\* and a thread that still points to one is the only one that does.
Uncollected == { b \in 1 .. heap : ~InSeq(b, bufsInUse) }

Owns(t) == logBuffer[t] \in Uncollected

AfterCollect == { "reclaim", "recycle" } \cup Resetting

\* Who owns a buffer is registered, and is in the way of the coordinator until
\* its buffer has been collected.
PhaseInv ==
  /\ choice # "EPOCH" =>
       globalEpoch = 0 /\ \A t \in Threads : pc[t] \in { "none", "start", "run", "done" }
  /\ \A t \in Threads : pc[t] \in {"none", "start"} => logBuffer[t] = Null
  /\ choice = "EPOCH" => \A t \in Threads : Owns(t) => t \in threadLocalBufs
  /\ \A w \in Threads :
       /\ pc[w] = "collect" => \A t \in Threads : Owns(t) => t \in toVisit
       /\ pc[w] \in AfterCollect => \A t \in Threads : ~Owns(t)

\* A buffer is given up only after the end of the epoch it is of.
OwnerInv ==
  /\ \A b \in Buffers : InSeq(b, freeBufs) => InSeq(b, bufsInUse)
  /\ \A b \in Buffers : InSeq(b, bufsInUse) => b <= heap
  /\ \A t \in Threads : logBuffer[t] <= heap
  /\ \A s, t \in Threads : Owns(t) /\ logBuffer[s] = logBuffer[t] => s = t
  /\ \A b \in Uncollected :
       /\ choice = "EPOCH" => eventBuf[b].epoch \in 0 .. globalEpoch
       /\ (\A t \in Threads : logBuffer[t] # b) => eventBuf[b].epoch \in 0 .. globalEpoch - 1

\* What a thread on the way to the end of its epoch knows of its buffer.
RaceInv ==
  \A t \in Threads : Owns(t) =>
    /\ pc[t] \in Logging \cup {"cas"} => local[t].logBuf = logBuffer[t]
    /\ pc[t] = "cas"   => local[t].epoch = eventBuf[logBuffer[t]].epoch
    /\ pc[t] = "alloc" => eventBuf[logBuffer[t]].epoch \in 0 .. globalEpoch - 1

\* The buffers of former epochs that are leaked, or may be, because it is not
\* the coordinator that points to them.
Ends(t) == pc[t] \in InSection \cup {"end", "fault"}

Doomed ==
  { b \in Uncollected :
      /\ eventBuf[b].epoch \in 0 .. globalEpoch - 1
      /\ \A t \in Threads : logBuffer[t] = b => ~Ends(t) }

Created == { t \in Threads : pc[t] # "none" }

LeakInv == PhaseInv /\ OwnerInv /\ RaceInv

LEMMA UncollectedType ==
  ASSUME TypeOK
  PROVE  /\ Uncollected \subseteq Buffers
         /\ \A b \in Uncollected : b \in 1 .. heap /\ eventBuf[b].epoch \in Nat \cup {-1}
         /\ heap \in Nat /\ globalEpoch \in Nat
         /\ \A t \in Threads : Owns(t) => logBuffer[t] # Null
BY EpochProtoAssumption DEF TypeOK, Uncollected, Buffers, BufferType, Owns, Null

LEMMA OneInSection ==
  ASSUME ManagerInv
  PROVE  /\ mutex = NoThread => \A w \in Threads : pc[w] \notin InSection
         /\ \A w, u \in Threads : pc[w] \in InSection /\ pc[u] \in InSection => w = u
BY EpochProtoAssumption DEF ManagerInv, LockInv

\* Steps of a thread that leave the manager and the epoch alone.
Quiet(t) ==
  \/ LogRing(t) \/ ReadField(t) \/ WriteField(t) \/ Test(t)
  \/ LoadNothing(t) \/ LoadBuffer(t) \/ Overrun(t) \/ Reload(t) \/ LoseEpoch(t) \/ EndThread(t)

LEMMA RingEpochKept ==
  ASSUME NEW c \in BufferType, choice \in RingBodies
  PROVE  CountRing(c).epoch = c.epoch
<1> DEFINE d == [ c EXCEPT !.events = @ + 1 ]
<1>1. d \in BufferType /\ d.epoch = c.epoch
  <2>1. c.events + 1 \in Nat
    BY DEF BufferType
  <2>2. QED
    BY <2>1, SetEventsType, EpochKept
<1> HIDE DEF d
<1>2. WrapEqual(d).epoch = c.epoch
  BY <1>1, EpochKept DEF WrapEqual
<1>3. ASSUME NEW e \in BufferType, e.epoch = c.epoch
      PROVE  WrapAtLeast(e).epoch = c.epoch
  BY <1>3, EpochKept DEF WrapAtLeast
<1>4. CountRdtsc(d).epoch = c.epoch
  <2> DEFINE stamped == [ d EXCEPT !.events = @ + 1, !.eventsToRdtsc = SamplingRate ]
             counted == [ d EXCEPT !.eventsToRdtsc = @ - 1 ]
  <2>1. d.events + 1 \in Nat /\ SamplingRate \in Int
    BY <1>1, EpochProtoAssumption DEF BufferType
  <2>2. stamped \in BufferType /\ stamped.epoch = c.epoch /\ counted.epoch = c.epoch
    <3>1. stamped \in BufferType
      BY <1>1, <2>1, SetBothType
    <3>2. \A n, k : [ d EXCEPT !.events = n, !.eventsToRdtsc = k ].epoch = d.epoch
      BY <1>1, EpochKept
    <3>3. \A k : [ d EXCEPT !.eventsToRdtsc = k ].epoch = d.epoch
      BY <1>1, EpochKept
    <3>4. QED
      BY <1>1, <3>1, <3>2, <3>3
  <2>3. CountRdtsc(d) \in { WrapAtLeast(stamped), counted }
    BY DEF CountRdtsc
  <2> HIDE DEF stamped, counted
  <2>4. QED
    BY <1>3, <2>2, <2>3
<1>5. CountRing(c) = CASE choice \in EqualBodies   -> WrapEqual(d)
                       [] choice \in AtLeastBodies -> WrapAtLeast(d)
                       [] choice = "RDTSC"         -> CountRdtsc(d)
  BY DEF CountRing, d
<1>6. QED
  BY <1>1, <1>2, <1>3, <1>4, <1>5 DEF RingBodies, EqualBodies, AtLeastBodies

\* A step that changes one buffer, but not its epoch.
LEMMA OneBufferKept ==
  ASSUME TypeOK, NEW a, NEW d, eventBuf' = [ eventBuf EXCEPT ![a] = d ],
         a \in Buffers => d.epoch = eventBuf[a].epoch
  PROVE  \A b \in Buffers : eventBuf'[b].epoch = eventBuf[b].epoch
BY DEF TypeOK

LEMMA QuietFrame ==
  ASSUME ManagerInv, NEW t \in Threads, Quiet(t)
  PROVE  /\ UNCHANGED <<choice, globalEpoch, heap, logBuffer, managerVars>>
         /\ \A s \in Threads \ {t} : pc'[s] = pc[s] /\ local'[s] = local[s]
         /\ pc[t] \notin InSection \cup {"end", "none", "start", "fault"}
         /\ pc'[t] \notin InSection \cup {"end", "none", "start", "fault"}
         /\ \A b \in Buffers : eventBuf'[b].epoch = eventBuf[b].epoch
<1> USE DEF ManagerInv
<1>1. CASE ReadField(t)
  <2>1. PICK to \in Logging \cup {"cas"} : pc' = [ pc EXCEPT ![t] = to ]
    BY <1>1, ReadFieldFrame
  <2>2. QED
    BY <1>1, <2>1, ReadFieldFrame DEF TypeOK, Logging, InSection, Resetting
<1>2. CASE WriteField(t)
  <2>1. PICK to \in Logging : pc' = [ pc EXCEPT ![t] = to ]
    BY <1>2, WriteFieldFrame
  <2>2. QED
    BY <1>2, <2>1, WriteFieldFrame DEF TypeOK, Logging, InSection, Resetting
<1>3. CASE Test(t)
  BY <1>3, TestFrame DEF TypeOK, Logging, InSection, Resetting
<1>4. CASE LogRing(t)
  <2>1. eventBuf' = [ eventBuf EXCEPT ![logBuffer[t]] = CountRing(eventBuf[logBuffer[t]]) ]
    BY <1>4 DEF LogRing
  <2>2. logBuffer[t] \in Buffers => CountRing(eventBuf[logBuffer[t]]).epoch = eventBuf[logBuffer[t]].epoch
    BY <1>4, RingEpochKept DEF TypeOK, LogRing
  <2>3. \A b \in Buffers : eventBuf'[b].epoch = eventBuf[b].epoch
    BY <2>1, <2>2, OneBufferKept
  <2>4. QED
    BY <1>4, <2>3 DEF LogRing, Move, TypeOK, InSection, Resetting
<1>5. CASE LoadNothing(t) \/ LoadBuffer(t) \/ Overrun(t) \/ Reload(t) \/ LoseEpoch(t) \/ EndThread(t)
  <2>1. UNCHANGED <<choice, globalEpoch, heap, logBuffer, managerVars, eventBuf>>
    BY <1>5 DEF LoadNothing, LoadBuffer, Overrun, Reload, LoseEpoch, EndThread
  <2>2. \A s \in Threads \ {t} : pc'[s] = pc[s] /\ local'[s] = local[s]
    BY <1>5 DEF LoadNothing, LoadBuffer, Overrun, Reload, LoseEpoch, EndThread, Move, Branch, TypeOK
  <2>3. /\ pc[t] \notin InSection \cup {"end", "none", "start", "fault"}
        /\ pc'[t] \notin InSection \cup {"end", "none", "start", "fault"}
    BY <1>5 DEF LoadNothing, LoadBuffer, Overrun, Reload, LoseEpoch, EndThread, Move, Branch, TypeOK,
                InSection, Resetting
  <2>4. QED
    BY <2>1, <2>2, <2>3
<1>6. QED
  BY <1>1, <1>2, <1>3, <1>4, <1>5 DEF Quiet

LEMMA QuietLeakInv ==
  ASSUME ManagerInv, LeakInv, NEW t \in Threads, Quiet(t)
  PROVE  LeakInv' /\ Doomed' \subseteq Doomed
<1> USE DEF LeakInv
<1>1. /\ UNCHANGED <<choice, globalEpoch, heap, logBuffer, managerVars>>
      /\ \A s \in Threads \ {t} : pc'[s] = pc[s] /\ local'[s] = local[s]
      /\ pc[t] \notin InSection \cup {"end", "none", "start", "fault"}
      /\ pc'[t] \notin InSection \cup {"end", "none", "start", "fault"}
      /\ \A b \in Buffers : eventBuf'[b].epoch = eventBuf[b].epoch
      /\ TypeOK
  BY QuietFrame DEF ManagerInv
<1>2. Uncollected' = Uncollected /\ \A s \in Threads : Owns(s)' = Owns(s)
  BY <1>1 DEF Uncollected, InSeq, Owns, managerVars
<1>3. \A b \in Uncollected : b \in Buffers /\ eventBuf'[b].epoch = eventBuf[b].epoch
  BY <1>1, UncollectedType
<1>4. PhaseInv'
  <2>1. choice # "EPOCH" => LogRing(t) \/ EndThread(t)
    BY ReadFieldFrame, WriteFieldFrame, TestFrame
       DEF ManagerInv, PhaseInv, Quiet, LoadNothing, LoadBuffer, Overrun, Reload, LoseEpoch, Move, Branch,
           Logging
  <2>2. choice # "EPOCH" => pc'[t] \in {"run", "done"}
    BY <1>1, <2>1 DEF LogRing, EndThread, Move, TypeOK
  <2>3. QED
    BY <1>1, <1>2, <2>2 DEF PhaseInv, managerVars, InSection, Resetting, AfterCollect
<1>5. OwnerInv'
  BY <1>1, <1>2, <1>3 DEF OwnerInv, InSeq, managerVars
<1>6. Doomed' \subseteq Doomed
  <2>1. \A s \in Threads : Ends(s)' = Ends(s)
    BY <1>1 DEF Ends, InSection
  <2>2. QED
    BY <1>1, <1>2, <1>3, <2>1 DEF Doomed
<1>7. RaceInv'
  <2> SUFFICES ASSUME NEW s \in Threads, Owns(s)'
               PROVE  /\ pc'[s] \in Logging \cup {"cas"} => local'[s].logBuf = logBuffer'[s]
                      /\ pc'[s] = "cas"   => local'[s].epoch = eventBuf'[logBuffer'[s]].epoch
                      /\ pc'[s] = "alloc" => eventBuf'[logBuffer'[s]].epoch \in 0 .. globalEpoch' - 1
    BY DEF RaceInv
  <2>1. /\ Owns(s) /\ logBuffer'[s] = logBuffer[s] /\ logBuffer[s] # Null
        /\ eventBuf'[logBuffer[s]].epoch = eventBuf[logBuffer[s]].epoch
    BY <1>1, <1>2, <1>3, UncollectedType DEF Owns
  <2>2. CASE s # t
    BY <1>1, <2>1, <2>2 DEF RaceInv
  <2>3. CASE s = t
    <3>1. local[t] \in LocalType /\ pc \in [ Threads -> PC ] /\ local \in [ Threads -> LocalType ]
      BY <1>1 DEF TypeOK
    <3>2. CASE pc'[t] \notin Logging \cup {"cas", "alloc"}
      BY <2>3, <3>2
    <3>3. CASE LoadBuffer(t)
      BY <2>1, <2>3, <3>1, <3>3 DEF LoadBuffer, Move, LocalType, Logging
    <3>4. CASE Reload(t)
      BY <2>1, <2>3, <3>1, <3>4 DEF Reload, Branch, LocalType, Logging
    <3>5. CASE ReadField(t)
      <4>1. pc[t] \in Logging /\ local'[t].logBuf = local[t].logBuf /\ pc'[t] # "alloc"
        <5>1. PICK to \in Logging \cup {"cas"} : pc' = [ pc EXCEPT ![t] = to ]
          BY <3>5, ReadFieldFrame DEF ManagerInv
        <5>2. QED
          BY <3>1, <3>5, <5>1, ReadFieldFrame DEF ManagerInv, Logging
      <4>2. local'[t].logBuf = logBuffer[t]
        BY <2>1, <2>3, <4>1 DEF RaceInv
      <4>3. pc'[t] = "cas" => local'[t].epoch = eventBuf[logBuffer[t]].epoch
        <5>1. CASE ReadEpoch(t)
          BY <2>1, <2>3, <3>1, <4>1, <5>1 DEF RaceInv, ReadEpoch, BufferOf, LocalType, Logging
        <5>2. CASE ReadEvents(t) \/ ReadCountdown(t)
          BY <3>1, <5>2 DEF ReadEvents, ReadCountdown, Move
        <5>3. QED
          BY <3>5, <5>1, <5>2 DEF ReadField
      <4>4. QED
        BY <2>1, <2>3, <4>1, <4>2, <4>3
    <3>6. CASE WriteField(t)
      <4>1. pc[t] \in Logging /\ pc'[t] \in Logging /\ local'[t].logBuf = local[t].logBuf
        <5>1. PICK to \in Logging : pc' = [ pc EXCEPT ![t] = to ]
          BY <3>6, WriteFieldFrame DEF ManagerInv
        <5>2. QED
          BY <3>1, <3>6, <5>1, WriteFieldFrame DEF ManagerInv
      <4>2. QED
        BY <2>1, <2>3, <4>1 DEF RaceInv, Logging
    <3>7. CASE Test(t)
      <4>1. /\ pc[t] \in Logging /\ pc'[t] \in {"slow", "run", "again", "epoch"}
            /\ pc'[t] \in {"again", "epoch"} => local' = local
        BY <3>1, <3>7, TestFrame DEF ManagerInv
      <4>2. QED
        BY <2>1, <2>3, <4>1 DEF RaceInv, Logging
    <3>8. CASE LoseEpoch(t)
      <4>1. pc[t] = "cas" /\ pc'[t] = "alloc" /\ local[t].epoch # globalEpoch /\ globalEpoch' = globalEpoch
        BY <3>1, <3>8 DEF LoseEpoch, Move
      <4>2. choice = "EPOCH" /\ logBuffer[t] \in Uncollected
        BY <2>1, <2>3, <4>1 DEF PhaseInv, Owns
      <4>3. /\ eventBuf[logBuffer[t]].epoch \in 0 .. globalEpoch
            /\ local[t].epoch = eventBuf[logBuffer[t]].epoch
        BY <2>1, <2>3, <4>1, <4>2 DEF OwnerInv, RaceInv
      <4>4. globalEpoch \in Nat
        BY <1>1 DEF TypeOK
      <4>5. eventBuf[logBuffer[t]].epoch \in 0 .. globalEpoch - 1
        BY <4>1, <4>3, <4>4
      <4>6. QED
        BY <2>1, <2>3, <4>1, <4>5 DEF Logging
    <3>9. CASE LogRing(t) \/ LoadNothing(t) \/ Overrun(t) \/ EndThread(t)
      BY <3>1, <3>2, <3>9 DEF LogRing, LoadNothing, Overrun, EndThread, Move, Logging
    <3>10. QED
      BY <3>3, <3>4, <3>5, <3>6, <3>7, <3>8, <3>9 DEF Quiet
  <2>4. QED
    BY <2>2, <2>3
<1>8. QED
  BY <1>4, <1>5, <1>6, <1>7

\* A buffer is taken from freeBufs, or made.
LEMMA AllocatesUncollected ==
  ASSUME TypeOK, LeakInv, NEW t \in Threads, NEW buf \in Buffers, AllocBuffer(t, buf)
  PROVE  /\ buf \notin Uncollected
         /\ Uncollected' = Uncollected \/ Uncollected' = Uncollected \cup {buf}
         /\ heap' \in {heap, heap + 1} /\ buf <= heap' /\ \A s \in Threads : logBuffer[s] # buf \/ ~Owns(s)'
         /\ \A b \in Buffers : InSeq(b, freeBufs') => InSeq(b, freeBufs)
         /\ buf = heap + 1 \/ buf \notin Uncollected'
<1> USE DEF LeakInv
<1>1. CASE freeBufs # << >> /\ buf = Last(freeBufs) /\ freeBufs' = Front(freeBufs) /\ heap' = heap
  <2>1. /\ Len(freeBufs) \in Nat \ {0}
        /\ DOMAIN freeBufs = 1 .. Len(freeBufs)
        /\ buf = freeBufs[Len(freeBufs)]
    BY <1>1, EmptySeq, LenProperties DEF TypeOK, Last
  <2>2. InSeq(buf, freeBufs)
    BY <2>1 DEF InSeq
  <2>3. InSeq(buf, bufsInUse) /\ buf <= heap
    BY <2>2 DEF OwnerInv
  <2>4. \A b \in Buffers : InSeq(b, freeBufs') => InSeq(b, freeBufs)
    <3>1. /\ DOMAIN Front(freeBufs) = 1 .. Len(freeBufs) - 1
          /\ \A i \in 1 .. Len(freeBufs) - 1 : Front(freeBufs)[i] = freeBufs[i]
      BY <2>1, SubSeqProperties DEF Front, TypeOK
    <3>2. QED
      BY <1>1, <2>1, <3>1 DEF InSeq
  <2>5. Uncollected' = Uncollected /\ buf \notin Uncollected
    BY <1>1, <2>3 DEF AllocBuffer, Uncollected
  <2>6. QED
    BY <1>1, <2>3, <2>4, <2>5 DEF Owns, AllocBuffer
<1>2. CASE freeBufs = << >> /\ buf = heap + 1 /\ freeBufs' = freeBufs /\ heap' = buf
  <2>1. heap \in Nat /\ ~(heap + 1 <= heap)
    BY EpochProtoAssumption DEF TypeOK
  <2>2. ~InSeq(buf, bufsInUse) /\ \A s \in Threads : logBuffer[s] # buf
    BY <1>2, <2>1 DEF OwnerInv
  <2>3. Uncollected' = Uncollected \cup {buf}
    <3>1. 1 .. heap + 1 = 1 .. heap \cup {heap + 1}
      BY <2>1
    <3>2. \A b : b \in Uncollected' <=> b \in 1 .. heap + 1 /\ ~InSeq(b, bufsInUse)
      BY <1>2 DEF AllocBuffer, Uncollected
    <3>3. QED
      BY <1>2, <2>2, <3>1, <3>2 DEF Uncollected
  <2>4. buf \notin Uncollected
    BY <1>2, <2>1 DEF Uncollected
  <2>5. QED
    BY <1>2, <2>1, <2>2, <2>3, <2>4
<1>3. QED
  BY <1>1, <1>2 DEF AllocBuffer

LEMMA AllocLeakInv ==
  ASSUME ManagerInv, LeakInv, NEW t \in Threads, CallAllocBuffer(t)
  PROVE  LeakInv' /\ Doomed' \subseteq Doomed
<1> USE DEF LeakInv
<1>1. TypeOK /\ heap \in Nat /\ globalEpoch \in Nat
  BY UncollectedType DEF ManagerInv
<1>2. PICK buf \in Buffers : AllocBuffer(t, buf)
  BY DEF CallAllocBuffer
<1>3. /\ mutex = NoThread /\ UNCHANGED <<choice, globalEpoch, mutex, bufsInUse, toVisit>>
      /\ eventBuf' = [ eventBuf EXCEPT ![buf].epoch = globalEpoch ]
      /\ logBuffer' = [ logBuffer EXCEPT ![t] = buf ]
      /\ threadLocalBufs' = threadLocalBufs \cup {t}
      /\ pc[t] = "start" \/ pc[t] = "alloc"
      /\ pc' = [ pc EXCEPT ![t] = "run" ]
      /\ \A s \in Threads \ {t} : local'[s] = local[s]
  BY <1>1, <1>2 DEF CallAllocBuffer, AllocBuffer, Move, Return, TypeOK
<1>4. /\ buf \notin Uncollected
      /\ Uncollected' = Uncollected \/ Uncollected' = Uncollected \cup {buf}
      /\ heap' \in {heap, heap + 1} /\ buf <= heap'
      /\ \A b \in Buffers : InSeq(b, freeBufs') => InSeq(b, freeBufs)
  BY <1>1, <1>2, AllocatesUncollected
<1>5. \A w \in Threads : pc[w] \notin InSection /\ pc'[w] \notin InSection
  BY <1>1, <1>3, OneInSection DEF InSection, Resetting, TypeOK
<1>6. /\ logBuffer'[t] = buf
      /\ \A s \in Threads \ {t} : /\ logBuffer'[s] = logBuffer[s]
                                  /\ pc'[s] = pc[s]
                                  /\ local'[s] = local[s]
      /\ pc'[t] = "run"
  BY <1>1, <1>3 DEF TypeOK
<1>7. /\ eventBuf'[buf].epoch = globalEpoch
      /\ \A b \in Uncollected : eventBuf'[b].epoch = eventBuf[b].epoch
  <2>1. Uncollected \subseteq Buffers
    BY <1>1, UncollectedType
  <2>2. QED
    BY <1>1, <1>3, <1>4, <2>1 DEF TypeOK, BufferType
<1>8. Owns(t) => eventBuf[logBuffer[t]].epoch \in 0 .. globalEpoch - 1
  <2>1. Owns(t) => logBuffer[t] # Null
    BY <1>1, UncollectedType
  <2>2. QED
    BY <1>3, <2>1 DEF PhaseInv, RaceInv
<1>9. ASSUME NEW s \in Threads \ {t}
      PROVE  Owns(s)' <=> Owns(s)
  <2>1. CASE Uncollected' = Uncollected
    BY <1>6, <2>1 DEF Owns
  <2>2. CASE Uncollected' = Uncollected \cup {buf} /\ Uncollected' # Uncollected
    <3>1. logBuffer[s] # buf
      <4>1. heap' = heap + 1 /\ buf = heap + 1
        BY <1>1, <1>2, <1>4, <2>2 DEF AllocBuffer, Uncollected
      <4>2. logBuffer[s] <= heap /\ heap \in Nat
        BY <1>1 DEF OwnerInv
      <4>3. QED
        BY <4>1, <4>2
    <3>2. QED
      BY <1>6, <2>2, <3>1 DEF Owns
  <2>3. QED
    BY <1>4, <2>1, <2>2
<1>10. PhaseInv'
  <2>1. choice # "EPOCH" => pc'[t] = "run"
    BY <1>6
  <2>2. choice = "EPOCH" => \A s \in Threads : Owns(s)' => s \in threadLocalBufs'
    BY <1>3, <1>9 DEF PhaseInv
  <2>3. \A w \in Threads : pc'[w] \notin {"collect"} \cup AfterCollect
    BY <1>5 DEF InSection, AfterCollect
  <2>4. \A s \in Threads : pc'[s] \in {"none", "start"} => logBuffer'[s] = Null
    BY <1>6 DEF PhaseInv
  <2>5. QED
    BY <1>3, <1>6, <2>2, <2>3, <2>4 DEF PhaseInv
<1>11. OwnerInv'
  <2>1. \A b \in Buffers : InSeq(b, freeBufs') => InSeq(b, bufsInUse')
    BY <1>3, <1>4 DEF OwnerInv
  <2>2. /\ \A b \in Buffers : InSeq(b, bufsInUse') => b <= heap'
        /\ \A s \in Threads : logBuffer'[s] <= heap'
    <3>1. \A s \in Threads : logBuffer[s] \in Int
      BY <1>1 DEF TypeOK, Buffers, Null
    <3>2. \A b \in Buffers : b \in Int
      BY DEF Buffers
    <3>3. QED
      BY <1>1, <1>3, <1>4, <1>6, <3>1, <3>2 DEF OwnerInv
  <2>3. ASSUME NEW s \in Threads, NEW u \in Threads, Owns(s)', logBuffer'[s] = logBuffer'[u]
        PROVE  s = u
    <3>1. CASE s # t /\ u # t
      BY <1>6, <1>9, <2>3, <3>1 DEF OwnerInv
    <3>2. CASE s # t /\ u = t
      <4>1. logBuffer[s] = buf /\ logBuffer[s] \in Uncollected
        BY <1>6, <1>9, <2>3, <3>2 DEF Owns
      <4>2. QED
        BY <1>4, <4>1
    <3>3. CASE s = t /\ u # t
      <4>1. logBuffer[u] = buf /\ buf \in Uncollected'
        BY <1>6, <2>3, <3>3 DEF Owns
      <4>2. Owns(u)'
        BY <1>6, <3>3, <4>1 DEF Owns
      <4>3. buf \in Uncollected
        BY <1>9, <3>3, <4>1, <4>2 DEF Owns
      <4>4. QED
        BY <1>4, <4>3
    <3>4. QED
      BY <3>1, <3>2, <3>3
  <2>4. ASSUME NEW b \in Uncollected'
        PROVE  /\ choice' = "EPOCH" => eventBuf'[b].epoch \in 0 .. globalEpoch'
               /\ (\A s \in Threads : logBuffer'[s] # b) => eventBuf'[b].epoch \in 0 .. globalEpoch' - 1
    <3>1. CASE b = buf
      BY <1>1, <1>3, <1>6, <1>7, <3>1
    <3>2. CASE b # buf
      <4>1. b \in Uncollected /\ eventBuf'[b].epoch = eventBuf[b].epoch
        BY <1>4, <1>7, <2>4, <3>2
      <4>2. CASE b = logBuffer[t]
        <5>1. eventBuf[b].epoch \in 0 .. globalEpoch - 1
          BY <1>8, <4>1, <4>2 DEF Owns
        <5>2. QED
          BY <1>1, <1>3, <4>1, <5>1
      <4>3. CASE b # logBuffer[t]
        BY <1>3, <1>6, <3>2, <4>1, <4>3 DEF OwnerInv
      <4>4. QED
        BY <4>2, <4>3
    <3>3. QED
      BY <3>1, <3>2
  <2>5. QED
    BY <2>1, <2>2, <2>3, <2>4 DEF OwnerInv
<1>12. RaceInv'
  <2> SUFFICES ASSUME NEW s \in Threads, Owns(s)'
               PROVE  /\ pc'[s] \in Logging \cup {"cas"} => local'[s].logBuf = logBuffer'[s]
                      /\ pc'[s] = "cas"   => local'[s].epoch = eventBuf'[logBuffer'[s]].epoch
                      /\ pc'[s] = "alloc" => eventBuf'[logBuffer'[s]].epoch \in 0 .. globalEpoch' - 1
    BY DEF RaceInv
  <2>1. CASE s = t
    BY <1>6, <2>1 DEF Logging
  <2>2. CASE s # t
    <3>1. Owns(s) /\ logBuffer'[s] = logBuffer[s] /\ pc'[s] = pc[s] /\ local'[s] = local[s]
          /\ eventBuf'[logBuffer[s]].epoch = eventBuf[logBuffer[s]].epoch
      BY <1>6, <1>7, <1>9, <2>2 DEF Owns
    <3>2. QED
      BY <1>3, <3>1 DEF RaceInv
  <2>3. QED
    BY <2>1, <2>2
<1>13. Doomed' \subseteq Doomed
  <2> SUFFICES ASSUME NEW b \in Doomed'
               PROVE  b \in Doomed
    OBVIOUS
  <2>1. b \in Uncollected' /\ eventBuf'[b].epoch \in 0 .. globalEpoch - 1
    BY <1>3 DEF Doomed
  <2>2. b # buf
    BY <1>1, <1>7, <2>1
  <2>3. b \in Uncollected /\ eventBuf[b].epoch \in 0 .. globalEpoch - 1
    BY <1>4, <1>7, <2>1, <2>2
  <2>4. ASSUME NEW s \in Threads, logBuffer[s] = b
        PROVE  ~Ends(s)
    <3>1. CASE s = t
      BY <1>3, <3>1 DEF Ends, InSection, Resetting
    <3>2. CASE s # t
      BY <1>6, <2>4, <3>2 DEF Doomed, Ends
    <3>3. QED
      BY <3>1, <3>2
  <2>5. QED
    BY <2>3, <2>4 DEF Doomed
<1>14. QED
  BY <1>10, <1>11, <1>12, <1>13

LEMMA AttachLeakInv ==
  ASSUME ManagerInv, LeakInv, NEW t \in Threads, AttachStatic(t)
  PROVE  LeakInv' /\ Doomed' \subseteq Doomed
<1> USE DEF LeakInv
<1>1. TypeOK /\ heap \in Nat
  BY UncollectedType DEF ManagerInv
<1>2. /\ choice # "EPOCH" /\ globalEpoch = 0 /\ pc[t] = "start"
      /\ UNCHANGED <<choice, globalEpoch, eventBuf, managerVars, local>>
      /\ pc' = [ pc EXCEPT ![t] = "run" ]
      /\ heap' = heap + 1
      /\ logBuffer' = [ logBuffer EXCEPT ![t] = heap + 1 ]
  BY DEF AttachStatic, Move, PhaseInv
<1>3. /\ logBuffer'[t] = heap + 1 /\ pc'[t] = "run"
      /\ \A s \in Threads \ {t} : logBuffer'[s] = logBuffer[s] /\ pc'[s] = pc[s]
  BY <1>1, <1>2 DEF TypeOK
<1>4. Uncollected' \subseteq Uncollected \cup {heap + 1}
  <2>1. 1 .. heap + 1 = 1 .. heap \cup {heap + 1}
    BY <1>1
  <2>2. QED
    BY <1>2, <2>1 DEF Uncollected, managerVars
<1>5. \A s \in Threads : pc[s] \in { "none", "start", "run", "done" } /\ pc'[s] \in { "none", "start", "run", "done" }
  BY <1>2, <1>3 DEF PhaseInv
<1>6. PhaseInv'
  BY <1>2, <1>3, <1>5 DEF PhaseInv, AfterCollect, Resetting
<1>7. RaceInv'
  BY <1>5 DEF RaceInv, Logging
<1>8. Doomed' = {}
  BY <1>2 DEF Doomed
<1>9. OwnerInv'
  <2>1. \A s \in Threads : logBuffer[s] \in Int /\ logBuffer[s] <= heap
    BY <1>1 DEF TypeOK, Buffers, Null, OwnerInv
  <2>2. /\ \A b \in Buffers : InSeq(b, freeBufs') => InSeq(b, bufsInUse')
        /\ \A b \in Buffers : InSeq(b, bufsInUse') => b <= heap'
        /\ \A s \in Threads : logBuffer'[s] <= heap'
    BY <1>1, <1>2, <1>3, <2>1 DEF OwnerInv, managerVars, Buffers
  <2>3. ASSUME NEW s \in Threads, NEW u \in Threads, Owns(s)', logBuffer'[s] = logBuffer'[u]
        PROVE  s = u
    <3>1. CASE s # t /\ u # t
      <4>1. logBuffer[s] \in Uncollected
        BY <1>1, <1>3, <1>4, <2>1, <2>3, <3>1 DEF Owns
      <4>2. QED
        BY <1>3, <2>3, <3>1, <4>1 DEF OwnerInv, Owns
    <3>2. CASE s = t \/ u = t
      BY <1>1, <1>3, <2>1, <2>3, <3>2
    <3>3. QED
      BY <3>1, <3>2
  <2>4. ASSUME NEW b \in Uncollected', \A s \in Threads : logBuffer'[s] # b
        PROVE  FALSE
    <3>1. b # heap + 1
      BY <1>3, <2>4
    <3>2. b \in Uncollected
      BY <1>4, <2>4, <3>1
    <3>3. logBuffer[t] = Null /\ b # Null
      BY <1>1, <1>2, <3>2, UncollectedType DEF PhaseInv, Null, Buffers
    <3>4. \A s \in Threads : logBuffer[s] # b
      BY <1>3, <2>4, <3>3
    <3>5. eventBuf[b].epoch \in 0 .. globalEpoch - 1
      BY <3>2, <3>4 DEF OwnerInv
    <3>6. QED
      BY <1>2, <3>5
  <2>5. QED
    BY <1>2, <2>2, <2>3, <2>4 DEF OwnerInv
<1>10. QED
  BY <1>6, <1>7, <1>8, <1>9

LEMMA InitLeakInv == Init => LeakInv /\ Doomed = {}
<1> SUFFICES ASSUME Init PROVE LeakInv /\ Doomed = {}
  OBVIOUS
<1>1. /\ globalEpoch = 0 /\ heap = 0 /\ freeBufs = << >> /\ bufsInUse = << >>
      /\ \A t \in Threads : logBuffer[t] = Null /\ pc[t] \in {"none", "start"}
  BY DEF Init
<1>2. Uncollected = {} /\ \A t \in Threads : ~Owns(t)
  BY <1>1 DEF Uncollected, Owns
<1>3. /\ \A b : ~InSeq(b, freeBufs) /\ ~InSeq(b, bufsInUse)
      /\ \A t \in Threads : logBuffer[t] <= heap
  BY <1>1 DEF InSeq, Null
<1>4. QED
  BY <1>1, <1>2, <1>3 DEF LeakInv, PhaseInv, OwnerInv, RaceInv, Doomed, AfterCollect, Resetting

\* The end of an epoch dooms at most the buffers of the other threads.
LEMMA WinEpochLeakInv ==
  ASSUME ManagerInv, LeakInv, NEW t \in Threads, WinEpoch(t)
  PROVE  /\ LeakInv'
         /\ Doomed' \subseteq Doomed \cup { logBuffer[s] : s \in Created \ {t} }
<1> USE DEF LeakInv
<1>1. TypeOK /\ globalEpoch \in Nat
  BY UncollectedType DEF ManagerInv
<1>2. /\ pc[t] = "cas" /\ globalEpoch' = globalEpoch + 1
      /\ UNCHANGED <<choice, heap, eventBuf, logBuffer, managerVars, local>>
      /\ pc'[t] = "end" /\ \A s \in Threads \ {t} : pc'[s] = pc[s]
  BY <1>1 DEF WinEpoch, Move, TypeOK
<1>3. choice = "EPOCH"
  BY <1>2 DEF PhaseInv
<1>4. Uncollected' = Uncollected /\ \A s \in Threads : Owns(s)' <=> Owns(s)
  BY <1>2 DEF Uncollected, Owns, managerVars
<1>5. PhaseInv'
  BY <1>2, <1>3, <1>4 DEF PhaseInv, managerVars, AfterCollect, Resetting
<1>6. 0 .. globalEpoch - 1 \subseteq 0 .. globalEpoch' - 1 /\ 0 .. globalEpoch \subseteq 0 .. globalEpoch'
  BY <1>1, <1>2
<1>7. OwnerInv'
  BY <1>2, <1>4, <1>6 DEF OwnerInv, managerVars
<1>8. RaceInv'
  BY <1>2, <1>4, <1>6 DEF RaceInv, Logging
<1>9. ASSUME NEW b \in Doomed', b \notin Doomed
      PROVE  b \in { logBuffer[s] : s \in Created \ {t} }
  <2>1. /\ b \in Uncollected /\ b # Null
        /\ \A s \in Threads : logBuffer[s] = b => s # t /\ ~Ends(s)
    BY <1>1, <1>2, <1>4, <1>9, UncollectedType DEF Doomed, Ends, Null, InSection, Resetting
  <2>2. eventBuf[b].epoch \notin 0 .. globalEpoch - 1
    BY <1>9, <2>1 DEF Doomed
  <2>3. PICK s \in Threads : logBuffer[s] = b
    BY <2>1, <2>2 DEF OwnerInv
  <2>4. s \in Created \ {t}
    BY <2>1, <2>3 DEF PhaseInv, Created
  <2>5. QED
    BY <2>3, <2>4
<1>10. QED
  BY <1>5, <1>7, <1>8, <1>9

\* A step of the coordinator takes buffers away from Uncollected, or away from
\* threads that own none.
LEMMA SectionFrame ==
  ASSUME TypeOK, LeakInv, NEW t \in Threads,
         UNCHANGED <<choice, globalEpoch, local>>,
         \A s \in Threads \ {t} : pc'[s] = pc[s],
         pc'[t] \notin Logging \cup {"cas"},
         ~Ends(t)' => \A s \in Threads : ~Owns(s),
         Uncollected' \subseteq Uncollected,
         \A b \in Uncollected' : eventBuf'[b].epoch = eventBuf[b].epoch,
         \A s \in Threads : Owns(s) \/ Owns(s)' => logBuffer'[s] = logBuffer[s]
  PROVE  /\ RaceInv'
         /\ \A s \in Threads : Owns(s)' => Owns(s)
         /\ \A s, u \in Threads : Owns(s)' /\ logBuffer'[s] = logBuffer'[u] => s = u
         /\ \A b \in Uncollected' :
              /\ choice' = "EPOCH" => eventBuf'[b].epoch \in 0 .. globalEpoch'
              /\ (\A s \in Threads : logBuffer'[s] # b) =>
                   eventBuf'[b].epoch \in 0 .. globalEpoch' - 1
         /\ Doomed' \subseteq Doomed
<1> USE DEF LeakInv
<1>1. \A s \in Threads : Owns(s)' => /\ Owns(s) /\ logBuffer'[s] = logBuffer[s]
                                     /\ eventBuf'[logBuffer[s]].epoch = eventBuf[logBuffer[s]].epoch
  BY DEF Owns
<1>2. \A s \in Threads : \A b \in Uncollected' : logBuffer[s] = b <=> logBuffer'[s] = b
  BY DEF Owns
<1>3. RaceInv'
  BY <1>1 DEF RaceInv, Ends, InSection, Resetting
<1>4. \A s, u \in Threads : Owns(s)' /\ logBuffer'[s] = logBuffer'[u] => s = u
  <2> SUFFICES ASSUME NEW s \in Threads, NEW u \in Threads, Owns(s)', logBuffer'[s] = logBuffer'[u]
               PROVE  s = u
    OBVIOUS
  <2>1. Owns(s) /\ logBuffer[s] = logBuffer[u]
    BY <1>1, <1>2 DEF Owns
  <2>2. QED
    BY <2>1 DEF OwnerInv
<1>5. ASSUME NEW b \in Uncollected'
      PROVE  /\ choice' = "EPOCH" => eventBuf'[b].epoch \in 0 .. globalEpoch'
             /\ (\A s \in Threads : logBuffer'[s] # b) =>
                  eventBuf'[b].epoch \in 0 .. globalEpoch' - 1
  BY <1>2 DEF OwnerInv
<1>6. ASSUME NEW b \in Doomed'
      PROVE  b \in Doomed
  <2>1. /\ b \in Uncollected' /\ b \in Uncollected
        /\ eventBuf[b].epoch \in 0 .. globalEpoch - 1
        /\ \A s \in Threads : logBuffer'[s] = b => ~Ends(s)'
    BY <1>6 DEF Doomed
  <2>2. ASSUME NEW s \in Threads, logBuffer[s] = b
        PROVE  ~Ends(s)
    <3>1. Owns(s) /\ ~Ends(s)'
      BY <1>2, <2>1, <2>2 DEF Owns
    <3>2. s # t
      BY <3>1
    <3>3. QED
      BY <3>1, <3>2 DEF Ends
  <2>3. QED
    BY <2>1, <2>2 DEF Doomed
<1>7. QED
  BY <1>1, <1>3, <1>4, <1>5, <1>6

\* Steps of endEpoch() other than the collection of a buffer.
LEMMA EndEpochLeakInv ==
  ASSUME ManagerInv, LeakInv, NEW t \in Threads, EndEpoch(t), ~\E s \in Threads : Collect(t, s)
  PROVE  LeakInv' /\ Doomed' \subseteq Doomed
<1> USE DEF LeakInv
<1> DEFINE Reset == ResetEpoch(t) \/ ResetEvents(t) \/ Recycle(t)
<1>0. \/ BeginEndEpoch(t) \/ BeginReclaim(t) \/ StopSpinning(t) \/ EndEndEpoch(t) \/ Fault(t)
      \/ \E s \in Threads : Reclaim(t, s)
      \/ Reset
  BY DEF EndEpoch
<1>1. TypeOK /\ globalEpoch \in Nat
  BY UncollectedType DEF ManagerInv
<1>2. /\ UNCHANGED <<choice, globalEpoch, heap, bufsInUse, local>>
      /\ \A s \in Threads \ {t} : pc'[s] = pc[s]
      /\ pc[t] \in InSection \cup {"end"}
      /\ pc'[t] \in InSection \cup {"alloc", "fault"}
  BY <1>0, <1>1 DEF BeginEndEpoch, BeginReclaim, StopSpinning, ResetEpoch, ResetEvents, Recycle,
     EndEndEpoch, Fault, Reclaim, Move, TypeOK, InSection, Resetting, managerVars
<1>3. choice = "EPOCH" /\ choice' = "EPOCH"
  BY <1>2 DEF PhaseInv, InSection, Resetting
<1>4. Uncollected' = Uncollected
  BY <1>2 DEF Uncollected
<1>5. \A b \in Uncollected : eventBuf'[b].epoch = eventBuf[b].epoch
  <2>1. CASE Reset
    <3>1. next \in DOMAIN bufsInUse
      <4>1. CASE ResetEpoch(t)
        BY <1>1, <4>1, LenProperties DEF ResetEpoch, TypeOK
      <4>2. CASE ResetEvents(t) \/ Recycle(t)
        BY <4>2 DEF ResetEvents, Recycle, Move, Resetting, ManagerInv, ResetInv
      <4>3. QED
        BY <2>1, <4>1, <4>2
    <3>2. \A b \in Uncollected : b \in Buffers /\ b # bufsInUse[next]
      BY <1>1, <3>1, UncollectedType DEF Uncollected, InSeq
    <3>3. QED
      BY <1>1, <2>1, <3>2 DEF ResetEpoch, ResetEvents, Recycle, TypeOK
  <2>2. CASE ~Reset
    BY <1>0, <2>2 DEF BeginEndEpoch, BeginReclaim, StopSpinning, EndEndEpoch, Fault, Reclaim
  <2>3. QED
    BY <2>1, <2>2
<1>6. \A w, u \in Threads : pc'[w] \in InSection /\ pc'[u] \in InSection => w = u
  <2>1. ManagerInv'
    BY EndEpochInv
  <2>2. QED
    BY <1>1, <2>1, EpochProtoAssumption DEF ManagerInv, LockInv
<1>7. /\ \A s \in Threads : logBuffer'[s] = logBuffer[s] \/ (~Owns(s) /\ logBuffer'[s] = Null)
      /\ \A s \in Threads : pc[s] \in {"none", "start"} => logBuffer'[s] = Null
  <2>1. CASE \E s \in Threads : Reclaim(t, s)
    <3>1. pc[t] = "reclaim"
      BY <2>1 DEF Reclaim, Move
    <3>2. \A s \in Threads : ~Owns(s)
      BY <3>1 DEF PhaseInv, AfterCollect
    <3>3. \A s \in Threads : logBuffer'[s] \in {logBuffer[s], Null}
      BY <1>1, <2>1 DEF Reclaim, TypeOK
    <3>4. QED
      BY <3>2, <3>3 DEF PhaseInv
  <2>2. CASE ~\E s \in Threads : Reclaim(t, s)
    BY <1>0, <2>2 DEF BeginEndEpoch, BeginReclaim, StopSpinning, EndEndEpoch, Fault, ResetEpoch, ResetEvents,
                      Recycle, PhaseInv
  <2>3. QED
    BY <2>1, <2>2
<1>8. \A s \in Threads : /\ Owns(s) \/ Owns(s)' => logBuffer'[s] = logBuffer[s]
                         /\ Owns(s)' <=> Owns(s)
  BY <1>1, <1>4, <1>7, UncollectedType DEF Owns, Null, Buffers
<1>9. pc[t] \in AfterCollect \/ pc'[t] \in AfterCollect => \A s \in Threads : ~Owns(s)
  <2>1. CASE pc[t] \in AfterCollect
    BY <2>1 DEF PhaseInv
  <2>2. CASE BeginReclaim(t)
    BY <2>2 DEF BeginReclaim, Move, PhaseInv
  <2>3. CASE pc[t] \notin AfterCollect /\ ~BeginReclaim(t)
    <3>1. pc'[t] \notin AfterCollect
      BY <1>0, <1>1, <2>3 DEF BeginEndEpoch, StopSpinning, ResetEpoch, ResetEvents, Recycle, EndEndEpoch,
         Fault, Reclaim, Move, TypeOK, AfterCollect, Resetting
    <3>2. QED
      BY <2>3, <3>1
  <2>4. QED
    BY <2>1, <2>2, <2>3
<1>10. ~Ends(t)' => \A s \in Threads : ~Owns(s)
  <2>1. ~Ends(t)' => pc[t] = "recycle"
    BY <1>0, <1>1, <1>2
       DEF Ends, BeginEndEpoch, BeginReclaim, StopSpinning, ResetEpoch, ResetEvents, Recycle, EndEndEpoch,
           Fault, Reclaim, Move, TypeOK, InSection, Resetting
  <2>2. QED
    BY <1>9, <2>1 DEF AfterCollect
<1>11. /\ RaceInv'
       /\ \A s, u \in Threads : Owns(s)' /\ logBuffer'[s] = logBuffer'[u] => s = u
       /\ \A b \in Uncollected' :
            /\ choice' = "EPOCH" => eventBuf'[b].epoch \in 0 .. globalEpoch'
            /\ (\A s \in Threads : logBuffer'[s] # b) =>
                 eventBuf'[b].epoch \in 0 .. globalEpoch' - 1
       /\ Doomed' \subseteq Doomed
  <2>1. pc'[t] \notin Logging \cup {"cas"}
    BY <1>2 DEF Logging, InSection, Resetting
  <2>2. QED
    BY <1>1, <1>2, <1>4, <1>5, <1>8, <1>10, <2>1, SectionFrame
<1>12. OwnerInv'
  <2>1. ASSUME NEW b \in Buffers, InSeq(b, freeBufs')
        PROVE  InSeq(b, bufsInUse')
    <3>1. CASE Recycle(t)
      <4>1. /\ freeBufs' = Append(freeBufs, bufsInUse[next])
            /\ InSeq(bufsInUse[next], bufsInUse) /\ bufsInUse[next] \in Buffers
        BY <1>1, <3>1 DEF Recycle, Move, InSeq, ManagerInv, ResetInv, Resetting
      <4>2. InSeq(b, freeBufs) \/ b = bufsInUse[next]
        BY <1>1, <2>1, <4>1, AppendProperties DEF InSeq, TypeOK
      <4>3. QED
        BY <1>2, <4>1, <4>2 DEF OwnerInv
    <3>2. CASE ~Recycle(t)
      <4>1. freeBufs' = freeBufs
        BY <1>0, <3>2 DEF BeginEndEpoch, BeginReclaim, StopSpinning, ResetEpoch, ResetEvents, EndEndEpoch,
                          Fault, Reclaim, managerVars
      <4>2. QED
        BY <1>2, <2>1, <4>1 DEF OwnerInv
    <3>3. QED
      BY <3>1, <3>2
  <2>2. \A b \in Buffers : InSeq(b, bufsInUse') => b <= heap'
    BY <1>2 DEF OwnerInv
  <2>3. \A s \in Threads : logBuffer'[s] <= heap'
    <3>1. heap \in Nat
      BY <1>1, UncollectedType
    <3>2. QED
      BY <1>2, <1>7, <3>1 DEF OwnerInv, Null
  <2>4. QED
    BY <1>11, <2>1, <2>2, <2>3 DEF OwnerInv
<1>13. PhaseInv'
  <2>1. \A s \in Threads : Owns(s)' => s \in threadLocalBufs'
    <3>1. CASE StopSpinning(t)
      <4>1. pc[t] = "reclaim"
        BY <3>1 DEF StopSpinning, Move
      <4>2. QED
        BY <1>8, <1>9, <4>1 DEF AfterCollect
    <3>2. CASE ~StopSpinning(t)
      <4>1. threadLocalBufs' = threadLocalBufs
        BY <1>0, <3>2 DEF BeginEndEpoch, BeginReclaim, ResetEpoch, ResetEvents, Recycle, EndEndEpoch, Fault,
                          Reclaim, managerVars
      <4>2. QED
        BY <1>3, <1>8, <4>1 DEF PhaseInv
    <3>3. QED
      BY <3>1, <3>2
  <2>2. ASSUME NEW w \in Threads, pc'[w] = "collect", NEW s \in Threads, Owns(s)'
        PROVE  s \in toVisit'
    <3>1. CASE w = t
      <4>1. BeginEndEpoch(t)
        BY <1>0, <1>1, <2>2, <3>1 DEF BeginReclaim, ResetEpoch, ResetEvents, Recycle, EndEndEpoch, Fault,
           Reclaim, StopSpinning, Move, TypeOK
      <4>2. QED
        BY <1>3, <1>8, <2>2, <4>1 DEF BeginEndEpoch, PhaseInv
    <3>2. CASE w # t
      <4>1. pc'[t] \in {"alloc", "fault"} /\ pc[w] = "collect"
        BY <1>2, <1>6, <2>2, <3>2 DEF InSection
      <4>2. pc[t] \in InSection
        BY <1>0, <1>1, <4>1
          DEF BeginEndEpoch, BeginReclaim, StopSpinning, ResetEpoch, ResetEvents, Recycle, EndEndEpoch, Fault,
              Reclaim, Move, TypeOK, InSection, Resetting
      <4>3. QED
        BY <1>1, <3>2, <4>1, <4>2, OneInSection DEF InSection
    <3>3. QED
      BY <3>1, <3>2
  <2>3. ASSUME NEW w \in Threads, pc'[w] \in AfterCollect
        PROVE  \A s \in Threads : ~Owns(s)'
    <3>1. CASE w = t
      BY <1>8, <1>9, <2>3, <3>1
    <3>2. CASE w # t
      BY <1>2, <1>8, <2>3, <3>2 DEF PhaseInv
    <3>3. QED
      BY <3>1, <3>2
  <2>4. \A s \in Threads : pc'[s] \in {"none", "start"} => logBuffer'[s] = Null
    BY <1>2, <1>7 DEF InSection, Resetting
  <2>5. QED
    BY <1>3, <2>1, <2>2, <2>3, <2>4 DEF PhaseInv
<1>14. QED
  BY <1>11, <1>12, <1>13

LEMMA CollectLeakInv ==
  ASSUME ManagerInv, LeakInv, NEW t \in Threads, NEW s \in Threads, Collect(t, s),
         logBuffer[s] \in Buffers, bufsInUse' = Append(bufsInUse, logBuffer[s])
  PROVE  LeakInv' /\ Doomed' \subseteq Doomed
<1> USE DEF LeakInv
<1>1. TypeOK /\ heap \in Nat
  BY UncollectedType DEF ManagerInv
<1>2. /\ UNCHANGED <<choice, globalEpoch, heap, eventBuf, logBuffer, freeBufs, threadLocalBufs, local>>
      /\ pc' = pc /\ pc[t] = "collect"
      /\ s \in toVisit /\ toVisit' = toVisit \ {s}
  BY <1>1 DEF Collect, Move, TypeOK
<1>3. choice = "EPOCH" /\ choice' = "EPOCH"
  BY <1>2 DEF PhaseInv
<1>5. \A b \in Buffers : InSeq(b, bufsInUse') <=> InSeq(b, bufsInUse) \/ b = logBuffer[s]
  BY <1>1, AppendKeeps DEF TypeOK
<1>6. Uncollected' = Uncollected \ {logBuffer[s]}
  <2>1. 1 .. heap \subseteq Buffers
    BY <1>1, EpochProtoAssumption DEF Buffers, TypeOK
  <2>2. QED
    BY <1>2, <1>5, <2>1 DEF Uncollected
<1>7. \A u \in Threads : Owns(u)' => Owns(u) /\ u # s
  BY <1>2, <1>6 DEF Owns
<1>8. /\ RaceInv'
      /\ \A v, u \in Threads : Owns(v)' /\ logBuffer'[v] = logBuffer'[u] => v = u
      /\ \A b \in Uncollected' :
           /\ choice' = "EPOCH" => eventBuf'[b].epoch \in 0 .. globalEpoch'
           /\ (\A u \in Threads : logBuffer'[u] # b) =>
                eventBuf'[b].epoch \in 0 .. globalEpoch' - 1
      /\ Doomed' \subseteq Doomed
  <2>1. pc'[t] \notin Logging \cup {"cas"} /\ Ends(t)'
    BY <1>2 DEF Logging, Ends, InSection
  <2>2. QED
    BY <1>1, <1>2, <1>6, <2>1, SectionFrame
<1>9. OwnerInv'
  <2>1. \A b \in Buffers : InSeq(b, freeBufs') => InSeq(b, bufsInUse')
    BY <1>2, <1>5 DEF OwnerInv
  <2>2. /\ \A b \in Buffers : InSeq(b, bufsInUse') => b <= heap'
        /\ \A u \in Threads : logBuffer'[u] <= heap'
    BY <1>2, <1>5 DEF OwnerInv
  <2>3. QED
    BY <1>8, <2>1, <2>2 DEF OwnerInv
<1>10. PhaseInv'
  <2>1. \A u \in Threads : Owns(u)' => u \in threadLocalBufs'
    BY <1>2, <1>3, <1>7 DEF PhaseInv
  <2>2. ASSUME NEW w \in Threads
        PROVE  /\ pc'[w] = "collect" => \A u \in Threads : Owns(u)' => u \in toVisit'
               /\ pc'[w] \in AfterCollect => \A u \in Threads : ~Owns(u)'
    BY <1>2, <1>7 DEF PhaseInv
  <2>3. QED
    BY <1>2, <1>3, <2>1, <2>2 DEF PhaseInv
<1>11. QED
  BY <1>8, <1>9, <1>10

\* No thread is created, or goes away.
LEMMA CreatedFixed ==
  ASSUME ManagerInv, [Next]_vars
  PROVE  Created' = Created
<1>1. TypeOK
  BY DEF ManagerInv
<1>2. CASE UNCHANGED vars
  BY <1>2 DEF vars, Created
<1>3. CASE Finished
  BY <1>3 DEF Finished, vars, Created
<1>4. ASSUME NEW t \in Threads, ThreadStep(t)
      PROVE  Created' = Created
  <2>1. pc[t] # "none" /\ \E to \in PC \ {"none"} : pc' = [ pc EXCEPT ![t] = to ]
    BY <1>4, ThreadMoves
  <2>2. QED
    BY <1>1, <2>1 DEF TypeOK, Created
<1>5. QED
  BY <1>2, <1>3, <1>4 DEF Next

\* All steps, by what they doom, until a NULL is collected.
LEMMA NextLeakInv ==
  ASSUME ManagerInv, LeakInv, [Next]_vars, ~InSeq(Null, bufsInUse')
  PROVE  /\ LeakInv'
         /\ \/ globalEpoch' = globalEpoch /\ Doomed' \subseteq Doomed
            \/ /\ globalEpoch' = globalEpoch + 1
               /\ \E t \in Created : Doomed' \subseteq Doomed \cup { logBuffer[s] : s \in Created \ {t} }
<1>1. CASE UNCHANGED vars \/ Finished
  BY <1>1 DEF Finished, vars, managerVars, countVars, LeakInv, PhaseInv, OwnerInv, RaceInv, Doomed,
              Uncollected, Owns, Ends
<1>2. ASSUME NEW t \in Threads, ThreadStep(t), \A u \in Threads : pc[u] # "fault"
      PROVE  /\ LeakInv'
             /\ \/ globalEpoch' = globalEpoch /\ Doomed' \subseteq Doomed
                \/ /\ globalEpoch' = globalEpoch + 1
                   /\ \E u \in Created :
                        Doomed' \subseteq Doomed \cup { logBuffer[s] : s \in Created \ {u} }
  <2>1. CASE AttachStatic(t)
    BY <2>1, AttachLeakInv DEF AttachStatic
  <2>2. CASE CallAllocBuffer(t)
    BY <2>2, AllocLeakInv DEF CallAllocBuffer, AllocBuffer
  <2>3. CASE Quiet(t)
    BY <2>3, QuietLeakInv, QuietFrame
  <2>4. CASE WinEpoch(t)
    <3>1. t \in Created /\ globalEpoch' = globalEpoch + 1
      BY <2>4 DEF WinEpoch, Move, Created
    <3>2. QED
      BY <2>4, <3>1, WinEpochLeakInv
  <2>5. ASSUME NEW s \in Threads, Collect(t, s)
        PROVE  LeakInv' /\ globalEpoch' = globalEpoch /\ Doomed' \subseteq Doomed
    <3>1. PICK buf \in Pointees(s) : bufsInUse' = Append(bufsInUse, buf)
      BY <2>5 DEF Collect
    <3>2. buf \in Buffers \cup {Null} /\ bufsInUse \in Seq(Buffers \cup {Null})
      BY DEF Pointees, ManagerInv, TypeOK
    <3>3. buf # Null
      BY <3>1, <3>2, AppendKeeps
    <3>4. buf = logBuffer[s] /\ logBuffer[s] \in Buffers
      BY <3>2, <3>3 DEF Pointees
    <3>5. QED
      BY <2>5, <3>1, <3>4, CollectLeakInv DEF Collect
  <2>6. CASE EndEpoch(t)
    <3>1. globalEpoch' = globalEpoch
      BY <2>6 DEF EndEpoch, BeginEndEpoch, Collect, BeginReclaim, Reclaim, StopSpinning, ResetEpoch,
                  ResetEvents, Recycle, EndEndEpoch, Fault
    <3>2. QED
      BY <2>5, <2>6, <3>1, EndEpochLeakInv
  <2>7. QED
    BY <1>2, <2>1, <2>2, <2>3, <2>4, <2>6 DEF ThreadStep, Quiet, ReadField, WriteField, Test
<1>3. QED
  BY <1>1, <1>2 DEF Next

-----------------------------------------------------------------------------
\* At most one buffer of each other thread is doomed an epoch.
CountInv == Cardinality(Doomed) <= globalEpoch * (Cardinality(Created) - 1)

LEMMA DoomedFinite ==
  ASSUME TypeOK
  PROVE  IsFiniteSet(Doomed) /\ IsFiniteSet(Created) /\ Cardinality(Created) \in Nat
<1>1. heap \in Nat
  BY UncollectedType
<1>2. IsFiniteSet(1 .. heap) /\ Doomed \subseteq 1 .. heap
  BY <1>1, FS_Interval DEF Doomed, Uncollected
<1>3. IsFiniteSet(Created)
  BY EpochProtoAssumption, FS_Subset DEF Created
<1>4. QED
  BY <1>2, <1>3, FS_Subset, FS_CardinalityType

LEMMA OthersCounted ==
  ASSUME TypeOK, NEW t \in Created
  PROVE  /\ IsFiniteSet({ logBuffer[s] : s \in Created \ {t} })
         /\ Cardinality({ logBuffer[s] : s \in Created \ {t} }) <= Cardinality(Created) - 1
<1> DEFINE others == Created \ {t}
           bufs   == { logBuffer[s] : s \in others }
           buf    == [ s \in others |-> logBuffer[s] ]
<1>1. IsFiniteSet(others) /\ Cardinality(others) = Cardinality(Created) - 1
  BY DoomedFinite, FS_RemoveElement
<1>2. buf \in Surjection(others, bufs)
  BY DEF Surjection
<1>3. QED
  BY <1>1, <1>2, FS_Surjection

LEMMA InitCountInv == Init => CountInv
<1> SUFFICES ASSUME Init PROVE CountInv
  OBVIOUS
<1>1. TypeOK /\ Doomed = {} /\ globalEpoch = 0
  BY InitManagerInv, InitLeakInv DEF ManagerInv, Init
<1>2. Cardinality(Created) \in Nat
  BY <1>1, DoomedFinite
<1>3. QED
  BY <1>1, <1>2, FS_EmptySet DEF CountInv

\* A collected NULL stays in bufsInUse.
LEMMA NullStays ==
  ASSUME ManagerInv, InSeq(Null, bufsInUse), [Next]_vars
  PROVE  InSeq(Null, bufsInUse')
<1>1. ASSUME NEW t \in Threads, NEW s \in Threads, Collect(t, s)
      PROVE  InSeq(Null, bufsInUse')
  <2>1. PICK buf \in Pointees(s) : bufsInUse' = Append(bufsInUse, buf)
    BY <1>1 DEF Collect
  <2>2. buf \in Buffers \cup {Null} /\ bufsInUse \in Seq(Buffers \cup {Null})
    BY DEF Pointees, ManagerInv, TypeOK
  <2>3. QED
    BY <2>1, <2>2, AppendKeeps
<1>2. CASE UNCHANGED bufsInUse
  BY <1>2
<1>3. QED
  BY <1>1, <1>2, GrowsOnly DEF Next, Finished, vars, managerVars

LEMMA NextCountInv ==
  ASSUME ManagerInv, LeakInv, CountInv, [Next]_vars, ~InSeq(Null, bufsInUse')
  PROVE  LeakInv' /\ CountInv'
<1> DEFINE n == Cardinality(Created) - 1
<1>1. TypeOK /\ globalEpoch \in Nat
  BY UncollectedType DEF ManagerInv
<1>2. LeakInv' /\ Created' = Created
  BY NextLeakInv, CreatedFixed
<1>3. /\ IsFiniteSet(Doomed) /\ Cardinality(Doomed) \in Nat
      /\ Cardinality(Created) \in Nat /\ n \in Int
  BY <1>1, DoomedFinite, FS_CardinalityType
<1>4. CASE globalEpoch' = globalEpoch /\ Doomed' \subseteq Doomed
  <2>1. Cardinality(Doomed') \in Nat /\ Cardinality(Doomed') <= Cardinality(Doomed)
    BY <1>3, <1>4, FS_Subset, FS_CardinalityType
  <2>2. Cardinality(Doomed') <= globalEpoch * n
    BY <1>1, <1>3, <2>1 DEF CountInv
  <2>3. QED
    BY <1>2, <1>4, <2>2 DEF CountInv
<1>5. ASSUME globalEpoch' = globalEpoch + 1,
             NEW t \in Created, Doomed' \subseteq Doomed \cup { logBuffer[s] : s \in Created \ {t} }
      PROVE  CountInv'
  <2> DEFINE bufs == { logBuffer[s] : s \in Created \ {t} }
  <2>1. IsFiniteSet(bufs) /\ Cardinality(bufs) \in Nat /\ Cardinality(bufs) <= n
    BY <1>1, OthersCounted, FS_CardinalityType
  <2> HIDE DEF bufs
  <2>2. /\ IsFiniteSet(Doomed \cup bufs)
        /\ Cardinality(Doomed \cup bufs) \in Nat
        /\ Cardinality(Doomed \cup bufs) <= Cardinality(Doomed) + Cardinality(bufs)
    <3>1. /\ IsFiniteSet(Doomed \cup bufs) /\ IsFiniteSet(Doomed \cap bufs)
          /\ Cardinality(Doomed \cup bufs) =
               Cardinality(Doomed) + Cardinality(bufs) - Cardinality(Doomed \cap bufs)
      BY <1>3, <2>1, FS_Union, FS_Intersection
    <3>2. Cardinality(Doomed \cap bufs) \in Nat
      BY <3>1, FS_CardinalityType
    <3>3. Cardinality(Doomed \cup bufs) \in Nat
      BY <3>1, FS_CardinalityType
    <3>4. QED
      BY <1>3, <2>1, <3>1, <3>2, <3>3
  <2>3. Cardinality(Doomed') \in Nat /\ Cardinality(Doomed') <= Cardinality(Doomed \cup bufs)
    BY <1>5, <2>2, FS_Subset, FS_CardinalityType DEF bufs
  <2>4. Cardinality(Doomed') <= globalEpoch * n + n
    <3>1. globalEpoch * n \in Int
      BY <1>1, <1>3
    <3>2. Cardinality(Doomed) <= globalEpoch * n
      BY DEF CountInv
    <3> HIDE DEF n
    <3>3. QED
      BY <1>3, <2>1, <2>2, <2>3, <3>1, <3>2
  <2>5. (globalEpoch + 1) * n = globalEpoch * n + n
    BY <1>1, <1>3
  <2>6. QED
    BY <1>2, <1>5, <2>4, <2>5 DEF CountInv
<1>6. QED
  BY <1>2, <1>4, <1>5, NextLeakInv

\* Nobody points to a leaked buffer: it is of a former epoch, and doomed.
LEMMA LeakedDoomed ==
  ASSUME TypeOK, LeakInv
  PROVE  Leaked \subseteq Doomed
BY DEF Leaked, Doomed, LeakInv, OwnerInv, Uncollected

\* In an epoch at most one buffer is leaked for each thread but the coordinator,
\* however many threads race for its end: allocBuffer() (line 227), endEpoch()
\* (line 177) and the compare-and-swap between them (line 299).
THEOREM FewLeaked == Spec => []LeakBounded
<1> DEFINE Unless == InSeq(Null, bufsInUse) \/ (LeakInv /\ CountInv)
<1>1. TypeOK /\ Unless => LeakBounded
  <2> SUFFICES ASSUME TypeOK, LeakInv, CountInv, ~InSeq(Null, bufsInUse) PROVE LeakBounded
    BY DEF LeakBounded
  <2>1. /\ IsFiniteSet(Doomed) /\ Leaked \subseteq Doomed
        /\ Cardinality(Created) \in Nat /\ globalEpoch \in Nat
    BY DoomedFinite, LeakedDoomed, UncollectedType
  <2>2. /\ Cardinality(Leaked) \in Nat /\ Cardinality(Doomed) \in Nat
        /\ Cardinality(Leaked) <= Cardinality(Doomed)
    BY <2>1, FS_Subset, FS_CardinalityType
  <2>3. globalEpoch * (Cardinality(Created) - 1) \in Int
    BY <2>1
  <2>4. Cardinality(Leaked) <= globalEpoch * (Cardinality(Created) - 1)
    BY <2>2, <2>3 DEF CountInv
  <2>5. QED
    BY <2>4 DEF LeakBounded, Created
<1>2. Init => Unless
  BY InitLeakInv, InitCountInv
<1>3. ManagerInv /\ Unless /\ [Next]_vars => Unless'
  BY NullStays, NextCountInv
<1>4. ManagerInv => TypeOK
  BY DEF ManagerInv
<1> HIDE DEF Unless
<1>5. QED
  BY InitManagerInv, NextManagerInv, <1>1, <1>2, <1>3, <1>4, PTL DEF Spec
=============================================================================
