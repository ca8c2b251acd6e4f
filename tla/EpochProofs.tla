---------------------------- MODULE EpochProofs ----------------------------
(***************************************************************************)
(* Threads and managers agree on the epoch: a live thread whose            *)
(* __log_buffer is set writes to a buffer of the current epoch, which the  *)
(* coordinator will find; so nobody asks for a buffer while he has one.    *)
(* For both wirings and any number of threads and workers.                 *)
(***************************************************************************)
EXTENDS PoolProofs

USE DEF vars, bufferVars, contextVars, managerVars, workerVars, threadVars

\* The registered addresses are those of live threads, at their manager.
TlsInv ==
  \A m \in Managers : \A t \in tlsBufAddrs[m] : Alive(t) /\ ManagerOf(t) = m

\* __log_buffer, unless it has been reclaimed, against the copies of it a
\* thread works with.
LinkInv ==
  \A t \in Threads :
    /\ pc[t] \in {"alloc_ref", "alloc_update"} => logBuffer[t] = Null
    /\ pc[t] = "store" /\ curBuf[t] = Null => logBuffer[t] = Null
    /\ logBuffer[t] # Null =>
         /\ pc[t] \in {"run", "store", "try_inc", "reclaim"} => ref[t].logBuf = logBuffer[t]
         /\ pc[t] \in {"make_ref", "update", "close"} => curBuf[t] = logBuffer[t]

EpochInv == TlsInv /\ LinkInv /\ EpochAgreement

LEMMA EpochInit == Init => EpochInv
BY DEF Init, BufferManagerInit, EpochInv, TlsInv, LinkInv, EpochAgreement, ManagerOf, Managers

\* What the steps that neither allocate nor reclaim leave alone.
LEMMA AgreementStays ==
  ASSUME TypeInv, TlsInv, EpochAgreement,
         UNCHANGED <<logBuffer, tlsBufAddrs, epoch, allocatedBufs>>,
         \A t \in Threads : logBuffer[t] # Null => thrContext'[t] = thrContext[t],
         \A b \in Buffers : /\ eventBuf'[b].epoch = eventBuf[b].epoch
                            /\ eventBuf'[b].threadId = eventBuf[b].threadId,
         \A t \in Threads : pc[t] \notin {"destroy", "done"} <=> pc'[t] \notin {"destroy", "done"}
  PROVE  TlsInv' /\ EpochAgreement'
<1>1. TlsInv'
  BY DEF TlsInv, Alive, Managers, ManagerOf, TypeInv, TypeOK
<1>2. ASSUME NEW t \in Threads, Alive(t)', logBuffer'[t] # Null
      PROVE  LET m == ManagerOf(t) IN
               /\ t \in tlsBufAddrs'[m]
               /\ InSeq(logBuffer'[t], allocatedBufs'[m])
               /\ eventBuf'[logBuffer'[t]].epoch = epoch'[m]
               /\ eventBuf'[logBuffer'[t]].threadId = thrContext'[t].threadId
               /\ thrContext'[t].logBuffer = logBuffer'[t]
  <2>1. Alive(t) /\ logBuffer[t] # Null /\ logBuffer[t] \in Buffers
    BY <1>2 DEF Alive, TypeInv, TypeOK
  <2>2. QED
    BY <2>1 DEF EpochAgreement
<1>3. QED
  BY <1>1, <1>2 DEF EpochAgreement, InSeq, ManagerOf

\* An EventBuffer keeps its epoch and its thread while it is written to.
LEMMA IdsStay ==
  ASSUME TypeInv, NEW t \in Threads,
         \/ StoreEvent(t) \/ UpdateEvents(t) \/ UpdateClose(t) \/ EndRun(t) \/ ExitThread(t)
         \/ UNCHANGED eventBuf
  PROVE  \A b \in Buffers : /\ eventBuf'[b].epoch = eventBuf[b].epoch
                            /\ eventBuf'[b].threadId = eventBuf[b].threadId
<1>1. eventBuf \in [ Buffers -> BufferType ]
  BY DEF TypeInv, TypeOK
<1>2. CASE StoreEvent(t)
  BY <1>1, <1>2 DEF StoreEvent, StoreAt, Record, BufferType
<1>3. CASE UpdateEvents(t)
  BY <1>1, <1>3 DEF UpdateEvents, BufferType
<1>4. CASE UpdateClose(t)
  BY <1>1, <1>4 DEF UpdateClose, BufferType
<1>5. CASE EndRun(t)
  BY <1>1, <1>5 DEF EndRun, WriteBack, BufferType
<1>6. CASE ExitThread(t)
  BY <1>1, <1>6 DEF ExitThread, ThreadExit, BufferType
<1>7. QED
  BY <1>2, <1>3, <1>4, <1>5, <1>6

LEMMA EpochAlloc ==
  ASSUME TypeInv, PoolInv, EpochInv, NEW t \in Threads, CallAllocBuffer(t)
  PROVE  EpochInv'
<1>1. PICK buf \in Buffers : AllocBuffer(t, buf) /\ curBuf' = [ curBuf EXCEPT ![t] = buf ]
  BY DEF CallAllocBuffer
<1> DEFINE m == ManagerOf(t)
<1>2. PICK reused \in BOOLEAN :
        /\ TakeBuffer(t, buf, reused)
        /\ IF reused THEN freeBufs[m] # << >> /\ buf = Last(freeBufs[m]) ELSE buf = heap + 1
  BY <1>1 DEF AllocBuffer
<1>3. /\ eventBuf \in [ Buffers -> BufferType ]
      /\ logBuffer \in [ Threads -> Buffers \cup {Null} ]
      /\ thrContext \in [ Threads -> ContextType ]
      /\ tlsBufAddrs \in [ Managers -> SUBSET Threads ]
      /\ allocatedBufs \in [ Managers -> Seq(Buffers) ]
      /\ freeBufs \in [ Managers -> Seq(Buffers) ]
      /\ pc \in [ Threads -> PC ]
      /\ m \in Managers
      /\ heap \in Nat
      /\ buf # Null
  BY ManagerOfType, BufferManagerAssumption DEF TypeInv, TypeOK, Buffers, Null
<1>4. /\ logBuffer'     = [ logBuffer EXCEPT ![t] = buf ]
      /\ thrContext'    = [ thrContext EXCEPT ![t].logBuffer = buf ]
      /\ allocatedBufs' = [ allocatedBufs EXCEPT ![m] = Append(@, buf) ]
      /\ tlsBufAddrs'   = [ tlsBufAddrs EXCEPT ![m] = @ \cup {t} ]
      /\ eventBuf'      = [ eventBuf EXCEPT
            ![buf] = Assign(Reset(@), thrContext[t].threadId, epoch[m]) ]
      /\ UNCHANGED epoch
  BY <1>2 DEF TakeBuffer
<1>5. /\ UNCHANGED ref
      /\ pc[t] \in {"alloc_ref", "alloc_update"}
      /\ \/ pc' = [ pc EXCEPT ![t] = "make_ref" ]
         \/ pc' = [ pc EXCEPT ![t] = "update" ]
  BY DEF CallAllocBuffer, At, Goto
<1>6. TlsInv'
  BY <1>3, <1>4, <1>5 DEF EpochInv, TlsInv, Alive, Managers, ManagerOf
<1>7. LinkInv'
  BY <1>1, <1>3, <1>4, <1>5 DEF EpochInv, LinkInv, TypeInv, TypeOK
\* The buffer taken is not one that another thread has in this epoch.
<1>8. ASSUME NEW n \in Managers, InSeq(buf, allocatedBufs[n])
      PROVE  FALSE
  <2>1. PICK i \in DOMAIN allocatedBufs[n] : allocatedBufs[n][i] = buf
    BY <1>8 DEF InSeq
  <2>2. /\ <<"allocated", n>> \in Holders /\ Pool[<<"allocated", n>>] = allocatedBufs[n]
        /\ <<"free", m>> \in Holders /\ Pool[<<"free", m>>] = freeBufs[m]
    BY <1>3, PoolAt
  <2>3. CASE ~reused
    <3>1. allocatedBufs[n] \in Seq(1 .. heap)
      BY <2>2 DEF PoolInv, OnePlace
    <3>2. buf \in 1 .. heap
      BY <2>1, <3>1, ElementOfSeq, LenProperties
    <3>3. QED
      BY <1>2, <1>3, <2>3, <3>2
  <2>4. CASE reused
    <3>1. Len(freeBufs[m]) \in DOMAIN freeBufs[m] /\ buf = freeBufs[m][Len(freeBufs[m])]
      <4>1. Len(freeBufs[m]) \in Nat \ {0} /\ DOMAIN freeBufs[m] = 1 .. Len(freeBufs[m])
        BY <1>2, <1>3, <2>4, EmptySeq, LenProperties
      <4>2. QED
        BY <1>2, <2>4, <4>1 DEF Last
    <3>2. Pool[<<"allocated", n>>][i] = Pool[<<"free", m>>][Len(freeBufs[m])]
      BY <2>1, <2>2, <3>1
    <3>3. <<"allocated", n>> = <<"free", m>>
      BY <2>1, <2>2, <3>1, <3>2 DEF PoolInv, OnePlace
    <3>4. QED
      BY <3>3
  <2>5. QED
    BY <2>3, <2>4
<1>9. \A n \in Managers, b \in Buffers :
        InSeq(b, allocatedBufs[n]) \/ (n = m /\ b = buf) => InSeq(b, allocatedBufs'[n])
  <2>1. /\ allocatedBufs[m] \in Seq(Buffers)
        /\ Len(allocatedBufs[m]) \in Nat
        /\ DOMAIN allocatedBufs[m] = 1 .. Len(allocatedBufs[m])
    BY <1>3, LenProperties
  <2>2. /\ DOMAIN allocatedBufs'[m] = 1 .. Len(allocatedBufs[m]) + 1
        /\ allocatedBufs'[m][Len(allocatedBufs[m]) + 1] = buf
        /\ \A i \in 1 .. Len(allocatedBufs[m]) : allocatedBufs'[m][i] = allocatedBufs[m][i]
    BY <1>3, <1>4, <2>1, AppendProperties, LenProperties
  <2>3. InSeq(buf, allocatedBufs'[m])
    BY <2>1, <2>2, Len(allocatedBufs[m]) + 1 \in 1 .. Len(allocatedBufs[m]) + 1 DEF InSeq
  <2>4. ASSUME NEW b \in Buffers, InSeq(b, allocatedBufs[m])
        PROVE  InSeq(b, allocatedBufs'[m])
    <3>1. PICK i \in 1 .. Len(allocatedBufs[m]) : allocatedBufs[m][i] = b
      BY <2>1, <2>4 DEF InSeq
    <3>2. i \in 1 .. Len(allocatedBufs[m]) + 1
      BY <2>1
    <3>3. QED
      BY <2>2, <3>1, <3>2 DEF InSeq
  <2>5. ASSUME NEW n \in Managers, n # m
        PROVE  allocatedBufs'[n] = allocatedBufs[n]
    BY <1>3, <1>4, <2>5
  <2>6. QED
    BY <2>3, <2>4, <2>5
<1>10. /\ eventBuf'[buf].epoch = epoch[m]
       /\ eventBuf'[buf].threadId = thrContext[t].threadId
       /\ \A b \in Buffers \ {buf} : eventBuf'[b] = eventBuf[b]
  BY <1>3, <1>4 DEF Assign, Reset, BufferType
<1>11. /\ thrContext'[t].threadId = thrContext[t].threadId
       /\ thrContext'[t].logBuffer = buf
       /\ \A s \in Threads \ {t} : thrContext'[s] = thrContext[s]
  BY <1>3, <1>4 DEF ContextType
<1>12. EpochAgreement'
  <2> SUFFICES ASSUME NEW s \in Threads, Alive(s)', logBuffer'[s] # Null
               PROVE  LET n == ManagerOf(s) IN
                        /\ s \in tlsBufAddrs'[n]
                        /\ InSeq(logBuffer'[s], allocatedBufs'[n])
                        /\ eventBuf'[logBuffer'[s]].epoch = epoch'[n]
                        /\ eventBuf'[logBuffer'[s]].threadId = thrContext'[s].threadId
                        /\ thrContext'[s].logBuffer = logBuffer'[s]
    BY DEF EpochAgreement, ManagerOf
  <2>1. CASE s = t
    BY <1>3, <1>4, <1>9, <1>10, <1>11, <2>1
  <2>2. CASE s # t
    <3> DEFINE n == ManagerOf(s)
    <3>1. /\ Alive(s) /\ logBuffer'[s] = logBuffer[s]
          /\ logBuffer[s] \in Buffers
          /\ n \in Managers
      BY <1>3, <1>4, <1>5, <2>2, ManagerOfType DEF Alive
    <3>2. /\ s \in tlsBufAddrs[n]
          /\ InSeq(logBuffer[s], allocatedBufs[n])
          /\ eventBuf[logBuffer[s]].epoch = epoch[n]
          /\ eventBuf[logBuffer[s]].threadId = thrContext[s].threadId
          /\ thrContext[s].logBuffer = logBuffer[s]
      BY <3>1 DEF EpochInv, EpochAgreement
    <3>3. logBuffer[s] # buf
      BY <1>8, <3>1, <3>2
    <3>4. s \in tlsBufAddrs'[n]
      BY <1>3, <1>4, <3>1, <3>2
    <3> HIDE DEF n, m
    <3>5. /\ InSeq(logBuffer'[s], allocatedBufs'[n])
          /\ eventBuf'[logBuffer'[s]].epoch = epoch'[n]
          /\ eventBuf'[logBuffer'[s]].threadId = thrContext'[s].threadId
          /\ thrContext'[s].logBuffer = logBuffer'[s]
      BY <1>4, <1>9, <1>10, <1>11, <2>2, <3>1, <3>2, <3>3
    <3>6. QED
      BY <3>4, <3>5 DEF n
  <2>3. QED
    BY <2>1, <2>2
<1>13. QED
  BY <1>6, <1>7, <1>12 DEF EpochInv

\* The coordinator takes the pointers back one by one ...
LEMMA EpochReclaim ==
  ASSUME TypeInv, EpochInv, NEW t \in Threads, ReclaimOne(t)
  PROVE  EpochInv'
<1>1. PICK s \in Threads : ReclaimFrom(t, s)
  BY DEF ReclaimOne
<1> DEFINE m == ManagerOf(t)
<1>2. /\ m \in Managers
      /\ s \in tlsBufAddrs[m]
      /\ logBuffer'   = [ logBuffer EXCEPT ![s] = Null ]
      /\ tlsBufAddrs' = [ tlsBufAddrs EXCEPT ![m] = @ \ {s} ]
      /\ UNCHANGED <<eventBuf, thrContext, epoch, allocatedBufs, pc, ref, curBuf>>
      /\ logBuffer \in [ Threads -> Buffers \cup {Null} ]
      /\ tlsBufAddrs \in [ Managers -> SUBSET Threads ]
  BY <1>1, ManagerOfType DEF ReclaimOne, ReclaimFrom, TypeInv, TypeOK
<1> HIDE DEF m
<1>3. TlsInv'
  BY <1>2 DEF EpochInv, TlsInv, Alive, Managers, ManagerOf
<1>4. LinkInv'
  BY <1>2 DEF EpochInv, LinkInv
<1>5. EpochAgreement'
  <2> SUFFICES ASSUME NEW u \in Threads, Alive(u)', logBuffer'[u] # Null
               PROVE  LET n == ManagerOf(u) IN
                        /\ u \in tlsBufAddrs'[n]
                        /\ InSeq(logBuffer'[u], allocatedBufs'[n])
                        /\ eventBuf'[logBuffer'[u]].epoch = epoch'[n]
                        /\ eventBuf'[logBuffer'[u]].threadId = thrContext'[u].threadId
                        /\ thrContext'[u].logBuffer = logBuffer'[u]
    BY DEF EpochAgreement, ManagerOf
  <2>1. u # s /\ logBuffer'[u] = logBuffer[u] /\ Alive(u)
    BY <1>2 DEF Alive
  <2>2. ManagerOf(u) \in Managers
    BY ManagerOfType
  <2>3. QED
    BY <1>2, <2>1, <2>2 DEF EpochInv, EpochAgreement
<1>6. QED
  BY <1>3, <1>4, <1>5 DEF EpochInv

\* ... and when it has them all, the epoch can end.
LEMMA EpochEnds ==
  ASSUME TypeInv, EpochInv, NEW t \in Threads, StartWorker(t) \/ TooManyWorkers(t)
  PROVE  EpochInv'
<1> DEFINE m == ManagerOf(t)
<1>1. /\ m \in Managers
      /\ pc[t] = "reclaim"
      /\ tlsBufAddrs[m] = {}
      /\ allocatedBufs' = [ allocatedBufs EXCEPT ![m] = << >> ]
      /\ epoch' = [ epoch EXCEPT ![m] = @ + 1 ]
      /\ pc' = [ pc EXCEPT ![t] = "alloc_update" ]
      /\ UNCHANGED <<eventBuf, logBuffer, thrContext, tlsBufAddrs, ref, curBuf>>
      /\ pc \in [ Threads -> PC ]
      /\ epoch \in [ Managers -> Nat ]
      /\ allocatedBufs \in [ Managers -> Seq(Buffers) ]
  BY ManagerOfType
     DEF StartWorker, TooManyWorkers, HandOver, SkipEpoch, EndEpoch, At, Goto, TypeInv, TypeOK
<1> HIDE DEF m
<1>2. \A s \in Threads : Alive(s)' <=> Alive(s)
  BY <1>1 DEF Alive
<1>3. ASSUME NEW s \in Threads, Alive(s), logBuffer[s] # Null
      PROVE  ManagerOf(s) # m
  BY <1>1, <1>3 DEF EpochInv, EpochAgreement
<1>4. TlsInv'
  BY <1>1, <1>2 DEF EpochInv, TlsInv, Managers, ManagerOf, TypeInv, TypeOK
<1>5. LinkInv'
  <2>1. logBuffer[t] = Null
    BY <1>1, <1>3 DEF Alive, m
  <2>2. QED
    BY <1>1, <2>1 DEF EpochInv, LinkInv
<1>6. EpochAgreement'
  <2> SUFFICES ASSUME NEW u \in Threads, Alive(u)', logBuffer'[u] # Null
               PROVE  LET n == ManagerOf(u) IN
                        /\ u \in tlsBufAddrs'[n]
                        /\ InSeq(logBuffer'[u], allocatedBufs'[n])
                        /\ eventBuf'[logBuffer'[u]].epoch = epoch'[n]
                        /\ eventBuf'[logBuffer'[u]].threadId = thrContext'[u].threadId
                        /\ thrContext'[u].logBuffer = logBuffer'[u]
    BY DEF EpochAgreement, ManagerOf
  <2>1. Alive(u) /\ logBuffer[u] # Null /\ ManagerOf(u) \in Managers \ {m}
    BY <1>1, <1>2, <1>3, ManagerOfType
  <2>2. QED
    BY <1>1, <2>1 DEF EpochInv, EpochAgreement
<1>7. QED
  BY <1>4, <1>5, <1>6 DEF EpochInv

\* The steps of a thread that do not concern the manager.
LEMMA EpochThreadAlone ==
  ASSUME TypeInv, EpochInv, NEW t \in Threads,
         \/ LoadForRef(t) \/ GetRef(t)
         \/ LoadCurBuf(t) \/ LogReclaimed(t) \/ LogFast(t) \/ LogSlow(t)
         \/ TryIncEpochFails(t) \/ TryIncEpochWins(t)
         \/ UpdateAssertFails(t) \/ UpdateEvents(t) \/ UpdateClose(t)
         \/ EndRun(t) \/ FinishThread(t)
  PROVE  EpochInv'
<1>1. /\ pc \in [ Threads -> PC ]
      /\ ref \in [ Threads -> RefType ]
      /\ curBuf \in [ Threads -> Buffers \cup {Null} ]
      /\ thrContext \in [ Threads -> ContextType ]
  BY DEF TypeInv, TypeOK
<1>2. UNCHANGED <<logBuffer, tlsBufAddrs, epoch, allocatedBufs>>
  BY DEF LoadForRef, GetRef, LoadCurBuf, LogReclaimed, LogFast, LogSlow, StoreEvent,
         TryIncEpochFails, LoseEpoch, TryIncEpochWins, WinEpoch,
         UpdateAssertFails, UpdateEvents, UpdateClose, EndRun, FinishThread
<1>3. \A s \in Threads : logBuffer[s] # Null => thrContext'[s] = thrContext[s]
  <2>1. CASE LoadForRef(t)
    BY <1>1, <2>1 DEF LoadForRef, ConstructContext
  <2>2. CASE ~LoadForRef(t)
    BY <2>2 DEF GetRef, LoadCurBuf, LogReclaimed, LogFast, LogSlow, StoreEvent,
                TryIncEpochFails, TryIncEpochWins,
                UpdateAssertFails, UpdateEvents, UpdateClose, EndRun, FinishThread
  <2>3. QED
    BY <2>1, <2>2
<1>4. StoreEvent(t) \/ UpdateEvents(t) \/ UpdateClose(t) \/ EndRun(t) \/ UNCHANGED eventBuf
  BY DEF LoadForRef, GetRef, LoadCurBuf, LogReclaimed, LogFast, LogSlow,
         TryIncEpochFails, TryIncEpochWins, UpdateAssertFails, FinishThread
<1>5. \E from, to \in PC :
        /\ pc[t] = from
        /\ pc' = [ pc EXCEPT ![t] = to ] \/ UNCHANGED pc
        /\ from \notin {"destroy", "done"} <=> to \notin {"destroy", "done"}
  <2>1. CASE UpdateAssertFails(t)
    BY <1>1, <2>1 DEF UpdateAssertFails
  <2>2. CASE LogSlow(t)
    <3>1. pc[t] = "store" /\ \E to \in {"try_inc", "run"} : pc' = [ pc EXCEPT ![t] = to ]
      BY <2>2 DEF LogSlow, StoreEvent, At, Goto
    <3>2. QED
      BY <3>1 DEF PC
  <2>3. CASE LoadForRef(t)
    <3>1. pc[t] = "idle" /\ \E to \in {"alloc_ref", "make_ref"} : pc' = [ pc EXCEPT ![t] = to ]
      BY <2>3 DEF LoadForRef, At, Goto
    <3>2. QED
      BY <3>1 DEF PC
  <2>4. CASE GetRef(t) \/ LoadCurBuf(t) \/ LogReclaimed(t) \/ LogFast(t)
    BY <2>4 DEF GetRef, LoadCurBuf, LogReclaimed, LogFast, StoreEvent, At, Goto, PC
  <2>5. CASE TryIncEpochFails(t) \/ TryIncEpochWins(t) \/ UpdateEvents(t) \/ UpdateClose(t)
    BY <2>5 DEF TryIncEpochFails, TryIncEpochWins, UpdateEvents, UpdateClose, At, Goto, PC
  <2>6. CASE EndRun(t) \/ FinishThread(t)
    BY <2>6 DEF EndRun, FinishThread, At, Goto, PC
  <2>7. QED
    BY <2>1, <2>2, <2>3, <2>4, <2>5, <2>6
<1>6. \A s \in Threads : pc[s] \notin {"destroy", "done"} <=> pc'[s] \notin {"destroy", "done"}
  BY <1>1, <1>5
<1>7. TlsInv' /\ EpochAgreement'
  BY <1>2, <1>3, <1>4, <1>6, IdsStay, AgreementStays DEF EpochInv
<1>8. LinkInv'
  <2> USE <1>1 DEF EpochInv, LinkInv, At, Goto
  <2>1. CASE LoadForRef(t)
    BY <2>1 DEF LoadForRef
  <2>2. CASE GetRef(t)
    BY <2>2 DEF GetRef, MakeRef
  <2>3. CASE LoadCurBuf(t)
    BY <2>3 DEF LoadCurBuf
  <2>4. CASE LogReclaimed(t)
    BY <2>4 DEF LogReclaimed, StoreEvent
  <2>5. CASE LogFast(t)
    BY <2>5 DEF LogFast, StoreEvent, RefType
  <2>6. CASE LogSlow(t)
    BY <2>6 DEF LogSlow, StoreEvent, RefType
  <2>7. CASE TryIncEpochFails(t)
    <3>1. logBuffer[t] = Null
      BY <2>7 DEF TryIncEpochFails, LoseEpoch, EpochAgreement, Alive
    <3>2. QED
      BY <2>7, <3>1 DEF TryIncEpochFails
  <2>8. CASE TryIncEpochWins(t)
    BY <2>8 DEF TryIncEpochWins
  <2>9. CASE UpdateAssertFails(t)
    BY <2>9 DEF UpdateAssertFails
  <2>10. CASE UpdateEvents(t)
    BY <2>10 DEF UpdateEvents
  <2>11. CASE UpdateClose(t)
    BY <2>11 DEF UpdateClose, AttachRef
  <2>12. CASE EndRun(t)
    BY <2>12 DEF EndRun
  <2>13. CASE FinishThread(t)
    BY <2>13 DEF FinishThread
  <2>14. QED
    BY <2>1, <2>2, <2>3, <2>4, <2>5, <2>6, <2>7, <2>8, <2>9, <2>10, <2>11, <2>12, <2>13
<1>9. QED
  BY <1>7, <1>8 DEF EpochInv

\* A thread that exits takes its address off the list.
LEMMA EpochExit ==
  ASSUME TypeInv, EpochInv, NEW t \in Threads, ExitThread(t)
  PROVE  EpochInv'
<1> DEFINE m == ManagerOf(t)
<1>1. /\ pc' = [ pc EXCEPT ![t] = "destroy" ]
      /\ tlsBufAddrs' = [ tlsBufAddrs EXCEPT ![m] = @ \ {t} ]
      /\ UNCHANGED <<logBuffer, thrContext, epoch, allocatedBufs, ref, curBuf>>
      /\ pc \in [ Threads -> PC ]
      /\ tlsBufAddrs \in [ Managers -> SUBSET Threads ]
      /\ m \in Managers
  BY ManagerOfType DEF ExitThread, ThreadExit, At, Goto, TypeInv, TypeOK
<1>2. \A s \in Threads : Alive(s)' => Alive(s) /\ s # t
  BY <1>1 DEF Alive
<1>3. \A s \in Threads \ {t} : Alive(s) => Alive(s)'
  BY <1>1 DEF Alive
<1>4. TlsInv'
  BY <1>1, <1>3 DEF EpochInv, TlsInv, Managers, ManagerOf, m
<1>5. LinkInv'
  BY <1>1 DEF EpochInv, LinkInv
<1>6. EpochAgreement'
  <2> SUFFICES ASSUME NEW u \in Threads, Alive(u)', logBuffer'[u] # Null
               PROVE  LET n == ManagerOf(u) IN
                        /\ u \in tlsBufAddrs'[n]
                        /\ InSeq(logBuffer'[u], allocatedBufs'[n])
                        /\ eventBuf'[logBuffer'[u]].epoch = epoch'[n]
                        /\ eventBuf'[logBuffer'[u]].threadId = thrContext'[u].threadId
                        /\ thrContext'[u].logBuffer = logBuffer'[u]
    BY DEF EpochAgreement, ManagerOf
  <2>1. /\ Alive(u) /\ u # t /\ ManagerOf(u) \in Managers
        /\ logBuffer[u] # Null /\ logBuffer[u] \in Buffers
    BY <1>1, <1>2, ManagerOfType DEF TypeInv, TypeOK
  <2>2. /\ eventBuf'[logBuffer[u]].epoch = eventBuf[logBuffer[u]].epoch
        /\ eventBuf'[logBuffer[u]].threadId = eventBuf[logBuffer[u]].threadId
    BY <2>1, IdsStay
  <2>3. QED
    BY <1>1, <2>1, <2>2 DEF EpochInv, EpochAgreement
<1>7. QED
  BY <1>4, <1>5, <1>6 DEF EpochInv

LEMMA EpochUnchanged ==
  ASSUME EpochInv,
         UNCHANGED <<eventBuf, logBuffer, thrContext, epoch, allocatedBufs, tlsBufAddrs,
                     pc, ref, curBuf>>
  PROVE  EpochInv'
BY DEF EpochInv, TlsInv, LinkInv, EpochAgreement, Alive, ManagerOf, Managers, InSeq

LEMMA EpochNext == TypeInv /\ PoolInv /\ EpochInv /\ [Next]_vars => EpochInv'
<1> SUFFICES ASSUME TypeInv, PoolInv, EpochInv, [Next]_vars PROVE EpochInv'
  OBVIOUS
<1>1. ASSUME NEW t \in Threads, ThreadStep(t)
      PROVE  EpochInv'
  BY <1>1, EpochAlloc, EpochReclaim, EpochEnds, EpochThreadAlone, EpochExit DEF ThreadStep
<1>2. ASSUME NEW w \in Workers, WorkerStep(w)
      PROVE  EpochInv'
  BY <1>2, EpochUnchanged
     DEF WorkerStep, WaitClosed, StartCounting, CountBuffer, WorkerReleases,
         ReturnBuffers, Release, ReturnToDestroyed
<1>3. CASE MainReturns \/ Halted \/ UNCHANGED vars
  BY <1>3, EpochUnchanged DEF MainReturns, Halted
<1>4. QED
  BY <1>1, <1>2, <1>3 DEF Next

LEMMA EpochInvariant == Spec => [](TypeInv /\ EpochInv)
BY TypeInit, TypeNext, PoolInit, PoolNext, EpochInit, EpochNext, PTL DEF Spec

\* A live thread that has a __log_buffer takes part in the current epoch.
THEOREM EpochsAgree == Spec => []EpochAgreement
<1>1. EpochInv => EpochAgreement
  BY DEF EpochInv
<1>2. QED
  BY EpochInvariant, <1>1, PTL

\* The assertion of allocBuffer() never fails.
THEOREM AllocNeverAsserts == Spec => []AllocPrecondition
<1>1. EpochInv => AllocPrecondition
  BY DEF EpochInv, LinkInv, AllocPrecondition
<1>2. QED
  BY EpochInvariant, <1>1, PTL

\* No coordinator stores through the address of a thread that has exited.
THEOREM TlsAddrsAreLive == Spec => []OnlyLiveTlsAddrs
<1>1. EpochInv => OnlyLiveTlsAddrs
  BY DEF EpochInv, TlsInv, OnlyLiveTlsAddrs
<1>2. QED
  BY EpochInvariant, <1>1, PTL
=============================================================================
