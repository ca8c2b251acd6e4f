------------------------------- MODULE Worker -------------------------------
(***************************************************************************)
(* Worker.h: the detached thread tryIncEpoch starts for every epoch.  It   *)
(* spins until each of its buffers is closed, adds up their events and     *)
(* gives the buffers back to the manager it was started by.                *)
(***************************************************************************)
EXTENDS BufferManager

CONSTANT MaxSpawns  \* bound: worker threads ever started

ASSUME WorkerAssumption == MaxSpawns \in Nat

Workers == 1 .. MaxSpawns

VARIABLES
  spawned,   \* number of workers started so far: 1 .. spawned
  worker,    \* pc, arguments and locals of each workerMain
  processed  \* history: the events each worker found in its buffers

workerVars == <<spawned, worker, processed>>

IdleWorker ==
  [ pc |-> "none", manager |-> NoThread, buffers |-> << >>, next |-> 1, events |-> 0 ]

WorkerInit ==
  /\ spawned   = 0
  /\ worker    = [ w \in Workers |-> IdleWorker ]
  /\ processed = [ w \in Workers |-> {} ]

\* std::thread worker(workerMain, this, allocatedBufs): the vector is copied.
Spawn(m) ==
  /\ spawned < MaxSpawns
  /\ spawned' = spawned + 1
  /\ worker' = [ worker EXCEPT ![spawned + 1] =
                   [ IdleWorker EXCEPT !.pc      = "wait",
                                       !.manager = m,
                                       !.buffers = allocatedBufs[m] ] ]
  /\ UNCHANGED processed

\* while (!buf->closed) {}: one buffer found closed, on to the next.
WaitClosed(w) ==
  LET wk == worker[w]
  IN  /\ wk.pc = "wait"
      /\ wk.next <= Len(wk.buffers)
      /\ eventBuf[wk.buffers[wk.next]].closed
      /\ worker' = [ worker EXCEPT ![w].next = @ + 1 ]
      /\ UNCHANGED <<spawned, processed, bufferVars, contextVars, managerVars>>

\* Mutant: waits for the first buffer only.
StartCountingEarly(w) ==
  LET wk == worker[w]
  IN  /\ wk.pc = "wait"
      /\ wk.next > 1
      /\ worker' = [ worker EXCEPT ![w].next = 1, ![w].pc = "count" ]
      /\ UNCHANGED <<spawned, processed, bufferVars, contextVars, managerVars>>

\* All of them are: restart at the first buffer.
StartCounting(w) ==
  LET wk == worker[w]
  IN  /\ wk.pc = "wait"
      /\ wk.next > Len(wk.buffers)
      /\ worker' = [ worker EXCEPT ![w].next = 1, ![w].pc = "count" ]
      /\ UNCHANGED <<spawned, processed, bufferVars, contextVars, managerVars>>

\* events += buf->events
CountBuffer(w) ==
  LET wk == worker[w]
      b  == wk.buffers[wk.next]
  IN  /\ wk.pc = "count"
      /\ wk.next <= Len(wk.buffers)
      /\ worker' = [ worker EXCEPT ![w].events = @ + eventBuf[b].events,
                                   ![w].next   = @ + 1 ]
      /\ processed' = [ processed EXCEPT ![w] = @ \cup Contents(eventBuf[b]) ]
      /\ UNCHANGED <<spawned, bufferVars, contextVars, managerVars>>

\* bufferManager->release(&buffers), on a manager that still exists.
ReturnBuffers(w) ==
  LET wk == worker[w]
  IN  /\ wk.pc = "count"
      /\ wk.next > Len(wk.buffers)
      /\ Release(wk.manager, wk.buffers)
      /\ worker' = [ worker EXCEPT ![w].pc = "done" ]
      /\ UNCHANGED <<spawned, processed, bufferVars, contextVars>>

\* The same call on a manager whose thread has exited: the object is gone,
\* the behaviour undefined.  The worker is not followed any further.
ReturnToDestroyed(w) ==
  LET wk == worker[w]
  IN  /\ wk.pc = "count"
      /\ wk.next > Len(wk.buffers)
      /\ worker' = [ worker EXCEPT ![w].pc = "lost" ]
      /\ UNCHANGED <<spawned, processed, bufferVars, contextVars, managerVars>>
=============================================================================
