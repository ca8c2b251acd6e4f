---------------------------- MODULE EventBuffer ----------------------------
(***************************************************************************)
(* struct EventBuffer and struct EventBuffer::Ref (EventBuffer.h): the     *)
(* fixed-size log one application thread appends to, and the reference     *)
(* through which it appends.  Pure operators; who owns which buffer, and   *)
(* when, is the business of BufferManager, Worker and FastLog.             *)
(***************************************************************************)
EXTENDS Integers

CONSTANTS
  MaxEvents,  \* EventBuffer::MAX_EVENTS: a buffer this full ends the epoch
  BatchSize   \* EventBuffer::BATCH_SIZE: events between two slow-path checks

ASSUME EventBufferAssumption ==
  /\ MaxEvents \in Nat \ {0}
  /\ BatchSize \in Nat \ {0}

\* Mutant: no room for the batch that is begun before the buffer is full.
CapacityWithoutSlack == MaxEvents

\* uint64_t buf[MAX_EVENTS + BATCH_SIZE + 1]
Capacity == MaxEvents + BatchSize + 1
Slots    == 0 .. Capacity - 1

\* A slot nothing has been logged to, and the -1 of an unset id.
NoEvent == << >>
Unset   == -1

\* Mutants of Reset: events is set to -1 like the ids; closed is forgotten.
ResetUnsetsEvents(buffer) ==
  [ buffer EXCEPT !.events        = Unset,
                  !.nextRdtscTime = BatchSize,
                  !.threadId      = Unset,
                  !.epoch         = Unset,
                  !.closed        = FALSE,
                  !.logged        = {} ]

ResetKeepsClosed(buffer) ==
  [ buffer EXCEPT !.events        = 0,
                  !.nextRdtscTime = BatchSize,
                  !.threadId      = Unset,
                  !.epoch         = Unset,
                  !.logged        = {} ]

\* EventBuffer::reset().  The slots are left as they are: a recycled buffer
\* still holds the events of its previous epoch.
Reset(buffer) ==
  [ buffer EXCEPT !.events        = 0,
                  !.nextRdtscTime = BatchSize,
                  !.threadId      = Unset,
                  !.epoch         = Unset,
                  !.closed        = FALSE,
                  !.logged        = {} ]

\* new EventBuffer().  The field logged is history, not code: the events
\* written to the buffer since it was new or reset.
NewBuffer ==
  [ events        |-> 0,
    nextRdtscTime |-> BatchSize,
    buf           |-> [ i \in Slots |-> NoEvent ],
    threadId      |-> Unset,
    epoch         |-> Unset,
    closed        |-> FALSE,
    logged        |-> {} ]

\* What allocBuffer() adds: whose buffer it is, and of which epoch.
Assign(buffer, id, ep) ==
  [ buffer EXCEPT !.threadId = id, !.epoch = ep ]

\* Ref(EventBuffer* logBuf): copies the counters out of the buffer.
MakeRef(addr, buffer) ==
  [ logBuf        |-> addr,
    events        |-> buffer.events,
    nextRdtscTime |-> buffer.nextRdtscTime ]

\* Mutant: the first slot of the new buffer is skipped.
AttachRefOffByOne(addr) ==
  [ logBuf |-> addr, events |-> 1, nextRdtscTime |-> BatchSize ]

\* The second half of Ref::updateLogBuffer(): attach to the new buffer
\* without reading its counters.
AttachRef(addr) ==
  [ logBuf |-> addr, events |-> 0, nextRdtscTime |-> BatchSize ]

\* ~Ref(): both counters are written back.
WriteBack(buffer, r) ==
  [ buffer EXCEPT !.events        = r.events,
                  !.nextRdtscTime = r.nextRdtscTime ]

\* ref->buf[ref->events] = event
StoreAt(buffer, i, event) == [ buffer EXCEPT !.buf[i] = event ]

\* The history of a store.
Record(buffer, event) == [ buffer EXCEPT !.logged = @ \cup {event} ]

\* The events a reader of the buffer finds in it: buf[0] .. buf[events - 1].
Contents(buffer) == { buffer.buf[i] : i \in { j \in Slots : j < buffer.events } }
=============================================================================
