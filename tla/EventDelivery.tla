--------------------------- MODULE EventDelivery ---------------------------
(***************************************************************************)
(* What the logging system promises about the events of an application     *)
(* thread, without buffers, epochs or workers: its events are handed to    *)
(* the analysis in chunks, each chunk a run of consecutive events of one   *)
(* thread (a piece of its thread-local trace), and no event twice.         *)
(***************************************************************************)
EXTENDS Integers

CONSTANTS
  Threads,  \* the application threads
  Lossy     \* whether events may be lost on the way

VARIABLES
  executed,  \* number of events each thread has executed
  pending,   \* events logged and not yet handed to the analysis
  delivered  \* events handed to the analysis

vars == <<executed, pending, delivered>>

Init ==
  /\ executed  = [ t \in Threads |-> 0 ]
  /\ pending   = {}
  /\ delivered = {}

\* t executes its next event and logs it, or loses it.
Log(t) ==
  /\ executed' = [ executed EXCEPT ![t] = @ + 1 ]
  /\ \/ pending' = pending \cup {<<t, executed[t]>>}
     \/ Lossy /\ UNCHANGED pending
  /\ UNCHANGED delivered

Chunk(t, first, last) == { <<t, n>> : n \in first .. last }

\* The analysis is handed a chunk.
Deliver(t) ==
  \E first, last \in 0 .. executed[t] - 1 :
    /\ first <= last
    /\ Chunk(t, first, last) \subseteq pending
    /\ pending'   = pending \ Chunk(t, first, last)
    /\ delivered' = delivered \cup Chunk(t, first, last)
    /\ UNCHANGED executed

\* An epoch nobody has time to analyse is given up.
Discard ==
  /\ Lossy
  /\ pending' \subseteq pending
  /\ UNCHANGED <<executed, delivered>>

Next == (\E t \in Threads : Log(t) \/ Deliver(t)) \/ Discard

Spec == Init /\ [][Next]_vars
=============================================================================
