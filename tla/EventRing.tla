----------------------------- MODULE EventRing -----------------------------
(***************************************************************************)
(* What the log operations that do not use the buffer manager promise:     *)
(* each thread has its most recent events at hand, from some event on      *)
(* without a gap, and drops them only once they are as many as the buffer  *)
(* is meant for.                                                           *)
(***************************************************************************)
EXTENDS Naturals, FiniteSets

CONSTANT Threads

VARIABLES
  size,      \* events the buffer is meant for
  executed,  \* number of events each thread has executed
  held       \* the events each thread still has at hand

vars == <<size, executed, held>>

Init ==
  /\ size \in Nat
  /\ executed = [ t \in Threads |-> 0 ]
  /\ held     = [ t \in Threads |-> {} ]

Log(t) ==
  LET now == held[t] \cup {executed[t]}
  IN  /\ executed' = [ executed EXCEPT ![t] = @ + 1 ]
      /\ \/ held' = [ held EXCEPT ![t] = now ]
         \/ Cardinality(now) >= size /\ held' = [ held EXCEPT ![t] = {} ]
      /\ UNCHANGED size

Next == \E t \in Threads : Log(t)

Spec == Init /\ [][Next]_vars
=============================================================================
