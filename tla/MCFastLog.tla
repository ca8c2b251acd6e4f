----------------------------- MODULE MCFastLog -----------------------------
(***************************************************************************)
(* FastLog for TLC: the constants are in the .cfg files.                   *)
(***************************************************************************)
EXTENDS FastLogProps, TLC

\* Threads are interchangeable; sound for the runs without liveness.
ThreadSymmetry == Permutations(Threads)
=============================================================================
