--------------------------- MODULE MCLogVariants ---------------------------
(***************************************************************************)
(* LogVariants for TLC: the constants are in the .cfg files.               *)
(***************************************************************************)
EXTENDS LogVariantsProps, TLC

\* Threads are interchangeable.
ThreadSymmetry == Permutations(Threads)
=============================================================================
