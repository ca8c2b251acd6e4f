---------------------------- MODULE MCEpochProto ----------------------------
(***************************************************************************)
(* EpochProto for TLC: the constants are in the .cfg files.                *)
(***************************************************************************)
EXTENDS EpochProtoProps, TLC

\* Threads are interchangeable.
ThreadSymmetry == Permutations(Threads)
=============================================================================
