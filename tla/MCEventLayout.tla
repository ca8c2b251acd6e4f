--------------------------- MODULE MCEventLayout ---------------------------
(***************************************************************************)
(* EventLayout for TLC: words with bits at both sides of every boundary.   *)
(***************************************************************************)
EXTENDS EventLayoutProps

MCPcs == { {}, {0, 4, 19}, 0 .. 19, {20, 43, 63}, 1 .. 46 }

\* Pointers of an x86-64 user process have 47 bits.
MCAddrs == { {}, {3, 31}, {32, 33, 46}, 3 .. 46 }

MCVals == { {}, {0, 6}, {7}, 0 .. 7, {8, 31}, {32, 63}, Bits }
=============================================================================
