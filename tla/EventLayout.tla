---------------------------- MODULE EventLayout ----------------------------
(***************************************************************************)
(* The bits of an event (LoggerConsts.h) as each log operation of Main.cc  *)
(* puts them together.  A 64-bit word is the set of the positions of its   *)
(* 1 bits, so that | is union, & is intersection and ~ is complement.      *)
(***************************************************************************)
EXTENDS Integers, Sequences

CONSTANTS
  Layouts,     \* the log operations considered
  Pcs,         \* values of pc, addr and val
  Addrs,
  Vals

Bits == 0 .. 63
Word == SUBSET Bits

\* Operations that shift the last byte of the value to bit 32.
NarrowOps == {"LOG_SRC_LOC", "LOG_FULL", "LOG_FULL_NAIVE", "BUFFER_MANAGER"}
LocOps    == NarrowOps \cup {"LOG_FULL_128"}
ValueOps  == LocOps \cup {"LOG_VALUE"}
HeaderOps == ValueOps \cup {"LOG_HEADER"}
AllOps    == HeaderOps \cup {"LOG_ADDR", "GLOBAL_COUNTER"}

ASSUME EventLayoutAssumption ==
  /\ Layouts \subseteq AllOps
  /\ Pcs \subseteq Word /\ Addrs \subseteq Word /\ Vals \subseteq Word

VARIABLES
  op,      \* the log operation
  args,    \* pc, addr and val of the last event; for GLOBAL_COUNTER, val is
           \* the event id
  event    \* the words stored for it

vars == <<op, args, event>>

-----------------------------------------------------------------------------
Shl(w, n) == { b \in Bits : b - n \in w }
Shr(w, n) == { b \in Bits : b + n \in w }

\* (char) w converted back to uint64_t: char is signed on x86.
SignedChar(w) == (w \cap 0 .. 7) \cup (IF 7 \in w THEN 8 .. 63 ELSE {})

\* (uint32_t) w
UInt32(w) == w \cap 0 .. 31

TSAN_WRITE8        == 60 .. 63
TSAN_HDR_ZERO_MASK == Bits \ 60 .. 63
TSAN_VAL_ZERO_MASK == Bits \ 52 .. 63
TSAN_LOC_ZERO_MASK == Bits \ 32 .. 63

\* Mutant: only the upper shift.
LocNotShiftedBack(pc) == Shl(pc, 44)

\* (pc << 44) >> 4
Loc(pc) == Shr(Shl(pc, 44), 4)

\* header | address
HeaderWord(addr) == TSAN_WRITE8 \cup (TSAN_HDR_ZERO_MASK \cap addr)

\* header | value | address
ValueWord(addr, val) ==
  TSAN_WRITE8 \cup Shl(SignedChar(val), 52) \cup (TSAN_VAL_ZERO_MASK \cap addr)

\* header | location | value | address
NarrowWord(pc, addr, val) ==
  TSAN_WRITE8 \cup Loc(pc) \cup Shl(SignedChar(val), 32)
    \cup (TSAN_LOC_ZERO_MASK \cap addr)

\* header | location | 32 bits of the value, the address in the next word.
WideWord(pc, val) == TSAN_WRITE8 \cup Loc(pc) \cup UInt32(val)

\* event id | address
NumberedWord(addr, id) == Shl(UInt32(id), 32) \cup (TSAN_LOC_ZERO_MASK \cap addr)

Encode(o, a) ==
  CASE o = "LOG_ADDR"       -> << a.addr >>
    [] o = "LOG_HEADER"     -> << HeaderWord(a.addr) >>
    [] o = "LOG_VALUE"      -> << ValueWord(a.addr, a.val) >>
    [] o \in NarrowOps      -> << NarrowWord(a.pc, a.addr, a.val) >>
    [] o = "LOG_FULL_128"   -> << WideWord(a.pc, a.val), a.addr >>
    [] o = "GLOBAL_COUNTER" -> << NumberedWord(a.addr, a.val) >>

-----------------------------------------------------------------------------
Args == [ pc : Pcs, addr : Addrs, val : Vals ]

Init ==
  /\ op \in Layouts
  /\ args \in Args
  /\ event = << >>

\* __tsan_write8_...(pc, addr, val)
Log ==
  /\ args' \in Args
  /\ event' = Encode(op, args')
  /\ UNCHANGED op

Next == Log

Spec == Init /\ [][Next]_vars
=============================================================================
