-------------------------- MODULE EventLayoutProps --------------------------
(***************************************************************************)
(* What a reader gets back from an event (LoggerConsts.h:8-12).            *)
(***************************************************************************)
EXTENDS EventLayout

\* width bits of w from bit first on.
Field(w, first, width) == Shr(w, first) \cap 0 .. width - 1

Low(w, width) == w \cap 0 .. width - 1

HeaderRead == op \in HeaderOps => Field(event[1], 60, 4) = Shr(TSAN_WRITE8, 60)

LocRead == Field(event[1], 40, 20) = Low(args.pc, 20)

\* As much of the value as the layout has room for.
ValueRead ==
  /\ op = "LOG_VALUE"    => Field(event[1], 52, 8)  = Low(args.val, 8)
  /\ op \in NarrowOps    => Field(event[1], 32, 8)  = Low(args.val, 8)
  /\ op = "LOG_FULL_128" => Field(event[1], 0, 32)  = Low(args.val, 32)

IdRead == op = "GLOBAL_COUNTER" => Field(event[1], 32, 32) = Low(args.val, 32)

AddressRead ==
  /\ op \in {"LOG_ADDR", "LOG_FULL_128"} => event[Len(event)] = args.addr
  /\ op = "LOG_HEADER" => Field(event[1], 0, 60) = Low(args.addr, 60)
  /\ op = "LOG_VALUE"  => Field(event[1], 0, 52) = Low(args.addr, 52)
  /\ op \in NarrowOps \cup {"GLOBAL_COUNTER"} =>
       Field(event[1], 0, 32) = Low(args.addr, 32)

\* In every layout each field can be read back, with one exception: the
\* location of a narrow event whose value has bit 7 set, which the sign
\* extension of the value overwrites (Main.cc:434, :484, :542, :591).
FieldsRead ==
  event # << >> =>
    /\ HeaderRead /\ ValueRead /\ IdRead /\ AddressRead
    /\ op \in LocOps /\ ~(op \in NarrowOps /\ 7 \in args.val) => LocRead

\* LoggerConsts.h:10: 20 bits hold the source location.
SrcLocRead == event # << >> /\ op \in LocOps => LocRead
=============================================================================
