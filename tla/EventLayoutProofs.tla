------------------------- MODULE EventLayoutProofs -------------------------
(***************************************************************************)
(* Every field of an event can be read back, but for the location of       *)
(* narrow events with a sign-extended value: for all pc, addr and val.     *)
(***************************************************************************)
EXTENDS EventLayoutProps, TLAPS

\* What is stored is the encoding of the last arguments.
Stored ==
  /\ op \in Layouts
  /\ args \in Args
  /\ event = << >> \/ event = Encode(op, args)

LEMMA ArgsAreWords ==
  ASSUME NEW a \in Args
  PROVE  a.pc \in Word /\ a.addr \in Word /\ a.val \in Word
BY EventLayoutAssumption DEF Args

\* A header, and a location, can be read from any word of which nothing else
\* reaches these bits.
LEMMA ReadHeader ==
  ASSUME NEW w
  PROVE  Field(TSAN_WRITE8 \cup w, 60, 4) = Shr(TSAN_WRITE8, 60)
BY DEF Field, Shr, TSAN_WRITE8, Bits

LEMMA ReadLoc ==
  ASSUME NEW pc \in Word, NEW w, \A b \in 40 .. 59 : b \notin w
  PROVE  Field(TSAN_WRITE8 \cup Loc(pc) \cup w, 40, 20) = Low(pc, 20)
<1> DEFINE word == TSAN_WRITE8 \cup Loc(pc) \cup w
<1>1. ASSUME NEW k \in 0 .. 19
      PROVE  (k + 40) \in word <=> k \in pc
  <2>1. k + 40 \notin TSAN_WRITE8 /\ k + 40 \notin w
    BY DEF TSAN_WRITE8
  <2>2. k + 40 \in Loc(pc) <=> k + 44 \in Shl(pc, 44)
    BY DEF Loc, Shr, Bits
  <2>3. k + 44 \in Shl(pc, 44) <=> k \in pc
    BY DEF Shl, Bits
  <2>4. QED
    BY <2>1, <2>2, <2>3
<1>2. QED
  BY <1>1 DEF Field, Low, Shr, Bits

LEMMA LocBits ==
  ASSUME NEW pc \in Word, NEW b \in Loc(pc)
  PROVE  b \in 40 .. 59
BY DEF Loc, Shl, Shr, Bits, Word

LEMMA ReadHeaderWord ==
  ASSUME NEW addr \in Word
  PROVE  Field(HeaderWord(addr), 0, 60) = Low(addr, 60)
BY DEF HeaderWord, Field, Low, Shr, Word, Bits, TSAN_WRITE8, TSAN_HDR_ZERO_MASK

LEMMA ReadValueWord ==
  ASSUME NEW addr \in Word, NEW val \in Word
  PROVE  /\ Field(ValueWord(addr, val), 0, 52) = Low(addr, 52)
         /\ Field(ValueWord(addr, val), 52, 8) = Low(val, 8)
<1> DEFINE word == ValueWord(addr, val)
<1>1. ASSUME NEW k \in 0 .. 51  PROVE k \in word <=> k \in addr
  BY DEF ValueWord, Shl, SignedChar, Bits, Word, TSAN_WRITE8, TSAN_VAL_ZERO_MASK
<1>2. ASSUME NEW k \in 0 .. 7  PROVE k + 52 \in word <=> k \in val
  BY DEF ValueWord, Shl, SignedChar, Bits, Word, TSAN_WRITE8, TSAN_VAL_ZERO_MASK
<1>3. Field(word, 0, 52) = Low(addr, 52)
  BY <1>1 DEF Field, Low, Shr, Bits
<1>4. Field(word, 52, 8) = Low(val, 8)
  BY <1>2 DEF Field, Low, Shr, Bits
<1>5. QED
  BY <1>3, <1>4

LEMMA ReadNarrowWord ==
  ASSUME NEW pc \in Word, NEW addr \in Word, NEW val \in Word
  PROVE  /\ Field(NarrowWord(pc, addr, val), 0, 32) = Low(addr, 32)
         /\ Field(NarrowWord(pc, addr, val), 32, 8) = Low(val, 8)
         /\ 7 \notin val => Field(NarrowWord(pc, addr, val), 40, 20) = Low(pc, 20)
<1> DEFINE word == NarrowWord(pc, addr, val)
           rest == Shl(SignedChar(val), 32) \cup (TSAN_LOC_ZERO_MASK \cap addr)
<1>1. ASSUME NEW k \in 0 .. 31  PROVE k \in word <=> k \in addr
  BY LocBits DEF NarrowWord, Shl, SignedChar, Bits, Word, TSAN_WRITE8, TSAN_LOC_ZERO_MASK
<1>2. ASSUME NEW k \in 0 .. 7  PROVE k + 32 \in word <=> k \in val
  BY LocBits DEF NarrowWord, Shl, SignedChar, Bits, Word, TSAN_WRITE8, TSAN_LOC_ZERO_MASK
<1>3. ASSUME 7 \notin val  PROVE Field(word, 40, 20) = Low(pc, 20)
  <2>1. \A b \in 40 .. 59 : b \notin rest
    BY <1>3 DEF Shl, SignedChar, Bits, TSAN_LOC_ZERO_MASK
  <2>2. word = TSAN_WRITE8 \cup Loc(pc) \cup rest
    BY DEF NarrowWord
  <2>3. QED
    BY <2>1, <2>2, ReadLoc
<1>4. Field(word, 0, 32) = Low(addr, 32)
  BY <1>1 DEF Field, Low, Shr, Bits
<1>5. Field(word, 32, 8) = Low(val, 8)
  BY <1>2 DEF Field, Low, Shr, Bits
<1>6. QED
  BY <1>3, <1>4, <1>5

LEMMA ReadWideWord ==
  ASSUME NEW pc \in Word, NEW val \in Word
  PROVE  /\ Field(WideWord(pc, val), 0, 32) = Low(val, 32)
         /\ Field(WideWord(pc, val), 40, 20) = Low(pc, 20)
<1>1. ASSUME NEW k \in 0 .. 31  PROVE k \in WideWord(pc, val) <=> k \in val
  BY LocBits DEF WideWord, UInt32, TSAN_WRITE8
<1>2. Field(WideWord(pc, val), 0, 32) = Low(val, 32)
  BY <1>1 DEF Field, Low, Shr, Bits
<1>3. Field(WideWord(pc, val), 40, 20) = Low(pc, 20)
  <2>1. \A b \in 40 .. 59 : b \notin UInt32(val)
    BY DEF UInt32
  <2>2. QED
    BY <2>1, ReadLoc DEF WideWord
<1>4. QED
  BY <1>2, <1>3

LEMMA ReadNumberedWord ==
  ASSUME NEW addr \in Word, NEW id \in Word
  PROVE  /\ Field(NumberedWord(addr, id), 0, 32) = Low(addr, 32)
         /\ Field(NumberedWord(addr, id), 32, 32) = Low(id, 32)
<1>1. ASSUME NEW k \in 0 .. 31
      PROVE  /\ k \in NumberedWord(addr, id) <=> k \in addr
             /\ k + 32 \in NumberedWord(addr, id) <=> k \in id
  BY DEF NumberedWord, Shl, UInt32, Bits, TSAN_LOC_ZERO_MASK
<1>2. QED
  BY <1>1 DEF Field, Low, Shr, Bits

-----------------------------------------------------------------------------
LEMMA StoredAlways ==
  Spec => []Stored
<1>1. Init => Stored
  BY DEF Init, Stored
<1>2. Stored /\ [Next]_vars => Stored'
  BY DEF Stored, Next, Log, vars
<1>3. QED
  BY <1>1, <1>2, PTL DEF Spec

LEMMA StoredIsRead ==
  ASSUME Stored
  PROVE  FieldsRead
<1>1. op \in AllOps /\ args \in Args
  BY EventLayoutAssumption DEF Stored
<1>2. args.pc \in Word /\ args.addr \in Word /\ args.val \in Word
  BY <1>1, ArgsAreWords
<1>3. SUFFICES ASSUME event # << >>
               PROVE  /\ HeaderRead /\ ValueRead /\ IdRead /\ AddressRead
                      /\ op \in LocOps /\ ~(op \in NarrowOps /\ 7 \in args.val) => LocRead
  BY DEF FieldsRead
<1>4. event = Encode(op, args)
  BY <1>3 DEF Stored
<1>5. CASE op = "LOG_ADDR"
  BY <1>4, <1>5 DEF Encode, HeaderRead, ValueRead, IdRead, AddressRead,
                    HeaderOps, ValueOps, LocOps, NarrowOps
<1>6. CASE op = "LOG_HEADER"
  <2>1. event = << HeaderWord(args.addr) >>
    BY <1>4, <1>6 DEF Encode, NarrowOps
  <2>2. HeaderRead
    BY <2>1, ReadHeader DEF HeaderRead, HeaderWord
  <2>3. QED
    BY <1>2, <1>6, <2>1, <2>2, ReadHeaderWord
       DEF ValueRead, IdRead, AddressRead, LocOps, NarrowOps
<1>7. CASE op = "LOG_VALUE"
  <2>1. event = << ValueWord(args.addr, args.val) >>
    BY <1>4, <1>7 DEF Encode, NarrowOps
  <2>2. HeaderRead
    <3> DEFINE rest == Shl(SignedChar(args.val), 52) \cup (TSAN_VAL_ZERO_MASK \cap args.addr)
    <3>1. event[1] = TSAN_WRITE8 \cup rest
      BY <2>1 DEF ValueWord
    <3>2. QED
      BY <3>1, ReadHeader DEF HeaderRead
  <2>3. QED
    BY <1>2, <1>7, <2>1, <2>2, ReadValueWord
       DEF ValueRead, IdRead, AddressRead, LocOps, NarrowOps
<1>8. CASE op \in NarrowOps
  <2>1. event = << NarrowWord(args.pc, args.addr, args.val) >>
    BY <1>4, <1>8 DEF Encode, NarrowOps
  <2>2. HeaderRead
    <3> DEFINE rest == Loc(args.pc) \cup Shl(SignedChar(args.val), 32)
                         \cup (TSAN_LOC_ZERO_MASK \cap args.addr)
    <3>1. event[1] = TSAN_WRITE8 \cup rest
      BY <2>1 DEF NarrowWord
    <3>2. QED
      BY <3>1, ReadHeader DEF HeaderRead
  <2>3. ValueRead /\ AddressRead
    BY <1>2, <1>8, <2>1, ReadNarrowWord DEF ValueRead, AddressRead, NarrowOps
  <2>4. 7 \notin args.val => LocRead
    BY <1>2, <2>1, ReadNarrowWord DEF LocRead
  <2>5. QED
    BY <1>8, <2>2, <2>3, <2>4 DEF IdRead, NarrowOps
<1>9. CASE op = "LOG_FULL_128"
  <2>1. event = << WideWord(args.pc, args.val), args.addr >>
    BY <1>4, <1>9 DEF Encode, NarrowOps
  <2>2. HeaderRead
    <3> DEFINE rest == Loc(args.pc) \cup UInt32(args.val)
    <3>1. event[1] = TSAN_WRITE8 \cup rest
      BY <2>1 DEF WideWord
    <3>2. QED
      BY <3>1, ReadHeader DEF HeaderRead
  <2>3. QED
    BY <1>2, <1>9, <2>1, <2>2, ReadWideWord
       DEF ValueRead, IdRead, AddressRead, LocRead, NarrowOps
<1>10. CASE op = "GLOBAL_COUNTER"
  <2>1. event = << NumberedWord(args.addr, args.val) >>
    BY <1>4, <1>10 DEF Encode, NarrowOps
  <2>2. QED
    BY <1>2, <1>10, <2>1, ReadNumberedWord
       DEF HeaderRead, ValueRead, IdRead, AddressRead, HeaderOps, ValueOps, LocOps, NarrowOps
<1>11. QED
  BY <1>1, <1>5, <1>6, <1>7, <1>8, <1>9, <1>10
     DEF AllOps, HeaderOps, ValueOps, LocOps

\* The fields of every event can be read back from it, for all arguments,
\* but for the location next to a negative value.
THEOREM FieldsAlwaysRead ==
  Spec => []FieldsRead
<1>1. Stored => FieldsRead
  BY StoredIsRead
<1>2. QED
  BY <1>1, StoredAlways, PTL
=============================================================================
