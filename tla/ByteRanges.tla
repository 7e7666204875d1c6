------------------------------ MODULE ByteRanges ------------------------------
(***************************************************************************)
(* The checked 64-bit arithmetic and byte-range helpers of src/utils.hpp.  *)
(*                                                                         *)
(* A std::optional<T> is a set with at most one member: {} is nullopt and  *)
(* {v} is the value v, so has_value() is # {} and a chain of optionals is  *)
(* a union over the members of the first one.  Byte ranges are records     *)
(* [offset, size].  Every argument ranges over 0..U64Max, a uint64_t.      *)
(***************************************************************************)
EXTENDS Naturals

CONSTANTS
  U64Max,   \* std::numeric_limits<uint64_t>::max()
  SizeMax   \* std::numeric_limits<size_t>::max()

ASSUME WordAssumption ==
  /\ U64Max \in Nat
  /\ SizeMax \in 0..U64Max

U64 == 0..U64Max
ByteRange == [offset : U64, size : U64]

\* (Definitions whose names end in Bug are mistakes the checks must notice;
\* nothing else refers to them.)

checkedAddBug(lhs, rhs) ==
  IF lhs >= U64Max - rhs THEN {} ELSE {lhs + rhs}

checkedAdd(lhs, rhs) ==
  IF lhs > U64Max - rhs THEN {} ELSE {lhs + rhs}

checkedMul(lhs, rhs) ==
  IF lhs # 0 /\ rhs > U64Max \div lhs THEN {} ELSE {lhs * rhs}

checkedAlignUpBug(size, alignment) ==
  IF alignment = 0 THEN {} ELSE {(size \div alignment) * alignment}

\* The least multiple of alignment that is at least size, if it fits.
checkedAlignUp(size, alignment) ==
  IF alignment = 0 THEN {}
  ELSE {(rounded \div alignment) * alignment : rounded \in checkedAdd(size, alignment - 1)}

byteRangeWithinBoundsBug(range, payloadSize) ==
  (range.offset + range.size) % (U64Max + 1) <= payloadSize

byteRangeWithinBounds(range, payloadSize) ==
  /\ range.offset <= payloadSize
  /\ range.size <= payloadSize - range.offset

byteRangeCanBeAddressedBug(range) ==
  SizeMax < U64Max => range.offset <= SizeMax /\ range.size <= SizeMax

\* Compiled to TRUE where size_t is as wide as uint64_t.
byteRangeCanBeAddressed(range) ==
  SizeMax < U64Max =>
    /\ range.offset <= SizeMax
    /\ range.size <= SizeMax
    /\ range.size <= SizeMax - range.offset

\* The layout of recordCount records of recordSize bytes from recordsOffset
\* on, and of the payload after them, in a section of sectionSize bytes.
TableLayout(sectionSize, recordsOffset, recordsSize, payloadOffset) ==
  [records |-> [offset |-> recordsOffset, size |-> recordsSize],
   payload |-> [offset |-> payloadOffset, size |-> sectionSize - payloadOffset]]

splitFixedRecordTable(sectionSize, recordsOffset, recordSize, recordCount) ==
  IF \/ recordSize = 0
     \/ recordsOffset > sectionSize
     \/ recordCount > (sectionSize - recordsOffset) \div recordSize
  THEN {}
  ELSE UNION { { TableLayout(sectionSize, recordsOffset, recordsSize, payloadOffset) :
                   payloadOffset \in { p \in checkedAdd(recordsOffset, recordsSize) :
                        LET layout == TableLayout(sectionSize, recordsOffset, recordsSize, p)
                        IN  /\ p <= sectionSize
                            /\ byteRangeCanBeAddressed(layout.records)
                            /\ byteRangeCanBeAddressed(layout.payload) } } :
               recordsSize \in checkedMul(recordCount, recordSize) }

appendAlignedByteRangeBug(size, alignment, payloadSize) ==
  { [range |-> [offset |-> payloadSize, size |-> size],
     paddedSize |-> padded,
     payloadSize |-> payloadSize + size] : padded \in checkedAlignUp(size, alignment) }

\* A payload of payloadSize bytes grows by an entry of size bytes padded to
\* alignment: the entry's range, its padded size, and the payload's new end
\* (the in/out parameter of the code, unchanged when the result is nullopt).
appendAlignedByteRange(size, alignment, payloadSize) ==
  { [range |-> [offset |-> payloadSize, size |-> size],
     paddedSize |-> padded,
     payloadSize |-> payloadSize + padded] :
       padded \in { p \in checkedAlignUp(size, alignment) :
                      /\ checkedAdd(payloadSize, p) # {}
                      /\ byteRangeCanBeAddressed([offset |-> payloadSize, size |-> p]) } }
===============================================================================
