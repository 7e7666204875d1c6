--------------------------- MODULE EncoderConstants ---------------------------
(***************************************************************************)
(* The constants of EncoderImpl (src/encoder.cpp): the metadata records,   *)
(* the padded copies of the data, the running end of the payload, and the  *)
(* sticky failure flag.  What a constant's bytes are does not matter here: *)
(* constsData[k] is the size of the block that holds constant k's data,    *)
(* 0 once the block was cleared.                                           *)
(***************************************************************************)
EXTENDS ByteRanges, Integers, Sequences

CONSTANTS
  Resources,      \* the resource references constants are added with
  DataSizes,      \* the sizes in bytes of the data they are added with
  Sparsities,     \* the int64_t sparsity dimensions they are added with
  Int32Min, Int32Max,
  MaxConstants    \* bound: the constants added

ASSUME ConstantAssumption ==
  /\ Resources \subseteq Nat
  /\ DataSizes \subseteq U64 \ {0}
  /\ Sparsities \subseteq Int
  /\ Int32Min \in Int /\ Int32Max \in Int /\ Int32Min <= Int32Max
  /\ MaxConstants \in Nat

VARIABLES
  finished,          \* Finish was called
  encodingFailed,    \* a constant could not be placed: WriteTo must refuse
  constsMetaData,    \* the ConstantMetaDataV00 records
  constsData,        \* the data blocks, until WriteTo releases them
  constDataOffset,   \* the end of the payload so far
  added              \* history: the arguments of the AddConstant calls that succeeded

constantVars == <<finished, encodingFailed, constsMetaData, constsData, constDataOffset, added>>

ConstantMetaData ==
  [mrtIndex : Resources, sparsityDimension : Int32Min .. Int32Max, size : U64, offset : U64]

PayloadAlignment == 8   \* sizeof(uint64_t)

ConstantsInit ==
  /\ finished = FALSE
  /\ encodingFailed = FALSE
  /\ constsMetaData = <<>>
  /\ constsData = <<>>
  /\ constDataOffset = 0
  /\ added = <<>>

\* The value itself, and its low bits.
UnclampedBug(sparsityDimension) == sparsityDimension

TruncatedBug(sparsityDimension) ==
  ((sparsityDimension - Int32Min) % (Int32Max - Int32Min + 1)) + Int32Min

\* std::clamp to the range of int32_t.
SparsityDim32(sparsityDimension) ==
  IF sparsityDimension < Int32Min THEN Int32Min
  ELSE IF sparsityDimension > Int32Max THEN Int32Max
  ELSE sparsityDimension

UnpaddedRangeBug(sizeInBytes) == appendAlignedByteRange(sizeInBytes, 1, constDataOffset)

PlacedRange(sizeInBytes) ==
  appendAlignedByteRange(sizeInBytes, PayloadAlignment, constDataOffset)

\* A constant that fits returns the reference Len(constsMetaData).
AddConstant(resource, sizeInBytes, sparsityDimension) ==
  /\ ~finished
  /\ Len(constsMetaData) < MaxConstants
  /\ \E placed \in PlacedRange(sizeInBytes) :
       /\ constsMetaData' = Append(constsMetaData,
            [mrtIndex |-> resource,
             sparsityDimension |-> SparsityDim32(sparsityDimension),
             size |-> placed.range.size,
             offset |-> placed.range.offset])
       /\ constsData' = Append(constsData, placed.paddedSize)
       /\ constDataOffset' = placed.payloadSize
  /\ added' = Append(added, [resource |-> resource, size |-> sizeInBytes,
                             sparsity |-> sparsityDimension])
  /\ UNCHANGED <<finished, encodingFailed>>

RejectConstantBug(sizeInBytes) ==
  /\ ~finished
  /\ Len(constsMetaData) < MaxConstants
  /\ PlacedRange(sizeInBytes) = {}
  /\ UNCHANGED constantVars

\* One that does not fit returns the reference UINT32_MAX, and the failure
\* is remembered: nothing can be written any more.
RejectConstant(sizeInBytes) ==
  /\ ~finished
  /\ Len(constsMetaData) < MaxConstants
  /\ PlacedRange(sizeInBytes) = {}
  /\ encodingFailed' = TRUE
  /\ UNCHANGED <<finished, constsMetaData, constsData, constDataOffset, added>>

AddSomeConstant ==
  \E resource \in Resources, size \in DataSizes, sparsity \in Sparsities :
    \/ AddConstant(resource, size, sparsity)
    \/ RejectConstant(size)

--------------------------------------------------------------------------------
ConstantsTypeOK ==
  /\ finished \in BOOLEAN
  /\ encodingFailed \in BOOLEAN
  /\ constsMetaData \in Seq(ConstantMetaData)
  /\ constsData \in Seq(U64)
  /\ constDataOffset \in U64
  /\ added \in Seq([resource : Resources, size : DataSizes, sparsity : Sparsities])

\* Where the storage of constant k ends, padding included.
StorageEnd(k) ==
  IF k = Len(constsMetaData) THEN constDataOffset ELSE constsMetaData[k + 1].offset

\* The payload ranges tile the payload in the order the constants were
\* added: each starts on 8 bytes, holds its data, pads it by less than 8
\* bytes, and ends where the next one starts or the payload ends.
PayloadTiled ==
  /\ constsMetaData = <<>> => constDataOffset = 0
  /\ \A k \in 1 .. Len(constsMetaData) :
       LET metadata == constsMetaData[k]
       IN  /\ metadata.offset % PayloadAlignment = 0
           /\ k = 1 => metadata.offset = 0
           /\ StorageEnd(k) \in metadata.offset + metadata.size ..
                                metadata.offset + metadata.size + PayloadAlignment - 1
           /\ StorageEnd(k) % PayloadAlignment = 0
================================================================================
