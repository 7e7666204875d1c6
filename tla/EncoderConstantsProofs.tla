------------------------ MODULE EncoderConstantsProofs ------------------------
(***************************************************************************)
(* What AddConstant preserves: the steps that the proofs of the modules    *)
(* built on EncoderConstants share.                                        *)
(***************************************************************************)
EXTENDS EncoderConstants, ByteRangesProofs, SequenceTheorems

\* The invariant of the constants, inductive as it stands.
ConstantsInv ==
  /\ ConstantsTypeOK
  /\ constDataOffset % PayloadAlignment = 0
  /\ PayloadTiled

\* std::clamp returns an int32_t.
LEMMA ClampLemma ==
  ASSUME NEW n \in Int
  PROVE  SparsityDim32(n) \in Int32Min .. Int32Max
BY ConstantAssumption DEF SparsityDim32

\* An encoder starts with an empty payload, which is tiled.
LEMMA ConstantsInitInv == ConstantsInit => ConstantsInv
<1> SUFFICES ASSUME ConstantsInit PROVE ConstantsInv
  OBVIOUS
<1>1. 0 \in U64
  BY WordAssumption DEF U64
<1>2. ConstantsTypeOK
  BY <1>1, EmptySeq DEF ConstantsInit, ConstantsTypeOK
<1>3. PayloadTiled
  BY DEF ConstantsInit, PayloadTiled
<1>4. QED
  BY <1>2, <1>3 DEF ConstantsInit, ConstantsInv, PayloadAlignment

\* The record and the block that a constant gets.
Record(resource, size, sparsity) ==
  [mrtIndex |-> resource, sparsityDimension |-> SparsityDim32(sparsity),
   size |-> size, offset |-> constDataOffset]

\* What AddConstant does when there is room: it appends a record and a block
\* of the padded size, and leaves the storage of all others where it was.
LEMMA AddConstantEffect ==
  ASSUME ConstantsInv,
         NEW resource \in Resources, NEW size \in DataSizes, NEW sparsity \in Sparsities,
         AddConstant(resource, size, sparsity)
  PROVE  \E padded \in U64 :
           /\ padded \in size .. size + 7
           /\ constsMetaData' = Append(constsMetaData, Record(resource, size, sparsity))
           /\ constsData' = Append(constsData, padded)
           /\ constDataOffset' = constDataOffset + padded
           /\ constDataOffset' \in U64 /\ constDataOffset' % 8 = 0
           /\ Record(resource, size, sparsity) \in ConstantMetaData
           /\ Len(constsMetaData') = Len(constsMetaData) + 1
           /\ \A k \in 1 .. Len(constsMetaData) : constsMetaData'[k] = constsMetaData[k]
           /\ constsMetaData'[Len(constsMetaData) + 1] = Record(resource, size, sparsity)
           /\ \A k \in 1 .. Len(constsMetaData) : StorageEnd(k)' = StorageEnd(k)
           /\ \A k : k = Len(constsMetaData) + 1 => StorageEnd(k)' = constDataOffset'
<1> USE DEF PayloadAlignment
<1>0. PICK n \in Nat : n = Len(constsMetaData)
  BY DEF ConstantsInv, ConstantsTypeOK
<1>1. PICK placed \in appendAlignedByteRange(size, 8, constDataOffset) :
        /\ constsMetaData' = Append(constsMetaData,
             [mrtIndex |-> resource, sparsityDimension |-> SparsityDim32(sparsity),
              size |-> placed.range.size, offset |-> placed.range.offset])
        /\ constsData' = Append(constsData, placed.paddedSize)
        /\ constDataOffset' = placed.payloadSize
  BY DEF AddConstant, PlacedRange
<1>2. size \in U64 /\ sparsity \in Int /\ resource \in Nat
  BY ConstantAssumption
<1>3. constDataOffset \in U64 /\ constDataOffset % 8 = 0
  BY DEF ConstantsInv, ConstantsTypeOK
<1>4. /\ placed.range = [offset |-> constDataOffset, size |-> size]
      /\ placed.paddedSize \in size .. size + 7
      /\ placed.paddedSize \in U64
      /\ placed.payloadSize = constDataOffset + placed.paddedSize
      /\ placed.payloadSize \in U64
      /\ placed.payloadSize % 8 = 0
  BY <1>1, <1>2, <1>3, AppendLemma
<1> DEFINE record == Record(resource, size, sparsity)
<1>5. constsMetaData' = Append(constsMetaData, record)
  BY <1>1, <1>4 DEF Record
<1>6. record \in ConstantMetaData
  BY <1>2, <1>3, ClampLemma DEF ConstantMetaData, Record
<1> HIDE DEF record
<1>8. Len(constsMetaData') = n + 1
  BY <1>0, <1>5 DEF ConstantsInv, ConstantsTypeOK
<1>9. \A k \in 1 .. n : constsMetaData'[k] = constsMetaData[k]
  BY <1>0, <1>5, <1>8 DEF ConstantsInv, ConstantsTypeOK
<1>10. constsMetaData'[n + 1] = record
  BY <1>0, <1>5, <1>6, <1>8 DEF ConstantsInv, ConstantsTypeOK
<1>11. ASSUME NEW k \in 1 .. n
       PROVE  StorageEnd(k)' = StorageEnd(k)
  <2>1. CASE k = n
    <3>1. record.offset = constDataOffset
      BY DEF record, Record
    <3>2. QED
      BY <2>1, <3>1, <1>0, <1>8, <1>10 DEF StorageEnd
  <2>2. CASE k # n
    BY <2>2, <1>0, <1>8, <1>9 DEF StorageEnd
  <2>3. QED
    BY <2>1, <2>2
<1>12. \A k : k = n + 1 => StorageEnd(k)' = constDataOffset'
  BY <1>8 DEF StorageEnd
<1>13. \A k \in 1 .. n : StorageEnd(k)' = StorageEnd(k)
  BY <1>11
<1>14. /\ constsData' = Append(constsData, placed.paddedSize)
       /\ constDataOffset' = constDataOffset + placed.paddedSize
       /\ constDataOffset' \in U64 /\ constDataOffset' % 8 = 0
  BY <1>1, <1>4
<1> USE DEF record
<1>15. QED
  BY <1>0, <1>4, <1>5, <1>6, <1>8, <1>9, <1>10, <1>12, <1>13, <1>14

\* A constant that is placed keeps the invariant: its record has its type,
\* and its storage starts where that of the one before it ends.
LEMMA AddConstantInv ==
  ASSUME ConstantsInv,
         NEW resource \in Resources, NEW size \in DataSizes, NEW sparsity \in Sparsities,
         AddConstant(resource, size, sparsity)
  PROVE  ConstantsInv'
<1> USE DEF PayloadAlignment
<1> DEFINE record == Record(resource, size, sparsity)
<1>1. PICK padded \in U64 :
        /\ padded \in size .. size + 7
        /\ constsMetaData' = Append(constsMetaData, record)
        /\ constsData' = Append(constsData, padded)
        /\ constDataOffset' = constDataOffset + padded
        /\ constDataOffset' \in U64 /\ constDataOffset' % 8 = 0
        /\ record \in ConstantMetaData
        /\ Len(constsMetaData') = Len(constsMetaData) + 1
        /\ \A k \in 1 .. Len(constsMetaData) : constsMetaData'[k] = constsMetaData[k]
        /\ constsMetaData'[Len(constsMetaData) + 1] = record
        /\ \A k \in 1 .. Len(constsMetaData) : StorageEnd(k)' = StorageEnd(k)
        /\ \A k : k = Len(constsMetaData) + 1 => StorageEnd(k)' = constDataOffset'
  BY AddConstantEffect
<1>2. PICK n \in Nat : n = Len(constsMetaData)
  BY DEF ConstantsInv, ConstantsTypeOK
<1>3. /\ constDataOffset \in Nat /\ constDataOffset % 8 = 0
      /\ size \in Nat /\ padded \in Nat
  BY <1>1, ConstantAssumption, WordAssumption DEF ConstantsInv, ConstantsTypeOK, U64
<1> HIDE DEF record
<1>4. ConstantsTypeOK'
  <2>1. constsMetaData' \in Seq(ConstantMetaData)
    BY <1>1 DEF ConstantsInv, ConstantsTypeOK
  <2>2. constsData' \in Seq(U64) /\ constDataOffset' \in U64
    BY <1>1 DEF ConstantsInv, ConstantsTypeOK
  <2>3. added' \in Seq([resource : Resources, size : DataSizes, sparsity : Sparsities])
    BY DEF AddConstant, ConstantsInv, ConstantsTypeOK
  <2>4. finished' \in BOOLEAN /\ encodingFailed' \in BOOLEAN
    BY DEF AddConstant, ConstantsInv, ConstantsTypeOK
  <2>5. QED
    BY <2>1, <2>2, <2>3, <2>4 DEF ConstantsTypeOK
<1>5. PayloadTiled'
  <2>1. constsMetaData' # <<>>
    BY <1>1, <1>2
  <2>2. n = 0 => constDataOffset = 0
    BY <1>2, EmptySeq DEF ConstantsInv, ConstantsTypeOK, PayloadTiled
  <2> DEFINE Tiled(metadata, end, k) ==
        /\ metadata.offset % PayloadAlignment = 0
        /\ k = 1 => metadata.offset = 0
        /\ end \in metadata.offset + metadata.size ..
                   metadata.offset + metadata.size + PayloadAlignment - 1
        /\ end % PayloadAlignment = 0
  <2>3. ASSUME NEW k \in 1 .. n
        PROVE  Tiled(constsMetaData'[k], StorageEnd(k)', k)
    <3>1. Tiled(constsMetaData[k], StorageEnd(k), k)
      BY <1>2 DEF ConstantsInv, PayloadTiled
    <3>2. QED
      BY <3>1, <1>1, <1>2
  <2>4. Tiled(record, constDataOffset', n + 1)
    <3>1. record.offset = constDataOffset /\ record.size = size
      BY DEF record, Record
    <3>2. n + 1 = 1 => record.offset = 0
      BY <2>2, <3>1
    <3>3. constDataOffset' \in record.offset + record.size ..
                               record.offset + record.size + 8 - 1
      <4>1. constDataOffset' = constDataOffset + padded /\ padded \in size .. size + 7
        BY <1>1
      <4>2. QED
        BY <1>3, <3>1, <4>1
    <3>4. QED
      BY <1>1, <1>3, <3>1, <3>2, <3>3
  <2>5. ASSUME NEW k \in 1 .. Len(constsMetaData')
        PROVE  Tiled(constsMetaData'[k], StorageEnd(k)', k)
    <3>1. CASE k \in 1 .. n
      BY <3>1, <2>3
    <3>2. CASE k = n + 1
      <4>1. constsMetaData'[k] = record /\ StorageEnd(k)' = constDataOffset'
        BY <3>2, <1>1, <1>2
      <4> HIDE DEF Tiled
      <4>2. QED
        BY <3>2, <4>1, <2>4
    <3>3. QED
      BY <3>1, <3>2, <1>1, <1>2
  <2>6. QED
    BY <2>1, <2>5 DEF PayloadTiled
<1>6. QED
  BY <1>1, <1>4, <1>5 DEF ConstantsInv

\* A refused constant changes nothing but the failure flag.
LEMMA RejectConstantInv ==
  ASSUME ConstantsInv, NEW size \in DataSizes, RejectConstant(size)
  PROVE  ConstantsInv'
BY DEF ConstantsInv, RejectConstant, ConstantsTypeOK, PayloadTiled, StorageEnd

\* Any call of AddConstant, placed or refused, keeps the invariant.
LEMMA AddSomeConstantInv ==
  ConstantsInv /\ AddSomeConstant => ConstantsInv'
BY AddConstantInv, RejectConstantInv DEF AddSomeConstant

\* No more constants than the bound, and no more blocks than constants.
ConstantsBounded ==
  /\ Len(constsMetaData) <= MaxConstants
  /\ Len(constsData) <= Len(constsMetaData)

\* A call of AddConstant adds at most one record, and a block only with one.
LEMMA AddSomeConstantBounded ==
  ASSUME ConstantsTypeOK, ConstantsBounded, AddSomeConstant
  PROVE  ConstantsBounded'
<1>1. ASSUME NEW record, NEW block,
             Len(constsMetaData) < MaxConstants,
             constsMetaData' = Append(constsMetaData, record),
             constsData' = Append(constsData, block)
      PROVE  ConstantsBounded'
  <2>1. /\ Len(constsMetaData') = Len(constsMetaData) + 1
        /\ Len(constsData') = Len(constsData) + 1
        /\ Len(constsMetaData) \in Nat /\ Len(constsData) \in Nat
    BY <1>1 DEF ConstantsTypeOK
  <2>2. QED
    BY <1>1, <2>1, ConstantAssumption DEF ConstantsBounded
<1>2. QED
  BY <1>1 DEF AddSomeConstant, AddConstant, RejectConstant, ConstantsBounded

\* The records and the end of the payload are all the tiling depends on.
LEMMA TilingUnchanged ==
  ASSUME PayloadTiled, UNCHANGED <<constsMetaData, constDataOffset>>
  PROVE  PayloadTiled'
BY DEF PayloadTiled, StorageEnd

--------------------------------------------------------------------------------
\* The bytes a constant's data takes up in the payload, padding included.
Storage(k) == StorageEnd(k) - constsMetaData[k].offset

\* The records are the arguments AddConstant was called with, in order, each
\* past the data of all before it.
RecordsMatch ==
  /\ Len(added) = Len(constsMetaData)
  /\ \A k \in 1 .. Len(constsMetaData) :
       /\ constsMetaData[k].mrtIndex = added[k].resource
       /\ constsMetaData[k].size = added[k].size
       /\ constsMetaData[k].sparsityDimension = SparsityDim32(added[k].sparsity)
       /\ constsMetaData[k].offset + constsMetaData[k].size <= constDataOffset
       /\ \A j \in 1 .. k - 1 :
            constsMetaData[j].offset + constsMetaData[j].size <= constsMetaData[k].offset

\* There is a block for each constant, as long as nothing was released.
BlocksFull ==
  /\ Len(constsData) = Len(constsMetaData)
  /\ \A k \in 1 .. Len(constsMetaData) : constsData[k] = Storage(k)

LEMMA RecordsMatchInit == ConstantsInit => RecordsMatch /\ BlocksFull
BY EmptySeq DEF ConstantsInit, RecordsMatch, BlocksFull

\* AddConstant keeps them, placed or refused.
LEMMA AddSomeConstantRecords ==
  ASSUME ConstantsInv, RecordsMatch, BlocksFull, AddSomeConstant
  PROVE  RecordsMatch' /\ BlocksFull'
<1>1. ASSUME NEW size \in DataSizes, RejectConstant(size)
      PROVE  RecordsMatch' /\ BlocksFull'
  BY <1>1 DEF RejectConstant, RecordsMatch, BlocksFull, Storage, StorageEnd
<1>2. ASSUME NEW resource \in Resources, NEW size \in DataSizes, NEW sparsity \in Sparsities,
             AddConstant(resource, size, sparsity)
      PROVE  RecordsMatch' /\ BlocksFull'
  <2> DEFINE n == Len(constsMetaData)
             record == Record(resource, size, sparsity)
             argument == [resource |-> resource, size |-> size, sparsity |-> sparsity]
  <2>1. PICK padded \in U64 :
          /\ padded \in size .. size + 7
          /\ constsData' = Append(constsData, padded)
          /\ constDataOffset' = constDataOffset + padded
          /\ Len(constsMetaData') = n + 1
          /\ \A k \in 1 .. n : constsMetaData'[k] = constsMetaData[k]
          /\ constsMetaData'[n + 1] = record
          /\ \A k \in 1 .. n : StorageEnd(k)' = StorageEnd(k)
          /\ \A k : k = n + 1 => StorageEnd(k)' = constDataOffset'
    BY <1>2, AddConstantEffect
  <2>2. /\ constDataOffset \in Nat /\ size \in Nat /\ padded \in Nat /\ n \in Nat
        /\ added \in Seq([resource : Resources, size : DataSizes, sparsity : Sparsities])
        /\ constsMetaData \in Seq(ConstantMetaData)
        /\ constsData \in Seq(U64)
    BY <2>1, ConstantAssumption, WordAssumption DEF ConstantsInv, ConstantsTypeOK, U64
  <2>3. /\ added' = Append(added, argument)
        /\ argument \in [resource : Resources, size : DataSizes, sparsity : Sparsities]
    BY <1>2 DEF AddConstant
  <2> HIDE DEF argument
  <2>4. /\ Len(added') = n + 1 /\ added'[n + 1] = argument
        /\ \A k \in 1 .. n : added'[k] = added[k]
    BY <2>2, <2>3 DEF RecordsMatch
  <2>5. /\ Len(constsData') = n + 1 /\ constsData'[n + 1] = padded
        /\ \A k \in 1 .. n : constsData'[k] = constsData[k]
    BY <2>1, <2>2 DEF BlocksFull
  <2>6. /\ record.mrtIndex = resource /\ record.size = size /\ record.offset = constDataOffset
        /\ record.sparsityDimension = SparsityDim32(sparsity)
        /\ argument.resource = resource /\ argument.size = size /\ argument.sparsity = sparsity
    BY DEF Record, argument
  <2> HIDE DEF record
  <2>7. ASSUME NEW k \in 1 .. n
        PROVE  /\ constsMetaData'[k].mrtIndex = added'[k].resource
               /\ constsMetaData'[k].size = added'[k].size
               /\ constsMetaData'[k].sparsityDimension = SparsityDim32(added'[k].sparsity)
               /\ constsMetaData'[k].offset + constsMetaData'[k].size <= constDataOffset'
               /\ \A j \in 1 .. k - 1 :
                    constsMetaData'[j].offset + constsMetaData'[j].size <= constsMetaData'[k].offset
    <3>1. constsMetaData[k] \in ConstantMetaData
      BY <2>2
    <3>2. constsMetaData[k].offset \in Nat /\ constsMetaData[k].size \in Nat
      BY <3>1, WordAssumption DEF ConstantMetaData, U64
    <3>3. constsMetaData[k].offset + constsMetaData[k].size <= constDataOffset + padded
      BY <2>2, <3>2 DEF RecordsMatch
    <3>4. \A j \in 1 .. k - 1 : j \in 1 .. n
      BY <2>2
    <3>5. QED
      BY <2>1, <2>4, <3>3, <3>4 DEF RecordsMatch
  <2>8. /\ record.offset + record.size <= constDataOffset'
        /\ \A j \in 1 .. n :
             constsMetaData'[j].offset + constsMetaData'[j].size <= record.offset
    <3>1. constDataOffset' = constDataOffset + padded /\ size <= padded
      BY <2>1, <2>2
    <3>2. record.offset + record.size <= constDataOffset'
      BY <2>2, <2>6, <3>1
    <3>3. \A j \in 1 .. n : constsMetaData[j].offset + constsMetaData[j].size <= constDataOffset
      BY DEF RecordsMatch
    <3>4. QED
      BY <2>1, <2>6, <3>2, <3>3
  <2>9. RecordsMatch'
    <3>1. ASSUME NEW k \in 1 .. n + 1
          PROVE  /\ constsMetaData'[k].mrtIndex = added'[k].resource
                 /\ constsMetaData'[k].size = added'[k].size
                 /\ constsMetaData'[k].sparsityDimension = SparsityDim32(added'[k].sparsity)
                 /\ constsMetaData'[k].offset + constsMetaData'[k].size <= constDataOffset'
                 /\ \A j \in 1 .. k - 1 :
                      constsMetaData'[j].offset + constsMetaData'[j].size <= constsMetaData'[k].offset
      <4>1. CASE k = n + 1
        <5>1. \A j \in 1 .. k - 1 : j \in 1 .. n
          BY <2>2, <4>1
        <5>2. QED
          BY <2>1, <2>4, <2>6, <2>8, <4>1, <5>1
      <4>2. CASE k # n + 1
        <5>1. k \in 1 .. n
          BY <2>2, <4>2
        <5>2. QED
          BY <2>7, <5>1
      <4>3. QED
        BY <4>1, <4>2
    <3>2. QED
      BY <2>1, <2>4, <3>1 DEF RecordsMatch
  <2>10. BlocksFull'
    <3>1. ASSUME NEW k \in 1 .. n + 1
          PROVE  constsData'[k] = StorageEnd(k)' - constsMetaData'[k].offset
      <4>1. CASE k = n + 1
        <5>1. constDataOffset' - constDataOffset = padded
          <6>1. constDataOffset' = constDataOffset + padded
            BY <2>1
          <6>2. QED
            BY <2>2, <6>1
        <5>2. /\ constsData'[k] = padded /\ StorageEnd(k)' = constDataOffset'
              /\ constsMetaData'[k].offset = constDataOffset
          BY <2>1, <2>5, <2>6, <4>1
        <5>3. QED
          BY <5>1, <5>2
      <4>2. CASE k # n + 1
        <5>1. k \in 1 .. n
          BY <2>2, <4>2
        <5>2. QED
          BY <2>1, <2>5, <5>1 DEF BlocksFull, Storage
      <4>3. QED
        BY <4>1, <4>2
    <3>2. QED
      BY <2>1, <2>5, <3>1 DEF BlocksFull, Storage
  <2>11. QED
    BY <2>9, <2>10
<1>3. QED
  BY <1>1, <1>2 DEF AddSomeConstant

\* Two constants do not start at the same place: their data is not empty.
LEMMA OffsetsDistinct ==
  ASSUME ConstantsTypeOK, RecordsMatch,
         NEW j \in 1 .. Len(constsMetaData), NEW k \in 1 .. Len(constsMetaData),
         constsMetaData[j].offset = constsMetaData[k].offset
  PROVE  j = k
<1>1. ASSUME NEW i \in 1 .. Len(constsMetaData)
      PROVE  /\ constsMetaData[i].offset \in Nat /\ constsMetaData[i].size \in Nat
             /\ constsMetaData[i].size > 0
  <2>1. constsMetaData[i] \in ConstantMetaData
    BY DEF ConstantsTypeOK
  <2>2. added[i].size \in DataSizes /\ constsMetaData[i].size = added[i].size
    <3>1. added[i] \in [resource : Resources, size : DataSizes, sparsity : Sparsities]
      <4>1. i \in 1 .. Len(added)
        BY DEF RecordsMatch
      <4>2. added \in Seq([resource : Resources, size : DataSizes, sparsity : Sparsities])
        BY DEF ConstantsTypeOK
      <4>3. QED
        BY <4>1, <4>2, ElementOfSeq
    <3>2. QED
      BY <3>1 DEF RecordsMatch
  <2>3. QED
    BY <2>1, <2>2, ConstantAssumption, WordAssumption DEF ConstantMetaData, U64
<1>2. Len(constsMetaData) \in Nat
  BY DEF ConstantsTypeOK
<1>3. CASE j < k
  <2>1. j \in 1 .. k - 1
    BY <1>2, <1>3
  <2>2. constsMetaData[j].offset + constsMetaData[j].size <= constsMetaData[k].offset
    BY <2>1 DEF RecordsMatch
  <2>3. QED
    BY <1>1, <2>2
<1>4. CASE k < j
  <2>1. k \in 1 .. j - 1
    BY <1>2, <1>4
  <2>2. constsMetaData[k].offset + constsMetaData[k].size <= constsMetaData[j].offset
    BY <2>1 DEF RecordsMatch
  <2>3. QED
    BY <1>1, <2>2
<1>5. QED
  BY <1>2, <1>3, <1>4
===============================================================================
