---------------------------- MODULE VgfWriterProofs ----------------------------
(***************************************************************************)
(* Invariants of VgfWriter for every word, every constant, every table     *)
(* size and any number of calls of WriteTo on streams that may fail: what  *)
(* a call may report, where the bytes are, which blocks are left; and that *)
(* the encoder implements ConstantStore.                                   *)
(***************************************************************************)
EXTENDS VgfWriter, EncoderConstantsProofs

StreamType == [good : BOOLEAN, pos : Nat, chunks : Seq(Chunk)]

SectionTable == [SectionNames \cup {"header"} -> SectionIndexType]

\* The type invariant but for the constants, whose own is part of
\* ConstantsInv.
ControlTypeOK ==
  /\ tableSizes \in [TableNames -> TableSizes \cup {0}]
  /\ pc \in {"idle", "header", "data"} \cup SectionNames
  /\ table \in SectionTable
  /\ nextConst \in 0 .. MaxConstants + 1
  /\ output \in StreamType
  /\ result \in {"none", "true", "false"}
  /\ calls \in 0 .. MaxCalls
  /\ intact \in BOOLEAN

\* Before Finish nothing was written: the file is made of frozen tables.
NothingBeforeFinish ==
  ~finished => pc = "idle" /\ result = "none" /\ output.pos = 0

\* What the loop over constsData knows of the stream and of the blocks.
LoopInv ==
  /\ pc = "data" => nextConst >= 1
  /\ pc = "data" /\ nextConst > 1 => output.good
  /\ pc # "idle" /\ intact => Len(constsData) = Len(constsMetaData)

WriterInv ==
  /\ ConstantsInv
  /\ ConstantsBounded
  /\ ControlTypeOK
  /\ NothingBeforeFinish
  /\ LoopInv
  /\ RefusedNeverWritten
  /\ TrueMeansWritten

--------------------------------------------------------------------------------
\* A write leaves a stream, and never takes bytes back.
LEMMA PutLemma ==
  ASSUME NEW stream \in StreamType, NEW part \in {"header", "padding", "head", "data"} \cup TableNames,
         NEW idx \in Nat, NEW size \in Nat,
         NEW written \in Put(stream, part, idx, size)
  PROVE  written \in StreamType
<1> DEFINE chunk == [part |-> part, idx |-> idx, at |-> stream.pos, size |-> size]
<1>1. CASE ~stream.good
  BY <1>1 DEF Put
<1>2. CASE stream.good
  <2>1. chunk \in Chunk
    BY DEF Chunk, StreamType
  <2>2. \/ written = [stream EXCEPT !.pos = stream.pos + size, !.chunks = Append(stream.chunks, chunk)]
        \/ written = [stream EXCEPT !.good = FALSE]
    BY <1>2 DEF Put
  <2>3. stream.pos + size \in Nat /\ Append(stream.chunks, chunk) \in Seq(Chunk)
    BY <2>1 DEF StreamType
  <2> HIDE DEF chunk
  <2>4. QED
    BY <2>2, <2>3 DEF StreamType
<1>3. QED
  BY <1>1, <1>2 DEF StreamType

\* The section size WriteTo computes is a uint64_t.
LEMMA ConstantSectionSizeLemma ==
  ASSUME ConstantsTypeOK
  PROVE  ConstantSectionSize \subseteq U64
<1> SUFFICES ASSUME NEW size \in ConstantSectionSize PROVE size \in U64
  OBVIOUS
<1>1. PICK head \in HeadAndMetadataSize : size \in checkedAdd(head, constDataOffset)
  BY DEF ConstantSectionSize
<1>2. PICK metadata \in checkedMul(Len(constsMetaData), ConstantMetaDataSize) :
        head \in checkedAdd(CONSTANT_SECTION_METADATA_OFFSET, metadata)
  BY <1>1 DEF HeadAndMetadataSize
<1>3. Len(constsMetaData) \in Nat /\ constDataOffset \in Nat
  BY WordAssumption DEF ConstantsTypeOK, U64
<1>4. metadata \in Nat
  BY <1>2, <1>3 DEF checkedMul, ConstantMetaDataSize
<1>5. head \in Nat
  BY <1>2, <1>4 DEF checkedAdd, CONSTANT_SECTION_METADATA_OFFSET
<1>6. QED
  BY <1>1, <1>3, <1>5, WordAssumption DEF checkedAdd, U64

\* Sections that WriteTo adds and places stay well formed.
LEMMA PlacingLemma ==
  ASSUME NEW section \in SectionIndexType, NEW other \in SectionIndexType,
         other.alignment = VGF_SECTION_ALIGNMENT_VALUE
  PROVE  /\ UpdatePadding(section, other) \in SectionIndexType
         /\ UpdateOffset(section, other) \in SectionIndexType
<1> USE DEF VGF_SECTION_ALIGNMENT_VALUE
<1>1. U64Max \in Nat /\ U64Max >= 8
  BY WordAssumption, WriterAssumption DEF HEADER_HEADER_SIZE_VALUE
<1>2. ASSUME NEW n \in Int PROVE Wrap(n) \in U64
  BY <1>1 DEF Wrap, U64
<1>3. EndOfData(section) \in U64 /\ EndOfData(other) \in U64
  BY <1>1, <1>2 DEF EndOfData, SectionIndexType, U64
<1>4. PaddingBefore(8, EndOfData(section)) \in U64
  <2>1. Wrap(EndOfData(section) - 1) \in Nat
    BY <1>1, <1>2, <1>3 DEF U64
  <2>2. QED
    BY <1>1, <2>1 DEF PaddingBefore, U64
<1>5. NextOffset(other) \in U64
  BY <1>1, <1>2, <1>3 DEF NextOffset, SectionIndexType, U64
<1>6. QED
  BY <1>4, <1>5 DEF UpdatePadding, UpdateOffset, SectionIndexType

\* The table WriteTo lays out when it does not refuse is well formed.
LEMMA LayoutLemma ==
  ASSUME ConstantsTypeOK, tableSizes \in [TableNames -> TableSizes \cup {0}],
         ConstantSectionSize # {}
  PROVE  Layout \in SectionTable
<1> DEFINE Aligned == {s \in SectionIndexType : s.alignment = VGF_SECTION_ALIGNMENT_VALUE}
<1>1. U64Max \in Nat /\ U64Max >= 128
  BY WordAssumption, WriterAssumption DEF HEADER_HEADER_SIZE_VALUE
<1>2. SectionSize("constant") \in U64
  BY ConstantSectionSizeLemma DEF SectionSize
<1>3. SectionSize("header") \in U64
  BY <1>1 DEF SectionSize, HEADER_HEADER_SIZE_VALUE, U64
<1>4. ASSUME NEW name \in TableNames PROVE SectionSize(name) \in U64
  BY <1>1, WriterAssumption DEF SectionSize, TableNames, U64
<1>5. ASSUME NEW name \in SectionNames \cup {"header"} PROVE Fresh(name) \in Aligned
  BY <1>1, <1>2, <1>3, <1>4 DEF Fresh, SectionIndex, SectionIndexType, SectionNames, TableNames,
     VGF_SECTION_ALIGNMENT_VALUE, U64
<1>6. ASSUME NEW s \in Aligned, NEW t \in Aligned
      PROVE  UpdatePadding(s, t) \in Aligned /\ UpdateOffset(s, t) \in Aligned
  <2>1. UpdatePadding(s, t).alignment = s.alignment /\ UpdateOffset(s, t).alignment = s.alignment
    BY DEF UpdatePadding, UpdateOffset, SectionIndexType
  <2>2. QED
    BY <2>1, PlacingLemma
<1> DEFINE header == UpdatePadding(Fresh("header"), Fresh("module"))
           module == UpdatePadding(UpdateOffset(Fresh("module"), header), Fresh("sequence"))
           sequence == UpdatePadding(UpdateOffset(Fresh("sequence"), module), Fresh("resource"))
           resource == UpdatePadding(UpdateOffset(Fresh("resource"), sequence), Fresh("constant"))
           constant == UpdateOffset(Fresh("constant"), resource)
<1>7. /\ Fresh("header") \in Aligned /\ Fresh("module") \in Aligned
      /\ Fresh("sequence") \in Aligned /\ Fresh("resource") \in Aligned
      /\ Fresh("constant") \in Aligned
  BY <1>5 DEF SectionNames, TableNames
<1> HIDE DEF Aligned
<1>8. header \in Aligned
  BY <1>6, <1>7
<1>9. module \in Aligned
  BY <1>6, <1>7, <1>8
<1>10. sequence \in Aligned
  BY <1>6, <1>7, <1>9
<1>11. resource \in Aligned
  BY <1>6, <1>7, <1>10
<1>12. constant \in Aligned
  BY <1>6, <1>7, <1>11
<1>13. Layout = [header |-> header, module |-> module, sequence |-> sequence,
                 resource |-> resource, constant |-> constant]
  BY DEF Layout
<1> HIDE DEF header, module, sequence, resource, constant
<1>14. QED
  BY <1>8, <1>9, <1>10, <1>11, <1>12, <1>13 DEF SectionTable, SectionNames, TableNames, Aligned
--------------------------------------------------------------------------------
\* One lemma for each action.

\* A new encoder wrote nothing.
LEMMA InitInv == Init => WriterInv
<1> SUFFICES ASSUME Init PROVE WriterInv
  OBVIOUS
<1>1. ConstantsInv
  BY ConstantsInitInv DEF Init
<1>2. U64Max \in Nat /\ U64Max >= 128
  BY WordAssumption, WriterAssumption DEF HEADER_HEADER_SIZE_VALUE
<1>3. SectionIndex(0, VGF_SECTION_ALIGNMENT_VALUE) \in SectionIndexType
  BY <1>2 DEF SectionIndex, SectionIndexType, VGF_SECTION_ALIGNMENT_VALUE, U64
<1>4. output \in StreamType
  BY EmptySeq DEF Init, NewStream, StreamType
<1>5. ControlTypeOK
  <2>1. tableSizes \in [TableNames -> TableSizes \cup {0}]
    BY DEF Init
  <2>2. table \in SectionTable
    BY <1>3 DEF Init, SectionTable
  <2>3. calls \in 0 .. MaxCalls /\ nextConst \in 0 .. MaxConstants + 1
    BY WriterAssumption, ConstantAssumption DEF Init
  <2>4. QED
    BY <1>4, <2>1, <2>2, <2>3 DEF Init, ControlTypeOK
<1>6. ConstantsBounded
  BY ConstantAssumption, EmptySeq DEF Init, ConstantsInit, ConstantsBounded
<1>7. QED
  BY <1>1, <1>5, <1>6 DEF Init, WriterInv, NothingBeforeFinish, LoopInv, RefusedNeverWritten,
     TrueMeansWritten, Returned, ConstantsInit, NewStream

\* Constants are added before Finish only, when nothing was written.
LEMMA AddSomeConstantStep ==
  ASSUME WriterInv, AddSomeConstant, UNCHANGED writerVars
  PROVE  WriterInv'
<1>1. ConstantsInv'
  BY AddSomeConstantInv DEF WriterInv
<1>2. ~finished /\ ~finished'
  BY DEF AddSomeConstant, AddConstant, RejectConstant
<1>3. ControlTypeOK'
  BY DEF WriterInv, ControlTypeOK, writerVars
<1>4. ConstantsBounded'
  BY AddSomeConstantBounded DEF WriterInv, ConstantsInv
<1>5. QED
  BY <1>1, <1>2, <1>3, <1>4 DEF WriterInv, NothingBeforeFinish, LoopInv, RefusedNeverWritten,
     TrueMeansWritten, Returned, writerVars

\* A step that leaves records, payload and flags keeps the invariant of the
\* constants if it keeps blocks blocks.
LEMMA ConstantsKept ==
  ASSUME ConstantsInv, constsData' \in Seq(U64), finished' \in BOOLEAN,
         UNCHANGED <<encodingFailed, constsMetaData, constDataOffset, added>>
  PROVE  ConstantsInv'
BY TilingUnchanged DEF ConstantsInv, ConstantsTypeOK

\* Finish freezes the tables and writes nothing.
LEMMA FinishStep ==
  ASSUME WriterInv, NEW sizes \in [TableNames -> TableSizes], Finish(sizes)
  PROVE  WriterInv'
<1>1. ConstantsInv'
  BY ConstantsKept DEF Finish, WriterInv, ConstantsInv, ConstantsTypeOK
<1>2. ControlTypeOK'
  <2>1. tableSizes' \in [TableNames -> TableSizes \cup {0}]
    BY DEF Finish
  <2>2. QED
    BY <2>1 DEF Finish, WriterInv, ControlTypeOK
<1>3. QED
  BY <1>1, <1>2 DEF Finish, WriterInv, NothingBeforeFinish, LoopInv, RefusedNeverWritten,
     TrueMeansWritten, Returned, ConstantsBounded

\* WriteTo starts on a new stream, or refuses before it puts a byte on it.
LEMMA WriteToStep ==
  ASSUME WriterInv, NEW good \in BOOLEAN, WriteTo(good)
  PROVE  WriterInv'
<1>1. ConstantsInv'
  BY ConstantsKept DEF WriteTo, constantVars, WriterInv, ConstantsInv, ConstantsTypeOK
<1>2. ControlTypeOK'
  <2>1. output' \in StreamType
    BY EmptySeq DEF WriteTo, NewStream, StreamType
  <2>2. calls' \in 0 .. MaxCalls
    BY WriterAssumption DEF WriteTo, WriterInv, ControlTypeOK
  <2>3. table' \in SectionTable
    BY LayoutLemma DEF WriteTo, Refuses, WriterInv, ControlTypeOK, ConstantsInv
  <2>4. QED
    BY <2>1, <2>2, <2>3 DEF WriteTo, Return, WriterInv, ControlTypeOK
<1>3. LoopInv'
  BY DEF WriteTo, Return, LoopInv, constantVars
<1>4. RefusedNeverWritten'
  BY DEF WriteTo, Return, Refuses, RefusedNeverWritten, NewStream, constantVars
<1>5. TrueMeansWritten'
  BY DEF WriteTo, Return, TrueMeansWritten, Returned
<1>6. NothingBeforeFinish'
  BY DEF WriteTo, NothingBeforeFinish, constantVars
<1>7. ConstantsBounded'
  BY DEF WriteTo, constantVars, WriterInv, ConstantsBounded
<1>8. QED
  BY <1>7, <1>1, <1>2, <1>3, <1>4, <1>5, <1>6 DEF WriterInv

\* A section and its padding leave a good stream, or the call returns false.
LEMMA WriteSectionStep ==
  ASSUME WriterInv, NEW name \in {"header"} \cup TableNames, WriteSection(name)
  PROVE  WriterInv'
<1>1. PICK written \in Put(output, name, 0, table[name].size) :
        \E padded \in Put(written, "padding", 0, table[name].padding) :
          output' = padded /\ Checked(padded, After[name])
  BY DEF WriteSection
<1>2. PICK padded \in Put(written, "padding", 0, table[name].padding) :
        output' = padded /\ Checked(padded, After[name])
  BY <1>1
<1>3. table[name].size \in Nat /\ table[name].padding \in Nat
  BY WordAssumption DEF WriterInv, ControlTypeOK, SectionTable, SectionNames, TableNames,
     SectionIndexType, U64
<1>4. output' \in StreamType
  <2>1. written \in StreamType
    BY <1>1, <1>3, PutLemma DEF WriterInv, ControlTypeOK
  <2>2. QED
    BY <1>2, <1>3, <2>1, PutLemma
<1>5. After[name] \in SectionNames
  BY DEF After, SectionNames, TableNames
<1>6. /\ UNCHANGED <<constantVars, tableSizes, table, nextConst, calls, intact>>
      /\ pc = name
      /\ \/ pc' \in SectionNames /\ result' = result
         \/ pc' = "idle" /\ result' = "false"
  BY <1>2, <1>5 DEF WriteSection, Checked, Return
<1>7. ConstantsInv'
  BY <1>6, ConstantsKept DEF constantVars, WriterInv, ConstantsInv, ConstantsTypeOK
<1>8. ControlTypeOK'
  BY <1>4, <1>6 DEF WriterInv, ControlTypeOK
<1>9. pc # "idle" /\ "idle" \notin SectionNames /\ "data" \notin SectionNames
  BY <1>6 DEF SectionNames, TableNames
<1>10. finished /\ ~encodingFailed
  BY <1>9 DEF WriterInv, NothingBeforeFinish, RefusedNeverWritten
<1>11. LoopInv'
  BY <1>6, <1>9 DEF WriterInv, LoopInv, constantVars
<1>12. QED
  BY <1>6, <1>7, <1>8, <1>9, <1>10, <1>11 DEF WriterInv, NothingBeforeFinish,
     RefusedNeverWritten, TrueMeansWritten, Returned, constantVars, ConstantsBounded

\* The head of the constants goes unchecked: only the loop sees a failure.
LEMMA WriteConstantHeadStep ==
  ASSUME WriterInv, WriteConstantHead
  PROVE  WriterInv'
<1>1. ConstantsInv'
  BY ConstantsKept DEF WriteConstantHead, constantVars, WriterInv, ConstantsInv, ConstantsTypeOK
<1>2. finished /\ ~encodingFailed
  BY DEF WriteConstantHead, WriterInv, NothingBeforeFinish, RefusedNeverWritten
<1>3. output' \in StreamType
  <2>1. Len(constsMetaData) \in Nat
    BY DEF WriterInv, ConstantsInv, ConstantsTypeOK
  <2>2. CONSTANT_SECTION_METADATA_OFFSET + Len(constsMetaData) * ConstantMetaDataSize \in Nat
    BY <2>1 DEF CONSTANT_SECTION_METADATA_OFFSET, ConstantMetaDataSize
  <2>3. QED
    BY <2>2, PutLemma DEF WriteConstantHead, WriterInv, ControlTypeOK
<1>4. ControlTypeOK'
  BY <1>3, ConstantAssumption DEF WriteConstantHead, WriterInv, ControlTypeOK
<1>5. QED
  BY <1>1, <1>2, <1>4 DEF WriteConstantHead, WriterInv, NothingBeforeFinish, LoopInv,
     RefusedNeverWritten, TrueMeansWritten, Returned, constantVars, ConstantsBounded

\* Only a good stream goes on to the next block.
LEMMA WriteConstantStep ==
  ASSUME WriterInv, WriteConstant
  PROVE  WriterInv'
<1>1. /\ constsData \in Seq(U64)
      /\ nextConst \in 1 .. Len(constsData)
      /\ constsData' = [constsData EXCEPT ![nextConst] = 0]
  BY DEF WriteConstant, Released, WriterInv, ConstantsInv, ConstantsTypeOK, ControlTypeOK, LoopInv
<1>2. constsData' \in Seq(U64) /\ Len(constsData') = Len(constsData)
  <2>1. 0 \in U64
    BY WordAssumption DEF U64
  <2>2. QED
    BY <1>1, <2>1
<1>3. ConstantsInv'
  BY <1>2, ConstantsKept DEF WriteConstant, WriterInv, ConstantsInv, ConstantsTypeOK
<1>4. finished /\ ~encodingFailed
  BY DEF WriteConstant, WriterInv, NothingBeforeFinish, RefusedNeverWritten
<1>5. output' \in StreamType
  <2>1. nextConst \in Nat /\ constsData[nextConst] \in Nat
    BY <1>1, WordAssumption DEF U64
  <2>2. QED
    BY <2>1, PutLemma DEF WriteConstant, WriterInv, ControlTypeOK
<1>6. \/ output'.good /\ pc' = "data" /\ result' = result
      \/ pc' = "idle" /\ result' = "false"
  BY DEF WriteConstant, Checked, Return
<1>7. nextConst' = nextConst + 1 /\ nextConst' \in 0 .. MaxConstants + 1 /\ nextConst \in Nat
  BY <1>1, ConstantAssumption DEF WriteConstant, WriterInv, ConstantsBounded, ConstantsInv, ConstantsTypeOK
<1>8. ControlTypeOK'
  BY <1>5, <1>6, <1>7 DEF WriteConstant, WriterInv, ControlTypeOK
<1>9. LoopInv'
  BY <1>2, <1>6, <1>7 DEF WriteConstant, WriterInv, LoopInv
<1>10. ConstantsBounded'
  BY <1>2 DEF WriteConstant, WriterInv, ConstantsBounded
<1>11. QED
  BY <1>3, <1>4, <1>6, <1>8, <1>9, <1>10 DEF WriteConstant, WriterInv, NothingBeforeFinish,
     RefusedNeverWritten, TrueMeansWritten, Returned

\* The loop ran at least once if there is a constant, and its last check
\* found the stream good.
LEMMA EndWriteToStep ==
  ASSUME WriterInv, EndWriteTo
  PROVE  WriterInv'
<1>1. ConstantsInv'
  BY ConstantsKept, EmptySeq DEF EndWriteTo, WriterInv, ConstantsInv, ConstantsTypeOK
<1>2. finished /\ ~encodingFailed
  BY DEF EndWriteTo, WriterInv, NothingBeforeFinish, RefusedNeverWritten
<1>3. ControlTypeOK'
  BY DEF EndWriteTo, Return, WriterInv, ControlTypeOK
<1>4. intact /\ constsMetaData # <<>> => output.good
  <2>1. SUFFICES ASSUME intact, constsMetaData # <<>> PROVE output.good
    OBVIOUS
  <2>2. Len(constsMetaData) \in Nat /\ Len(constsMetaData) # 0
    BY <2>1, EmptySeq DEF WriterInv, ConstantsInv, ConstantsTypeOK
  <2>3. Len(constsData) = Len(constsMetaData)
    BY <2>1 DEF EndWriteTo, WriterInv, LoopInv
  <2>4. nextConst > 1
    BY <2>2, <2>3 DEF EndWriteTo, WriterInv, ControlTypeOK
  <2>5. QED
    BY <2>4 DEF EndWriteTo, WriterInv, LoopInv
<1>5. QED
  BY <1>1, <1>2, <1>3, <1>4, EmptySeq DEF EndWriteTo, Return, WriterInv, NothingBeforeFinish, LoopInv,
     RefusedNeverWritten, TrueMeansWritten, Returned, ConstantsBounded, ConstantsInv,
     ConstantsTypeOK

\* A step that changes nothing keeps the invariant.
LEMMA StutterStep ==
  ASSUME WriterInv, UNCHANGED vars
  PROVE  WriterInv'
<1>1. ConstantsInv'
  BY ConstantsKept DEF vars, constantVars, WriterInv, ConstantsInv, ConstantsTypeOK
<1>2. QED
  BY <1>1 DEF vars, constantVars, writerVars, WriterInv, ControlTypeOK, NothingBeforeFinish,
     LoopInv, RefusedNeverWritten, TrueMeansWritten, Returned, ConstantsBounded

\* WriterInv is inductive.
LEMMA NextInv == WriterInv /\ [Next]_vars => WriterInv'
BY AddSomeConstantStep, FinishStep, WriteToStep, WriteSectionStep, WriteConstantHeadStep,
   WriteConstantStep, EndWriteToStep, StutterStep DEF Next, WriteStep

--------------------------------------------------------------------------------
\* WriterInv holds throughout.
THEOREM Invariance == Spec => []WriterInv
BY InitInv, NextInv, PTL DEF Spec

\* Every variable keeps its type, the bytes accepted and the table included.
THEOREM TypeCorrect == Spec => []TypeOK
<1>1. WriterInv => TypeOK
  BY DEF WriterInv, ConstantsInv, ControlTypeOK, SectionTable, StreamType, TypeOK
<1>2. QED
  BY <1>1, Invariance, PTL

\* The constants' ranges tile the payload of every encoder.
THEOREM PayloadIsTiled == Spec => []PayloadTiled
<1>1. WriterInv => PayloadTiled
  BY DEF WriterInv, ConstantsInv
<1>2. QED
  BY <1>1, Invariance, PTL

\* An encoder that refused a constant never writes.
THEOREM RefusedIsNeverWritten == Spec => []RefusedNeverWritten
<1>1. WriterInv => RefusedNeverWritten
  BY DEF WriterInv
<1>2. QED
  BY <1>1, Invariance, PTL

\* WriteTo is truthful when there is a constant and no block was released.
THEOREM TrueIsWritten == Spec => []TrueMeansWritten
<1>1. WriterInv => TrueMeansWritten
  BY DEF WriterInv
<1>2. QED
  BY <1>1, Invariance, PTL

--------------------------------------------------------------------------------
(***************************************************************************)
(* The file: where each section and each constant's data is on the stream. *)
(***************************************************************************)

\* A section that fits the word with its padding is followed by the next one
\* right after that padding, on 8 bytes: no sum wraps.
LEMMA FollowLemma ==
  ASSUME NEW section \in SectionIndexType, NEW next \in SectionIndexType,
         next.alignment = 8, section.offset + section.size + 7 <= U64Max
  PROVE  /\ UpdatePadding(section, next).padding \in 0 .. 7
         /\ UpdatePadding(section, next).offset = section.offset
         /\ UpdatePadding(section, next).size = section.size
         /\ NextOffset(UpdatePadding(section, next)) =
              section.offset + section.size + UpdatePadding(section, next).padding
         /\ NextOffset(UpdatePadding(section, next)) % 8 = 0
<1> DEFINE placed == UpdatePadding(section, next)
           end == section.offset + section.size
           padding == PaddingBefore(8, end)
<1>1. U64Max \in Nat /\ section.offset \in Nat /\ section.size \in Nat
  BY WordAssumption DEF SectionIndexType, U64
<1>2. end \in Nat /\ end + 7 <= U64Max
  BY <1>1
<1>3. end \in U64 /\ 8 \in U64 \ {0} /\ (U64Max + 1) % 8 = 0
  BY <1>1, <1>2, WriterAssumption DEF U64, HEADER_HEADER_SIZE_VALUE, VGF_SECTION_ALIGNMENT_VALUE
<1>4. padding \in 0 .. 8 - 1 /\ (end + padding) % 8 = 0
  BY <1>3, PaddingLemma
<1>5. EndOfData(section) = end
  BY <1>1, <1>2 DEF EndOfData, Wrap
<1>6. placed.padding = padding /\ placed.offset = section.offset /\ placed.size = section.size
  BY <1>5 DEF UpdatePadding, SectionIndexType
<1> HIDE DEF placed, padding
<1>7. EndOfData(placed) = end
  BY <1>1, <1>2, <1>6 DEF EndOfData, Wrap
<1> HIDE DEF end
<1>8. NextOffset(placed) = end + padding
  <2>1. end + padding \in 0 .. U64Max
    BY <1>1, <1>2, <1>4
  <2>2. Wrap(end + padding) = end + padding
    BY <1>1, <2>1 DEF Wrap
  <2>3. QED
    BY <1>6, <1>7, <2>2 DEF NextOffset
<1>9. QED
  BY <1>4, <1>6, <1>8 DEF placed, end

\* Where the constants' data starts in their section.
PayloadOffset == CONSTANT_SECTION_METADATA_OFFSET + Len(constsMetaData) * ConstantMetaDataSize

\* The section is its head, its records and the payload.
LEMMA ConstantSectionSizeIs ==
  ASSUME ConstantsTypeOK, NEW size \in ConstantSectionSize
  PROVE  /\ size = PayloadOffset + constDataOffset
         /\ PayloadOffset \in Nat /\ PayloadOffset <= U64Max
<1>1. PICK head \in HeadAndMetadataSize : size \in checkedAdd(head, constDataOffset)
  BY DEF ConstantSectionSize
<1>2. PICK metadata \in checkedMul(Len(constsMetaData), ConstantMetaDataSize) :
        head \in checkedAdd(CONSTANT_SECTION_METADATA_OFFSET, metadata)
  BY <1>1 DEF HeadAndMetadataSize
<1>3. /\ Len(constsMetaData) \in Nat /\ constDataOffset \in Nat /\ constDataOffset <= U64Max
      /\ U64Max \in Nat
  BY WordAssumption DEF ConstantsTypeOK, U64
<1>4. metadata = Len(constsMetaData) * ConstantMetaDataSize
  BY <1>2 DEF checkedMul
<1>5. PayloadOffset \in Nat
  BY <1>3 DEF PayloadOffset, CONSTANT_SECTION_METADATA_OFFSET, ConstantMetaDataSize
<1>6. head = PayloadOffset
  BY <1>2, <1>4 DEF checkedAdd, PayloadOffset
<1>7. size = head + constDataOffset /\ head <= U64Max - constDataOffset
  BY <1>1, <1>3, <1>5, <1>6 DEF checkedAdd
<1>8. QED
  BY <1>3, <1>5, <1>6, <1>7

\* The layout: the header at 0, each section right after the padding of the
\* one before it, on 8 bytes, and the constant section last.
LEMMA LayoutArithmetic ==
  ASSUME ConstantsTypeOK, tableSizes \in [TableNames -> TableSizes], ConstantSectionSize # {}
  PROVE  /\ Layout["header"].offset = 0
         /\ \A name \in {"header"} \cup TableNames :
              /\ Layout[After[name]].offset =
                   Layout[name].offset + Layout[name].size + Layout[name].padding
              /\ Layout[After[name]].offset % 8 = 0
         /\ Layout["constant"].size = PayloadOffset + constDataOffset
<1> USE DEF VGF_SECTION_ALIGNMENT_VALUE
<1> DEFINE Aligned == {s \in SectionIndexType : s.alignment = 8}
           m == tableSizes["module"]
           s == tableSizes["sequence"]
           r == tableSizes["resource"]
<1>1. /\ U64Max \in Nat /\ m \in Nat /\ s \in Nat /\ r \in Nat
      /\ 128 + (m + 8) + (s + 8) + (r + 8) <= U64Max
  <2>1. m \in TableSizes /\ s \in TableSizes /\ r \in TableSizes
    BY DEF TableNames
  <2>2. m \in Nat /\ s \in Nat /\ r \in Nat
    <3>1. \A n \in TableSizes : n \in Nat
      BY WordAssumption, WriterAssumption DEF U64
    <3>2. QED
      BY <2>1, <3>1
  <2>3. 128 + 3 * (m + 8) <= U64Max /\ 128 + 3 * (s + 8) <= U64Max /\ 128 + 3 * (r + 8) <= U64Max
    BY <2>1, WriterAssumption DEF HEADER_HEADER_SIZE_VALUE
  <2> HIDE DEF m, s, r
  <2>4. QED
    BY <2>2, <2>3, WordAssumption
<1>2. PICK c \in ConstantSectionSize : c = SectionSize("constant")
  BY DEF SectionSize
<1>3. c = PayloadOffset + constDataOffset /\ c \in U64
  BY ConstantSectionSizeIs, ConstantSectionSizeLemma
<1> DEFINE F(size) == SectionIndex(size, 8)
<1>4. /\ Fresh("header") = F(128) /\ Fresh("module") = F(m) /\ Fresh("sequence") = F(s)
      /\ Fresh("resource") = F(r) /\ Fresh("constant") = F(c)
  BY <1>2 DEF Fresh, SectionSize, HEADER_HEADER_SIZE_VALUE
<1>5. 128 \in U64 /\ m \in U64 /\ s \in U64 /\ r \in U64
  <2> HIDE DEF m, s, r
  <2>1. QED
    BY <1>1 DEF U64
<1> HIDE DEF m, s, r
<1>6. ASSUME NEW size \in U64
      PROVE  /\ F(size) \in SectionIndexType /\ F(size).alignment = 8
             /\ F(size).offset = 0 /\ F(size).size = size
  BY <1>1 DEF SectionIndex, SectionIndexType, U64
<1>7. ASSUME NEW size \in U64, NEW prev,
             NextOffset(prev) \in U64
      PROVE  /\ UpdateOffset(F(size), prev) \in SectionIndexType
             /\ UpdateOffset(F(size), prev).offset = NextOffset(prev)
             /\ UpdateOffset(F(size), prev).size = size
  <2>1. F(size) \in SectionIndexType
    BY <1>6
  <2>2. QED
    BY <2>1, <1>6, <1>7 DEF UpdateOffset, SectionIndexType
<1> HIDE DEF F
<1> DEFINE header == UpdatePadding(F(128), F(m))
           module0 == UpdateOffset(F(m), header)
           module == UpdatePadding(module0, F(s))
           sequence0 == UpdateOffset(F(s), module)
           sequence == UpdatePadding(sequence0, F(r))
           resource0 == UpdateOffset(F(r), sequence)
           resource == UpdatePadding(resource0, F(c))
           constant == UpdateOffset(F(c), resource)
<1>8. Layout = [header |-> header, module |-> module, sequence |-> sequence,
                resource |-> resource, constant |-> constant]
  BY <1>4 DEF Layout
<1>9. /\ header.offset = 0 /\ header.size = 128 /\ header.padding \in 0 .. 7
      /\ NextOffset(header) = 128 + header.padding /\ NextOffset(header) % 8 = 0
  BY <1>1, <1>5, <1>6, FollowLemma
<1>10. header.padding = 0
  <2> HIDE DEF header
  <2>1. QED
    BY <1>9
<1>11. /\ module0 \in SectionIndexType
       /\ module0.offset = NextOffset(header) /\ module0.size = m
  <2> HIDE DEF header
  <2>1. NextOffset(header) \in U64
    BY <1>1, <1>9, <1>10 DEF U64
  <2>2. QED
    BY <2>1, <1>5, <1>7
<1> HIDE DEF header, module0
<1>12. /\ module.offset = module0.offset /\ module.size = m /\ module.padding \in 0 .. 7
       /\ NextOffset(module) = module.offset + module.size + module.padding
       /\ NextOffset(module) % 8 = 0
       /\ NextOffset(module) \in 0 .. 128 + (m + 8)
  <2>1. module0.offset + module0.size + 7 <= U64Max
    BY <1>1, <1>9, <1>10, <1>11
  <2>2. /\ module.offset = module0.offset /\ module.size = m /\ module.padding \in 0 .. 7
        /\ NextOffset(module) = module.offset + module.size + module.padding
        /\ NextOffset(module) % 8 = 0
    BY <2>1, <1>5, <1>6, <1>11, FollowLemma
  <2> HIDE DEF module
  <2>3. /\ NextOffset(module) = module0.offset + m + module.padding
        /\ module.padding \in 0 .. 7 /\ module0.offset = 128
    BY <2>2, <1>9, <1>10, <1>11
  <2>4. NextOffset(module) \in 0 .. 128 + (m + 8)
    BY <2>3, <1>1
  <2>5. QED
    BY <2>2, <2>4
<1> HIDE DEF module
<1>13. /\ sequence0 \in SectionIndexType
       /\ sequence0.offset = NextOffset(module) /\ sequence0.size = s
  <2>1. NextOffset(module) \in U64
    BY <1>1, <1>12 DEF U64
  <2>2. QED
    BY <2>1, <1>5, <1>7
<1> HIDE DEF sequence0
<1>14. /\ sequence.offset = sequence0.offset /\ sequence.size = s /\ sequence.padding \in 0 .. 7
       /\ NextOffset(sequence) = sequence.offset + sequence.size + sequence.padding
       /\ NextOffset(sequence) % 8 = 0
       /\ NextOffset(sequence) \in 0 .. 128 + (m + 8) + (s + 8)
  <2>1. sequence0.offset + sequence0.size + 7 <= U64Max
    BY <1>1, <1>12, <1>13
  <2>2. /\ sequence.offset = sequence0.offset /\ sequence.size = s /\ sequence.padding \in 0 .. 7
        /\ NextOffset(sequence) = sequence.offset + sequence.size + sequence.padding
        /\ NextOffset(sequence) % 8 = 0
    BY <2>1, <1>5, <1>6, <1>13, FollowLemma
  <2> HIDE DEF sequence
  <2>3. /\ NextOffset(sequence) = sequence0.offset + s + sequence.padding
        /\ sequence.padding \in 0 .. 7 /\ sequence0.offset = NextOffset(module)
    BY <2>2, <1>12, <1>13
  <2>4. NextOffset(sequence) \in 0 .. 128 + (m + 8) + (s + 8)
    BY <2>3, <1>1, <1>12
  <2>5. QED
    BY <2>2, <2>4
<1> HIDE DEF sequence
<1>15. /\ resource0 \in SectionIndexType
       /\ resource0.offset = NextOffset(sequence) /\ resource0.size = r
  <2>1. NextOffset(sequence) \in U64
    BY <1>1, <1>14 DEF U64
  <2>2. QED
    BY <2>1, <1>5, <1>7
<1> HIDE DEF resource0
<1>16. /\ resource.offset = resource0.offset /\ resource.size = r /\ resource.padding \in 0 .. 7
       /\ NextOffset(resource) = resource.offset + resource.size + resource.padding
       /\ NextOffset(resource) % 8 = 0
       /\ NextOffset(resource) \in 0 .. U64Max
  <2>1. resource0.offset + resource0.size + 7 <= U64Max
    BY <1>1, <1>14, <1>15
  <2>2. /\ resource.offset = resource0.offset /\ resource.size = r /\ resource.padding \in 0 .. 7
        /\ NextOffset(resource) = resource.offset + resource.size + resource.padding
        /\ NextOffset(resource) % 8 = 0
    BY <2>1, <1>3, <1>6, <1>15, FollowLemma
  <2> HIDE DEF resource
  <2>3. /\ NextOffset(resource) = resource0.offset + r + resource.padding
        /\ resource.padding \in 0 .. 7 /\ resource0.offset = NextOffset(sequence)
    BY <2>2, <1>14, <1>15
  <2>4. NextOffset(resource) \in 0 .. U64Max
    BY <2>3, <1>1, <1>14
  <2>5. QED
    BY <2>2, <2>4
<1> HIDE DEF resource
<1>17. constant.offset = NextOffset(resource) /\ constant.size = c
  <2>1. NextOffset(resource) \in U64
    BY <1>16 DEF U64
  <2>2. QED
    BY <2>1, <1>3, <1>7
<1> HIDE DEF constant
<1>18. ASSUME NEW name \in {"header"} \cup TableNames
       PROVE  /\ Layout[After[name]].offset =
                   Layout[name].offset + Layout[name].size + Layout[name].padding
              /\ Layout[After[name]].offset % 8 = 0
  <2>1. CASE name = "header"
    BY <2>1, <1>8, <1>9, <1>11, <1>12 DEF After
  <2>2. CASE name = "module"
    BY <2>2, <1>8, <1>12, <1>13, <1>14 DEF After
  <2>3. CASE name = "sequence"
    BY <2>3, <1>8, <1>14, <1>15, <1>16 DEF After
  <2>4. CASE name = "resource"
    BY <2>4, <1>8, <1>16, <1>17 DEF After
  <2>5. QED
    BY <2>1, <2>2, <2>3, <2>4 DEF TableNames
<1>19. QED
  BY <1>3, <1>8, <1>9, <1>17, <1>18

--------------------------------------------------------------------------------
\* From the first write of a call on, the table is the layout of the frozen
\* sections, whose sizes are those of finished builders.
TablePlaced ==
  /\ finished => tableSizes \in [TableNames -> TableSizes]
  /\ pc # "idle" \/ output.chunks # <<>> \/ Returned("true") =>
       finished /\ ConstantSectionSize # {} /\ table = Layout

\* Where the constants' data starts in the file, and the next block belongs.
PayloadStart == table["constant"].offset + PayloadOffset

NextDataOffset ==
  IF nextConst > Len(constsMetaData) THEN constDataOffset ELSE constsMetaData[nextConst].offset

\* A stream that is good is where the section or block to be written belongs.
StreamPlaced ==
  /\ pc = "header" => output.pos = 0
  /\ pc \in SectionNames => output.good /\ output.pos = table[pc].offset
  /\ pc = "data" /\ output.good /\ intact => output.pos = PayloadStart + NextDataOffset
  /\ Returned("true") /\ output.good /\ intact => output.pos = PayloadStart + constDataOffset

\* The sections a call that came this far has written.
Passed(at) ==
  CASE at = "module" -> {"header"}
    [] at = "sequence" -> {"header", "module"}
    [] at = "resource" -> {"header", "module", "sequence"}
    [] at \in {"constant", "data"} -> {"header"} \cup TableNames
    [] OTHER -> {}

SectionsPassed ==
  /\ \A name \in Passed(pc) : Written(name, table[name].offset)
  /\ Returned("true") => \A name \in Passed("data") : Written(name, table[name].offset)
  /\ (pc = "data" \/ Returned("true")) /\ output.good => Written("head", table["constant"].offset)

ChunksPlaced ==
  \A chunk \in Chunks :
    /\ chunk.part \in TableNames =>
         chunk.at = table[chunk.part].offset /\ Written("header", 0)
    /\ chunk.part = "data" /\ intact =>
         /\ chunk.idx \in 1 .. Len(constsMetaData)
         /\ chunk.at = PayloadStart + constsMetaData[chunk.idx].offset
         /\ chunk.size = Storage(chunk.idx)

HasData(k) == \E chunk \in Chunks : chunk.part = "data" /\ chunk.idx = k

Kept(k) == k \in 1 .. Len(constsData) /\ constsData[k] = Storage(k)

\* A block is kept, or the stream has it or has failed; a running call has
\* put exactly those before nextConst.
BlocksPlaced ==
  /\ ~finished => BlocksFull /\ output.chunks = <<>>
  /\ constsData # <<>> =>
       /\ Len(constsData) = Len(constsMetaData)
       /\ \A k \in 1 .. Len(constsMetaData) : constsData[k] \in {0, Storage(k)}
  /\ intact => \A k \in 1 .. Len(constsMetaData) :
       \/ Kept(k)
       \/ Written("resource", table["resource"].offset) /\ (output.good => HasData(k))
  /\ pc # "idle" /\ intact => \A k \in 1 .. Len(constsMetaData) :
       IF pc = "data" /\ k < nextConst THEN output.good => HasData(k) ELSE Kept(k)
  /\ Returned("true") /\ intact /\ output.good =>
       \A k \in 1 .. Len(constsMetaData) : HasData(k)

FileInv ==
  /\ RecordsMatch
  /\ TablePlaced
  /\ StreamPlaced
  /\ SectionsPassed
  /\ ChunksPlaced
  /\ BlocksPlaced

--------------------------------------------------------------------------------
\* What is on a stream, and one run of bytes on it.
ChunksOf(stream) == {stream.chunks[i] : i \in DOMAIN stream.chunks}

Run(part, idx, at, size) == [part |-> part, idx |-> idx, at |-> at, size |-> size]

\* A write adds one run where the stream is, or fails and adds nothing.
LEMMA PutEffect ==
  ASSUME NEW stream \in StreamType, NEW part, NEW idx, NEW size,
         NEW written \in Put(stream, part, idx, size)
  PROVE  \/ /\ stream.good /\ written.good
            /\ written.pos = stream.pos + size
            /\ ChunksOf(written) = ChunksOf(stream) \cup {Run(part, idx, stream.pos, size)}
         \/ /\ ~written.good
            /\ written.pos = stream.pos
            /\ ChunksOf(written) = ChunksOf(stream)
<1> DEFINE run == Run(part, idx, stream.pos, size)
<1>1. \/ ~stream.good /\ written = stream
      \/ stream.good /\ written = [stream EXCEPT !.good = FALSE]
      \/ /\ stream.good
         /\ written = [stream EXCEPT !.pos = stream.pos + size, !.chunks = Append(stream.chunks, run)]
  BY DEF Put, Run
<1> HIDE DEF run
<1>2. CASE ~stream.good /\ written = stream
  BY <1>2
<1>3. CASE stream.good /\ written = [stream EXCEPT !.good = FALSE]
  BY <1>3 DEF ChunksOf, StreamType
<1>4. CASE /\ stream.good
           /\ written = [stream EXCEPT !.pos = stream.pos + size, !.chunks = Append(stream.chunks, run)]
  <2>1. /\ written.good /\ written.pos = stream.pos + size
        /\ written.chunks = Append(stream.chunks, run)
    BY <1>4 DEF StreamType
  <2>2. ChunksOf(written) = ChunksOf(stream) \cup {run}
    <3> DEFINE c == stream.chunks
               d == Append(stream.chunks, run)
    <3>1. PICK n \in Nat : n = Len(c) /\ DOMAIN c = 1 .. n /\ c \in Seq(Chunk)
      BY DEF StreamType
    <3>2. DOMAIN d = 1 .. n + 1 /\ d[n + 1] = run /\ \A i \in 1 .. n : d[i] = c[i]
      BY <3>1
    <3>3. ChunksOf(written) = {d[i] : i \in 1 .. n + 1}
      BY <2>1, <3>2 DEF ChunksOf
    <3>4. ChunksOf(stream) = {c[i] : i \in 1 .. n}
      BY <3>1 DEF ChunksOf
    <3> HIDE DEF c, d
    <3>5. 1 .. n + 1 = (1 .. n) \cup {n + 1}
      BY <3>1
    <3>6. QED
      BY <3>2, <3>3, <3>4, <3>5
  <2>3. QED
    BY <1>4, <2>1, <2>2 DEF run
<1>5. QED
  BY <1>1, <1>2, <1>3, <1>4

\* The runs on the output are its chunks.
LEMMA ChunksAre == Chunks = ChunksOf(output) /\ Chunks' = ChunksOf(output')
BY DEF Chunks, ChunksOf

\* The layout depends on the frozen parts only.
LEMMA LayoutFrozen ==
  ASSUME UNCHANGED <<constsMetaData, constDataOffset, tableSizes>>
  PROVE  /\ Layout' = Layout /\ ConstantSectionSize' = ConstantSectionSize
         /\ PayloadOffset' = PayloadOffset
<1>1. ConstantSectionSize' = ConstantSectionSize
  BY DEF ConstantSectionSize, HeadAndMetadataSize
<1>2. \A name : Fresh(name)' = Fresh(name)
  BY <1>1 DEF Fresh, SectionSize
<1>3. QED
  BY <1>1, <1>2 DEF Layout, PayloadOffset

\* The stream does not take bytes back.
LEMMA WrittenStays ==
  ASSUME Chunks \subseteq Chunks'
  PROVE  /\ \A part, at : Written(part, at) => Written(part, at)'
         /\ \A k : HasData(k) => HasData(k)'
BY DEF Written, HasData

\* The records, and all that depends on them, while WriteTo runs.
LEMMA RecordsFrozen ==
  ASSUME UNCHANGED <<constsMetaData, constDataOffset, added, tableSizes>>
  PROVE  /\ RecordsMatch => RecordsMatch'
         /\ \A k : StorageEnd(k)' = StorageEnd(k) /\ Storage(k)' = Storage(k)
         /\ Layout' = Layout /\ ConstantSectionSize' = ConstantSectionSize
         /\ PayloadOffset' = PayloadOffset
BY LayoutFrozen DEF RecordsMatch, StorageEnd, Storage

LEMMA InitFile == Init => FileInv
<1> SUFFICES ASSUME Init PROVE FileInv
  OBVIOUS
<1>1. RecordsMatch /\ BlocksFull
  BY RecordsMatchInit DEF Init
<1>2. pc = "idle" /\ output.chunks = <<>> /\ result = "none" /\ ~finished /\ Chunks = {}
  BY EmptySeq DEF Init, NewStream, ConstantsInit, Chunks
<1>3. constsMetaData = <<>> /\ constsData = <<>> /\ Len(constsMetaData) = 0
  BY EmptySeq DEF Init, ConstantsInit
<1>4. TablePlaced
  BY <1>2 DEF TablePlaced, Returned
<1>5. StreamPlaced
  BY <1>2 DEF StreamPlaced, Returned, SectionNames, TableNames
<1>6. SectionsPassed
  BY <1>2 DEF SectionsPassed, Returned, Passed
<1>7. ChunksPlaced
  BY <1>2 DEF ChunksPlaced
<1>8. BlocksPlaced
  BY <1>1, <1>2, <1>3 DEF BlocksPlaced, Returned
<1>9. QED
  BY <1>1, <1>4, <1>5, <1>6, <1>7, <1>8 DEF FileInv

\* Before Finish there is no file to keep in order.
LEMMA AddSomeConstantFile ==
  ASSUME WriterInv, FileInv, AddSomeConstant, UNCHANGED writerVars
  PROVE  FileInv'
<1>1. ~finished /\ ~finished'
  BY DEF AddSomeConstant, AddConstant, RejectConstant
<1>2. /\ pc' = "idle" /\ result' = "none" /\ output' = output
      /\ output.chunks = <<>> /\ BlocksFull
  BY <1>1 DEF WriterInv, NothingBeforeFinish, FileInv, BlocksPlaced, writerVars
<1>3. RecordsMatch' /\ BlocksFull'
  BY <1>2, AddSomeConstantRecords DEF WriterInv, FileInv
<1>4. Chunks' = {}
  BY <1>2, EmptySeq DEF Chunks
<1>5. TablePlaced'
  BY <1>1, <1>2 DEF TablePlaced, Returned
<1>6. StreamPlaced'
  BY <1>2 DEF StreamPlaced, Returned, SectionNames, TableNames
<1>7. SectionsPassed'
  BY <1>2 DEF SectionsPassed, Returned, Passed
<1>8. ChunksPlaced'
  BY <1>4 DEF ChunksPlaced
<1>9. BlocksPlaced'
  <2>1. \A k \in 1 .. Len(constsMetaData') : Kept(k)'
    BY <1>3 DEF BlocksFull, Kept
  <2>2. QED
    BY <1>2, <1>3, <2>1 DEF BlocksPlaced, BlocksFull, Returned
<1>10. QED
  BY <1>3, <1>5, <1>6, <1>7, <1>8, <1>9 DEF FileInv

\* Finish gives the tables their sizes, and nothing is written yet.
LEMMA FinishFile ==
  ASSUME WriterInv, FileInv, NEW sizes \in [TableNames -> TableSizes], Finish(sizes)
  PROVE  FileInv'
<1>1. ~finished
  BY DEF Finish
<1>2. /\ pc' = "idle" /\ result' = "none" /\ output' = output
      /\ output.chunks = <<>> /\ BlocksFull
  BY <1>1 DEF Finish, WriterInv, NothingBeforeFinish, FileInv, BlocksPlaced
<1>3. RecordsMatch'
  BY DEF Finish, FileInv, RecordsMatch
<1>4. Chunks' = {}
  BY <1>2, EmptySeq DEF Chunks
<1>5. TablePlaced'
  BY <1>2 DEF Finish, TablePlaced, Returned
<1>6. StreamPlaced'
  BY <1>2 DEF StreamPlaced, Returned, SectionNames, TableNames
<1>7. SectionsPassed'
  BY <1>2 DEF SectionsPassed, Returned, Passed
<1>8. ChunksPlaced'
  BY <1>4 DEF ChunksPlaced
<1>9. BlocksPlaced'
  <2>1. BlocksFull'
    BY <1>2 DEF Finish, BlocksFull, Storage, StorageEnd
  <2>2. \A k \in 1 .. Len(constsMetaData') : Kept(k)'
    BY <2>1 DEF BlocksFull, Kept
  <2>3. QED
    BY <1>2, <2>1, <2>2 DEF BlocksPlaced, BlocksFull, Returned
<1>10. QED
  BY <1>3, <1>5, <1>6, <1>7, <1>8, <1>9 DEF FileInv

\* WriteTo lays the file out anew, on a stream it has put nothing on.
LEMMA WriteToFile ==
  ASSUME WriterInv, FileInv, NEW good \in BOOLEAN, WriteTo(good)
  PROVE  FileInv'
<1>1. /\ UNCHANGED <<constantVars, tableSizes, nextConst>>
      /\ finished /\ output' = NewStream(good)
      /\ \/ pc' = "idle" /\ result' = "false"
         \/ pc' = "header" /\ table' = Layout /\ ConstantSectionSize # {}
  BY DEF WriteTo, Return, Refuses
<1>2. UNCHANGED <<finished, constsMetaData, constsData, constDataOffset, added, tableSizes>>
  BY <1>1 DEF constantVars
<1>3. /\ Layout' = Layout /\ ConstantSectionSize' = ConstantSectionSize
      /\ \A k : Storage(k)' = Storage(k)
  BY <1>2, RecordsFrozen
<1>4. RecordsMatch'
  BY <1>2, RecordsFrozen DEF FileInv
<1>5. output'.chunks = <<>> /\ output'.pos = 0 /\ Chunks' = {}
  BY <1>1, EmptySeq DEF NewStream, Chunks
<1>6. TablePlaced'
  BY <1>1, <1>2, <1>3, <1>5 DEF FileInv, TablePlaced, Returned
<1>7. StreamPlaced'
  BY <1>1, <1>5 DEF StreamPlaced, Returned, SectionNames, TableNames
<1>8. SectionsPassed'
  BY <1>1 DEF SectionsPassed, Returned, Passed
<1>9. ChunksPlaced'
  BY <1>5 DEF ChunksPlaced
<1>10. BlocksPlaced'
  <2>1. /\ constsData' # <<>> =>
             /\ Len(constsData') = Len(constsMetaData')
             /\ \A k \in 1 .. Len(constsMetaData') : constsData'[k] \in {0, Storage(k)'}
    BY <1>2, <1>3 DEF FileInv, BlocksPlaced
  <2>2. intact' => \A k \in 1 .. Len(constsMetaData') : Kept(k)'
    <3>1. SUFFICES ASSUME intact', NEW k \in 1 .. Len(constsMetaData) PROVE Kept(k)'
      BY <1>2
    <3>2. Len(constsData) = Len(constsMetaData) /\ constsData[k] # 0
      BY <3>1 DEF WriteTo
    <3>3. constsData # <<>>
      BY <3>2, EmptySeq
    <3>4. QED
      BY <1>2, <1>3, <3>1, <3>2, <3>3 DEF FileInv, BlocksPlaced, Kept
  <2>3. finished'
    BY <1>1, <1>2
  <2>4. QED
    BY <1>1, <2>1, <2>2, <2>3 DEF BlocksPlaced, Returned
<1>11. QED
  BY <1>4, <1>6, <1>7, <1>8, <1>9, <1>10 DEF FileInv

\* A section that was written is where the table says, and the next one
\* belongs where the stream then is.
LEMMA WriteSectionFile ==
  ASSUME WriterInv, FileInv, NEW name \in {"header"} \cup TableNames, WriteSection(name)
  PROVE  FileInv'
<1> DEFINE section == table[name]
           run == Run(name, 0, output.pos, section.size)
<1>1. PICK written \in Put(output, name, 0, section.size) :
        \E padded \in Put(written, "padding", 0, section.padding) :
          output' = padded /\ Checked(padded, After[name])
  BY DEF WriteSection
<1>2. /\ output' \in Put(written, "padding", 0, section.padding)
      /\ Checked(output', After[name])
  BY <1>1
<1>3. section \in SectionIndexType /\ section.size \in Nat /\ section.padding \in Nat
  <2>1. section \in SectionIndexType
    BY DEF WriterInv, ControlTypeOK, SectionTable, SectionNames, TableNames
  <2>2. QED
    BY <2>1, WordAssumption DEF SectionIndexType, U64
<1>4. output \in StreamType /\ written \in StreamType
  BY <1>1, <1>3, PutLemma DEF WriterInv, ControlTypeOK
<1>5. /\ UNCHANGED <<constantVars, tableSizes, table, nextConst, calls, intact>>
      /\ pc = name
      /\ \/ output'.good /\ pc' = After[name] /\ result' = result
         \/ ~output'.good /\ pc' = "idle" /\ result' = "false"
  BY <1>2 DEF WriteSection, Checked, Return
<1>6. UNCHANGED <<finished, constsMetaData, constsData, constDataOffset, added, tableSizes>>
  BY <1>5 DEF constantVars
<1>7. /\ finished /\ ConstantSectionSize # {} /\ table = Layout
      /\ ConstantsTypeOK /\ tableSizes \in [TableNames -> TableSizes]
  BY <1>5 DEF FileInv, TablePlaced, WriterInv, ConstantsInv, TableNames
<1>8. /\ Layout' = Layout /\ ConstantSectionSize' = ConstantSectionSize
      /\ PayloadOffset' = PayloadOffset /\ \A k : Storage(k)' = Storage(k)
  BY <1>6, RecordsFrozen
<1>9. /\ table["header"].offset = 0
      /\ table[After[name]].offset = section.offset + section.size + section.padding
  BY <1>7, LayoutArithmetic
<1>10. output.pos = section.offset
  <2>1. CASE name = "header"
    BY <2>1, <1>5, <1>9 DEF FileInv, StreamPlaced
  <2>2. CASE name \in TableNames
    BY <2>2, <1>5 DEF FileInv, StreamPlaced, SectionNames
  <2>3. QED
    BY <2>1, <2>2
<1> HIDE DEF section
<1>11. /\ Chunks \subseteq Chunks'
       /\ \A chunk \in Chunks' : chunk \in Chunks \/ chunk.part = "padding" \/ chunk = run
       /\ output'.good => run \in Chunks' /\ output'.pos = output.pos + section.size + section.padding
  <2> DEFINE runs == {run, Run("padding", 0, written.pos, section.padding)}
  <2>1. \/ /\ written.good /\ written.pos = output.pos + section.size
           /\ ChunksOf(written) = ChunksOf(output) \cup {run}
        \/ ~written.good /\ ChunksOf(written) = ChunksOf(output)
    BY <1>1, <1>4, PutEffect
  <2>2. \/ /\ written.good /\ output'.good /\ output'.pos = written.pos + section.padding
           /\ ChunksOf(output') = ChunksOf(written) \cup {Run("padding", 0, written.pos, section.padding)}
        \/ ~output'.good /\ ChunksOf(output') = ChunksOf(written)
    BY <1>2, <1>4, PutEffect
  <2> HIDE DEF run
  <2>3. QED
    BY <2>1, <2>2, ChunksAre DEF Run
<1>12. run.part = name /\ run.at = output.pos
  BY DEF Run
<1> HIDE DEF run
<1>13. RecordsMatch'
  BY <1>6, RecordsFrozen DEF FileInv
<1>14. TablePlaced'
  BY <1>5, <1>6, <1>7, <1>8 DEF TablePlaced
<1>15. After[name] \in SectionNames /\ "data" \notin SectionNames /\ "idle" \notin SectionNames
       /\ "header" \notin SectionNames
  BY DEF After, SectionNames, TableNames
<1>16. StreamPlaced'
  <2>1. ASSUME output'.good PROVE output'.pos = table'[After[name]].offset
    BY <2>1, <1>5, <1>9, <1>10, <1>11
  <2>2. QED
    BY <2>1, <1>5, <1>15 DEF StreamPlaced, Returned
<1>17. output'.good => Written(name, section.offset)'
  BY <1>5, <1>10, <1>11, <1>12 DEF Written, section
<1>18. SectionsPassed'
  <2>1. CASE output'.good
    <3>1. \A other \in Passed(name) : Written(other, table[other].offset)'
      BY <1>5, <1>11, WrittenStays DEF FileInv, SectionsPassed
    <3>2. Passed(After[name]) \subseteq Passed(name) \cup {name}
      BY DEF Passed, After, TableNames
    <3>3. pc' = After[name]
      BY <2>1, <1>5
    <3>4. \A other \in Passed(pc') : Written(other, table[other].offset)'
      BY <2>1, <3>1, <3>2, <3>3, <1>17 DEF section
    <3>5. QED
      BY <3>3, <3>4, <1>5, <1>15 DEF SectionsPassed, Returned
  <2>2. CASE ~output'.good
    BY <2>2, <1>5 DEF SectionsPassed, Returned, Passed
  <2>3. QED
    BY <2>1, <2>2
<1>19. ChunksPlaced'
  <2>1. name \in TableNames => Written("header", 0)'
    <3>1. name \in TableNames => "header" \in Passed(name)
      BY DEF Passed, TableNames
    <3>2. QED
      BY <3>1, <1>5, <1>9, <1>11, WrittenStays DEF FileInv, SectionsPassed
  <2>2. ASSUME NEW chunk \in Chunks'
        PROVE  /\ chunk.part \in TableNames =>
                    chunk.at = table[chunk.part].offset /\ Written("header", 0)'
               /\ chunk.part = "data" /\ intact =>
                    /\ chunk.idx \in 1 .. Len(constsMetaData)
                    /\ chunk.at = PayloadStart + constsMetaData[chunk.idx].offset
                    /\ chunk.size = Storage(chunk.idx)
    <3>1. CASE chunk \in Chunks
      BY <3>1, <1>11, WrittenStays DEF FileInv, ChunksPlaced
    <3>2. CASE chunk.part = "padding"
      BY <3>2 DEF TableNames
    <3>3. CASE chunk = run
      BY <3>3, <2>1, <1>10, <1>12 DEF section, TableNames
    <3>4. QED
      BY <3>1, <3>2, <3>3, <1>11
  <2>3. QED
    BY <2>2, <1>5, <1>6, <1>8 DEF ChunksPlaced, PayloadStart
<1>20. BlocksPlaced'
  <2>1. name # "data" /\ name # "idle"
    BY DEF TableNames
  <2>2. intact => \A k \in 1 .. Len(constsMetaData) : Kept(k)'
    BY <2>1, <1>5, <1>6, <1>8 DEF FileInv, BlocksPlaced, Kept
  <2>3. /\ constsData' # <<>> =>
             /\ Len(constsData') = Len(constsMetaData')
             /\ \A k \in 1 .. Len(constsMetaData') : constsData'[k] \in {0, Storage(k)'}
    BY <1>6, <1>8 DEF FileInv, BlocksPlaced
  <2>4. pc' # "data" /\ ~Returned("true")' /\ intact' = intact /\ finished'
    BY <1>5, <1>6, <1>7, <1>15 DEF Returned
  <2>5. QED
    BY <2>2, <2>3, <2>4, <1>6 DEF BlocksPlaced
<1>21. QED
  BY <1>13, <1>14, <1>16, <1>18, <1>19, <1>20 DEF FileInv

\* The head goes where the table says, and the first block right after it.
LEMMA WriteConstantHeadFile ==
  ASSUME WriterInv, FileInv, WriteConstantHead
  PROVE  FileInv'
<1> DEFINE run == Run("head", 0, output.pos, PayloadOffset)
<1>1. /\ pc = "constant" /\ pc' = "data" /\ nextConst' = 1
      /\ UNCHANGED <<constantVars, tableSizes, table, result, calls, intact>>
      /\ output' \in Put(output, "head", 0, PayloadOffset)
  BY DEF WriteConstantHead, PayloadOffset
<1>2. UNCHANGED <<finished, constsMetaData, constsData, constDataOffset, added, tableSizes>>
  BY <1>1 DEF constantVars
<1>3. /\ finished /\ ConstantSectionSize # {} /\ table = Layout /\ ConstantsTypeOK
  BY <1>1 DEF FileInv, TablePlaced, WriterInv, ConstantsInv
<1>4. /\ Layout' = Layout /\ ConstantSectionSize' = ConstantSectionSize
      /\ PayloadOffset' = PayloadOffset /\ \A k : Storage(k)' = Storage(k)
  BY <1>2, RecordsFrozen
<1>5. output.good /\ output.pos = table["constant"].offset
  BY <1>1 DEF FileInv, StreamPlaced, SectionNames
<1>6. \/ /\ output'.good /\ output'.pos = output.pos + PayloadOffset
         /\ Chunks' = Chunks \cup {run}
      \/ ~output'.good /\ Chunks' = Chunks
  BY <1>1, PutEffect, ChunksAre DEF WriterInv, ControlTypeOK
<1>7. run.part = "head" /\ run.at = output.pos
  BY DEF Run
<1> HIDE DEF run
<1>8. Chunks \subseteq Chunks' /\ \A chunk \in Chunks' : chunk \in Chunks \/ chunk.part = "head"
  BY <1>6, <1>7
<1>9. RecordsMatch'
  BY <1>2, RecordsFrozen DEF FileInv
<1>10. TablePlaced'
  BY <1>1, <1>2, <1>3, <1>4 DEF FileInv, TablePlaced
<1>11. StreamPlaced'
  <2>1. NextDataOffset' = 0
    <3>1. Len(constsMetaData) \in Nat /\ (Len(constsMetaData) = 0 => constDataOffset = 0)
      BY <1>3, EmptySeq DEF ConstantsTypeOK, WriterInv, ConstantsInv, PayloadTiled
    <3>2. Len(constsMetaData) # 0 => constsMetaData[1].offset = 0
      BY <3>1 DEF WriterInv, ConstantsInv, PayloadTiled
    <3>3. QED
      BY <3>1, <3>2, <1>1, <1>2 DEF NextDataOffset
  <2>2. PayloadStart' = output.pos + PayloadOffset
    BY <1>1, <1>4, <1>5 DEF PayloadStart
  <2>3. output.pos \in Nat /\ PayloadOffset \in Nat
    BY <1>3, ConstantSectionSizeIs DEF WriterInv, ControlTypeOK, StreamType
  <2>4. output'.good => output'.pos = PayloadStart' + NextDataOffset'
    BY <1>6, <2>1, <2>2, <2>3
  <2>5. QED
    BY <1>1, <2>4 DEF StreamPlaced, Returned, SectionNames, TableNames
<1>12. SectionsPassed'
  <2>1. Passed("constant") = Passed("data") /\ Passed(pc) = Passed("data")
    BY <1>1 DEF Passed
  <2>2. \A name \in Passed("data") : Written(name, table[name].offset)'
    BY <2>1, <1>1, <1>8, WrittenStays DEF FileInv, SectionsPassed
  <2>3. output'.good => Written("head", table["constant"].offset)'
    BY <1>1, <1>5, <1>6, <1>7 DEF Written
  <2>4. QED
    BY <1>1, <2>2, <2>3 DEF SectionsPassed
<1>13. ChunksPlaced'
  <2>1. ASSUME NEW chunk \in Chunks'
        PROVE  /\ chunk.part \in TableNames =>
                    chunk.at = table[chunk.part].offset /\ Written("header", 0)'
               /\ chunk.part = "data" /\ intact =>
                    /\ chunk.idx \in 1 .. Len(constsMetaData)
                    /\ chunk.at = PayloadStart + constsMetaData[chunk.idx].offset
                    /\ chunk.size = Storage(chunk.idx)
    <3>1. CASE chunk \in Chunks
      BY <3>1, <1>8, WrittenStays DEF FileInv, ChunksPlaced
    <3>2. CASE chunk.part = "head"
      BY <3>2 DEF TableNames
    <3>3. QED
      BY <3>1, <3>2, <1>8
  <2>2. QED
    BY <2>1, <1>1, <1>2, <1>4 DEF ChunksPlaced, PayloadStart
<1>14. BlocksPlaced'
  <2>1. intact => \A k \in 1 .. Len(constsMetaData) : Kept(k)'
    BY <1>1, <1>2, <1>4 DEF FileInv, BlocksPlaced, Kept
  <2>2. /\ constsData' # <<>> =>
             /\ Len(constsData') = Len(constsMetaData')
             /\ \A k \in 1 .. Len(constsMetaData') : constsData'[k] \in {0, Storage(k)'}
    BY <1>2, <1>4 DEF FileInv, BlocksPlaced
  <2>3. \A k \in 1 .. Len(constsMetaData) : ~(k < nextConst')
    BY <1>1
  <2>4. pc' = "data" /\ ~Returned("true")' /\ intact' = intact /\ finished'
    BY <1>1, <1>2, <1>3 DEF Returned
  <2>5. QED
    BY <2>1, <2>2, <2>3, <2>4, <1>2 DEF BlocksPlaced
<1>15. QED
  BY <1>9, <1>10, <1>11, <1>12, <1>13, <1>14 DEF FileInv

\* A block that the stream takes is at its record's offset, and where it ends
\* the next one belongs.
LEMMA WriteConstantFile ==
  ASSUME WriterInv, FileInv, WriteConstant
  PROVE  FileInv'
<1> DEFINE n == Len(constsMetaData)
           block == constsData[nextConst]
           run == Run("data", nextConst, output.pos, block)
<1>1. /\ pc = "data" /\ nextConst <= Len(constsData) /\ nextConst' = nextConst + 1
      /\ output' \in Put(output, "data", nextConst, block)
      /\ constsData' = [constsData EXCEPT ![nextConst] = 0]
      /\ UNCHANGED <<finished, constsMetaData, constDataOffset, added, tableSizes>>
      /\ UNCHANGED <<table, calls, intact>>
      /\ \/ output'.good /\ pc' = "data" /\ result' = result
         \/ ~output'.good /\ pc' = "idle" /\ result' = "false"
  BY DEF WriteConstant, Released, Checked, Return
<1>2. /\ finished /\ ConstantSectionSize # {} /\ table = Layout /\ ConstantsTypeOK
      /\ constsData \in Seq(U64) /\ n \in Nat /\ nextConst \in 1 .. Len(constsData)
  BY <1>1 DEF FileInv, TablePlaced, WriterInv, ConstantsInv, ConstantsTypeOK, ControlTypeOK, LoopInv
<1>3. /\ Layout' = Layout /\ ConstantSectionSize' = ConstantSectionSize
      /\ PayloadOffset' = PayloadOffset
      /\ \A k : Storage(k)' = Storage(k) /\ StorageEnd(k)' = StorageEnd(k)
  BY <1>1, RecordsFrozen
<1>4. /\ Len(constsData) = n /\ nextConst \in 1 .. n
      /\ \A k \in 1 .. n : constsData[k] \in {0, Storage(k)}
  BY <1>2, EmptySeq DEF FileInv, BlocksPlaced
<1>5. /\ Len(constsData') = n
      /\ constsData'[nextConst] = 0
      /\ \A k \in 1 .. n : k # nextConst => constsData'[k] = constsData[k]
  BY <1>1, <1>2, <1>4
<1>6. \/ /\ output.good /\ output'.good /\ output'.pos = output.pos + block
         /\ Chunks' = Chunks \cup {run}
      \/ ~output'.good /\ Chunks' = Chunks
  BY <1>1, PutEffect, ChunksAre DEF WriterInv, ControlTypeOK
<1>7. run.part = "data" /\ run.idx = nextConst /\ run.at = output.pos /\ run.size = block
  BY DEF Run
<1> HIDE DEF run
<1>8. Chunks \subseteq Chunks' /\ \A chunk \in Chunks' : chunk \in Chunks \/ chunk = run
  BY <1>6
<1>9. intact => block = Storage(nextConst)
  BY <1>1, <1>4 DEF FileInv, BlocksPlaced, Kept
<1> HIDE DEF block
<1>10. intact /\ output.good => output.pos = PayloadStart + constsMetaData[nextConst].offset
  <2>1. ~(nextConst > n)
    BY <1>2, <1>4
  <2>2. QED
    BY <2>1, <1>1 DEF FileInv, StreamPlaced, NextDataOffset
<1>11. PayloadStart' = PayloadStart
  BY <1>1, <1>3 DEF PayloadStart
<1>12. RecordsMatch'
  BY <1>1, RecordsFrozen DEF FileInv
<1>13. TablePlaced'
  BY <1>1, <1>2, <1>3 DEF FileInv, TablePlaced
<1>14. StreamPlaced'
  <2>1. ASSUME output'.good, intact
        PROVE  output'.pos = PayloadStart' + NextDataOffset'
    <3>1. constsMetaData[nextConst] \in ConstantMetaData
      BY <1>2, <1>4 DEF ConstantsTypeOK
    <3>2. constsMetaData[nextConst].offset \in Nat
      BY <3>1, WordAssumption DEF ConstantMetaData, U64
    <3>3. NextDataOffset' = StorageEnd(nextConst)
      <4>1. CASE nextConst = n
        BY <4>1, <1>1, <1>2 DEF NextDataOffset, StorageEnd
      <4>2. CASE nextConst # n
        <5>1. ~(nextConst + 1 > n)
          BY <4>2, <1>2, <1>4
        <5>2. QED
          BY <4>2, <5>1, <1>1 DEF NextDataOffset, StorageEnd
      <4>3. QED
        BY <4>1, <4>2
    <3>4. StorageEnd(nextConst) \in Nat
      <4>1. CASE nextConst = n
        BY <4>1, <1>2, WordAssumption DEF StorageEnd, ConstantsTypeOK, U64
      <4>2. CASE nextConst # n
        <5>1. nextConst + 1 \in 1 .. n
          BY <4>2, <1>2, <1>4
        <5>2. constsMetaData[nextConst + 1] \in ConstantMetaData
          BY <5>1, <1>2 DEF ConstantsTypeOK
        <5>3. QED
          BY <4>2, <5>2, WordAssumption DEF StorageEnd, ConstantMetaData, U64
      <4>3. QED
        BY <4>1, <4>2
    <3>5. PayloadStart \in Nat
      <4>1. table["constant"].offset \in Nat
        BY WordAssumption DEF WriterInv, ControlTypeOK, SectionTable, SectionNames, SectionIndexType, U64
      <4>2. PayloadOffset \in Nat
        BY <1>2, ConstantSectionSizeIs
      <4>3. QED
        BY <4>1, <4>2 DEF PayloadStart
    <3>6. /\ output'.pos = output.pos + block
          /\ block = StorageEnd(nextConst) - constsMetaData[nextConst].offset
          /\ output.pos = PayloadStart + constsMetaData[nextConst].offset
      BY <2>1, <1>6, <1>9, <1>10 DEF Storage
    <3>7. QED
      BY <3>2, <3>3, <3>4, <3>5, <3>6, <1>11
  <2>2. QED
    BY <2>1, <1>1 DEF StreamPlaced, Returned, SectionNames, TableNames
<1>15. SectionsPassed'
  <2>1. \A name \in Passed("data") : Written(name, table[name].offset)'
    BY <1>1, <1>8, WrittenStays DEF FileInv, SectionsPassed
  <2>2. output'.good => Written("head", table["constant"].offset)'
    BY <1>1, <1>6, <1>8, WrittenStays DEF FileInv, SectionsPassed
  <2>3. Passed("idle") = {}
    BY DEF Passed
  <2>4. QED
    BY <1>1, <2>1, <2>2, <2>3 DEF SectionsPassed, Returned
<1>16. ChunksPlaced'
  <2>1. ASSUME NEW chunk \in Chunks'
        PROVE  /\ chunk.part \in TableNames =>
                    chunk.at = table[chunk.part].offset /\ Written("header", 0)'
               /\ chunk.part = "data" /\ intact =>
                    /\ chunk.idx \in 1 .. n
                    /\ chunk.at = PayloadStart + constsMetaData[chunk.idx].offset
                    /\ chunk.size = Storage(chunk.idx)
    <3>1. CASE chunk \in Chunks
      BY <3>1, <1>8, WrittenStays DEF FileInv, ChunksPlaced
    <3>2. CASE chunk \notin Chunks
      <4>1. chunk = run /\ output.good
        BY <3>2, <1>6, <1>8
      <4>2. QED
        BY <4>1, <1>4, <1>7, <1>9, <1>10 DEF TableNames
    <3>3. QED
      BY <3>1, <3>2
  <2>2. QED
    BY <2>1, <1>1, <1>3, <1>11 DEF ChunksPlaced
<1>17. BlocksPlaced'
  <2>1. \A k \in 1 .. n : constsData'[k] \in {0, Storage(k)}
    BY <1>4, <1>5
  <2>2. Written("resource", table["resource"].offset)'
    <3>1. "resource" \in Passed(pc)
      BY <1>1 DEF Passed, TableNames
    <3>2. QED
      BY <3>1, <1>1, <1>8, WrittenStays DEF FileInv, SectionsPassed
  <2>3. output'.good => \A k : k = nextConst => HasData(k)'
    BY <1>6, <1>7 DEF HasData
  <2>4. ASSUME intact, NEW k \in 1 .. n
        PROVE  IF k < nextConst + 1 THEN output'.good => HasData(k)' ELSE Kept(k)'
    <3>1. CASE k = nextConst
      BY <3>1, <2>3, <1>4
    <3>2. CASE k < nextConst
      <4>1. output.good => HasData(k)
        BY <2>4, <3>2, <1>1 DEF FileInv, BlocksPlaced
      <4>2. QED
        BY <4>1, <3>2, <1>4, <1>6, <1>8, WrittenStays
    <3>3. CASE k > nextConst
      <4>1. Kept(k) /\ ~(k < nextConst)
        BY <2>4, <3>3, <1>1, <1>4 DEF FileInv, BlocksPlaced
      <4>2. Kept(k)'
        BY <4>1, <3>3, <1>3, <1>4, <1>5 DEF Kept
      <4>3. QED
        BY <4>2, <3>3, <1>4
    <3>4. QED
      BY <3>1, <3>2, <3>3, <1>4
  <2>5. intact => \A k \in 1 .. n : Kept(k)' \/ (output'.good => HasData(k)')
    BY <2>4
  <2>6. QED
    BY <2>1, <2>2, <2>4, <2>5, <1>1, <1>2, <1>3, <1>5 DEF BlocksPlaced, Returned
<1>18. QED
  BY <1>12, <1>13, <1>14, <1>15, <1>16, <1>17 DEF FileInv

\* The loop is over: the stream has every block, or failed on the head.
LEMMA EndWriteToFile ==
  ASSUME WriterInv, FileInv, EndWriteTo
  PROVE  FileInv'
<1> DEFINE n == Len(constsMetaData)
<1>1. /\ pc = "data" /\ nextConst > Len(constsData) /\ constsData' = <<>>
      /\ pc' = "idle" /\ result' = "true"
      /\ UNCHANGED <<finished, constsMetaData, constDataOffset, added, tableSizes>>
      /\ UNCHANGED <<table, nextConst, output, calls, intact>>
  BY DEF EndWriteTo, Return
<1>2. /\ finished /\ ConstantSectionSize # {} /\ table = Layout /\ n \in Nat
      /\ tableSizes \in [TableNames -> TableSizes]
  BY <1>1 DEF FileInv, TablePlaced, WriterInv, ConstantsInv, ConstantsTypeOK
<1>3. /\ Layout' = Layout /\ ConstantSectionSize' = ConstantSectionSize
      /\ PayloadOffset' = PayloadOffset /\ \A k : Storage(k)' = Storage(k)
  BY <1>1, RecordsFrozen
<1>4. Chunks' = Chunks /\ PayloadStart' = PayloadStart
  BY <1>1, <1>3 DEF Chunks, PayloadStart
<1>5. intact => nextConst > n
  BY <1>1 DEF WriterInv, LoopInv
<1>6. RecordsMatch'
  BY <1>1, RecordsFrozen DEF FileInv
<1>7. TablePlaced'
  BY <1>1, <1>2, <1>3 DEF TablePlaced
<1>8. StreamPlaced'
  <2>1. intact => NextDataOffset = constDataOffset
    BY <1>5 DEF NextDataOffset
  <2>2. intact /\ output.good => output.pos = PayloadStart + constDataOffset
    BY <2>1, <1>1 DEF FileInv, StreamPlaced
  <2>3. QED
    BY <2>2, <1>1, <1>4 DEF StreamPlaced, Returned, SectionNames, TableNames
<1>9. SectionsPassed'
  <2>1. /\ \A name \in Passed("data") : Written(name, table[name].offset)'
        /\ output.good => Written("head", table["constant"].offset)'
    BY <1>1, <1>4 DEF FileInv, SectionsPassed, Written
  <2>2. Passed("idle") = {}
    BY DEF Passed
  <2>3. QED
    BY <2>1, <2>2, <1>1 DEF SectionsPassed
<1>10. ChunksPlaced'
  <2>1. Written("header", 0)' <=> Written("header", 0)
    BY <1>4 DEF Written
  <2>2. QED
    BY <2>1, <1>1, <1>3, <1>4 DEF FileInv, ChunksPlaced
<1>11. BlocksPlaced'
  <2>1. intact => \A k \in 1 .. n : output'.good => HasData(k)'
    <3>1. SUFFICES ASSUME intact, NEW k \in 1 .. n, output.good PROVE HasData(k)
      BY <1>1, <1>4 DEF HasData
    <3>2. k < nextConst
      BY <1>2, <1>5, <3>1 DEF WriterInv, ControlTypeOK
    <3>3. QED
      BY <3>1, <3>2, <1>1 DEF FileInv, BlocksPlaced
  <2>2. Written("resource", table["resource"].offset)'
    <3>1. "resource" \in Passed(pc)
      BY <1>1 DEF Passed, TableNames
    <3>2. QED
      BY <3>1, <1>1, <1>4 DEF FileInv, SectionsPassed, Written
  <2>3. QED
    BY <2>1, <2>2, <1>1, <1>2 DEF BlocksPlaced
<1>12. QED
  BY <1>6, <1>7, <1>8, <1>9, <1>10, <1>11 DEF FileInv

LEMMA StutterFile ==
  ASSUME FileInv, UNCHANGED vars
  PROVE  FileInv'
<1>1. /\ UNCHANGED <<finished, constsMetaData, constsData, constDataOffset, added, tableSizes>>
      /\ UNCHANGED <<pc, table, nextConst, output, result, intact>>
  BY DEF vars, constantVars, writerVars
<1>2. /\ Layout' = Layout /\ ConstantSectionSize' = ConstantSectionSize
      /\ PayloadOffset' = PayloadOffset
      /\ \A k : Storage(k)' = Storage(k) /\ StorageEnd(k)' = StorageEnd(k)
  BY <1>1, RecordsFrozen
<1>3. Chunks' = Chunks /\ PayloadStart' = PayloadStart /\ NextDataOffset' = NextDataOffset
  BY <1>1, <1>2 DEF Chunks, PayloadStart, NextDataOffset
<1>4. /\ \A part, at : Written(part, at)' <=> Written(part, at)
      /\ \A k : (HasData(k)' <=> HasData(k)) /\ (Kept(k)' <=> Kept(k))
  BY <1>1, <1>2, <1>3 DEF Written, HasData, Kept
<1>5. RecordsMatch' /\ TablePlaced' /\ StreamPlaced'
  BY <1>1, <1>2, <1>3, RecordsFrozen DEF FileInv, TablePlaced, StreamPlaced, Returned
<1>6. SectionsPassed' /\ ChunksPlaced'
  BY <1>1, <1>2, <1>3, <1>4 DEF FileInv, SectionsPassed, ChunksPlaced, Returned
<1>7. BlocksPlaced'
  BY <1>1, <1>2, <1>4 DEF FileInv, BlocksPlaced, BlocksFull, Returned
<1>8. QED
  BY <1>5, <1>6, <1>7 DEF FileInv

\* With WriterInv, FileInv is inductive.
LEMMA NextFile == WriterInv /\ FileInv /\ [Next]_vars => FileInv'
BY AddSomeConstantFile, FinishFile, WriteToFile, WriteSectionFile, WriteConstantHeadFile,
   WriteConstantFile, EndWriteToFile, StutterFile DEF Next, WriteStep

THEOREM FileInvariance == Spec => [](WriterInv /\ FileInv)
<1>1. WriterInv /\ FileInv /\ [Next]_vars => (WriterInv /\ FileInv)'
  BY NextInv, NextFile
<1>2. Init => WriterInv /\ FileInv
  BY InitInv, InitFile
<1>3. QED
  BY <1>1, <1>2, PTL DEF Spec

--------------------------------------------------------------------------------
\* What was written is where the header says, and a file WriteTo returned
\* true for ends where its constant section does.
THEOREM FileIsLaidOut == Spec => []FileLaidOut
<1>1. ASSUME WriterInv, FileInv
      PROVE  ChunksInPlace
  <2>1. SUFFICES ASSUME NEW chunk \in Chunks
                 PROVE  /\ chunk.part \in TableNames =>
                             /\ chunk.at = WrittenHeader.sections[chunk.part].offset
                             /\ chunk.at % VGF_SECTION_ALIGNMENT_VALUE = 0
                             /\ Written("header", 0)
                        /\ chunk.part = "data" /\ intact =>
                             chunk.at = WrittenHeader.sections["constant"].offset
                                          + CONSTANT_SECTION_METADATA_OFFSET
                                          + Len(constsMetaData) * ConstantMetaDataSize
                                          + constsMetaData[chunk.idx].offset
    BY DEF ChunksInPlace
  <2>2. \A name \in SectionNames : WrittenHeader.sections[name].offset = table[name].offset
    BY DEF WrittenHeader, Header
  <2>3. output.chunks # <<>>
    BY DEF Chunks
  <2>4. table = Layout /\ ConstantSectionSize # {} /\ tableSizes \in [TableNames -> TableSizes]
    BY <1>1, <2>3 DEF FileInv, TablePlaced
  <2>5. ASSUME chunk.part \in TableNames
        PROVE  /\ chunk.at = WrittenHeader.sections[chunk.part].offset
               /\ chunk.at % VGF_SECTION_ALIGNMENT_VALUE = 0
               /\ Written("header", 0)
    <3>1. \A name \in {"header"} \cup TableNames : table[After[name]].offset % 8 = 0
      BY <1>1, <2>4, LayoutArithmetic DEF WriterInv, ConstantsInv
    <3>2. \E name \in {"header"} \cup TableNames : After[name] = chunk.part
      BY <2>5 DEF TableNames, After
    <3>3. table[chunk.part].offset % 8 = 0
      BY <3>1, <3>2
    <3>4. chunk.at = table[chunk.part].offset /\ Written("header", 0)
      BY <1>1, <2>5 DEF FileInv, ChunksPlaced
    <3>5. QED
      BY <2>2, <2>5, <3>3, <3>4 DEF SectionNames, VGF_SECTION_ALIGNMENT_VALUE
  <2>6. ASSUME chunk.part = "data", intact
        PROVE  chunk.at = WrittenHeader.sections["constant"].offset
                            + CONSTANT_SECTION_METADATA_OFFSET
                            + Len(constsMetaData) * ConstantMetaDataSize
                            + constsMetaData[chunk.idx].offset
    <3>1. /\ chunk.idx \in 1 .. Len(constsMetaData)
          /\ chunk.at = PayloadStart + constsMetaData[chunk.idx].offset
      BY <1>1, <2>6 DEF FileInv, ChunksPlaced
    <3>2. WrittenHeader.sections["constant"].offset = table["constant"].offset
      BY <2>2 DEF SectionNames
    <3>3. table["constant"].offset \in Nat /\ Len(constsMetaData) \in Nat
      BY <1>1, WordAssumption DEF WriterInv, ControlTypeOK, SectionTable, SectionNames,
         SectionIndexType, U64, ConstantsInv, ConstantsTypeOK
    <3>4. PayloadStart = table["constant"].offset + CONSTANT_SECTION_METADATA_OFFSET
                           + Len(constsMetaData) * ConstantMetaDataSize
      BY <3>3 DEF PayloadStart, PayloadOffset, CONSTANT_SECTION_METADATA_OFFSET, ConstantMetaDataSize
    <3>5. QED
      BY <3>1, <3>2, <3>4
  <2>7. QED
    BY <2>5, <2>6
<1>2. ASSUME WriterInv, FileInv
      PROVE  FileEndsWithConstants
  <2>1. SUFFICES ASSUME Returned("true"), output.good, intact
                 PROVE  output.pos = table["constant"].offset + table["constant"].size
    BY DEF FileEndsWithConstants, WrittenHeader, Header, SectionNames
  <2>2. /\ table["constant"].size = PayloadOffset + constDataOffset
        /\ PayloadOffset \in Nat
    <3>1. PICK size \in ConstantSectionSize : TRUE
      BY <1>2, <2>1 DEF FileInv, TablePlaced
    <3>2. QED
      BY <1>2, <2>1, <3>1, LayoutArithmetic, ConstantSectionSizeIs
      DEF FileInv, TablePlaced, WriterInv, ConstantsInv
  <2>3. output.pos = table["constant"].offset + PayloadOffset + constDataOffset
    BY <1>2, <2>1 DEF FileInv, StreamPlaced, PayloadStart
  <2>4. table["constant"].offset \in Nat /\ constDataOffset \in Nat
    BY <1>2, WordAssumption DEF WriterInv, ControlTypeOK, SectionTable, SectionNames,
       SectionIndexType, U64, ConstantsInv, ConstantsTypeOK
  <2>5. QED
    BY <2>2, <2>3, <2>4
<1>3. WriterInv /\ FileInv => FileLaidOut
  BY <1>1, <1>2 DEF FileLaidOut
<1>4. QED
  BY <1>3, FileInvariance, PTL

\* The data of a constant fits its storage.
LEMMA StorageHolds ==
  ASSUME ConstantsInv, NEW k \in 1 .. Len(constsMetaData)
  PROVE  constsMetaData[k].size <= Storage(k)
<1>1. constsMetaData[k] \in ConstantMetaData
  BY DEF ConstantsInv, ConstantsTypeOK
<1>2. constsMetaData[k].offset \in Nat /\ constsMetaData[k].size \in Nat
  BY <1>1, WordAssumption DEF ConstantMetaData, U64
<1>3. StorageEnd(k) \in constsMetaData[k].offset + constsMetaData[k].size ..
                        constsMetaData[k].offset + constsMetaData[k].size + 8 - 1
  BY DEF ConstantsInv, PayloadTiled, PayloadAlignment
<1>4. QED
  BY <1>2, <1>3 DEF Storage

\* A call that fails on the tables leaves every block for the next one.
THEOREM BlocksAreLostOnlyToStream == Spec => []BlocksLostOnlyToStream
<1>1. ASSUME WriterInv, FileInv
      PROVE  BlocksLostOnlyToStream
  <2>1. SUFFICES ASSUME intact, NEW k \in 1 .. Len(constsMetaData)
                 PROVE  \/ k \in DOMAIN constsData /\ constsData[k] >= constsMetaData[k].size
                        \/ /\ \E chunk \in Chunks : chunk.part = "resource"
                           /\ ~output.good \/ \E chunk \in Chunks :
                                chunk.part = "data" /\ chunk.idx = k /\ chunk.size >= constsMetaData[k].size
    BY DEF BlocksLostOnlyToStream
  <2>2. constsMetaData[k].size <= Storage(k)
    BY <1>1, StorageHolds DEF WriterInv
  <2>3. /\ constsMetaData[k].size \in Nat /\ constsData \in Seq(U64)
        /\ \A j \in 1 .. Len(constsData) : constsData[j] \in Nat
    <3>1. constsMetaData[k] \in ConstantMetaData
      BY <1>1 DEF WriterInv, ConstantsInv, ConstantsTypeOK
    <3>2. constsMetaData[k].size \in Nat
      BY <3>1, WordAssumption DEF ConstantMetaData, U64
    <3>3. constsData \in Seq(U64)
      BY <1>1 DEF WriterInv, ConstantsInv, ConstantsTypeOK
    <3>4. ASSUME NEW j \in 1 .. Len(constsData) PROVE constsData[j] \in Nat
      <4>1. constsData[j] \in U64
        BY <3>3
      <4>2. QED
        BY <4>1, WordAssumption DEF U64
    <3>5. QED
      BY <3>2, <3>3, <3>4
  <2>4. CASE Kept(k)
    <3>1. k \in 1 .. Len(constsData) /\ constsData[k] = Storage(k)
      BY <2>4 DEF Kept
    <3>2. k \in DOMAIN constsData /\ constsData[k] \in Nat
      BY <2>3, <3>1
    <3>3. QED
      BY <2>2, <2>3, <3>1, <3>2
  <2>5. CASE Written("resource", table["resource"].offset) /\ (output.good => HasData(k))
    <3>1. \E chunk \in Chunks : chunk.part = "resource"
      BY <2>5 DEF Written
    <3>2. ASSUME output.good
          PROVE  \E chunk \in Chunks :
                   chunk.part = "data" /\ chunk.idx = k /\ chunk.size >= constsMetaData[k].size
      <4>1. PICK chunk \in Chunks : chunk.part = "data" /\ chunk.idx = k
        BY <2>5, <3>2 DEF HasData
      <4>2. chunk.size = Storage(k)
        BY <1>1, <2>1, <4>1 DEF FileInv, ChunksPlaced
      <4>3. chunk \in Chunk
        BY <1>1 DEF Chunks, WriterInv, ControlTypeOK, StreamType
      <4>4. chunk.size \in Nat
        BY <4>3 DEF Chunk
      <4>5. QED
        BY <2>2, <2>3, <4>1, <4>2, <4>4
    <3>3. QED
      BY <3>1, <3>2
  <2>6. QED
    BY <1>1, <2>1, <2>4, <2>5 DEF FileInv, BlocksPlaced
<1>2. WriterInv /\ FileInv => BlocksLostOnlyToStream
  BY <1>1
<1>3. QED
  BY <1>2, FileInvariance, PTL

--------------------------------------------------------------------------------
(***************************************************************************)
(* The refinement of ConstantStore.                                        *)
(***************************************************************************)

\* std::clamp returns the nearest value the file can hold.
LEMMA NearestLemma ==
  ASSUME NEW n \in Int
  PROVE  Store!StoredSparsity(n) = SparsityDim32(n)
<1> DEFINE Nearest(m) == \A other \in Int32Min .. Int32Max :
                           Store!Distance(m, n) <= Store!Distance(other, n)
           clamped == SparsityDim32(n)
<1>1. clamped \in Int32Min .. Int32Max
  BY ClampLemma
<1>2. Nearest(clamped)
  BY ConstantAssumption DEF SparsityDim32, Store!Distance
<1>3. ASSUME NEW m \in Int32Min .. Int32Max, Nearest(m)
      PROVE  m = clamped
  <2>1. Store!Distance(m, n) <= Store!Distance(clamped, n)
    BY <1>1, <1>3
  <2>2. QED
    BY <2>1, ConstantAssumption DEF SparsityDim32, Store!Distance
<1> HIDE DEF Nearest, clamped
<1>4. (CHOOSE m \in Int32Min .. Int32Max : Nearest(m)) = clamped
  BY <1>1, <1>2, <1>3
<1>5. QED
  BY <1>4 DEF Store!StoredSparsity, Nearest, clamped

\* The state in which WriteTo has returned true for a complete file.
Complete == Returned("true") /\ output.good /\ intact

\* The section the decoder is given in a complete file.
LEMMA CompleteSection ==
  ASSUME WriterInv, FileInv, Complete
  PROVE  /\ ConstantSection.size = PayloadOffset + constDataOffset
         /\ ConstantSection.count = Len(constsMetaData)
         /\ ConstantSection.metadata = constsMetaData
         /\ WrittenHeader.sections["constant"].offset = table["constant"].offset
         /\ PayloadOffset = 16 + Len(constsMetaData) * 24
         /\ PayloadOffset + constDataOffset \in U64
         /\ Len(constsMetaData) \in U64 /\ PayloadOffset \in Nat /\ constDataOffset \in Nat
<1>1. /\ finished /\ ConstantSectionSize # {} /\ table = Layout /\ ConstantsTypeOK
      /\ tableSizes \in [TableNames -> TableSizes]
  BY DEF Complete, FileInv, TablePlaced, WriterInv, ConstantsInv
<1>2. table["constant"].size = PayloadOffset + constDataOffset
  BY <1>1, LayoutArithmetic
<1>3. PICK size \in ConstantSectionSize : TRUE
  BY <1>1
<1>4. PayloadOffset + constDataOffset \in U64 /\ PayloadOffset \in Nat /\ PayloadOffset <= U64Max
  BY <1>1, <1>3, ConstantSectionSizeIs, ConstantSectionSizeLemma
<1>5. Len(constsMetaData) \in Nat /\ constDataOffset \in Nat /\ U64Max \in Nat
  BY <1>1, WordAssumption DEF ConstantsTypeOK, U64
<1>6. PayloadOffset = 16 + Len(constsMetaData) * 24
  BY DEF PayloadOffset, CONSTANT_SECTION_METADATA_OFFSET, ConstantMetaDataSize
<1>7. Len(constsMetaData) \in U64
  BY <1>4, <1>5, <1>6 DEF U64
<1>8. QED
  BY <1>2, <1>4, <1>5, <1>6, <1>7 DEF ConstantSection, WrittenHeader, Header, SectionNames

\* The decoder finds constant k's own block, and only that one, at the place
\* it hands out for it.
LEMMA OwnBlockFound ==
  ASSUME WriterInv, FileInv, Complete,
         NEW layout \in VerifiedLayout(ConstantSection), NEW k \in 1 .. Len(constsMetaData)
  PROVE  BlocksFound(layout, k) = {k}
<1> DEFINE n == Len(constsMetaData)
           place == [offset |-> PayloadOffset + constsMetaData[k].offset,
                     size |-> constsMetaData[k].size]
           start == WrittenHeader.sections["constant"].offset
<1>1. /\ ConstantSection.size = PayloadOffset + constDataOffset
      /\ ConstantSection.count = n
      /\ ConstantSection.metadata = constsMetaData
      /\ start = table["constant"].offset
      /\ PayloadOffset = 16 + n * 24
      /\ PayloadOffset + constDataOffset \in U64
      /\ n \in U64 /\ PayloadOffset \in Nat
  BY CompleteSection
<1>2. /\ layout \in splitFixedRecordTable(ConstantSection.size, 16, 24, n)
      /\ \A j \in 1 .. n : EntryValid(constsMetaData[j], layout.payload.size)
  BY <1>1 DEF VerifiedLayout, CONSTANT_SECTION_METADATA_OFFSET, ConstantMetaDataSize
<1>3. layout.payload.offset = PayloadOffset
  <2>1. 16 \in U64 /\ 24 \in Nat
    BY WordAssumption, WriterAssumption DEF HEADER_HEADER_SIZE_VALUE, U64
  <2>2. layout.payload.offset = 16 + n * 24
    BY <2>1, <1>1, <1>2, SplitLemma
  <2>3. QED
    BY <2>2, <1>1
<1>4. n \in Nat /\ k \in Nat /\ ~(k - 1 >= n) /\ (k - 1) + 1 = k
  BY DEF WriterInv, ConstantsInv, ConstantsTypeOK
<1>5. GetConstant(ConstantSection, layout, k - 1) = {place}
  <2>1. ConstantDataWithinBounds(constsMetaData[k], layout.payload.size)
    BY <1>2 DEF EntryValid
  <2>2. QED
    BY <2>1, <1>1, <1>3, <1>4 DEF GetConstant
<1>6. /\ constsMetaData[k].offset \in Nat /\ constsMetaData[k].size \in Nat
      /\ \A j \in 1 .. n : constsMetaData[j].offset \in Nat
  <2>1. \A j \in 1 .. n : constsMetaData[j] \in ConstantMetaData
    BY DEF WriterInv, ConstantsInv, ConstantsTypeOK
  <2>2. QED
    BY <2>1, WordAssumption DEF ConstantMetaData, U64
<1>7. start \in Nat
  BY <1>1, WordAssumption DEF WriterInv, ControlTypeOK, SectionTable, SectionNames, SectionIndexType, U64
<1>8. ASSUME NEW chunk \in Chunks, chunk.part = "data"
      PROVE  /\ chunk.idx \in 1 .. n
             /\ chunk.at = start + PayloadOffset + constsMetaData[chunk.idx].offset
             /\ chunk.size = Storage(chunk.idx)
  BY <1>1, <1>8 DEF Complete, FileInv, ChunksPlaced, PayloadStart
<1> DEFINE Found(chunk) == /\ chunk.part = "data"
                           /\ \E view \in GetConstant(ConstantSection, layout, k - 1) :
                                /\ chunk.at = start + view.offset
                                /\ chunk.size >= view.size
<1>9. ASSUME NEW chunk \in Chunks, Found(chunk)
      PROVE  chunk.idx = k
  <2>1. chunk.at = start + (PayloadOffset + constsMetaData[k].offset)
    BY <1>5, <1>9
  <2>2. /\ chunk.idx \in 1 .. n
        /\ chunk.at = start + PayloadOffset + constsMetaData[chunk.idx].offset
    BY <1>8, <1>9
  <2>3. constsMetaData[chunk.idx].offset = constsMetaData[k].offset
    BY <2>1, <2>2, <1>1, <1>6, <1>7
  <2>4. QED
    BY <2>2, <2>3, OffsetsDistinct DEF WriterInv, ConstantsInv, FileInv
<1>10. \E chunk \in Chunks : Found(chunk) /\ chunk.idx = k
  <2>1. PICK chunk \in Chunks : chunk.part = "data" /\ chunk.idx = k
    BY DEF Complete, FileInv, BlocksPlaced, HasData
  <2>2. /\ chunk.at = start + PayloadOffset + constsMetaData[k].offset
        /\ chunk.size = Storage(k)
    BY <1>8, <2>1
  <2>3. constsMetaData[k].size <= chunk.size
    BY <2>2, StorageHolds DEF WriterInv
  <2>4. chunk.size \in Nat
    <3>1. chunk \in Chunk
      BY DEF Chunks, WriterInv, ControlTypeOK, StreamType
    <3>2. QED
      BY <3>1 DEF Chunk
  <2>5. chunk.at = start + place.offset /\ chunk.size >= place.size
    BY <2>2, <2>3, <2>4, <1>1, <1>6, <1>7
  <2>6. QED
    BY <2>1, <2>5, <1>5
<1>11. BlocksFound(layout, k) = {chunk.idx : chunk \in {c \in Chunks : Found(c)}}
  BY DEF BlocksFound
<1> HIDE DEF Found
<1>12. QED
  BY <1>9, <1>10, <1>11

\* What any decoder that accepts the file reads is what was added.
LEMMA ReadsBack ==
  ASSUME WriterInv, FileInv, Complete, NEW layout \in VerifiedLayout(ConstantSection)
  PROVE  [k \in 1 .. Len(constsMetaData) |->
            [resource |-> constsMetaData[k].mrtIndex,
             size |-> constsMetaData[k].size,
             sparsity |-> constsMetaData[k].sparsityDimension,
             blocks |-> BlocksFound(layout, k)]] = Store!StoredConstants
<1>1. Len(added) = Len(constsMetaData)
  BY DEF FileInv, RecordsMatch
<1>2. ASSUME NEW k \in 1 .. Len(constsMetaData)
      PROVE  [resource |-> constsMetaData[k].mrtIndex,
              size |-> constsMetaData[k].size,
              sparsity |-> constsMetaData[k].sparsityDimension,
              blocks |-> BlocksFound(layout, k)]
             = [resource |-> added[k].resource,
                size |-> added[k].size,
                sparsity |-> Store!StoredSparsity(added[k].sparsity),
                blocks |-> {k}]
  <2>1. BlocksFound(layout, k) = {k}
    BY OwnBlockFound
  <2>2. added[k].sparsity \in Int
    <3>1. added \in Seq([resource : Resources, size : DataSizes, sparsity : Sparsities])
      BY DEF WriterInv, ConstantsInv, ConstantsTypeOK
    <3>2. added[k] \in [resource : Resources, size : DataSizes, sparsity : Sparsities]
      BY <1>1, <3>1, ElementOfSeq
    <3>3. QED
      BY <3>2, ConstantAssumption
  <2>3. Store!StoredSparsity(added[k].sparsity) = SparsityDim32(added[k].sparsity)
    BY <2>2, NearestLemma
  <2>4. /\ constsMetaData[k].mrtIndex = added[k].resource
        /\ constsMetaData[k].size = added[k].size
        /\ constsMetaData[k].sparsityDimension = SparsityDim32(added[k].sparsity)
    BY DEF FileInv, RecordsMatch
  <2>5. QED
    BY <2>1, <2>3, <2>4
<1>3. QED
  BY <1>1, <1>2 DEF Store!StoredConstants

\* stored of ConstantStore, as the module maps it.
Stored == IF Complete THEN ReadBack ELSE {}

ReadsAreFaithful == Stored \subseteq {Store!StoredConstants}

LEMMA FaithfulReads == WriterInv /\ FileInv => ReadsAreFaithful
<1>1. SUFFICES ASSUME WriterInv, FileInv, Complete PROVE ReadBack \subseteq {Store!StoredConstants}
  BY DEF ReadsAreFaithful, Stored
<1>2. QED
  BY <1>1, ReadsBack DEF ReadBack

\* Each action of the encoder is one of the store's, or none.
LEMMA StepRefines ==
  ASSUME WriterInv, ReadsAreFaithful', [Next]_vars
  PROVE  [Store!Next]_(Store!vars)
<1>1. CASE UNCHANGED vars
  <2>1. UNCHANGED <<Stored, added, encodingFailed, finished>>
    BY <1>1 DEF vars, constantVars, writerVars, Stored, Complete, Returned, ReadBack, HeaderReadable,
       WrittenHeader, Written, Chunks, ConstantSection, BlocksFound
  <2>2. QED
    BY <2>1 DEF Store!vars, Stored, Complete
<1>2. CASE AddSomeConstant /\ UNCHANGED writerVars
  <2>1. ~finished /\ UNCHANGED <<finished, result>> /\ result = "none"
    BY <1>2 DEF AddSomeConstant, AddConstant, RejectConstant, writerVars, constantVars,
       WriterInv, NothingBeforeFinish
  <2>2. Stored = {} /\ Stored' = {}
    BY <2>1 DEF Stored, Complete, Returned
  <2>3. QED
    BY <1>2, <2>1, <2>2 DEF AddSomeConstant, AddConstant, RejectConstant,
       Store!Next, Store!Add, Store!Refuse, Stored, Complete
<1>3. ASSUME NEW sizes \in [TableNames -> TableSizes], Finish(sizes)
      PROVE  Store!Next
  <2>1. Stored = {} /\ Stored' = {}
    BY <1>3 DEF Finish, WriterInv, NothingBeforeFinish, Stored, Complete, Returned
  <2>2. QED
    BY <1>3, <2>1 DEF Finish, Store!Next, Store!Freeze, Stored, Complete
<1>4. ASSUME NEW good \in BOOLEAN, WriteTo(good)
      PROVE  Store!Next
  <2>1. Stored' = {} /\ UNCHANGED <<added, encodingFailed, finished>>
    BY <1>4 DEF WriteTo, Return, constantVars, Stored, Complete, Returned
  <2>2. QED
    BY <2>1 DEF Store!Next, Store!Replace, Stored, Complete
<1>5. CASE WriteConstantHead \/ WriteConstant \/ \E name \in {"header"} \cup TableNames : WriteSection(name)
  <2>1. pc # "idle" /\ (pc' # "idle" \/ result' = "false")
    BY <1>5 DEF WriteConstantHead, WriteConstant, WriteSection, Checked, Return, After, TableNames
  <2>2. Stored = {} /\ Stored' = {}
    BY <2>1 DEF Stored, Complete, Returned
  <2>3. UNCHANGED <<added, encodingFailed, finished>>
    BY <1>5 DEF WriteConstantHead, WriteConstant, WriteSection, constantVars
  <2>4. QED
    BY <2>2, <2>3 DEF Store!vars, Stored, Complete
<1>6. CASE EndWriteTo
  <2>1. Stored = {} /\ finished /\ ~encodingFailed /\ UNCHANGED <<added, encodingFailed, finished>>
    BY <1>6 DEF EndWriteTo, WriterInv, NothingBeforeFinish, RefusedNeverWritten, Stored, Complete, Returned
  <2>2. Stored' = {} \/ Stored' = {Store!StoredConstants'}
    BY DEF ReadsAreFaithful
  <2>3. Store!StoredConstants' = Store!StoredConstants
    BY <2>1 DEF Store!StoredConstants
  <2>4. QED
    BY <2>1, <2>2, <2>3 DEF Store!Next, Store!Store, Store!vars, Stored, Complete
<1>7. QED
  BY <1>1, <1>2, <1>3, <1>4, <1>5, <1>6 DEF Next, WriteStep

\* The encoder implements ConstantStore.
THEOREM EncoderStoresConstants == Spec => StoresConstants
<1>1. Init => Store!Init
  BY DEF Init, ConstantsInit, Store!Init, Returned
<1>2. WriterInv /\ ReadsAreFaithful' /\ [Next]_vars => [Store!Next]_(Store!vars)
  BY StepRefines
<1>3. WriterInv /\ FileInv => ReadsAreFaithful
  BY FaithfulReads
<1>4. QED
  BY <1>1, <1>2, <1>3, FileInvariance, PTL DEF Spec, StoresConstants, Store!Spec

--------------------------------------------------------------------------------
\* What the store may do, the encoder does: a decoder reads the constants
\* back from every complete file whose sparsity dimensions are valid, unless
\* the section is too large for the decoder's size_t.
CompleteIsReadable ==
  /\ Complete
  /\ table["constant"].size <= SizeMax
  /\ \A k \in 1 .. Len(constsMetaData) :
       constsMetaData[k].sparsityDimension >= CONSTANT_NOT_SPARSE_DIMENSION
  => ReadBack = {Store!StoredConstants}

\* The header of a complete file passes the decoder's checks.
LEMMA CompleteHeader ==
  ASSUME WriterInv, FileInv, Complete
  PROVE  HeaderReadable
<1>1. /\ ConstantSectionSize # {} /\ table = Layout /\ ConstantsTypeOK
      /\ tableSizes \in [TableNames -> TableSizes]
  BY DEF Complete, FileInv, TablePlaced, WriterInv, ConstantsInv
<1>2. /\ table["header"].offset = 0
      /\ \A name \in {"header"} \cup TableNames :
           table[After[name]].offset = table[name].offset + table[name].size + table[name].padding
      /\ table["constant"].size = PayloadOffset + constDataOffset
  BY <1>1, LayoutArithmetic
<1>3. table["header"].size = 128
  <2>1. Layout["header"] = UpdatePadding(Fresh("header"), Fresh("module"))
    BY DEF Layout
  <2>2. QED
    BY <2>1, <1>1 DEF UpdatePadding, Fresh, SectionSize, SectionIndex, HEADER_HEADER_SIZE_VALUE
<1>4. ASSUME NEW name \in SectionNames \cup {"header"}
      PROVE  table[name].offset \in Nat /\ table[name].size \in Nat /\ table[name].padding \in Nat
  BY WordAssumption DEF WriterInv, ControlTypeOK, SectionTable, SectionIndexType, U64
<1>5. output.pos = table["constant"].offset + table["constant"].size
  <2>1. output.pos = table["constant"].offset + PayloadOffset + constDataOffset
    BY DEF Complete, FileInv, StreamPlaced, PayloadStart
  <2>2. PayloadOffset \in Nat /\ constDataOffset \in Nat
    BY CompleteSection
  <2>3. table["constant"].offset \in Nat
    BY <1>4 DEF SectionNames
  <2>4. QED
    BY <2>1, <2>2, <2>3, <1>2
<1> DEFINE o(name) == table[name].offset
           s(name) == table[name].size
           p(name) == table[name].padding
<1>6. /\ o("module") = 128 + p("header")
      /\ o("sequence") = o("module") + s("module") + p("module")
      /\ o("resource") = o("sequence") + s("sequence") + p("sequence")
      /\ o("constant") = o("resource") + s("resource") + p("resource")
      /\ output.pos = o("constant") + s("constant")
  <2>1. o("module") = 0 + 128 + p("header")
    BY <1>2, <1>3 DEF After
  <2>2. p("header") \in Nat
    BY <1>4
  <2>3. QED
    BY <2>1, <2>2, <1>2, <1>5 DEF After, TableNames
<1>7. /\ o("module") \in Nat /\ s("module") \in Nat /\ p("module") \in Nat /\ p("header") \in Nat
      /\ o("sequence") \in Nat /\ s("sequence") \in Nat /\ p("sequence") \in Nat
      /\ o("resource") \in Nat /\ s("resource") \in Nat /\ p("resource") \in Nat
      /\ o("constant") \in Nat /\ s("constant") \in Nat
  BY <1>4 DEF SectionNames, TableNames
<1> HIDE DEF o, s, p
<1>8. /\ output.pos \in Nat /\ output.pos >= 128
      /\ o("module") <= output.pos /\ s("module") <= output.pos - o("module")
      /\ o("sequence") <= output.pos /\ s("sequence") <= output.pos - o("sequence")
      /\ o("resource") <= output.pos /\ s("resource") <= output.pos - o("resource")
      /\ o("constant") <= output.pos /\ s("constant") <= output.pos - o("constant")
  BY <1>6, <1>7
<1>9. ASSUME NEW name \in SectionNames
      PROVE  Within(WrittenHeader.sections[name], output.pos)
  <2>1. /\ WrittenHeader.sections[name].offset = o(name)
        /\ WrittenHeader.sections[name].size = s(name)
    BY DEF WrittenHeader, Header, o, s
  <2>2. o(name) <= output.pos /\ s(name) <= output.pos - o(name)
    BY <1>8 DEF SectionNames, TableNames
  <2>3. QED
    BY <2>1, <2>2 DEF Within
<1>10. HeaderVerified(WrittenHeader, output.pos)
  <2>1. WrittenHeader.magic = "VGF1" /\ WrittenHeader.version = <<0, 4, 3>>
    BY DEF WrittenHeader, Header, HeaderVersion
  <2>2. IsValid(WrittenHeader) /\ CheckVersion(WrittenHeader)
    BY <2>1 DEF IsValid, CheckVersion, Magics, HeaderVersion
  <2>3. QED
    BY <2>2, <1>8, <1>9 DEF HeaderVerified, validateSectionsSizesInHeader, HEADER_HEADER_SIZE_VALUE
<1>11. ASSUME NEW name \in {"header"} \cup TableNames
       PROVE  Written(name, table[name].offset)
  <2>1. name \in Passed("data")
    BY DEF Passed
  <2>2. QED
    BY <2>1 DEF Complete, FileInv, SectionsPassed
<1>12. Written("head", table["constant"].offset)
  BY DEF Complete, FileInv, SectionsPassed
<1>13. \A name \in SectionNames : WrittenHeader.sections[name].offset = table[name].offset
  BY DEF WrittenHeader, Header
<1>14. QED
  BY <1>2, <1>10, <1>11, <1>12, <1>13 DEF HeaderReadable, SectionNames

\* The decoder's checks of the constants find a layout of the section.
LEMMA CompleteLayout ==
  ASSUME WriterInv, FileInv, Complete, table["constant"].size <= SizeMax,
         \A k \in 1 .. Len(constsMetaData) :
           constsMetaData[k].sparsityDimension >= CONSTANT_NOT_SPARSE_DIMENSION
  PROVE  VerifiedLayout(ConstantSection) # {}
<1> DEFINE n == Len(constsMetaData)
           size == ConstantSection.size
           layout == TableLayout(size, 16, n * 24, PayloadOffset)
<1>1. /\ size = PayloadOffset + constDataOffset
      /\ ConstantSection.count = n
      /\ ConstantSection.metadata = constsMetaData
      /\ PayloadOffset = 16 + n * 24
      /\ size \in U64 /\ n \in U64 /\ PayloadOffset \in Nat /\ constDataOffset \in Nat
  BY CompleteSection
<1>2. size <= SizeMax /\ SizeMax \in Nat /\ U64Max \in Nat /\ n \in Nat /\ size \in Nat
  BY <1>1, WordAssumption DEF ConstantSection, WrittenHeader, Header, SectionNames, U64
<1>3. n * 24 \in checkedMul(n, 24) /\ PayloadOffset \in checkedAdd(16, n * 24)
  <2>1. PICK head \in HeadAndMetadataSize : TRUE
    BY DEF Complete, FileInv, TablePlaced, ConstantSectionSize
  <2>2. PICK metadata \in checkedMul(n, 24) : head \in checkedAdd(16, metadata)
    BY <2>1 DEF HeadAndMetadataSize, ConstantMetaDataSize, CONSTANT_SECTION_METADATA_OFFSET
  <2>3. metadata = n * 24 /\ head = 16 + metadata
    BY <2>2 DEF checkedMul, checkedAdd
  <2>4. QED
    BY <2>2, <2>3, <1>1
<1>4. /\ ~(16 > size) /\ ~(size > SizeMax) /\ ~(size < 16)
      /\ ~(n > (size - 16) \div 24)
      /\ PayloadOffset <= size
      /\ size - PayloadOffset = constDataOffset
  <2>1. size - 16 = n * 24 + constDataOffset
    BY <1>1, <1>2
  <2>2. QED
    BY <2>1, <1>1, <1>2
<1>5. /\ layout.records = [offset |-> 16, size |-> n * 24]
      /\ layout.payload = [offset |-> PayloadOffset, size |-> constDataOffset]
  BY <1>4 DEF TableLayout
<1>6. byteRangeCanBeAddressed(layout.records) /\ byteRangeCanBeAddressed(layout.payload)
  BY <1>1, <1>2, <1>5 DEF byteRangeCanBeAddressed
<1>7. layout \in splitFixedRecordTable(size, 16, 24, n)
  <2> HIDE DEF size, n
  <2>1. layout \in UNION { { TableLayout(size, 16, recordsSize, payloadOffset) :
                   payloadOffset \in { p \in checkedAdd(16, recordsSize) :
                        /\ p <= size
                        /\ byteRangeCanBeAddressed(TableLayout(size, 16, recordsSize, p).records)
                        /\ byteRangeCanBeAddressed(TableLayout(size, 16, recordsSize, p).payload) } } :
               recordsSize \in checkedMul(n, 24) }
    BY <1>3, <1>4, <1>6
  <2>2. QED
    BY <2>1, <1>4 DEF splitFixedRecordTable
<1>8. ASSUME NEW k \in 1 .. n
      PROVE  EntryValid(constsMetaData[k], constDataOffset)
  <2>1. constsMetaData[k] \in ConstantMetaData
    BY DEF WriterInv, ConstantsInv, ConstantsTypeOK
  <2>2. constsMetaData[k].offset \in Nat /\ constsMetaData[k].size \in Nat
    BY <2>1, WordAssumption DEF ConstantMetaData, U64
  <2>3. constsMetaData[k].offset + constsMetaData[k].size <= constDataOffset
    BY DEF FileInv, RecordsMatch
  <2>4. constDataOffset <= SizeMax
    BY <1>1, <1>2
  <2>5. ConstantDataWithinBounds(constsMetaData[k], constDataOffset)
    BY <2>2, <2>3, <2>4, <1>1, <1>2 DEF ConstantDataWithinBounds, ConstantDataRange,
       byteRangeCanBeAddressed, byteRangeWithinBounds
  <2>6. QED
    BY <2>5 DEF EntryValid
<1>9. layout \in VerifiedLayout(ConstantSection)
  <2>1. \A k \in 1 .. n : EntryValid(constsMetaData[k], layout.payload.size)
    BY <1>5, <1>8
  <2> HIDE DEF layout, n
  <2>2. QED
    BY <2>1, <1>1, <1>4, <1>7 DEF VerifiedLayout, CONSTANT_SECTION_METADATA_OFFSET, ConstantMetaDataSize
<1>10. QED
  BY <1>9

\* A complete file is read back.
THEOREM CompleteFileIsReadable == Spec => []CompleteIsReadable
<1>1. ASSUME WriterInv, FileInv, Complete, table["constant"].size <= SizeMax,
             \A k \in 1 .. Len(constsMetaData) :
               constsMetaData[k].sparsityDimension >= CONSTANT_NOT_SPARSE_DIMENSION
      PROVE  ReadBack = {Store!StoredConstants}
  <2>1. HeaderReadable
    BY <1>1, CompleteHeader
  <2>2. VerifiedLayout(ConstantSection) # {}
    BY <1>1, CompleteLayout
  <2>3. \A layout \in VerifiedLayout(ConstantSection) :
          [k \in 1 .. Len(constsMetaData) |->
            [resource |-> constsMetaData[k].mrtIndex,
             size |-> constsMetaData[k].size,
             sparsity |-> constsMetaData[k].sparsityDimension,
             blocks |-> BlocksFound(layout, k)]] = Store!StoredConstants
    BY <1>1, ReadsBack
  <2>4. QED
    BY <2>1, <2>2, <2>3 DEF ReadBack
<1>2. WriterInv /\ FileInv => CompleteIsReadable
  BY <1>1 DEF CompleteIsReadable
<1>3. QED
  BY <1>2, FileInvariance, PTL

--------------------------------------------------------------------------------
\* How many steps a call of WriteTo has before it, at most: the sections, the
\* head of the constants, their blocks, and its end.
SectionsBefore == [header |-> 6, module |-> 5, sequence |-> 4, resource |-> 3, constant |-> 2]

StepsLeft ==
  IF pc = "idle" THEN 0
  ELSE IF pc = "data" THEN Len(constsData) + 2 - nextConst
  ELSE Len(constsData) + SectionsBefore[pc]

\* The loop over the blocks leaves their list as long as it was.
InBlocks == pc = "data" => nextConst <= Len(constsData) + 1

LEMMA WriteStepLemma ==
  ASSUME WriterInv, InBlocks, WriteStep
  PROVE  InBlocks' /\ pc # "idle" /\ StepsLeft' < StepsLeft
<1> DEFINE n == Len(constsData)
<1>1. /\ n \in Nat /\ nextConst \in Nat /\ constsData \in Seq(U64)
      /\ pc \in {"idle", "header", "data", "module", "sequence", "resource", "constant"}
  BY DEF WriterInv, ConstantsInv, ConstantsTypeOK, ControlTypeOK, SectionNames, TableNames
<1>2. ASSUME NEW name \in {"header"} \cup TableNames, WriteSection(name)
      PROVE  InBlocks' /\ pc # "idle" /\ StepsLeft' < StepsLeft
  <2>1. pc = name /\ constsData' = constsData /\ (pc' = "idle" \/ pc' = After[name])
    BY <1>2 DEF WriteSection, Checked, Return, constantVars
  <2>2. QED
    BY <1>1, <2>1 DEF TableNames, After, SectionsBefore, StepsLeft, InBlocks
<1>3. CASE WriteConstantHead
  <2>1. pc = "constant" /\ pc' = "data" /\ nextConst' = 1 /\ constsData' = constsData
    BY <1>3 DEF WriteConstantHead, constantVars
  <2>2. QED
    BY <1>1, <2>1 DEF SectionsBefore, StepsLeft, InBlocks
<1>4. CASE WriteConstant
  <2>1. /\ pc = "data" /\ nextConst <= n /\ nextConst' = nextConst + 1
        /\ constsData' = [constsData EXCEPT ![nextConst] = 0]
        /\ pc' \in {"data", "idle"}
    BY <1>4 DEF WriteConstant, Released, Checked, Return
  <2>2. Len(constsData') = n
    BY <1>1, <2>1
  <2>3. QED
    BY <1>1, <2>1, <2>2 DEF StepsLeft, InBlocks
<1>5. CASE EndWriteTo
  <2>1. pc = "data" /\ pc' = "idle" /\ nextConst > n
    BY <1>5 DEF EndWriteTo, Return
  <2>2. QED
    BY <1>1, <2>1 DEF StepsLeft, InBlocks
<1>6. QED
  BY <1>2, <1>3, <1>4, <1>5 DEF WriteStep

\* A call of WriteTo, once begun, is over after StepsLeft steps: each step
\* the system takes meanwhile is one of the call's, and leaves it fewer.
THEOREM WriteToIsFinite ==
  Spec => /\ [](StepsLeft \in Nat /\ (StepsLeft = 0 <=> pc = "idle"))
          /\ [][pc # "idle" => StepsLeft' < StepsLeft]_vars
<1>1. Init => InBlocks
  BY DEF Init, InBlocks
<1>2. WriterInv /\ InBlocks /\ [Next]_vars => InBlocks' /\ [pc # "idle" => StepsLeft' < StepsLeft]_vars
  <2> SUFFICES ASSUME WriterInv, InBlocks, [Next]_vars
               PROVE  InBlocks' /\ [pc # "idle" => StepsLeft' < StepsLeft]_vars
    OBVIOUS
  <2>1. CASE AddSomeConstant /\ UNCHANGED writerVars
    <3>1. ~finished
      BY <2>1 DEF AddSomeConstant, AddConstant, RejectConstant
    <3>2. pc = "idle" /\ pc' = "idle"
      BY <2>1, <3>1 DEF WriterInv, NothingBeforeFinish, writerVars
    <3>3. QED
      BY <3>2 DEF InBlocks
  <2>2. ASSUME NEW sizes \in [TableNames -> TableSizes], Finish(sizes)
        PROVE  InBlocks' /\ [pc # "idle" => StepsLeft' < StepsLeft]_vars
    <3>1. pc = "idle" /\ pc' = "idle"
      BY <2>2 DEF Finish, WriterInv, NothingBeforeFinish
    <3>2. QED
      BY <3>1 DEF InBlocks
  <2>3. ASSUME NEW good \in BOOLEAN, WriteTo(good)
        PROVE  InBlocks' /\ [pc # "idle" => StepsLeft' < StepsLeft]_vars
    <3>1. pc = "idle" /\ pc' # "data"
      BY <2>3 DEF WriteTo, Return
    <3>2. QED
      BY <3>1 DEF InBlocks
  <2>4. CASE WriteStep
    BY <2>4, WriteStepLemma
  <2>5. CASE UNCHANGED vars
    BY <2>5 DEF vars, constantVars, writerVars, InBlocks
  <2>6. QED
    BY <2>1, <2>2, <2>3, <2>4, <2>5 DEF Next
<1>3. WriterInv /\ InBlocks => StepsLeft \in Nat /\ (StepsLeft = 0 <=> pc = "idle")
  <2> SUFFICES ASSUME WriterInv, InBlocks
               PROVE  StepsLeft \in Nat /\ (StepsLeft = 0 <=> pc = "idle")
    OBVIOUS
  <2>1. /\ Len(constsData) \in Nat /\ nextConst \in Nat
        /\ pc \in {"idle", "header", "data", "module", "sequence", "resource", "constant"}
    BY DEF WriterInv, ConstantsInv, ConstantsTypeOK, ControlTypeOK, SectionNames, TableNames
  <2>2. QED
    BY <2>1 DEF InBlocks, SectionsBefore, StepsLeft
<1>4. QED
  BY <1>1, <1>2, <1>3, FileInvariance, PTL DEF Spec
================================================================================
