------------------------------- MODULE VgfWriter -------------------------------
(***************************************************************************)
(* Finish and WriteTo of EncoderImpl (src/encoder.cpp) on the constants of *)
(* EncoderConstants, written to an output stream that may fail at any      *)
(* write.  A step of WriteTo is a section, a run of writes with no check   *)
(* between them, or a constant.  The three tables are known by their size. *)
(*                                                                         *)
(* A stream is [good, pos, chunks]: ~fail(), the bytes accepted, and the   *)
(* runs of bytes accepted, [part, idx, at, size].  What is in a chunk need *)
(* not be kept with it: all but constsData is frozen once Finish was       *)
(* called, and a data chunk shows by its size what was left of its block.  *)
(***************************************************************************)
EXTENDS EncoderConstants, VgfFormat, FiniteSets

CONSTANTS
  TableSizes,   \* the sizes of finished FlatBuffers
  MaxCalls      \* bound: the calls of WriteTo

\* Every layout without a payload fits: a FlatBuffer is at most 2^31 bytes.
ASSUME WriterAssumption ==
  /\ HEADER_HEADER_SIZE_VALUE <= U64Max
  /\ TableSizes \subseteq U64
  /\ \A n \in TableSizes :
       HEADER_HEADER_SIZE_VALUE + 3 * (n + VGF_SECTION_ALIGNMENT_VALUE) <= U64Max
  /\ (U64Max + 1) % VGF_SECTION_ALIGNMENT_VALUE = 0
  /\ MaxCalls \in Nat

VARIABLES
  tableSizes,   \* GetSize() of the three builders
  pc,           \* what WriteTo writes next, "idle" when it is not running
  table,        \* the SectionIndexTable of the last call, by section
  nextConst,    \* the iterator of its loop over constsData
  output,       \* the stream WriteTo was last called with
  result,       \* what it last returned, "none" before
  calls,        \* the number of calls so far
  intact        \* history: the last call found every block unreleased

writerVars == <<tableSizes, pc, table, nextConst, output, result, calls, intact>>
vars == <<constantVars, writerVars>>

NewStream(good) == [good |-> good, pos |-> 0, chunks |-> <<>>]

Init ==
  /\ ConstantsInit
  /\ tableSizes = [name \in TableNames |-> 0]
  /\ pc = "idle"
  /\ table = [name \in SectionNames \cup {"header"} |-> SectionIndex(0, VGF_SECTION_ALIGNMENT_VALUE)]
  /\ nextConst = 0
  /\ output = NewStream(TRUE)
  /\ result = "none"
  /\ calls = 0
  /\ intact = TRUE

--------------------------------------------------------------------------------
\* The layout WriteTo computes.

\* The 16 bytes of version and count forgotten.
HeadlessSizeBug ==
  UNION { checkedAdd(metadata, constDataOffset) :
            metadata \in checkedMul(Len(constsMetaData), ConstantMetaDataSize) }

\* checkedMul and checkedAdd in a chain: {} if a step leaves the word.
HeadAndMetadataSize ==
  UNION { checkedAdd(CONSTANT_SECTION_METADATA_OFFSET, metadata) :
            metadata \in checkedMul(Len(constsMetaData), ConstantMetaDataSize) }

ConstantSectionSize ==
  UNION { checkedAdd(head, constDataOffset) : head \in HeadAndMetadataSize }

\* WriteTo writes the header, the tables in this order, and the constants.
After ==
  [header |-> "module", module |-> "sequence", sequence |-> "resource", resource |-> "constant"]

SectionSize(name) ==
  CASE name = "header" -> HEADER_HEADER_SIZE_VALUE
    [] name = "constant" -> CHOOSE size \in ConstantSectionSize : TRUE
    [] OTHER -> tableSizes[name]

Fresh(name) == SectionIndex(SectionSize(name), VGF_SECTION_ALIGNMENT_VALUE)

\* The five AddSection calls, and the four iterations of Update on them.
Layout ==
  LET header == UpdatePadding(Fresh("header"), Fresh("module"))
      module == UpdatePadding(UpdateOffset(Fresh("module"), header), Fresh("sequence"))
      sequence == UpdatePadding(UpdateOffset(Fresh("sequence"), module), Fresh("resource"))
      resource == UpdatePadding(UpdateOffset(Fresh("resource"), sequence), Fresh("constant"))
      constant == UpdateOffset(Fresh("constant"), resource)
  IN  [header |-> header, module |-> module, sequence |-> sequence, resource |-> resource,
       constant |-> constant]

WrittenHeader ==
  Header([name \in SectionNames |->
            [offset |-> table[name].offset, size |-> table[name].size]])

--------------------------------------------------------------------------------
\* The stream.

\* ostream::write: it accepts the bytes, or fails and stays failed.  A write
\* of no bytes does not fail by itself.
Put(stream, part, idx, size) ==
  IF ~stream.good THEN {stream}
  ELSE {[stream EXCEPT !.pos = @ + size,
                       !.chunks = Append(@, [part |-> part, idx |-> idx,
                                             at |-> stream.pos, size |-> size])]}
       \cup (IF size = 0 THEN {} ELSE {[stream EXCEPT !.good = FALSE]})

--------------------------------------------------------------------------------
Return(value) == pc' = "idle" /\ result' = value

\* No check; and another try at the write instead of a return.
UncheckedBug(stream, next) == pc' = next /\ UNCHANGED result

RetryBug(stream, next) ==
  IF stream.good THEN pc' = next /\ UNCHANGED result ELSE UNCHANGED <<pc, result>>

\* if (output.fail()) return false.
Checked(stream, next) ==
  IF stream.good THEN pc' = next /\ UNCHANGED result ELSE Return("false")

\* The tables are built; what they hold is modelled in EncoderTables.
Finish(sizes) ==
  /\ ~finished
  /\ finished' = TRUE
  /\ tableSizes' = sizes
  /\ UNCHANGED <<encodingFailed, constsMetaData, constsData, constDataOffset, added>>
  /\ UNCHANGED <<pc, table, nextConst, output, result, calls, intact>>

RefusesBug == ConstantSectionSize = {}

\* WriteTo returns false before it writes anything.
Refuses == encodingFailed \/ ConstantSectionSize = {}

\* WriteTo up to its first write.  The stream may have failed before.
WriteTo(good) ==
  /\ finished
  /\ pc = "idle"
  /\ calls < MaxCalls
  /\ calls' = calls + 1
  /\ output' = NewStream(good)
  /\ intact' = ( /\ Len(constsData) = Len(constsMetaData)
                 /\ \A k \in 1 .. Len(constsData) : constsData[k] # 0 )
  /\ IF Refuses
     THEN Return("false") /\ UNCHANGED table
     ELSE table' = Layout /\ pc' = "header" /\ UNCHANGED result
  /\ UNCHANGED <<constantVars, tableSizes, nextConst>>

\* SectionIndex::Write of the header or a table, and its padding.
WriteSection(name) ==
  /\ pc = name
  /\ \E written \in Put(output, name, 0, table[name].size) :
       \E padded \in Put(written, "padding", 0, table[name].padding) :
         /\ output' = padded
         /\ Checked(padded, After[name])
  /\ UNCHANGED <<constantVars, tableSizes, table, nextConst, calls, intact>>

\* Version, count and metadata records: no check follows these writes.
WriteConstantHead ==
  /\ pc = "constant"
  /\ output' \in Put(output, "head", 0,
                     CONSTANT_SECTION_METADATA_OFFSET + Len(constsMetaData) * ConstantMetaDataSize)
  /\ pc' = "data"
  /\ nextConst' = 1
  /\ UNCHANGED <<constantVars, tableSizes, table, result, calls, intact>>

\* The blocks that are still to be put go too.
ReleasedBug(idx) == [k \in DOMAIN constsData |-> IF k < idx THEN constsData[k] ELSE 0]

Released(idx) == [constsData EXCEPT ![idx] = 0]

\* A block is released as soon as it was put, before the check.
WriteConstant ==
  /\ pc = "data"
  /\ nextConst <= Len(constsData)
  /\ output' \in Put(output, "data", nextConst, constsData[nextConst])
  /\ constsData' = Released(nextConst)
  /\ nextConst' = nextConst + 1
  /\ Checked(output', "data")
  /\ UNCHANGED <<finished, encodingFailed, constsMetaData, constDataOffset, added>>
  /\ UNCHANGED <<tableSizes, table, calls, intact>>

EndWriteTo ==
  /\ pc = "data"
  /\ nextConst > Len(constsData)
  /\ constsData' = <<>>
  /\ Return("true")
  /\ UNCHANGED <<finished, encodingFailed, constsMetaData, constDataOffset, added>>
  /\ UNCHANGED <<tableSizes, table, nextConst, output, calls, intact>>

WriteStep ==
  \/ \E name \in {"header"} \cup TableNames : WriteSection(name)
  \/ WriteConstantHead
  \/ WriteConstant
  \/ EndWriteTo

Next ==
  \/ AddSomeConstant /\ UNCHANGED writerVars
  \/ \E sizes \in [TableNames -> TableSizes] : Finish(sizes)
  \/ \E good \in BOOLEAN : WriteTo(good)
  \/ WriteStep

\* WriteTo runs on the caller's thread, and every write returns.
Spec == Init /\ [][Next]_vars /\ WF_vars(WriteStep)
--------------------------------------------------------------------------------
\* What a reader of the output finds.

Chunks == {output.chunks[i] : i \in DOMAIN output.chunks}

Written(part, at) == \E chunk \in Chunks : chunk.part = part /\ chunk.at = at

\* The header was written, passes the decoder's checks against the length of
\* the file, and points at the tables and at the head of the constants.
HeaderReadable ==
  LET sections == WrittenHeader.sections
  IN  /\ Written("header", 0)
      /\ HeaderVerified(WrittenHeader, output.pos)
      /\ \A name \in TableNames : Written(name, sections[name].offset)
      /\ Written("head", sections["constant"].offset)

ConstantSection ==
  [size |-> WrittenHeader.sections["constant"].size,
   count |-> Len(constsMetaData),
   metadata |-> constsMetaData]

\* The constants whose data is where getConstant looks for constant k.
BlocksFound(layout, k) ==
  { chunk.idx : chunk \in
      { c \in Chunks : c.part = "data" /\
          \E view \in GetConstant(ConstantSection, layout, k - 1) :
            /\ c.at = WrittenHeader.sections["constant"].offset + view.offset
            /\ c.size >= view.size } }

\* The constants a decoder reads from the output, {} when it accepts none.
ReadBack ==
  IF ~HeaderReadable THEN {}
  ELSE { [k \in 1 .. Len(constsMetaData) |->
            [resource |-> constsMetaData[k].mrtIndex,
             size |-> constsMetaData[k].size,
             sparsity |-> constsMetaData[k].sparsityDimension,
             blocks |-> BlocksFound(layout, k)]] :
         layout \in VerifiedLayout(ConstantSection) }

Returned(value) == pc = "idle" /\ result = value

--------------------------------------------------------------------------------
Chunk ==
  [part : {"header", "padding", "head", "data"} \cup TableNames, idx : Nat, at : Nat, size : Nat]

TypeOK ==
  /\ ConstantsTypeOK
  /\ tableSizes \in [TableNames -> TableSizes \cup {0}]
  /\ pc \in {"idle", "header", "data"} \cup SectionNames
  /\ table \in [SectionNames \cup {"header"} -> SectionIndexType]
  /\ nextConst \in 0 .. MaxConstants + 1
  /\ output.good \in BOOLEAN /\ output.pos \in Nat
  /\ output.chunks \in Seq(Chunk)
  /\ result \in {"none", "true", "false"}
  /\ calls \in 0 .. MaxCalls
  /\ intact \in BOOLEAN

\* Once a constant was refused, no call of WriteTo puts a byte on a stream
\* or returns true (encodingFailed_, encoder.cpp:384).
RefusedNeverWritten ==
  encodingFailed =>
    /\ output.pos = 0
    /\ result # "true"
    /\ pc = "idle"

\* Whatever failed and whenever, a table that reached the stream starts at
\* the offset the header gives it, on 8 bytes, after the whole header; and
\* the blocks follow the head in order, each at its record's offset as long
\* as no earlier block was released.
ChunksInPlace ==
  \A chunk \in Chunks :
    /\ chunk.part \in TableNames =>
         /\ chunk.at = WrittenHeader.sections[chunk.part].offset
         /\ chunk.at % VGF_SECTION_ALIGNMENT_VALUE = 0
         /\ Written("header", 0)
    /\ chunk.part = "data" /\ intact =>
         chunk.at = WrittenHeader.sections["constant"].offset + CONSTANT_SECTION_METADATA_OFFSET
                      + Len(constsMetaData) * ConstantMetaDataSize
                      + constsMetaData[chunk.idx].offset

\* The writes of the constants' head go unchecked, but the failure sticks to
\* the stream: when there is a constant, the check after its block sees it,
\* so true means the stream took everything (encoder.hpp:225).
TrueMeansWritten ==
  Returned("true") /\ constsMetaData # <<>> /\ intact => output.good

\* A complete file ends with the constant section: nothing is cut off and
\* nothing trails it, and the header's sections stay within it.
FileEndsWithConstants ==
  Returned("true") /\ output.good /\ intact =>
    LET constant == WrittenHeader.sections["constant"]
    IN  output.pos = constant.offset + constant.size

\* The file is laid out as its header says.
FileLaidOut == ChunksInPlace /\ FileEndsWithConstants

\* A block is released only by a call that got past the tables, and then
\* the stream has taken it whole or has failed: a call that fails earlier
\* leaves the encoder as it was, ready for the caller's next try.
BlocksLostOnlyToStream ==
  intact => \A k \in 1 .. Len(constsMetaData) :
    \/ k \in DOMAIN constsData /\ constsData[k] >= constsMetaData[k].size
    \/ /\ \E chunk \in Chunks : chunk.part = "resource"
       /\ ~output.good \/ \E chunk \in Chunks :
            chunk.part = "data" /\ chunk.idx = k /\ chunk.size >= constsMetaData[k].size

\* WriteTo returns.
WriteReturns == pc # "idle" ~> pc = "idle"

\* The encoder implements ConstantStore: what a decoder reads from a file
\* for which WriteTo returned true, on a stream that took every byte, from
\* blocks that no earlier call had released, is the constants as added.
Store == INSTANCE ConstantStore WITH
  constants <- added,
  refused <- encodingFailed,
  frozen <- finished,
  stored <- IF Returned("true") /\ output.good /\ intact THEN ReadBack ELSE {}

StoresConstants == Store!Spec

--------------------------------------------------------------------------------
\* What encoder.hpp:225 says of WriteTo, "Bool True if write successful",
\* without the conditions of TrueMeansWritten: the stream took every byte.
TrueMeansStreamGood == Returned("true") => output.good

\* The same, of a stream that did: a decoder reads the constants back.
TrueMeansReadable ==
  Returned("true") /\ output.good => ReadBack = {Store!StoredConstants}

\* docs/source/file_format.rst:180, "Values below `-1` are invalid", of the
\* sparsity dimensions in a file that WriteTo says it wrote.
SparsityValid ==
  Returned("true") =>
    \A k \in 1 .. Len(constsMetaData) :
      constsMetaData[k].sparsityDimension >= CONSTANT_NOT_SPARSE_DIMENSION
===============================================================================
