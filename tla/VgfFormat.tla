------------------------------- MODULE VgfFormat -------------------------------
(***************************************************************************)
(* The raw parts of a VGF file, the header (src/header.hpp) and the CONST00 *)
(* constant section (src/constant.hpp), and what the decoders of           *)
(* src/decoder.cpp verify of them before they hand anything out.           *)
(*                                                                         *)
(* A header is [magic, version, sections], its sections a function from    *)
(* SectionNames to byte ranges of the file.  A constant section is         *)
(* [size, count, metadata]: the size the header declares, the count field, *)
(* and a record for each index a decoder could reach.                      *)
(***************************************************************************)
EXTENDS SectionLayout, Sequences

HEADER_HEADER_SIZE_VALUE == 128
VGF_SECTION_ALIGNMENT_VALUE == 8

CONSTANT_SECTION_METADATA_OFFSET == 16   \* after version and count
ConstantMetaDataSize == 24               \* sizeof(ConstantMetaDataV00)
CONSTANT_NOT_SPARSE_DIMENSION == -1

TableNames == {"module", "sequence", "resource"}
SectionNames == TableNames \cup {"constant"}

\* The FourCC VGF1 and the value files had before it.
Magics == {"VGF1", "old"}
HeaderVersion == <<0, 4, 3>>

Header(sections) ==
  [magic |-> "VGF1", version |-> HeaderVersion, sections |-> sections]

--------------------------------------------------------------------------------
\* HeaderDecoderImpl.

IsValid(header) == header.magic \in Magics

IsLatestVersion(header) == IsValid(header) /\ header.version = HeaderVersion

\* Any patch version of a supported major and minor passes.
CheckVersion(header) ==
  /\ IsValid(header)
  /\ header.version[1] = HeaderVersion[1]
  /\ header.version[2] <= HeaderVersion[2]

\* A sum that wraps; and a size compared alone.
WithinWrapBug(range, fileSize) == Wrap(range.offset + range.size) <= fileSize
WithinSizeBug(range, fileSize) == range.size <= fileSize

Within(range, fileSize) ==
  range.offset <= fileSize /\ range.size <= fileSize - range.offset

validateSectionsSizesInHeader(header, fileSize) ==
  \A name \in SectionNames : Within(header.sections[name], fileSize)

\* CreateHeaderDecoder returns a decoder and not nullptr, of a header in
\* memory; another headerSize than HeaderSize() is refused without a look.
HeaderVerified(header, fileSize) ==
  /\ fileSize >= HEADER_HEADER_SIZE_VALUE
  /\ IsValid(header)
  /\ CheckVersion(header)
  /\ validateSectionsSizesInHeader(header, fileSize)

--------------------------------------------------------------------------------
\* ConstantDecoderV00Impl.

ConstantDataRange(metadata) == [offset |-> metadata.offset, size |-> metadata.size]

ConstantDataWithinBounds(metadata, dataSize) ==
  LET range == ConstantDataRange(metadata)
  IN  byteRangeCanBeAddressed(range) /\ byteRangeWithinBounds(range, dataSize)

EntryValidBug(metadata, dataSize) == ConstantDataWithinBounds(metadata, dataSize)

EntryValid(metadata, dataSize) ==
  /\ ConstantDataWithinBounds(metadata, dataSize)
  /\ metadata.sparsityDimension >= CONSTANT_NOT_SPARSE_DIMENSION

\* _verify: the layout of a section that passes, {} for one that does not.
VerifiedLayout(section) ==
  IF \/ section.size > SizeMax
     \/ section.size < CONSTANT_SECTION_METADATA_OFFSET
     \/ section.count >
          (section.size - CONSTANT_SECTION_METADATA_OFFSET) \div ConstantMetaDataSize
  THEN {}
  ELSE { layout \in splitFixedRecordTable(section.size, CONSTANT_SECTION_METADATA_OFFSET,
                                          ConstantMetaDataSize, section.count) :
           \A k \in 1 .. section.count : EntryValid(section.metadata[k], layout.payload.size) }

\* getConstant: the bytes of the section it returns a view of, {} for none.
\* idx counts from 0, as the decoder's callers do.
GetConstant(section, layout, idx) ==
  IF idx >= section.count THEN {}
  ELSE LET metadata == section.metadata[idx + 1]
       IN  IF ~ConstantDataWithinBounds(metadata, layout.payload.size) THEN {}
           ELSE {[offset |-> layout.payload.offset + metadata.offset, size |-> metadata.size]}
================================================================================
