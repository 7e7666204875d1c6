------------------------------- MODULE VgfDecoder -------------------------------
(***************************************************************************)
(* A reader of a mapped file: the MemoryMap (utils/src/memory_map.cpp),    *)
(* the header decoder and the constant decoders (src/decoder.cpp), CONST00 *)
(* and legacy, in the order parse_vgf.cpp, vgf_dump and vgf_updater use    *)
(* them.  What the file holds is anything at all.                          *)
(***************************************************************************)
EXTENDS VgfFormat

CONSTANTS
  FileSizes, Versions,
  TableRanges,       \* the byte ranges a header gives its tables
  ConstantRanges,    \* the one it gives the constants
  Records,           \* what a CONST00 metadata record may hold
  Counts,            \* what the count field may hold
  LegacyConstants,   \* what a legacy table entry may hold
  MaxEntries         \* bound: legacy entries, and CONST00 records read

\* A record has the fields of ConstantMetaDataV00; a legacy entry is
\* [mrtIndex, sparsityDimension, raw], raw = {} if absent, else {its size}.
ASSUME DecoderAssumption ==
  /\ FileSizes \subseteq U64
  /\ TableRanges \subseteq ByteRange /\ ConstantRanges \subseteq ByteRange
  /\ Counts \subseteq U64
  /\ \A record \in Records :
       record.offset \in U64 /\ record.size \in U64 /\ record.sparsityDimension \in Int
  /\ MaxEntries \in Nat
  /\ \A range \in ConstantRanges :
       range.size < CONSTANT_SECTION_METADATA_OFFSET + (MaxEntries + 1) * ConstantMetaDataSize

VARIABLES
  fileSize,
  header,          \* {} until CreateHeaderDecoder returned one, then {the header}
  section,         \* {} until the constants were mapped, then {what is there}
  decoder,         \* "none", "refused", "v00" or "legacy"
  layout,          \* the layout the CONST00 decoder keeps, in a set
  view             \* the last getConstant: [idx, range], range {} or {its byte range}

vars == <<fileSize, header, section, decoder, layout, view>>

NoView == [idx |-> 0, range |-> {}]

Init ==
  /\ fileSize \in FileSizes
  /\ header = {}
  /\ section = {}
  /\ decoder = "none"
  /\ layout = {}
  /\ view = NoView

--------------------------------------------------------------------------------
CreateHeaderDecoder(candidate) ==
  /\ header = {}
  /\ HeaderVerified(candidate, fileSize)
  /\ header' = {candidate}
  /\ UNCHANGED <<fileSize, section, decoder, layout, view>>

\* MemoryMap::ptr throws for an offset that is not in the file.
Mapped(offset) == offset < fileSize

\* The result of _verify is not looked at.
CreateV00Bug(candidate) ==
  /\ layout' = VerifiedLayout(candidate)
  /\ decoder' = "v00"

\* CreateConstantDecoder of a section that starts with the CONST00 version.
CreateV00(candidate) ==
  /\ layout' = VerifiedLayout(candidate)
  /\ decoder' = IF layout' = {} THEN "refused" ELSE "v00"

SparsityBelow(dimension) == dimension < CONSTANT_NOT_SPARSE_DIMENSION

\* Of one that does not: the FlatBuffers verifier decides first.
CreateLegacy(candidate, verified) ==
  /\ layout' = {}
  /\ decoder' =
       IF verified /\ ~\E k \in 1 .. Len(candidate.entries) :
                         SparsityBelow(candidate.entries[k].sparsityDimension)
       THEN "legacy" ELSE "refused"

\* The header says where the section is, and it is too short for a version,
\* CONST00, or legacy.
OpenConstants ==
  /\ decoder = "none"
  /\ UNCHANGED <<fileSize, header, view>>
  /\ \E h \in header :
       LET range == h.sections["constant"]
       IN  /\ Mapped(range.offset)
           /\ \/ /\ range.size < 8
                 /\ decoder' = "refused"
                 /\ UNCHANGED <<section, layout>>
              \/ \E count \in Counts, records \in [1 .. MaxEntries -> Records] :
                   LET candidate == [size |-> range.size, count |-> count, metadata |-> records]
                   IN  /\ range.size >= 8
                       /\ section' = {candidate}
                       /\ CreateV00(candidate)
              \/ \E n \in 0 .. MaxEntries, verified \in BOOLEAN :
                   \E entries \in [1 .. n -> LegacyConstants] :
                     LET candidate == [size |-> range.size, entries |-> entries]
                     IN  /\ range.size >= 8
                         /\ section' = {candidate}
                         /\ CreateLegacy(candidate, verified)

\* getConstant of the CONST00 decoder, for any index.
GetConstantV00(idx) ==
  /\ decoder = "v00"
  /\ \E s \in section, l \in layout :
       view' = [idx |-> idx, range |-> GetConstant(s, l, idx)]
  /\ UNCHANGED <<fileSize, header, section, decoder, layout>>

Next ==
  \/ \E magic \in Magics \cup {"other"}, version \in Versions,
        tables \in TableRanges, constants \in ConstantRanges :
       CreateHeaderDecoder([magic |-> magic, version |-> version,
         sections |-> [name \in SectionNames |-> IF name = "constant" THEN constants ELSE tables]])
  \/ OpenConstants
  \/ \E idx \in 0 .. MaxEntries : GetConstantV00(idx)

Spec == Init /\ [][Next]_vars

--------------------------------------------------------------------------------
TypeOK ==
  /\ fileSize \in FileSizes
  /\ \A h \in header : h.version \in Versions
  /\ decoder \in {"none", "refused", "v00", "legacy"}
  /\ decoder = "v00" <=> layout # {}
  /\ view.idx \in 0 .. MaxEntries /\ view.range \subseteq ByteRange

\* Whatever a file declares, what getConstant hands out is inside the file,
\* inside the section the header gave, and after the metadata records: two
\* checks against two different sizes, and no sum of them left the word.
ViewsInFile ==
  \A range \in view.range, h \in header, s \in section :
    LET start == h.sections["constant"].offset
    IN  /\ range.offset >= CONSTANT_SECTION_METADATA_OFFSET + s.count * ConstantMetaDataSize
        /\ range.offset + range.size <= s.size
        /\ start + range.offset + range.size <= fileSize
        /\ range.offset + range.size <= SizeMax

\* A CONST00 decoder that was created serves every constant it counts and
\* no other, each with a sparsity dimension that is valid.
CountedAreServed ==
  decoder = "v00" =>
    \A s \in section, l \in layout :
      /\ \A idx \in 0 .. MaxEntries : GetConstant(s, l, idx) # {} <=> idx < s.count
      /\ \A k \in 1 .. s.count : ~SparsityBelow(s.metadata[k].sparsityDimension)

\* A section of at least a byte that the header check let through can be
\* mapped: only an empty one at the very end of the file makes ptr throw.
CheckedIsMapped ==
  \A h \in header : \A name \in SectionNames :
    h.sections[name].size > 0 => Mapped(h.sections[name].offset)
=================================================================================
