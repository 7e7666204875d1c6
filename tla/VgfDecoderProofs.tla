---------------------------- MODULE VgfDecoderProofs ----------------------------
(***************************************************************************)
(* What the decoders hand out.  First VgfDecoder: only bytes of the file,  *)
(* for every file, whatever the ranges, counts and records in it are, and  *)
(* for every width of uint64_t and size_t.  Then TableRelay: of an element *)
(* of a table the same through every API, for every set of elements.       *)
(***************************************************************************)
EXTENDS VgfDecoder, TableRelay, ByteRangesProofs

\* The header is one that was verified, and only one is ever opened.
HeaderInv ==
  /\ fileSize \in FileSizes
  /\ \A h1, h2 \in header : h1 = h2
  /\ \A h \in header :
       /\ HeaderVerified(h, fileSize)
       /\ h.version \in Versions
       /\ h.sections \in [SectionNames -> ByteRange]
       /\ h.sections["constant"] \in ConstantRanges

\* The constants were opened where it says, with a layout that passed.
SectionInv ==
  /\ \A s1, s2 \in section : s1 = s2
  /\ decoder \in {"none", "refused", "v00", "legacy"}
  /\ decoder = "v00" <=> layout # {}
  /\ decoder = "none" => section = {}
  /\ section # {} => header # {}
  /\ \A h \in header, s \in section : s.size = h.sections["constant"].size
  /\ decoder = "v00" => \A s \in section :
       /\ s.count \in Counts
       /\ s.metadata \in [1 .. MaxEntries -> Records]
       /\ layout \subseteq VerifiedLayout(s)

\* The last view came from getConstant on that section and layout.
ViewInv ==
  /\ view.idx \in 0 .. MaxEntries
  /\ \A range \in view.range :
       /\ decoder = "v00"
       /\ section # {}
       /\ \A s \in section : \E l \in layout : range \in GetConstant(s, l, view.idx)

DecoderInv == HeaderInv /\ SectionInv /\ ViewInv

--------------------------------------------------------------------------------
\* What a layout that passed _verify says of the section: it divides it, and
\* each record it counts is one that the section has, inside the payload.
LEMMA VerifiedLemma ==
  ASSUME NEW s, s.size \in U64, NEW range \in ConstantRanges, s.size = range.size,
         s.count \in Counts, s.metadata \in [1 .. MaxEntries -> Records],
         NEW l \in VerifiedLayout(s)
  PROVE  /\ s.size <= SizeMax
         /\ s.count \in 0 .. MaxEntries
         /\ l.payload.offset = CONSTANT_SECTION_METADATA_OFFSET + s.count * ConstantMetaDataSize
         /\ l.payload.offset \in U64
         /\ l.payload.offset + l.payload.size = s.size
         /\ l.payload.size \in U64
         /\ \A k \in 1 .. s.count : EntryValid(s.metadata[k], l.payload.size)
<1>1. /\ ~(s.size > SizeMax) /\ ~(s.size < 16)
      /\ ~(s.count > (s.size - 16) \div 24)
      /\ l \in splitFixedRecordTable(s.size, 16, 24, s.count)
      /\ \A k \in 1 .. s.count : EntryValid(s.metadata[k], l.payload.size)
  BY DEF VerifiedLayout, CONSTANT_SECTION_METADATA_OFFSET, ConstantMetaDataSize
<1>2. s.count \in U64 /\ s.size < 16 + (MaxEntries + 1) * 24 /\ MaxEntries \in Nat
  BY DecoderAssumption DEF CONSTANT_SECTION_METADATA_OFFSET, ConstantMetaDataSize
<1>3. s.size <= SizeMax /\ s.size >= 16 /\ s.count <= (s.size - 16) \div 24
  BY <1>1, <1>2, WordAssumption DEF U64
<1>4. s.count \in 0 .. MaxEntries
  BY <1>2, <1>3, WordAssumption DEF U64
<1>5. /\ l.payload.offset = 16 + s.count * 24
      /\ l.payload.offset <= s.size
      /\ l.payload.size = s.size - l.payload.offset
      /\ l.payload.offset \in U64
  <2>1. 16 \in U64 /\ 24 \in Nat
    BY <1>3, WordAssumption DEF U64
  <2>2. s.count \in U64
    BY <1>2
  <2>3. l \in splitFixedRecordTable(s.size, 16, 24, s.count)
    BY <1>1
  <2> DEFINE size == s.size
             count == s.count
  <2>4. size \in U64 /\ count \in U64 /\ l \in splitFixedRecordTable(size, 16, 24, count)
    BY <2>2, <2>3
  <2> HIDE DEF size, count
  <2>5. /\ l.payload.offset = 16 + count * 24 /\ l.payload.offset <= size
        /\ l.payload.size = size - l.payload.offset /\ l.payload.offset \in U64
    BY <2>1, <2>4, SplitLemma
  <2>6. QED
    BY <2>5 DEF size, count
<1>6. l.payload.offset + l.payload.size = s.size /\ l.payload.size \in U64
  BY <1>5, WordAssumption DEF U64
<1>7. l.payload.offset = CONSTANT_SECTION_METADATA_OFFSET + s.count * ConstantMetaDataSize
  BY <1>5 DEF CONSTANT_SECTION_METADATA_OFFSET, ConstantMetaDataSize
<1>8. \A k \in 1 .. s.count : EntryValid(s.metadata[k], l.payload.size)
  BY <1>1
<1>9. QED
  BY <1>3, <1>4, <1>5, <1>6, <1>7, <1>8

\* What getConstant returns lies after the records and in the section.
LEMMA GetConstantLemma ==
  ASSUME NEW s, s.size \in U64, NEW section_range \in ConstantRanges, s.size = section_range.size,
         s.count \in Counts, s.metadata \in [1 .. MaxEntries -> Records],
         NEW l \in VerifiedLayout(s), NEW idx \in 0 .. MaxEntries,
         NEW range \in GetConstant(s, l, idx)
  PROVE  /\ range.offset \in Nat /\ range.size \in Nat
         /\ range = [offset |-> range.offset, size |-> range.size]
         /\ range.offset >= CONSTANT_SECTION_METADATA_OFFSET + s.count * ConstantMetaDataSize
         /\ range.offset + range.size <= s.size
<1> DEFINE metadata == s.metadata[idx + 1]
<1>1. /\ ~(idx >= s.count)
      /\ ConstantDataWithinBounds(metadata, l.payload.size)
      /\ range = [offset |-> l.payload.offset + metadata.offset, size |-> metadata.size]
  BY DEF GetConstant
<1>2. /\ s.count \in 0 .. MaxEntries
      /\ l.payload.offset = CONSTANT_SECTION_METADATA_OFFSET + s.count * ConstantMetaDataSize
      /\ l.payload.offset \in U64 /\ l.payload.size \in U64
      /\ l.payload.offset + l.payload.size = s.size
  BY VerifiedLemma
<1>3. metadata \in Records
  <2>1. idx + 1 \in 1 .. MaxEntries
    BY <1>1, <1>2, DecoderAssumption
  <2>2. QED
    BY <2>1
<1>4. metadata.offset \in U64 /\ metadata.size \in U64
  BY <1>3, DecoderAssumption
<1> HIDE DEF metadata
<1>5. metadata.offset + metadata.size <= l.payload.size
  BY <1>1, <1>2, <1>4, WordAssumption
     DEF ConstantDataWithinBounds, ConstantDataRange, byteRangeWithinBounds, U64
<1>6. QED
  BY <1>1, <1>2, <1>4, <1>5, WordAssumption DEF U64

--------------------------------------------------------------------------------
\* Nothing is opened yet.
LEMMA DecoderInitInv == Init => DecoderInv
BY DecoderAssumption DEF Init, NoView, DecoderInv, HeaderInv, SectionInv, ViewInv

\* A decoder is created once, and its section comes from the one header.
LEMMA OpenConstantsInv ==
  ASSUME DecoderInv, OpenConstants
  PROVE  DecoderInv'
<1>1. PICK h \in header :
        LET range == h.sections["constant"]
        IN  \/ /\ decoder' = "refused"
               /\ UNCHANGED <<section, layout>>
            \/ \E count \in Counts, records \in [1 .. MaxEntries -> Records] :
                 LET candidate == [size |-> range.size, count |-> count, metadata |-> records]
                 IN  section' = {candidate} /\ CreateV00(candidate)
            \/ \E n \in 0 .. MaxEntries, verified \in BOOLEAN :
                 \E entries \in [1 .. n -> LegacyConstants] :
                   LET candidate == [size |-> range.size, entries |-> entries]
                   IN  section' = {candidate} /\ CreateLegacy(candidate, verified)
  BY DEF OpenConstants
<1>2. decoder = "none" /\ UNCHANGED <<fileSize, header, view>>
  BY DEF OpenConstants
<1>3. HeaderInv'
  BY <1>2 DEF DecoderInv, HeaderInv
<1>4. layout = {} /\ section = {} /\ view.range = {}
  BY <1>2 DEF DecoderInv, SectionInv, ViewInv
<1>5. ViewInv'
  BY <1>2, <1>4 DEF DecoderInv, ViewInv
<1>6. SectionInv'
  <2>1. CASE decoder' = "refused" /\ UNCHANGED <<section, layout>>
    BY <1>2, <1>4, <2>1 DEF SectionInv
  <2>2. ASSUME NEW count \in Counts, NEW records \in [1 .. MaxEntries -> Records],
               section' = {[size |-> h.sections["constant"].size, count |-> count,
                            metadata |-> records]},
               CreateV00([size |-> h.sections["constant"].size, count |-> count,
                          metadata |-> records])
        PROVE  SectionInv'
    BY <1>1, <1>2, <2>2 DEF SectionInv, CreateV00, DecoderInv, HeaderInv
  <2>3. ASSUME NEW n \in 0 .. MaxEntries, NEW verified \in BOOLEAN,
               NEW entries \in [1 .. n -> LegacyConstants],
               section' = {[size |-> h.sections["constant"].size, entries |-> entries]},
               CreateLegacy([size |-> h.sections["constant"].size, entries |-> entries], verified)
        PROVE  SectionInv'
    BY <1>1, <1>2, <2>3 DEF SectionInv, CreateLegacy, DecoderInv, HeaderInv
  <2>4. QED
    BY <1>1, <2>1, <2>2, <2>3
<1>7. QED
  BY <1>3, <1>5, <1>6 DEF DecoderInv

\* Opening the header, opening the constants and getConstant keep the
\* invariant.
LEMMA DecoderStepInv == DecoderInv /\ [Next]_vars => DecoderInv'
<1> SUFFICES ASSUME DecoderInv, [Next]_vars PROVE DecoderInv'
  OBVIOUS
<1>1. ASSUME NEW magic, NEW version \in Versions,
             NEW tables \in TableRanges, NEW constants \in ConstantRanges,
             CreateHeaderDecoder([magic |-> magic, version |-> version,
               sections |-> [name \in SectionNames |->
                               IF name = "constant" THEN constants ELSE tables]])
      PROVE  DecoderInv'
  <2> DEFINE candidate == [magic |-> magic, version |-> version,
                           sections |-> [name \in SectionNames |->
                                           IF name = "constant" THEN constants ELSE tables]]
  <2>1. /\ header = {} /\ header' = {candidate}
        /\ HeaderVerified(candidate, fileSize)
        /\ UNCHANGED <<fileSize, section, decoder, layout, view>>
    BY <1>1 DEF CreateHeaderDecoder
  <2>2. candidate.sections \in [SectionNames -> ByteRange] /\ candidate.version \in Versions
    BY DecoderAssumption
  <2>5. candidate.sections["constant"] \in ConstantRanges
    BY DEF SectionNames
  <2> HIDE DEF candidate
  <2>3. section = {}
    BY <2>1 DEF DecoderInv, SectionInv
  <2>4. QED
    BY <2>1, <2>2, <2>3, <2>5 DEF DecoderInv, HeaderInv, SectionInv, ViewInv
<1>2. ASSUME NEW idx \in 0 .. MaxEntries, GetConstantV00(idx)
      PROVE  DecoderInv'
  <2>1. PICK s \in section, l \in layout :
          view' = [idx |-> idx, range |-> GetConstant(s, l, idx)]
    BY <1>2 DEF GetConstantV00
  <2>2. decoder = "v00" /\ UNCHANGED <<fileSize, header, section, decoder, layout>>
    BY <1>2 DEF GetConstantV00
  <2>3. HeaderInv' /\ SectionInv'
    BY <2>2 DEF DecoderInv, HeaderInv, SectionInv
  <2>4. \A s2 \in section : s2 = s
    BY DEF DecoderInv, SectionInv
  <2>5. ViewInv'
    BY <2>1, <2>2, <2>4 DEF ViewInv
  <2>6. QED
    BY <2>3, <2>5 DEF DecoderInv
<1>3. CASE UNCHANGED vars
  BY <1>3 DEF vars, DecoderInv, HeaderInv, SectionInv, ViewInv
<1>4. QED
  BY <1>1, <1>2, <1>3, OpenConstantsInv DEF Next

--------------------------------------------------------------------------------
\* The invariant implies the properties TLC checks.

\* The bounds of a view: those of getConstant inside the section, and those
\* of the header check inside the file.
LEMMA ViewsLemma == DecoderInv => ViewsInFile
<1> SUFFICES ASSUME DecoderInv, NEW range \in view.range, NEW h \in header, NEW s \in section
             PROVE  LET start == h.sections["constant"].offset
                    IN  /\ range.offset >= CONSTANT_SECTION_METADATA_OFFSET
                                             + s.count * ConstantMetaDataSize
                        /\ range.offset + range.size <= s.size
                        /\ start + range.offset + range.size <= fileSize
                        /\ range.offset + range.size <= SizeMax
  BY DEF ViewsInFile
<1>1. PICK l \in layout : range \in GetConstant(s, l, view.idx)
  BY DEF DecoderInv, ViewInv
<1>2. /\ s.count \in Counts /\ s.metadata \in [1 .. MaxEntries -> Records]
      /\ l \in VerifiedLayout(s) /\ view.idx \in 0 .. MaxEntries
  BY DEF DecoderInv, SectionInv, ViewInv
<1> DEFINE declared == h.sections["constant"]
<1>3. declared \in ConstantRanges /\ s.size = declared.size /\ declared \in ByteRange
  BY DecoderAssumption DEF DecoderInv, HeaderInv, SectionInv
<1>4. fileSize \in U64 /\ Within(declared, fileSize)
  BY DecoderAssumption DEF DecoderInv, HeaderInv, HeaderVerified, validateSectionsSizesInHeader,
     SectionNames
<1> HIDE DEF declared
<1>5. s.size \in U64 /\ declared.offset \in U64
  BY <1>3 DEF ByteRange
<1>6. s.size <= SizeMax
  BY <1>2, <1>3, <1>5, VerifiedLemma
<1>7. /\ range.offset \in Nat /\ range.size \in Nat
      /\ range.offset >= CONSTANT_SECTION_METADATA_OFFSET + s.count * ConstantMetaDataSize
      /\ range.offset + range.size <= s.size
  BY <1>1, <1>2, <1>3, <1>5, GetConstantLemma
<1>8. declared.offset + s.size <= fileSize
  BY <1>3, <1>4, <1>5, WordAssumption DEF Within, U64
<1>9. range.offset + range.size <= SizeMax /\ declared.offset + range.offset + range.size <= fileSize
  BY <1>4, <1>5, <1>6, <1>7, <1>8, WordAssumption DEF U64
<1>10. QED
  BY <1>7, <1>9 DEF declared

\* What _verify established of each record is all that getConstant asks for.
LEMMA CountedLemma == DecoderInv => CountedAreServed
<1> SUFFICES ASSUME DecoderInv, decoder = "v00", NEW s \in section, NEW l \in layout
             PROVE  /\ \A idx \in 0 .. MaxEntries : GetConstant(s, l, idx) # {} <=> idx < s.count
                    /\ \A k \in 1 .. s.count : ~SparsityBelow(s.metadata[k].sparsityDimension)
  BY DEF CountedAreServed
<1>1. PICK h \in header : s.size = h.sections["constant"].size
  BY DEF DecoderInv, SectionInv
<1>2. /\ h.sections["constant"] \in ConstantRanges /\ s.size \in U64
      /\ s.count \in Counts /\ s.metadata \in [1 .. MaxEntries -> Records]
      /\ l \in VerifiedLayout(s)
  BY <1>1, DecoderAssumption DEF DecoderInv, HeaderInv, SectionInv, ByteRange
<1>3. s.count \in 0 .. MaxEntries /\ \A k \in 1 .. s.count : EntryValid(s.metadata[k], l.payload.size)
  BY <1>1, <1>2, VerifiedLemma
<1>4. ASSUME NEW idx \in 0 .. MaxEntries
      PROVE  GetConstant(s, l, idx) # {} <=> idx < s.count
  <2>1. idx < s.count => idx + 1 \in 1 .. s.count
    BY <1>3
  <2>2. idx < s.count => ConstantDataWithinBounds(s.metadata[idx + 1], l.payload.size)
    BY <1>3, <2>1 DEF EntryValid
  <2>3. idx < s.count <=> ~(idx >= s.count)
    BY <1>3
  <2>4. QED
    BY <2>2, <2>3 DEF GetConstant
<1>5. ASSUME NEW k \in 1 .. s.count
      PROVE  ~SparsityBelow(s.metadata[k].sparsityDimension)
  <2>1. s.metadata[k] \in Records
    BY <1>2, <1>3, DecoderAssumption
  <2>2. s.metadata[k].sparsityDimension \in Int
    BY <2>1, DecoderAssumption
  <2>3. QED
    BY <1>3, <2>2 DEF EntryValid, SparsityBelow, CONSTANT_NOT_SPARSE_DIMENSION
<1>6. QED
  BY <1>4, <1>5

\* The header check leaves at least one byte of the file at the offset of a
\* section that is not empty.
LEMMA MappedLemma == DecoderInv => CheckedIsMapped
<1> SUFFICES ASSUME DecoderInv, NEW h \in header, NEW name \in SectionNames,
                    h.sections[name].size > 0
             PROVE  Mapped(h.sections[name].offset)
  BY DEF CheckedIsMapped
<1>1. fileSize \in U64 /\ Within(h.sections[name], fileSize) /\ h.sections[name] \in ByteRange
  BY DecoderAssumption DEF DecoderInv, HeaderInv, HeaderVerified, validateSectionsSizesInHeader
<1>2. QED
  BY <1>1, WordAssumption DEF Within, Mapped, ByteRange, U64

\* A view that is in the section is a range of 64-bit numbers.
LEMMA TypedLemma == DecoderInv => TypeOK
<1> SUFFICES ASSUME DecoderInv PROVE TypeOK
  OBVIOUS
<1>1. ASSUME NEW range \in view.range PROVE range \in ByteRange
  <2>1. PICK s \in section : s.size \in U64
    BY DecoderAssumption DEF DecoderInv, HeaderInv, SectionInv, ViewInv, ByteRange
  <2>2. PICK h \in header : s.size = h.sections["constant"].size
    BY DEF DecoderInv, SectionInv
  <2>3. PICK l \in layout : range \in GetConstant(s, l, view.idx)
    BY DEF DecoderInv, ViewInv
  <2>4. /\ s.count \in Counts /\ s.metadata \in [1 .. MaxEntries -> Records]
        /\ l \in VerifiedLayout(s) /\ view.idx \in 0 .. MaxEntries
        /\ h.sections["constant"] \in ConstantRanges
    BY DEF DecoderInv, HeaderInv, SectionInv, ViewInv
  <2>5. /\ range.offset \in Nat /\ range.size \in Nat
        /\ range = [offset |-> range.offset, size |-> range.size]
        /\ range.offset + range.size <= s.size
    BY <2>1, <2>2, <2>3, <2>4, GetConstantLemma
  <2>6. range.offset \in U64 /\ range.size \in U64
    BY <2>1, <2>5, WordAssumption DEF U64
  <2>7. QED
    BY <2>5, <2>6 DEF ByteRange
<1>2. QED
  BY <1>1 DEF TypeOK, DecoderInv, HeaderInv, SectionInv, ViewInv

\* DecoderInv holds throughout.
LEMMA DecoderInvariance == Spec => []DecoderInv
BY DecoderInitInv, DecoderStepInv, PTL DEF Spec

\* The decoder keeps its types: above all, no view has an offset or a size
\* that left the 64-bit word.
THEOREM DecoderTypeCorrect == Spec => []TypeOK
BY DecoderInvariance, TypedLemma, PTL

\* For every file, every view getConstant returns is inside the file, inside
\* the constant section and after its metadata records.
THEOREM ViewsAreInFile == Spec => []ViewsInFile
BY DecoderInvariance, ViewsLemma, PTL

\* A decoder that was created serves exactly the constants it counts.
THEOREM CountedAreAllServed == Spec => []CountedAreServed
BY DecoderInvariance, CountedLemma, PTL

\* A nonempty section of a verified header starts inside the file.
THEOREM CheckedSectionsMap == Spec => []CheckedIsMapped
BY DecoderInvariance, MappedLemma, PTL

--------------------------------------------------------------------------------
\* TableRelay.  An optional of S, and what its user takes it for.
LEMMA OrLemma ==
  /\ \A x, default : Or({x}, default) = x
  /\ \A default : Or({}, default) = default
BY DEF Or

OptionalFacts(held, empty) ==
  /\ held = {} \/ \E x : held = {x}
  /\ Or(NotEmpty(held, empty), empty) = Or(held, empty)
  /\ Or({Or(held, empty)}, empty) = Or(held, empty)
  /\ NotEmpty({Or(held, empty)}, empty) = NotEmpty(held, empty)
  /\ {Or(held, empty)} \ {empty} = NotEmpty(held, empty)
  /\ NotEmpty(held, empty) = {} <=> Or(held, empty) = empty
  /\ NotEmpty(NotEmpty(held, empty), empty) = NotEmpty(held, empty)
  /\ (\E x \in held : x # empty) <=> Or(held, empty) # empty

LEMMA OptionalLemma ==
  ASSUME NEW S, NEW held \in Optional(S), NEW empty
  PROVE  OptionalFacts(held, empty)
<1>1. ASSUME NEW x \in S, held = {x}, x = empty PROVE NotEmpty(held, empty) = {} /\ Or(held, empty) = empty
  BY <1>1, OrLemma DEF NotEmpty
<1>2. ASSUME NEW x \in S, held = {x}, x # empty PROVE NotEmpty(held, empty) = {x} /\ Or(held, empty) = x
  BY <1>2, OrLemma DEF NotEmpty
<1>3. held = {} \/ \E x \in S : held = {x}
  BY DEF Optional
<1>4. ASSUME NEW x \in S, held = {x}
      PROVE  /\ Or(NotEmpty(held, empty), empty) = Or(held, empty)
             /\ Or({Or(held, empty)}, empty) = Or(held, empty)
             /\ NotEmpty({Or(held, empty)}, empty) = NotEmpty(held, empty)
             /\ {Or(held, empty)} \ {empty} = NotEmpty(held, empty)
             /\ NotEmpty(held, empty) = {} <=> Or(held, empty) = empty
             /\ NotEmpty(NotEmpty(held, empty), empty) = NotEmpty(held, empty)
             /\ (\E y \in held : y # empty) <=> Or(held, empty) # empty
  <2>1. CASE x = empty
    BY <1>1, <1>4, <2>1, OrLemma DEF NotEmpty
  <2>2. CASE x # empty
    BY <1>2, <1>4, <2>2, OrLemma DEF NotEmpty
  <2>3. QED
    BY <2>1, <2>2
<1>5. CASE held = {}
  <2>1. NotEmpty(held, empty) = {} /\ Or(held, empty) = empty /\ NotEmpty({empty}, empty) = {}
    BY <1>5, OrLemma DEF NotEmpty
  <2>2. QED
    BY <1>5, <2>1, OrLemma DEF NotEmpty, OptionalFacts
<1>6. QED
  BY <1>3, <1>4, <1>5 DEF OptionalFacts

\* What a client has read, for the element that is stored.
RelayInv ==
  /\ element \in StoredIn(table)
  /\ table \in {"module", "resource", "segment", "sequence", "constant"} /\ api \in APIs
  /\ answers \subseteq {Answers(api, table, element)}
  /\ \A c \in copy : c = Copied(api, table, Answers(api, table, element), moduleRefToType)
  /\ copy # {} => answers # {} /\ ~NotEncodable(table, Answers(api, table, element))
  /\ answers # {} => reader = "open"
  /\ reader = "open" /\ table = "segment" => VerifySemantic(element)
  /\ table = "segment" => moduleType \in {"COMPUTE", "GRAPH", Unknown}

LEMMA RelayInvariant == RelaySpec => []RelayInv
<1>1. RelayInit => RelayInv
  BY DEF RelayInit, RelayInv
<1>2. RelayInv /\ [RelayNext]_relayVars => RelayInv'
  <2> SUFFICES ASSUME RelayInv, [RelayNext]_relayVars PROVE RelayInv'
    OBVIOUS
  <2> DEFINE told == Answers(api, table, element)
             stored == Copied(api, table, told, moduleRefToType)
             takes == ~NotEncodable(table, told)
  <2>1. ASSUME NEW size \in BufferSizes, NEW aligned \in BOOLEAN, NEW intact \in BOOLEAN,
               CreateDecoder([size |-> size, aligned |-> aligned, intact |-> intact])
        PROVE  RelayInv'
    <3>1. /\ UNCHANGED <<table, element, moduleType, api, answers, threw, copy>>
          /\ reader = "none"
          /\ reader' = "open" /\ table = "segment" => VerifySemantic(element)
      BY <2>1 DEF CreateDecoder, Accepted
    <3>2. QED
      BY <3>1 DEF RelayInv, moduleRefToType
  <2>2. CASE ReadElement
    <3>1. UNCHANGED <<table, element, moduleType, api, reader, copy>> /\ reader = "open" /\ answers' = {told}
      BY <2>2 DEF ReadElement
    <3>2. QED
      BY <3>1 DEF RelayInv, moduleRefToType
  <2>3. CASE GiveUp
    <3>1. UNCHANGED <<table, element, moduleType, api, reader, answers, copy>>
      BY <2>3 DEF GiveUp
    <3>2. QED
      BY <3>1 DEF RelayInv, moduleRefToType
  <2>4. CASE CopyElement
    <3>1. PICK a \in answers : ~NotEncodable(table, a) /\ copy' = {Copied(api, table, a, moduleRefToType)}
      BY <2>4 DEF CopyElement
    <3>2. a = told
      BY DEF RelayInv, moduleRefToType
    <3>3. takes /\ copy' = {stored} /\ answers # {}
      BY <3>1, <3>2
    <3>4. UNCHANGED <<table, element, moduleType, api, reader, answers>>
      BY <2>4 DEF CopyElement
    <3>5. QED
      BY <3>3, <3>4 DEF RelayInv, moduleRefToType
  <2>5. CASE UNCHANGED relayVars
    BY <2>5 DEF relayVars, RelayInv, moduleRefToType
  <2>6. QED
    BY <2>1, <2>2, <2>3, <2>4, <2>5 DEF RelayNext
<1>3. QED
  BY <1>1, <1>2, PTL DEF RelaySpec

--------------------------------------------------------------------------------
\* Modules.  What each API says of one comes to the same.
Source(m, kind) == Or(CodeField(m, kind), "")

ModuleSays(a, m) ==
  /\ a.type = fromVGFModuleType(m.type)
  /\ Or(a.name, "") = Or(m.name, "") /\ Or(a.entryPoint, "") = Or(m.entryPoint, "")
  /\ a.is = {kind \in Kinds : m.codeType = kind}
  /\ \A kind \in Kinds : /\ kind \in a.has <=> Source(m, kind) # ""
                         /\ Or(a.code[kind], "") = Source(m, kind)
                         /\ NotEmpty(a.code[kind], "") = {} <=> Source(m, kind) = ""

LEMMA CodeLemma ==
  ASSUME NEW m \in Module, NEW kind \in Kinds
  PROVE  CodeField(m, kind) \in Optional(Texts)
<1>1. m.code \in Optional(SPIRV \cup GLSL \cup HLSL)
  BY DEF Module
<1>2. SPIRV \cup GLSL \cup HLSL = Optional(Texts)
  BY DEF SPIRV, GLSL, HLSL
<1>3. UNION m.code \in Optional(Texts)
  <2>1. CASE m.code = {}
    <3>1. {} \in Optional(Texts)
      BY DEF Optional
    <3>2. QED
      BY <2>1, <3>1
  <2>2. CASE \E x \in Optional(Texts) : m.code = {x}
    <3>1. PICK x \in Optional(Texts) : m.code = {x}
      BY <2>2
    <3>2. UNION {x} = x
      OBVIOUS
    <3>3. QED
      BY <3>1, <3>2
  <2>3. QED
    BY <1>1, <1>2, <2>1, <2>2 DEF Optional
<1>4. {} \in Optional(Texts)
  BY DEF Optional
<1>5. QED
  BY <1>3, <1>4 DEF CodeField

LEMMA ModuleAnswers ==
  ASSUME NEW m \in Module, NEW with \in APIs
  PROVE  ModuleSays(Answers(with, "module", m), m)
<1> DEFINE code(kind) == CodeField(m, kind)
<1>1. m.name \in Optional(Texts) /\ m.entryPoint \in Optional(Texts)
  BY DEF Module
<1>2. ASSUME NEW kind \in Kinds
      PROVE  /\ Or(NotEmpty(code(kind), ""), "") = Source(m, kind)
             /\ Or({Source(m, kind)}, "") = Source(m, kind)
             /\ NotEmpty({Source(m, kind)}, "") = {} <=> Source(m, kind) = ""
             /\ NotEmpty(code(kind), "") = {} <=> Source(m, kind) = ""
             /\ NotEmpty(NotEmpty(code(kind), ""), "") = {} <=> Source(m, kind) = ""
             /\ HasCode(m, kind) <=> Source(m, kind) # ""
  <2> DEFINE f == code(kind)
  <2>1. f \in Optional(Texts)
    BY CodeLemma
  <2>2. Source(m, kind) = Or(f, "") /\ (HasCode(m, kind) <=> \E x \in f : x # "")
    BY DEF Source, HasCode
  <2> HIDE DEF f, code
  <2>3. OptionalFacts(f, "")
    BY <2>1, OptionalLemma
  <2>4. QED
    BY <2>2, <2>3 DEF OptionalFacts, f
<1>3. /\ Or({Or(m.name, "")}, "") = Or(m.name, "")
      /\ Or({Or(m.entryPoint, "")}, "") = Or(m.entryPoint, "")
  BY OrLemma
<1>4. ModuleSays(getModule(m), m)
  <2> DEFINE a == getModule(m)
  <2>1. /\ a.type = fromVGFModuleType(m.type) /\ a.name = m.name /\ a.entryPoint = m.entryPoint
        /\ a.is = {kind \in Kinds : m.codeType = kind} /\ a.has = {kind \in Kinds : HasCode(m, kind)}
        /\ \A kind \in Kinds : a.code[kind] = code(kind)
    BY DEF getModule
  <2> HIDE DEF a, code
  <2>2. ModuleSays(a, m)
    BY <1>2, <2>1 DEF ModuleSays, Source, code
  <2>3. QED
    BY <2>2 DEF a
<1>5. ModuleSays(cModule(m), m)
  <2> DEFINE a == cModule(m)
  <2>1. /\ a.type = fromVGFModuleType(m.type) /\ a.name = m.name /\ a.entryPoint = m.entryPoint
        /\ a.is = {kind \in Kinds : m.codeType = kind} /\ a.has = {kind \in Kinds : HasCode(m, kind)}
    BY DEF cModule, getModule
  <2>2. \A kind \in Kinds : a.code[kind] = code(kind) \/ a.code[kind] = NotEmpty(code(kind), "")
    BY DEF cModule, getModule, Kinds
  <2> HIDE DEF a, code
  <2>3. ModuleSays(a, m)
    BY <1>2, <2>1, <2>2 DEF ModuleSays, Source, code
  <2>4. QED
    BY <2>3 DEF a
<1>6. ModuleSays(pyModule(m), m)
  <2> DEFINE a == pyModule(m)
  <2>1. /\ a.type = fromVGFModuleType(m.type)
        /\ a.name = {Or(m.name, "")} /\ a.entryPoint = {Or(m.entryPoint, "")}
        /\ a.is = {kind \in Kinds : m.codeType = kind} /\ a.has = {kind \in Kinds : HasCode(m, kind)}
    BY DEF pyModule, pyStr, getModule
  <2>2. \A kind \in Kinds : a.code[kind] = NotEmpty(code(kind), "") \/ a.code[kind] = {Source(m, kind)}
    BY DEF pyModule, getModule, pyDataView, pyStr, Kinds, Source
  <2> HIDE DEF a, code
  <2>3. ModuleSays(a, m)
    BY <1>2, <1>3, <2>1, <2>2 DEF ModuleSays, Source, code
  <2>4. QED
    BY <2>3 DEF a
<1>7. QED
  BY <1>4, <1>5, <1>6 DEF Answers, APIs

\* What they all store of a module whose kind is known.
ModuleKept(m) ==
  EncodedModule(fromVGFModuleType(m.type), Or(m.name, ""), Or(m.entryPoint, ""), m.codeType,
                Source(m, m.codeType))

LEMMA ModuleCopies ==
  ASSUME NEW m \in Module, NEW with \in APIs, ~NotEncodable("module", Answers(with, "module", m)),
         NEW types
  PROVE  m.codeType \in Kinds /\ Copied(with, "module", Answers(with, "module", m), types) = ModuleKept(m)
<1> DEFINE a == Answers(with, "module", m)
<1>1. ModuleSays(a, m)
  BY ModuleAnswers
<1>2. a.is # {}
  BY DEF NotEncodable
<1> HIDE DEF a
<1>3. m.codeType \in Kinds /\ a.is = {m.codeType}
  BY <1>1, <1>2 DEF ModuleSays
<1>4. KindOf(a) = m.codeType
  BY <1>3 DEF KindOf
<1>5. /\ a.type = fromVGFModuleType(m.type)
      /\ Or(a.name, "") = Or(m.name, "") /\ Or(a.entryPoint, "") = Or(m.entryPoint, "")
      /\ Or(a.code[m.codeType], "") = Source(m, m.codeType)
  BY <1>1, <1>3 DEF ModuleSays
<1>6. CopiedModule(with, a) = ModuleKept(m)
  <2>1. CASE with = "C++"
    <3> DEFINE p == ParsedModule(a)
    <3>1. a = getModule(m)
      BY <2>1 DEF a, Answers
    <3>2. /\ p.type = a.type /\ p.name = Or(a.name, "") /\ p.entryPoint = Or(a.entryPoint, "")
          /\ p.is = a.is /\ p.code[m.codeType] = Or(a.code[m.codeType], "")
      BY <1>3, <3>1 DEF ParsedModule, getModule
    <3> HIDE DEF p
    <3>3. KindOf(p) = m.codeType
      BY <1>3, <3>2 DEF KindOf
    <3>4. CopiedModule(with, a) = EncodedModule(p.type, p.name, p.entryPoint, KindOf(p), p.code[KindOf(p)])
      BY <2>1 DEF CopiedModule, p
    <3>5. QED
      BY <1>5, <3>2, <3>3, <3>4 DEF ModuleKept
  <2>2. CASE with = "C"
    BY <1>4, <1>5, <2>2 DEF CopiedModule, cAddModule, toString, ModuleKept
  <2>3. CASE with = "Python"
    BY <1>4, <1>5, <2>3 DEF CopiedModule, pyAddModule, ModuleKept
  <2>4. QED
    BY <2>1, <2>2, <2>3 DEF APIs
<1>7. QED
  BY <1>3, <1>6 DEF Copied, a

\* The copy is a module again, and the reader's record of it the same.
LEMMA ParsedModuleIs ==
  ASSUME NEW m
  PROVE  ParsedModule(getModule(m)) =
           [type |-> fromVGFModuleType(m.type), name |-> Or(m.name, ""),
            entryPoint |-> Or(m.entryPoint, ""),
            is |-> {kind \in Kinds : m.codeType = kind}, has |-> {kind \in Kinds : HasCode(m, kind)},
            code |-> [kind \in Kinds |-> Source(m, kind)]]
<1> DEFINE a == getModule(m)
           type == fromVGFModuleType(m.type)
           name == m.name
           entryPoint == m.entryPoint
           is == {kind \in Kinds : m.codeType = kind}
           has == {kind \in Kinds : HasCode(m, kind)}
           code == [kind \in Kinds |-> CodeField(m, kind)]
           name2 == Or(a.name, "")
           entryPoint2 == Or(a.entryPoint, "")
           code2 == [kind \in Kinds |-> Or(a.code[kind], "")]
           source == [kind \in Kinds |-> Source(m, kind)]
<1>1. a = [type |-> type, name |-> name, entryPoint |-> entryPoint, is |-> is, has |-> has, code |-> code]
  BY DEF getModule
<1>2. ParsedModule(a) = [a EXCEPT !.name = name2, !.entryPoint = entryPoint2, !.code = code2]
  BY DEF ParsedModule
<1>3. code2 = source
  <2>1. a.code = code
    <3> HIDE DEF a, code, is, has
    <3>1. QED
      BY <1>1
  <2>2. \A kind \in Kinds : a.code[kind] = CodeField(m, kind)
    BY <2>1
  <2> HIDE DEF a
  <2>3. QED
    BY <2>2 DEF Source
<1> HIDE DEF a, type, name, entryPoint, is, has, code, name2, entryPoint2, code2, source
<1>4. a.name = name /\ a.entryPoint = entryPoint
  BY <1>1
<1>5. ParsedModule(a) =
        [type |-> type, name |-> name2, entryPoint |-> entryPoint2, is |-> is, has |-> has, code |-> code2]
  BY <1>1, <1>2
<1>6. name2 = Or(name, "") /\ entryPoint2 = Or(entryPoint, "")
  BY <1>4 DEF name2, entryPoint2
<1>7. QED
  BY <1>3, <1>5, <1>6 DEF a, type, name, entryPoint, is, has, source

LEMMA TypeLemma ==
  ASSUME NEW type \in {"COMPUTE", "GRAPH", Unknown}
  PROVE  /\ fromVGFModuleType(type) \in {"COMPUTE", "GRAPH"}
         /\ fromVGFModuleType(fromVGFModuleType(type)) = fromVGFModuleType(type)
         /\ ~Asserts(fromVGFModuleType(type))
BY DEF fromVGFModuleType, Asserts, Unknown

LEMMA TextLemma ==
  ASSUME NEW held \in Optional(Texts)
  PROVE  Or(held, "") \in Texts /\ {Or(held, "")} \in Optional(Texts)
<1>1. Or(held, "") \in Texts
  <2>1. CASE held = {}
    BY <2>1, OrLemma, FormatAssumption
  <2>2. ASSUME NEW x \in Texts, held = {x} PROVE Or(held, "") = x
    BY <2>2, OrLemma
  <2>3. QED
    BY <2>1, <2>2 DEF Optional
<1>2. QED
  BY <1>1 DEF Optional

LEMMA ModuleMeaning ==
  ASSUME NEW m \in Module, m.codeType \in Kinds
  PROVE  /\ ModuleKept(m) \in Module
         /\ ModuleKept(m).type = fromVGFModuleType(m.type)
         /\ ModuleKept(m).codeType \in Kinds
         /\ Meaning("module", ModuleKept(m)) = Meaning("module", m)
<1> DEFINE c == ModuleKept(m)
           text == Source(m, m.codeType)
           type == fromVGFModuleType(m.type)
           name == {Or(m.name, "")}
           entryPoint == {Or(m.entryPoint, "")}
           code == {{t} : t \in {text} \ {""}}
<1>1. c = [type |-> type, name |-> name, entryPoint |-> entryPoint, codeType |-> m.codeType, code |-> code]
  BY DEF ModuleKept, EncodedModule
<1>2. /\ m.type \in {"COMPUTE", "GRAPH", Unknown}
      /\ m.name \in Optional(Texts) /\ m.entryPoint \in Optional(Texts)
  BY DEF Module
<1>3. /\ type \in {"COMPUTE", "GRAPH"} /\ fromVGFModuleType(type) = type /\ ~Asserts(type)
      /\ name \in Optional(Texts) /\ entryPoint \in Optional(Texts)
      /\ Or(name, "") = Or(m.name, "") /\ Or(entryPoint, "") = Or(m.entryPoint, "")
  BY <1>2, TypeLemma, TextLemma, OrLemma
<1>4. text \in Texts
  BY CodeLemma, TextLemma DEF Source
<1>5. UNION code = {text} \ {""}
  OBVIOUS
<1>6. code \in Optional(SPIRV \cup GLSL \cup HLSL)
  <2>1. code = {} \/ code = {{text}}
    OBVIOUS
  <2>2. {text} \in SPIRV \cup GLSL \cup HLSL
    BY <1>4 DEF SPIRV, Optional
  <2> HIDE DEF code
  <2>3. QED
    BY <2>1, <2>2 DEF Optional
<1> HIDE DEF c, text, type, name, entryPoint, code
<1>7. /\ c.type = type /\ c.name = name /\ c.entryPoint = entryPoint /\ c.codeType = m.codeType
      /\ c.code = code
  BY <1>1
<1>8. c \in Module
  BY <1>1, <1>3, <1>6 DEF Module
<1>9. ASSUME NEW kind \in Kinds
      PROVE  Source(c, kind) = Source(m, kind) /\ (HasCode(c, kind) <=> HasCode(m, kind))
  <2>1. CASE m.codeType = kind
    <3> DEFINE f == CodeField(m, kind)
    <3>1. f \in Optional(Texts) /\ text = Or(f, "")
      BY <2>1, CodeLemma DEF text, Source
    <3>2. CodeField(c, kind) = {text} \ {""}
      BY <1>5, <1>7, <2>1 DEF CodeField
    <3> HIDE DEF f
    <3>3. OptionalFacts(f, "")
      BY <3>1, OptionalLemma
    <3>4. Or({text} \ {""}, "") = text /\ ((\E x \in {text} \ {""} : x # "") <=> text # "")
      <4>1. CASE text = ""
        <5>1. {text} \ {""} = {}
          BY <4>1
        <5>2. QED
          BY <4>1, <5>1, OrLemma
      <4>2. CASE text # ""
        <5>1. {text} \ {""} = {text}
          BY <4>2
        <5>2. QED
          BY <4>2, <5>1, OrLemma
      <4>3. QED
        BY <4>1, <4>2
    <3>5. (\E x \in f : x # "") <=> text # ""
      BY <3>1, <3>3 DEF OptionalFacts
    <3>6. QED
      BY <3>1, <3>2, <3>4, <3>5 DEF Source, HasCode, f
  <2>2. CASE m.codeType # kind
    BY <1>7, <2>2 DEF CodeField, Source, HasCode
  <2>3. QED
    BY <2>1, <2>2
<1>10. Meaning("module", c) = Meaning("module", m)
  <2>1. /\ [kind \in Kinds |-> Source(c, kind)] = [kind \in Kinds |-> Source(m, kind)]
        /\ {kind \in Kinds : HasCode(c, kind)} = {kind \in Kinds : HasCode(m, kind)}
        /\ {kind \in Kinds : c.codeType = kind} = {kind \in Kinds : m.codeType = kind}
    BY <1>7, <1>9
  <2>2. /\ fromVGFModuleType(c.type) = fromVGFModuleType(m.type)
        /\ Or(c.name, "") = Or(m.name, "") /\ Or(c.entryPoint, "") = Or(m.entryPoint, "")
    BY <1>3, <1>7 DEF type
  <2>3. ParsedModule(getModule(c)) = ParsedModule(getModule(m))
    BY <2>1, <2>2, ParsedModuleIs
  <2>4. Meaning("module", c) = ParsedModule(getModule(c)) /\ Meaning("module", m) = ParsedModule(getModule(m))
    BY DEF Meaning, Answers
  <2>5. QED
    BY <2>3, <2>4
<1>11. QED
  <2>1. ModuleKept(m) = c /\ type = fromVGFModuleType(m.type)
    BY DEF c, type
  <2>2. QED
    BY <2>1, <1>7, <1>8, <1>10

--------------------------------------------------------------------------------
\* Resources.
ResourceSays(a, e) ==
  LET r == getResource(e)
  IN  /\ a.category = r.category /\ a.descriptorType = r.descriptorType /\ a.format = r.format
      /\ a.aliasGroup = r.aliasGroup /\ a.sampler = r.sampler
      /\ Or(a.shape, <<>>) = Or(r.shape, <<>>) /\ Or(a.strides, <<>>) = Or(r.strides, <<>>)

\* The fields of getResource, and the sets they are in.
LEMMA ResourceLemma ==
  ASSUME NEW e \in ModelResourceTableEntry
  PROVE  LET r == getResource(e)
         IN  /\ r = [category |-> r.category, descriptorType |-> r.descriptorType, format |-> r.format,
                     aliasGroup |-> r.aliasGroup, shape |-> r.shape, strides |-> r.strides,
                     sampler |-> r.sampler]
             /\ r.category \in KnownCategories
             /\ r.descriptorType = {e.descriptorType} \ {NoDescriptorType}
             /\ r.aliasGroup = {e.aliasGroupId} \ {U32Max}
             /\ r.shape \in Optional(Shapes) /\ r.strides \in Optional(Shapes)
             /\ r.sampler \in Optional(SamplerConfigs)
<1> DEFINE r == getResource(e)
<1>1. /\ e.category \in KnownCategories \cup {Unknown}
      /\ e.description \in Optional(Description) /\ e.extraConfig \in Optional(SamplerConfigs)
  BY DEF ModelResourceTableEntry
<1>2. r.category \in KnownCategories
  BY <1>1 DEF getResource, fromVGFResourceCategory, KnownCategories
<1>3. UNION {d.shape : d \in e.description} \in Optional(Shapes)
      /\ UNION {d.strides : d \in e.description} \in Optional(Shapes)
  <2>1. CASE e.description = {}
    <3>1. UNION {d.shape : d \in e.description} = {} /\ UNION {d.strides : d \in e.description} = {}
      BY <2>1
    <3>2. QED
      BY <3>1 DEF Optional
  <2>2. ASSUME NEW d \in Description, e.description = {d}
        PROVE  UNION {x.shape : x \in e.description} = d.shape
               /\ UNION {x.strides : x \in e.description} = d.strides
    <3>1. {x.shape : x \in e.description} = {d.shape} /\ {x.strides : x \in e.description} = {d.strides}
      BY <2>2
    <3>2. QED
      BY <3>1
  <2>3. \A d \in Description : d.shape \in Optional(Shapes) /\ d.strides \in Optional(Shapes)
    BY DEF Description
  <2>4. e.description = {} \/ \E d \in Description : e.description = {d}
    BY <1>1 DEF Optional
  <2>5. QED
    BY <2>1, <2>2, <2>3, <2>4
<1>4. r.shape \in Optional(Shapes) /\ r.strides \in Optional(Shapes)
  BY <1>3 DEF getResource
<1>5. r.sampler \in Optional(SamplerConfigs)
  BY <1>1 DEF getResource, Optional
<1>6. r = [category |-> r.category, descriptorType |-> r.descriptorType, format |-> r.format,
           aliasGroup |-> r.aliasGroup, shape |-> r.shape, strides |-> r.strides, sampler |-> r.sampler]
  BY DEF getResource
<1>7. /\ r.descriptorType = {e.descriptorType} \ {NoDescriptorType}
      /\ r.aliasGroup = {e.aliasGroupId} \ {U32Max}
  BY DEF getResource
<1>8. QED
  BY <1>2, <1>4, <1>5, <1>6, <1>7

LEMMA ResourceAnswers ==
  ASSUME NEW e \in ModelResourceTableEntry, NEW with \in APIs
  PROVE  ResourceSays(Answers(with, "resource", e), e)
<1> DEFINE r == getResource(e)
<1>1. r.shape \in Optional(Shapes) /\ r.strides \in Optional(Shapes)
  BY ResourceLemma
<1>2. /\ Or(NotEmpty(r.shape, <<>>), <<>>) = Or(r.shape, <<>>)
      /\ Or(NotEmpty(r.strides, <<>>), <<>>) = Or(r.strides, <<>>)
  <2> HIDE DEF r
  <2>1. OptionalFacts(r.shape, <<>>) /\ OptionalFacts(r.strides, <<>>)
    BY <1>1, OptionalLemma
  <2>2. QED
    BY <2>1 DEF OptionalFacts
<1>3. CASE with = "C++"
  BY <1>3 DEF Answers, ResourceSays
<1>4. CASE with = "C"
  <2> DEFINE a == cResource(e)
  <2>1. /\ a.category = r.category /\ a.descriptorType = r.descriptorType /\ a.format = r.format
        /\ a.aliasGroup = r.aliasGroup /\ a.sampler = r.sampler /\ a.shape = r.shape /\ a.strides = r.strides
    BY DEF cResource, cOptional, getResource
  <2>2. Answers(with, "resource", e) = a
    BY <1>4 DEF Answers
  <2> HIDE DEF a
  <2>3. QED
    BY <2>1, <2>2 DEF ResourceSays
<1>5. CASE with = "Python"
  <2> DEFINE a == pyResource(e)
  <2>1. /\ a.category = r.category /\ a.descriptorType = r.descriptorType /\ a.format = r.format
        /\ a.aliasGroup = r.aliasGroup /\ a.sampler = r.sampler
        /\ a.shape = NotEmpty(r.shape, <<>>) /\ a.strides = NotEmpty(r.strides, <<>>)
    BY DEF pyResource, pyDataView, getResource
  <2>2. Answers(with, "resource", e) = a
    BY <1>5 DEF Answers
  <2> HIDE DEF a
  <2>3. QED
    BY <1>2, <2>1, <2>2 DEF ResourceSays
<1>6. QED
  BY <1>3, <1>4, <1>5 DEF APIs

\* What they all store of a resource.
ResourceKept(e) ==
  LET r == getResource(e)
      constant == r.category = "CONSTANT"
      sampler == IF constant THEN {} ELSE r.sampler
  IN  [descriptorType |-> IF constant THEN NoDescriptorType ELSE Or(r.descriptorType, NoDescriptorType),
       format |-> r.format, category |-> r.category,
       description |-> {[shape |-> {Or(r.shape, <<>>)}, strides |-> {Or(r.strides, <<>>)}]},
       extraConfigType |-> IF sampler = {} THEN "NONE" ELSE "SamplerConfig", extraConfig |-> sampler,
       aliasGroupId |-> IF constant THEN U32Max ELSE Or(r.aliasGroup, U32Max)]

LEMMA ResourceCopies ==
  ASSUME NEW e \in ModelResourceTableEntry, NEW with \in APIs, NEW types
  PROVE  Copied(with, "resource", Answers(with, "resource", e), types) = ResourceKept(e)
<1> DEFINE r == getResource(e)
           a == Answers(with, "resource", e)
           p == ParsedResource(a)
           constant == r.category = "CONSTANT"
           type == IF constant THEN {} ELSE r.descriptorType
           group == IF constant THEN {} ELSE r.aliasGroup
           shape == Or(r.shape, <<>>)
           strides == Or(r.strides, <<>>)
           description == [shape |-> {shape}, strides |-> {strides}]
           plain == EncodedResource(r.category, type, r.format, shape, strides, group, {})
<1>1. ResourceSays(a, e)
  BY ResourceAnswers
<1>2. /\ a.category = r.category /\ a.descriptorType = r.descriptorType /\ a.format = r.format
      /\ a.aliasGroup = r.aliasGroup /\ a.sampler = r.sampler
      /\ Or(a.shape, <<>>) = shape /\ Or(a.strides, <<>>) = strides
  BY <1>1 DEF ResourceSays
<1>3. r.sampler \in Optional(SamplerConfigs)
  BY ResourceLemma
<1>4. with # "C" =>
        /\ p.category = a.category /\ p.descriptorType = a.descriptorType /\ p.format = a.format
        /\ p.aliasGroup = a.aliasGroup /\ p.shape = Or(a.shape, <<>>) /\ p.strides = Or(a.strides, <<>>)
  <2>1. CASE with = "C++"
    <3>1. a = getResource(e)
      BY <2>1 DEF Answers
    <3> HIDE DEF a
    <3>2. QED
      BY <3>1 DEF ParsedResource, getResource
  <2>2. CASE with = "Python"
    <3>1. a = pyResource(e)
      BY <2>2 DEF Answers
    <3> HIDE DEF a
    <3>2. QED
      BY <3>1 DEF ParsedResource, pyResource, getResource
  <2>3. QED
    BY <2>1, <2>2 DEF APIs
<1>5. Copied(with, "resource", a, types) = CopiedResource(with, a)
  BY DEF Copied
<1>6. CopiedResource(with, a) =
        IF ~constant /\ r.sampler # {} THEN WithSampler(plain, Or(r.sampler, {})) ELSE plain
  <2> HIDE DEF a, r, shape, strides
  <2>1. CASE with = "C"
    BY <1>2, <2>1 DEF CopiedResource, cAddResource, to_vector
  <2>2. CASE with # "C"
    <3>1. /\ p.category = r.category /\ p.descriptorType = r.descriptorType /\ p.format = r.format
          /\ p.aliasGroup = r.aliasGroup /\ p.shape = shape /\ p.strides = strides
      BY <1>2, <1>4, <2>2
    <3>2. QED
      BY <1>2, <2>2, <3>1 DEF CopiedResource
  <2>3. QED
    BY <2>1, <2>2
<1>7. plain = [descriptorType |-> Or(type, NoDescriptorType), format |-> r.format,
               category |-> r.category, description |-> {description},
               extraConfigType |-> "NONE", extraConfig |-> {}, aliasGroupId |-> Or(group, U32Max)]
  BY DEF EncodedResource
<1> DEFINE sampler == IF constant THEN {} ELSE r.sampler
           typeKept == IF constant THEN NoDescriptorType ELSE Or(r.descriptorType, NoDescriptorType)
           groupKept == IF constant THEN U32Max ELSE Or(r.aliasGroup, U32Max)
<1>14. ResourceKept(e) =
         [descriptorType |-> typeKept,
          format |-> r.format, category |-> r.category,
          description |-> {description},
          extraConfigType |-> IF sampler = {} THEN "NONE" ELSE "SamplerConfig", extraConfig |-> sampler,
          aliasGroupId |-> groupKept]
  BY DEF ResourceKept
<1>8. Or(type, NoDescriptorType) = typeKept /\ Or(group, U32Max) = groupKept
  <2> HIDE DEF r
  <2>1. CASE constant
    BY <2>1, OrLemma
  <2>2. CASE ~constant
    BY <2>2
  <2>3. QED
    BY <2>1, <2>2
<1>9. CASE constant \/ r.sampler = {}
  <2>1. ResourceKept(e) =
         [descriptorType |-> typeKept, format |-> r.format, category |-> r.category,
          description |-> {description}, extraConfigType |-> "NONE", extraConfig |-> {},
          aliasGroupId |-> groupKept]
    <3>1. sampler = {}
      BY <1>9
    <3>2. QED
      BY <1>14, <3>1, Zenon
  <2>2. CopiedResource(with, a) = plain
    BY <1>6, <1>9
  <2>3. plain = ResourceKept(e)
    BY <1>7, <1>8, <1>14, <2>1, Zenon
  <2>4. QED
    BY <1>5, <2>2, <2>3
<1>10. CASE ~constant /\ r.sampler # {}
  <2>1. {Or(r.sampler, {})} = r.sampler
    <3> DEFINE s == r.sampler
    <3>1. s \in Optional(SamplerConfigs) /\ s # {}
      BY <1>3, <1>10
    <3> HIDE DEF s
    <3>2. PICK x : s = {x}
      BY <3>1 DEF Optional
    <3>3. {Or(s, {})} = s
      BY <3>2, OrLemma
    <3>4. QED
      BY <3>3 DEF s
  <2>2. CopiedResource(with, a) = WithSampler(plain, Or(r.sampler, {}))
    BY <1>6, <1>10
  <2>3. WithSampler(plain, Or(r.sampler, {})) =
          [plain EXCEPT !.extraConfigType = "SamplerConfig", !.extraConfig = r.sampler]
    BY <2>1 DEF WithSampler
  <2>6. sampler = r.sampler
    BY <1>10
  <2>7. ResourceKept(e) =
         [descriptorType |-> typeKept, format |-> r.format, category |-> r.category,
          description |-> {description}, extraConfigType |-> "SamplerConfig", extraConfig |-> r.sampler,
          aliasGroupId |-> groupKept]
    BY <1>10, <1>14, <2>6, Zenon
  <2> HIDE DEF plain, a, type, group, description, sampler
  <2>4. WithSampler(plain, Or(r.sampler, {})) =
          [descriptorType |-> Or(type, NoDescriptorType), format |-> r.format,
           category |-> r.category, description |-> {description},
           extraConfigType |-> "SamplerConfig", extraConfig |-> r.sampler, aliasGroupId |-> Or(group, U32Max)]
    <3> HIDE DEF r
    <3>1. QED
      BY <1>7, <2>3
  <2>5. WithSampler(plain, Or(r.sampler, {})) = ResourceKept(e)
    BY <1>8, <1>14, <2>4, <2>7, Zenon
  <2>8. QED
    BY <1>5, <2>2, <2>5 DEF a
<1>12. QED
  BY <1>9, <1>10

\* The meaning of a resource, field by field.
ResourceMeans(e) ==
  LET r == getResource(e)
      constant == r.category = "CONSTANT"
  IN  [category |-> r.category, descriptorType |-> IF constant THEN {} ELSE r.descriptorType,
       format |-> r.format, aliasGroup |-> IF constant THEN {} ELSE r.aliasGroup,
       shape |-> Or(r.shape, <<>>), strides |-> Or(r.strides, <<>>),
       sampler |-> IF constant THEN {} ELSE r.sampler]

LEMMA ResourceMeaningIs ==
  ASSUME NEW e
  PROVE  Meaning("resource", e) = ResourceMeans(e)
<1> DEFINE r == getResource(e)
           shape == Or(r.shape, <<>>)
           strides == Or(r.strides, <<>>)
           p == ParsedResource(r)
<1>1. r = [category |-> r.category, descriptorType |-> r.descriptorType, format |-> r.format,
           aliasGroup |-> r.aliasGroup, shape |-> r.shape, strides |-> r.strides, sampler |-> r.sampler]
  BY DEF getResource
<1>2. p = [r EXCEPT !.shape = shape, !.strides = strides]
  BY DEF ParsedResource
<1>3. Meaning("resource", e) =
        IF r.category = "CONSTANT" THEN [p EXCEPT !.descriptorType = {}, !.aliasGroup = {}, !.sampler = {}]
        ELSE p
  BY DEF Meaning, Answers
<1> HIDE DEF r, p, shape, strides
<1>4. p = [category |-> r.category, descriptorType |-> r.descriptorType, format |-> r.format,
           aliasGroup |-> r.aliasGroup, shape |-> shape, strides |-> strides, sampler |-> r.sampler]
  BY <1>1, <1>2
<1>5. [p EXCEPT !.descriptorType = {}, !.aliasGroup = {}, !.sampler = {}] =
        [category |-> r.category, descriptorType |-> {}, format |-> r.format,
         aliasGroup |-> {}, shape |-> shape, strides |-> strides, sampler |-> {}]
  <2> DEFINE none == {}
             q == [p EXCEPT !.descriptorType = none, !.aliasGroup = none, !.sampler = none]
  <2>1. q = [p EXCEPT !.descriptorType = none, !.aliasGroup = none, !.sampler = none]
    OBVIOUS
  <2> HIDE DEF none, q
  <2>2. q = [category |-> r.category, descriptorType |-> none, format |-> r.format,
             aliasGroup |-> none, shape |-> shape, strides |-> strides, sampler |-> none]
    BY <1>4, <2>1
  <2>3. QED
    BY <2>2 DEF q, none
<1>6. CASE r.category = "CONSTANT"
  <2>1. ResourceMeans(e) =
          [category |-> r.category, descriptorType |-> {}, format |-> r.format,
           aliasGroup |-> {}, shape |-> shape, strides |-> strides, sampler |-> {}]
    BY <1>6 DEF ResourceMeans, r, shape, strides
  <2>2. QED
    BY <1>3, <1>5, <1>6, <2>1, Zenon
<1>7. CASE r.category # "CONSTANT"
  <2>1. ResourceMeans(e) =
          [category |-> r.category, descriptorType |-> r.descriptorType, format |-> r.format,
           aliasGroup |-> r.aliasGroup, shape |-> shape, strides |-> strides, sampler |-> r.sampler]
    BY <1>7 DEF ResourceMeans, r, shape, strides
  <2>2. QED
    BY <1>3, <1>4, <1>7, <2>1, Zenon
<1>8. QED
  BY <1>6, <1>7

LEMMA ResourceMeaning ==
  ASSUME NEW e \in ModelResourceTableEntry
  PROVE  LET c == ResourceKept(e)
         IN  /\ c.category = fromVGFResourceCategory(e.category)
             /\ Meaning("resource", c) = Meaning("resource", e)
             /\ getResource(c).category = getResource(e).category
             /\ getResource(e).category # "CONSTANT"
                  => getResource(c).descriptorType = getResource(e).descriptorType
<1> DEFINE r == getResource(e)
           c == ResourceKept(e)
           q == getResource(c)
           constant == r.category = "CONSTANT"
           shape == Or(r.shape, <<>>)
           strides == Or(r.strides, <<>>)
           description == [shape |-> {shape}, strides |-> {strides}]
           sampler == IF constant THEN {} ELSE r.sampler
<1>1. /\ r.category \in KnownCategories
      /\ r.descriptorType = {e.descriptorType} \ {NoDescriptorType}
      /\ r.aliasGroup = {e.aliasGroupId} \ {U32Max}
  BY ResourceLemma
<1>2. /\ c.category = r.category /\ c.format = r.format
      /\ c.descriptorType = IF constant THEN NoDescriptorType ELSE Or(r.descriptorType, NoDescriptorType)
      /\ c.aliasGroupId = IF constant THEN U32Max ELSE Or(r.aliasGroup, U32Max)
      /\ c.description = {description}
      /\ c.extraConfigType = IF sampler = {} THEN "NONE" ELSE "SamplerConfig"
      /\ c.extraConfig = sampler
  BY DEF ResourceKept
<1>3. /\ q.category = fromVGFResourceCategory(c.category) /\ q.format = c.format
      /\ q.descriptorType = {c.descriptorType} \ {NoDescriptorType}
      /\ q.aliasGroup = {c.aliasGroupId} \ {U32Max}
      /\ q.shape = UNION {d.shape : d \in c.description}
      /\ q.strides = UNION {d.strides : d \in c.description}
      /\ q.sampler = IF c.extraConfigType = "SamplerConfig" THEN c.extraConfig ELSE {}
  BY DEF getResource
<1>4. r.category = fromVGFResourceCategory(e.category)
  BY DEF getResource
<1> HIDE DEF r, c, q
<1>5. r.category # Unknown
  BY <1>1 DEF KnownCategories, Unknown
<1>6. q.category = r.category
  BY <1>2, <1>3, <1>5 DEF fromVGFResourceCategory
<1>7. \A x, none : {Or({x} \ {none}, none)} \ {none} = {x} \ {none}
  <2> TAKE x, none
  <2>1. CASE x = none
    <3>1. {x} \ {none} = {}
      BY <2>1
    <3>2. QED
      BY <2>1, <3>1, OrLemma
  <2>2. CASE x # none
    <3>1. {x} \ {none} = {x}
      BY <2>2
    <3>2. QED
      BY <2>2, <3>1, OrLemma
  <2>3. QED
    BY <2>1, <2>2
<1>8. /\ q.descriptorType = IF constant THEN {} ELSE r.descriptorType
      /\ q.aliasGroup = IF constant THEN {} ELSE r.aliasGroup
  <2>1. CASE constant
    <3>1. {NoDescriptorType} \ {NoDescriptorType} = {} /\ {U32Max} \ {U32Max} = {}
      OBVIOUS
    <3>2. QED
      BY <1>2, <1>3, <2>1, <3>1
  <2>2. CASE ~constant
    <3>1. /\ c.descriptorType = Or({e.descriptorType} \ {NoDescriptorType}, NoDescriptorType)
          /\ c.aliasGroupId = Or({e.aliasGroupId} \ {U32Max}, U32Max)
      BY <1>1, <1>2, <2>2
    <3>2. /\ {c.descriptorType} \ {NoDescriptorType} = {e.descriptorType} \ {NoDescriptorType}
          /\ {c.aliasGroupId} \ {U32Max} = {e.aliasGroupId} \ {U32Max}
      BY <1>7, <3>1
    <3>3. QED
      BY <1>1, <1>3, <2>2, <3>2
  <2>3. QED
    BY <2>1, <2>2
<1>9. q.shape = {shape} /\ q.strides = {strides}
  <2>1. {d.shape : d \in {description}} = {{shape}} /\ {d.strides : d \in {description}} = {{strides}}
    <3>1. description.shape = {shape} /\ description.strides = {strides}
      OBVIOUS
    <3> HIDE DEF description
    <3>2. QED
      BY <3>1
  <2> HIDE DEF description
  <2>2. QED
    BY <1>2, <1>3, <2>1
<1>10. q.sampler = sampler
  <2> HIDE DEF sampler
  <2>1. QED
    BY <1>2, <1>3
<1>11. ResourceMeans(c) = ResourceMeans(e)
  <2>1. Or(q.shape, <<>>) = shape /\ Or(q.strides, <<>>) = strides
    BY <1>9, OrLemma
  <2>2. /\ (IF q.category = "CONSTANT" THEN {} ELSE q.descriptorType) = IF constant THEN {} ELSE r.descriptorType
        /\ (IF q.category = "CONSTANT" THEN {} ELSE q.aliasGroup) = IF constant THEN {} ELSE r.aliasGroup
        /\ (IF q.category = "CONSTANT" THEN {} ELSE q.sampler) = IF constant THEN {} ELSE r.sampler
    BY <1>6, <1>8, <1>10
  <2> HIDE DEF shape, strides
  <2>3. q.format = r.format
    BY <1>2, <1>3
  <2>4. QED
    BY <1>6, <2>1, <2>2, <2>3 DEF ResourceMeans, q, r, shape, strides
<1>12. Meaning("resource", c) = Meaning("resource", e)
  BY <1>11, ResourceMeaningIs
<1>13. QED
  BY <1>2, <1>6, <1>8, <1>12, <1>4 DEF c, q, r

--------------------------------------------------------------------------------
\* The lists beside the segments, which every API answers as they are.
SequenceKept(e) ==
  EncodedSequence(Or(e.inputs, <<>>), Or(e.inputNames, <<>>), Or(e.outputs, <<>>), Or(e.outputNames, <<>>))

LEMMA SequenceCopies ==
  ASSUME NEW e, NEW with \in APIs, NEW types
  PROVE  /\ Answers(with, "sequence", e) = e
         /\ Copied(with, "sequence", e, types) = SequenceKept(e)
<1>1. Answers(with, "sequence", e) = e /\ Copied(with, "sequence", e, types) = CopiedSequence(with, e)
  BY DEF Answers, Copied
<1>2. CopiedSequence(with, e) = SequenceKept(e)
  BY DEF CopiedSequence, cAddSequence, to_vector, pyDefault, SequenceKept
<1>3. QED
  BY <1>1, <1>2

LEMMA SequenceMeaning ==
  ASSUME NEW e
  PROVE  Meaning("sequence", SequenceKept(e)) = Meaning("sequence", e)
<1> DEFINE c == SequenceKept(e)
<1>1. /\ c.inputs = {Or(e.inputs, <<>>)} /\ c.inputNames = {Or(e.inputNames, <<>>)}
      /\ c.outputs = {Or(e.outputs, <<>>)} /\ c.outputNames = {Or(e.outputNames, <<>>)}
  BY DEF SequenceKept, EncodedSequence
<1> HIDE DEF c
<1>2. /\ Or(c.inputs, <<>>) = Or(e.inputs, <<>>) /\ Or(c.inputNames, <<>>) = Or(e.inputNames, <<>>)
      /\ Or(c.outputs, <<>>) = Or(e.outputs, <<>>) /\ Or(c.outputNames, <<>>) = Or(e.outputNames, <<>>)
  BY <1>1, OrLemma
<1>3. ParsedSequence(c) = ParsedSequence(e)
  BY <1>2 DEF ParsedSequence
<1>4. Meaning("sequence", c) = ParsedSequence(c) /\ Meaning("sequence", e) = ParsedSequence(e)
  BY DEF Meaning, Answers
<1>5. QED
  BY <1>3, <1>4 DEF c

\* Constants.  One that is taken has data, so that every API answers alike,
\* and is stored as it was.
LEMMA ConstantCopies ==
  ASSUME NEW e \in ConstantData, NEW with \in APIs, NEW other \in APIs, NEW types,
         ~NotEncodable("constant", Answers(with, "constant", e))
  PROVE  /\ Answers(other, "constant", e) = getConstant(e)
         /\ ~NotEncodable("constant", getConstant(e))
         /\ Copied(other, "constant", getConstant(e), types) = e
<1> DEFINE a == getConstant(e)
           raw == e.raw
<1>1. a = [data |-> raw, mrtIndex |-> e.mrtIndex, sparsityDimension |-> e.sparsityDimension,
           isSparse |-> e.sparsityDimension > -1]
  BY DEF getConstant
<1>2. raw \in Optional(RawSizes)
  BY DEF ConstantData
<1>3. \A api2 \in APIs :
        Answers(api2, "constant", e) = IF api2 = "Python" THEN pyConstant(e) ELSE a
  BY DEF Answers, APIs, cConstant
<1>4. /\ pyConstant(e).data = NotEmpty(raw, 0) /\ pyConstant(e).mrtIndex = e.mrtIndex
      /\ a.data = raw /\ a.mrtIndex = e.mrtIndex
  BY DEF pyConstant, pyDataView, getConstant
<1>5. Or(NotEmpty(raw, 0), 0) = Or(raw, 0)
  <2> HIDE DEF raw
  <2>1. OptionalFacts(raw, 0)
    BY <1>2, OptionalLemma
  <2>2. QED
    BY <2>1 DEF OptionalFacts
<1>6. Or(raw, 0) # 0 /\ e.mrtIndex # U32Max
  <2> DEFINE b == Answers(with, "constant", e)
  <2>1. Or(b.data, 0) = Or(raw, 0) /\ b.mrtIndex = e.mrtIndex
    BY <1>3, <1>4, <1>5
  <2>2. ~ConstantRejected(b)
    BY DEF NotEncodable
  <2> HIDE DEF b
  <2>3. QED
    BY <2>1, <2>2 DEF ConstantRejected
<1>7. NotEmpty(raw, 0) = raw
  <2> HIDE DEF raw
  <2>1. CASE raw = {}
    BY <2>1 DEF NotEmpty
  <2>2. ASSUME NEW x \in RawSizes, raw = {x} PROVE NotEmpty(raw, 0) = raw
    <3>1. x # 0
      BY <1>6, <2>2, OrLemma
    <3>2. QED
      BY <2>2, <3>1 DEF NotEmpty
  <2>3. QED
    BY <1>2, <2>1, <2>2 DEF Optional
<1>8. pyConstant(e) = a
  <2> DEFINE data == pyDataView(a.data, 0)
             isSparse == e.sparsityDimension > -1
             p == pyConstant(e)
  <2>1. p = [a EXCEPT !.data = data]
    BY DEF pyConstant
  <2>2. data = raw
    BY <1>4, <1>7 DEF pyDataView
  <2>3. a = [data |-> raw, mrtIndex |-> e.mrtIndex, sparsityDimension |-> e.sparsityDimension,
             isSparse |-> isSparse]
    BY <1>1
  <2> HIDE DEF a, data, raw, isSparse, p
  <2>4. p = a
    BY <2>1, <2>2, <2>3
  <2>5. QED
    BY <2>4 DEF p
<1>9. Answers(other, "constant", e) = a
  BY <1>3, <1>8
<1>10. ~NotEncodable("constant", a)
  BY <1>4, <1>6 DEF NotEncodable, ConstantRejected
<1>11. CopiedConstant(a) = e
  <2>1. CopiedConstant(a) =
          [mrtIndex |-> e.mrtIndex, sparsityDimension |-> e.sparsityDimension, raw |-> e.raw]
    BY DEF CopiedConstant, getConstant
  <2>2. e = [mrtIndex |-> e.mrtIndex, sparsityDimension |-> e.sparsityDimension, raw |-> e.raw]
    BY DEF ConstantData
  <2>3. QED
    BY <2>1, <2>2
<1>12. QED
  BY <1>9, <1>10, <1>11 DEF Copied

--------------------------------------------------------------------------------
\* Segments.  A list of descriptor sets has a length, and so have the lists
\* made of it.
DispatchOf(e) == Or(e.dispatchShape, <<0, 0, 0>>)

SegmentSays(a, e) ==
  /\ a.type = fromVGFModuleType(e.type) /\ a.moduleIndex = e.moduleIndex /\ a.sets = getSets(e)
  /\ Or(a.name, "") = Or(e.name, "")
  /\ Or(a.inputs, <<>>) = Or(e.inputs, <<>>) /\ Or(a.outputs, <<>>) = Or(e.outputs, <<>>)
  /\ Or(a.constants, <<>>) = Or(e.constants, <<>>)
  /\ Or(a.pushConstRanges, <<>>) = Or(e.pushConstRanges, <<>>)
  /\ Or(a.dispatchShape, <<0, 0, 0>>) = DispatchOf(e)

LEMMA DispatchLemma ==
  ASSUME NEW e \in SegmentInfo, VerifySemantic(e)
  PROVE  /\ Len(DispatchOf(e)) = 3
         /\ (IF Or(e.dispatchShape, <<>>) = <<>> THEN <<0, 0, 0>> ELSE Or(e.dispatchShape, <<>>)) = DispatchOf(e)
         /\ Or(cDispatchShape(e.dispatchShape), <<0, 0, 0>>) = DispatchOf(e)
         /\ NotEmpty(e.dispatchShape, <<>>) = e.dispatchShape
<1> DEFINE held == e.dispatchShape
           zeros == <<0, 0, 0>>
           empty == <<>>
<1>1. held \in Optional(DispatchShapes) /\ \A shape \in held : Len(shape) = 3
  BY DEF SegmentInfo, VerifySemantic
<1>2. Len(zeros) = 3 /\ Len(empty) = 0
  OBVIOUS
<1>3. cDispatchShape(held) = IF Len(Or(held, empty)) # 3 THEN {zeros} ELSE held
  BY DEF cDispatchShape
<1>4. DispatchOf(e) = Or(held, zeros)
  BY DEF DispatchOf
<1> HIDE DEF held, zeros, empty
<1>5. CASE held = {}
  <2>1. Or(held, zeros) = zeros /\ Or(held, empty) = empty /\ Or({zeros}, zeros) = zeros
    BY <1>5, OrLemma
  <2>2. cDispatchShape(held) = {zeros}
    BY <1>2, <1>3, <2>1
  <2>3. NotEmpty(held, empty) = held
    BY <1>5 DEF NotEmpty
  <2>4. QED
    BY <1>2, <1>4, <2>1, <2>2, <2>3 DEF held, zeros, empty
<1>6. ASSUME NEW x, held = {x}
      PROVE  /\ Len(Or(held, zeros)) = 3
             /\ (IF Or(held, empty) = empty THEN zeros ELSE Or(held, empty)) = Or(held, zeros)
             /\ Or(cDispatchShape(held), zeros) = Or(held, zeros)
             /\ NotEmpty(held, empty) = held
  <2>1. Or(held, zeros) = x /\ Or(held, empty) = x
    BY <1>6, OrLemma
  <2>2. Len(x) = 3 /\ x # empty
    BY <1>1, <1>2, <1>6
  <2>3. cDispatchShape(held) = held
    BY <1>3, <2>1, <2>2
  <2>4. NotEmpty(held, empty) = held
    BY <1>6, <2>2 DEF NotEmpty
  <2>5. QED
    BY <2>1, <2>2, <2>3, <2>4
<1>7. held = {} \/ \E x : held = {x}
  BY <1>1 DEF Optional
<1>8. QED
  BY <1>4, <1>5, <1>6, <1>7 DEF held, zeros, empty

LEMMA SegmentAnswers ==
  ASSUME NEW e \in SegmentInfo, VerifySemantic(e), NEW with \in APIs
  PROVE  SegmentSays(Answers(with, "segment", e), e)
<1> DEFINE zeros == <<0, 0, 0>>
<1>1. e.name \in Optional(Texts) /\ e.constants \in Optional(IndexLists)
  BY DEF SegmentInfo
<1>2. Or({Or(e.name, "")}, "") = Or(e.name, "")
  BY OrLemma
<1>3. Or(NotEmpty(e.constants, <<>>), <<>>) = Or(e.constants, <<>>)
  <2>1. OptionalFacts(e.constants, <<>>)
    BY <1>1, OptionalLemma
  <2>2. QED
    BY <2>1 DEF OptionalFacts
<1>4. CASE with = "C++"
  <2> DEFINE a == getSegment(e)
  <2>1. /\ a.type = fromVGFModuleType(e.type) /\ a.moduleIndex = e.moduleIndex /\ a.sets = getSets(e)
        /\ a.name = e.name /\ a.inputs = e.inputs /\ a.outputs = e.outputs /\ a.constants = e.constants
        /\ a.pushConstRanges = e.pushConstRanges /\ a.dispatchShape = e.dispatchShape
    BY DEF getSegment
  <2>2. Answers(with, "segment", e) = a
    BY <1>4 DEF Answers
  <2> HIDE DEF a
  <2>3. QED
    BY <2>1, <2>2 DEF SegmentSays, DispatchOf
<1>5. CASE with = "C"
  <2> DEFINE a == cSegment(e)
  <2>1. /\ a.type = fromVGFModuleType(e.type) /\ a.moduleIndex = e.moduleIndex /\ a.sets = getSets(e)
        /\ a.name = e.name /\ a.inputs = e.inputs /\ a.outputs = e.outputs /\ a.constants = e.constants
        /\ a.pushConstRanges = e.pushConstRanges /\ a.dispatchShape = cDispatchShape(e.dispatchShape)
    BY DEF cSegment, getSegment
  <2>2. Answers(with, "segment", e) = a
    BY <1>5 DEF Answers
  <2>3. Or(cDispatchShape(e.dispatchShape), zeros) = DispatchOf(e)
    BY DispatchLemma
  <2> HIDE DEF a, zeros
  <2>4. Or(a.dispatchShape, zeros) = DispatchOf(e)
    BY <2>1, <2>3
  <2>5. QED
    BY <2>1, <2>2, <2>4 DEF SegmentSays, zeros
<1>6. CASE with = "Python"
  <2> DEFINE a == pySegment(e)
  <2>1. /\ a.type = fromVGFModuleType(e.type) /\ a.moduleIndex = e.moduleIndex /\ a.sets = getSets(e)
        /\ a.name = {Or(e.name, "")} /\ a.inputs = e.inputs /\ a.outputs = e.outputs
        /\ a.constants = NotEmpty(e.constants, <<>>)
        /\ a.pushConstRanges = e.pushConstRanges /\ a.dispatchShape = NotEmpty(e.dispatchShape, <<>>)
    BY DEF pySegment, getSegment, pyStr, pyDataView
  <2>2. Answers(with, "segment", e) = a
    BY <1>6 DEF Answers
  <2>3. NotEmpty(e.dispatchShape, <<>>) = e.dispatchShape
    BY DispatchLemma
  <2> HIDE DEF a, zeros
  <2>4. Or(a.dispatchShape, zeros) = DispatchOf(e)
    BY <2>1, <2>3 DEF DispatchOf, zeros
  <2>5. QED
    BY <1>2, <1>3, <2>1, <2>2, <2>4 DEF SegmentSays, zeros
<1>7. QED
  BY <1>4, <1>5, <1>6 DEF APIs

LEMMA SetsLemma ==
  ASSUME NEW e \in SegmentInfo
  PROVE  LET sets == getSets(e)
         IN  /\ Len(sets) \in Nat
             /\ \A j \in 1 .. Len(sets) :
                  sets[j] = [bindings |-> sets[j].bindings, setIndex |-> sets[j].setIndex]
             /\ \A j \in 1 .. Len(sets) : \E index :
                  sets[j].setIndex = getSegmentDescriptorSetIndex(index, j - 1)
             /\ Len(ParsedSets(sets)) = Len(sets)
<1> DEFINE list == Or(e.sets, <<>>)
           sets == getSets(e)
<1>1. e.sets \in Optional(UNION {[1 .. n -> DescriptorSetInfo] : n \in 0 .. MaxSets}) /\ MaxSets \in Nat
  BY FormatAssumption DEF SegmentInfo
<1>2. Len(list) \in Nat
  <2>1. CASE e.sets = {}
    <3>1. list = <<>>
      BY <2>1, OrLemma
    <3> HIDE DEF list
    <3>2. QED
      BY <3>1
  <2>2. ASSUME NEW n \in 0 .. MaxSets, NEW x \in [1 .. n -> DescriptorSetInfo], e.sets = {x}
        PROVE  Len(list) \in Nat
    <3>1. list = x
      BY <2>2, OrLemma
    <3>2. n \in Nat /\ x \in Seq(DescriptorSetInfo)
      BY <1>1
    <3> HIDE DEF list
    <3>3. QED
      BY <3>1, <3>2
  <2>3. QED
    BY <1>1, <2>1, <2>2 DEF Optional
<1> DEFINE n == Len(list)
           F(j) == [bindings |-> list[j].bindings,
                    setIndex |-> getSegmentDescriptorSetIndex(list[j].setIndex, j - 1)]
           G(j) == [bindings |-> Or(sets[j].bindings, <<>>), setIndex |-> sets[j].setIndex]
<1>3. sets = [j \in 1 .. n |-> F(j)]
  BY DEF getSets
<1>4. \A j : F(j).bindings = list[j].bindings
             /\ F(j).setIndex = getSegmentDescriptorSetIndex(list[j].setIndex, j - 1)
             /\ F(j) = [bindings |-> F(j).bindings, setIndex |-> F(j).setIndex]
  OBVIOUS
<1>5. ParsedSets(sets) = [j \in 1 .. Len(sets) |-> G(j)]
  BY DEF ParsedSets
<1> HIDE DEF list, sets, n, F, G
<1>6. n \in Nat
  BY <1>2 DEF n
<1>7. Len(sets) = n /\ \A j \in 1 .. n : sets[j] = F(j)
  BY <1>3, <1>6
<1>8. Len(ParsedSets(sets)) = n
  BY <1>5, <1>6, <1>7
<1>9. \A j \in 1 .. n : sets[j].setIndex = getSegmentDescriptorSetIndex(list[j].setIndex, j - 1)
  BY <1>4, <1>7
<1>10. \A j \in 1 .. n : sets[j] = [bindings |-> sets[j].bindings, setIndex |-> sets[j].setIndex]
  BY <1>4, <1>7
<1>11. QED
  BY <1>6, <1>7, <1>8, <1>9, <1>10 DEF sets

\* What they all store of a segment, with the encoder's types of modules.
SegmentKept(e, types) ==
  EncodedSegment(types, Or(e.name, ""), e.moduleIndex, ParsedSets(getSets(e)),
    Or(e.inputs, <<>>), Or(e.outputs, <<>>), Or(e.constants, <<>>), DispatchOf(e), Or(e.pushConstRanges, <<>>))

LEMMA SetsPassed ==
  ASSUME NEW e \in SegmentInfo
  PROVE  LET sets == getSets(e)
         IN  [j \in 1 .. Len(sets) |-> [sets[j] EXCEPT !.bindings = Or(@, <<>>)]] = ParsedSets(sets)
<1> DEFINE sets == getSets(e)
<1>1. \A j \in 1 .. Len(sets) : sets[j] = [bindings |-> sets[j].bindings, setIndex |-> sets[j].setIndex]
  BY SetsLemma
<1> HIDE DEF sets
<1>2. ASSUME NEW j \in 1 .. Len(sets)
      PROVE  [sets[j] EXCEPT !.bindings = Or(@, <<>>)] =
               [bindings |-> Or(sets[j].bindings, <<>>), setIndex |-> sets[j].setIndex]
  <2> DEFINE s == sets[j]
             bindings == Or(s.bindings, <<>>)
             passed == [s EXCEPT !.bindings = bindings]
  <2>1. s = [bindings |-> s.bindings, setIndex |-> s.setIndex]
    BY <1>1
  <2>2. passed = [s EXCEPT !.bindings = bindings]
    OBVIOUS
  <2> HIDE DEF s, bindings, passed
  <2>3. passed = [bindings |-> bindings, setIndex |-> s.setIndex]
    BY <2>1, <2>2
  <2>4. QED
    BY <2>3 DEF s, bindings, passed
<1>3. [j \in 1 .. Len(sets) |-> [sets[j] EXCEPT !.bindings = Or(@, <<>>)]] = ParsedSets(sets)
  BY <1>2, Zenon DEF ParsedSets
<1>4. QED
  BY <1>3 DEF sets

LEMMA SegmentCopies ==
  ASSUME NEW e \in SegmentInfo, VerifySemantic(e), NEW with \in APIs, NEW types
  PROVE  Copied(with, "segment", Answers(with, "segment", e), types) = SegmentKept(e, types)
<1> DEFINE a == Answers(with, "segment", e)
           sets == getSets(e)
           zeros == <<0, 0, 0>>
<1>1. /\ a.type = fromVGFModuleType(e.type) /\ a.moduleIndex = e.moduleIndex /\ a.sets = sets
      /\ Or(a.name, "") = Or(e.name, "")
      /\ Or(a.inputs, <<>>) = Or(e.inputs, <<>>) /\ Or(a.outputs, <<>>) = Or(e.outputs, <<>>)
      /\ Or(a.constants, <<>>) = Or(e.constants, <<>>)
      /\ Or(a.pushConstRanges, <<>>) = Or(e.pushConstRanges, <<>>)
      /\ Or(a.dispatchShape, zeros) = DispatchOf(e)
  BY SegmentAnswers DEF SegmentSays
<1>2. Copied(with, "segment", a, types) = CopiedSegment(with, a, types)
  BY DEF Copied
<1>3. [j \in 1 .. Len(sets) |-> [sets[j] EXCEPT !.bindings = Or(@, <<>>)]] = ParsedSets(sets)
  BY SetsPassed
<1>4. CASE with = "C++"
  <2> DEFINE p == ParsedSegment(a)
  <2>1. /\ p.type = a.type /\ p.moduleIndex = a.moduleIndex /\ p.sets = ParsedSets(a.sets)
        /\ p.name = Or(a.name, "") /\ p.inputs = Or(a.inputs, <<>>) /\ p.outputs = Or(a.outputs, <<>>)
        /\ p.constants = Or(a.constants, <<>>) /\ p.pushConstRanges = Or(a.pushConstRanges, <<>>)
        /\ p.dispatchShape = Or(e.dispatchShape, <<>>)
    <3>1. a = getSegment(e)
      BY <1>4 DEF Answers
    <3> HIDE DEF a
    <3>2. QED
      BY <3>1 DEF ParsedSegment, getSegment
  <2>2. CopiedSegment(with, a, types) =
          EncodedSegment(types, p.name, p.moduleIndex, p.sets, p.inputs, p.outputs, p.constants,
                         IF p.dispatchShape = <<>> THEN zeros ELSE p.dispatchShape, p.pushConstRanges)
    BY <1>4 DEF CopiedSegment
  <2>3. (IF p.dispatchShape = <<>> THEN zeros ELSE p.dispatchShape) = DispatchOf(e)
    <3> HIDE DEF p
    <3>1. QED
      BY <2>1, DispatchLemma
  <2> HIDE DEF a, p, sets, zeros
  <2>4. CopiedSegment(with, a, types) = SegmentKept(e, types)
    BY <1>1, <2>1, <2>2, <2>3 DEF SegmentKept, sets
  <2>5. QED
    BY <1>2, <2>4 DEF a
<1>5. CASE with = "C"
  <2>1. CopiedSegment(with, a, types) =
          EncodedSegment(types, Or(a.name, ""), a.moduleIndex,
            [j \in 1 .. Len(a.sets) |-> [a.sets[j] EXCEPT !.bindings = Or(@, <<>>)]],
            Or(a.inputs, <<>>), Or(a.outputs, <<>>), Or(a.constants, <<>>), Or(a.dispatchShape, zeros),
            Or(a.pushConstRanges, <<>>))
    BY <1>5 DEF CopiedSegment, cAddSegment, to_vector, toString
  <2> HIDE DEF a, sets, zeros
  <2>2. CopiedSegment(with, a, types) = SegmentKept(e, types)
    BY <1>1, <1>3, <2>1 DEF SegmentKept, sets
  <2>3. QED
    BY <1>2, <2>2 DEF a
<1>6. CASE with = "Python"
  <2>1. CopiedSegment(with, a, types) =
          EncodedSegment(types, Or(a.name, ""), a.moduleIndex,
            [j \in 1 .. Len(a.sets) |-> [a.sets[j] EXCEPT !.bindings = Or(@, <<>>)]],
            Or(a.inputs, <<>>), Or(a.outputs, <<>>), Or(a.constants, <<>>), Or(a.dispatchShape, zeros),
            Or(a.pushConstRanges, <<>>))
    BY <1>6 DEF CopiedSegment, pyAddSegment, pyDefault
  <2> HIDE DEF a, sets, zeros
  <2>2. CopiedSegment(with, a, types) = SegmentKept(e, types)
    BY <1>1, <1>3, <2>1 DEF SegmentKept, sets
  <2>3. QED
    BY <1>2, <2>2 DEF a
<1>7. QED
  BY <1>4, <1>5, <1>6 DEF APIs

\* The meaning of a segment, field by field.
SegmentMeans(e) ==
  [type |-> fromVGFModuleType(e.type), name |-> Or(e.name, ""), moduleIndex |-> e.moduleIndex,
   sets |-> ParsedSets(getSets(e)), inputs |-> Or(e.inputs, <<>>), outputs |-> Or(e.outputs, <<>>),
   constants |-> Or(e.constants, <<>>), dispatchShape |-> DispatchOf(e),
   pushConstRanges |-> Or(e.pushConstRanges, <<>>)]

LEMMA SegmentMeaningIs ==
  ASSUME NEW e,
         (IF Or(e.dispatchShape, <<>>) = <<>> THEN <<0, 0, 0>> ELSE Or(e.dispatchShape, <<>>)) = DispatchOf(e)
  PROVE  Meaning("segment", e) = SegmentMeans(e)
<1> DEFINE a == getSegment(e)
           type == fromVGFModuleType(e.type)
           name == Or(a.name, "")
           sets == ParsedSets(a.sets)
           inputs == Or(a.inputs, <<>>)
           outputs == Or(a.outputs, <<>>)
           constants == Or(a.constants, <<>>)
           held == Or(a.dispatchShape, <<>>)
           ranges == Or(a.pushConstRanges, <<>>)
           p == ParsedSegment(a)
           dispatch == IF p.dispatchShape = <<>> THEN <<0, 0, 0>> ELSE p.dispatchShape
           q == [p EXCEPT !.dispatchShape = dispatch]
<1>1. a = [type |-> type, name |-> a.name, moduleIndex |-> a.moduleIndex, sets |-> a.sets,
           inputs |-> a.inputs, outputs |-> a.outputs, constants |-> a.constants,
           dispatchShape |-> a.dispatchShape, pushConstRanges |-> a.pushConstRanges]
  BY DEF getSegment
<1>2. /\ a.name = e.name /\ a.moduleIndex = e.moduleIndex /\ a.sets = getSets(e)
      /\ a.inputs = e.inputs /\ a.outputs = e.outputs /\ a.constants = e.constants
      /\ a.dispatchShape = e.dispatchShape /\ a.pushConstRanges = e.pushConstRanges
  BY DEF getSegment
<1>3. p = [a EXCEPT !.name = name, !.inputs = inputs, !.outputs = outputs, !.constants = constants,
                    !.dispatchShape = held, !.pushConstRanges = ranges, !.sets = sets]
  BY DEF ParsedSegment
<1>4. q = [p EXCEPT !.dispatchShape = dispatch]
  OBVIOUS
<1>5. Meaning("segment", e) = q
  BY DEF Meaning, Answers
<1> DEFINE name1 == a.name
           index == a.moduleIndex
           sets1 == a.sets
           inputs1 == a.inputs
           outputs1 == a.outputs
           constants1 == a.constants
           held1 == a.dispatchShape
           ranges1 == a.pushConstRanges
<1>6. a = [type |-> type, name |-> name1, moduleIndex |-> index, sets |-> sets1, inputs |-> inputs1,
           outputs |-> outputs1, constants |-> constants1, dispatchShape |-> held1, pushConstRanges |-> ranges1]
  BY <1>1
<1>7. /\ name = Or(e.name, "") /\ index = e.moduleIndex /\ sets = ParsedSets(getSets(e))
      /\ inputs = Or(e.inputs, <<>>) /\ outputs = Or(e.outputs, <<>>) /\ constants = Or(e.constants, <<>>)
      /\ held = Or(e.dispatchShape, <<>>) /\ ranges = Or(e.pushConstRanges, <<>>)
  BY <1>2
<1> HIDE DEF a, type, name, sets, inputs, outputs, constants, held, ranges, p, q, dispatch,
             name1, index, sets1, inputs1, outputs1, constants1, held1, ranges1
<1>8. p = [type |-> type, name |-> name, moduleIndex |-> index, sets |-> sets, inputs |-> inputs,
           outputs |-> outputs, constants |-> constants, dispatchShape |-> held, pushConstRanges |-> ranges]
  BY <1>3, <1>6
<1>9. q = [type |-> type, name |-> name, moduleIndex |-> index, sets |-> sets, inputs |-> inputs,
           outputs |-> outputs, constants |-> constants, dispatchShape |-> dispatch, pushConstRanges |-> ranges]
  BY <1>4, <1>8
<1>10. dispatch = DispatchOf(e)
  <2>1. p.dispatchShape = held
    BY <1>8
  <2>2. QED
    BY <1>7, <2>1 DEF dispatch
<1>11. q = SegmentMeans(e)
  BY <1>7, <1>9, <1>10, Zenon DEF SegmentMeans, type
<1>12. QED
  BY <1>5, <1>11

LEMMA SegmentMeaning ==
  ASSUME NEW e \in SegmentInfo, VerifySemantic(e), NEW type \in {"COMPUTE", "GRAPH"}
  PROVE  LET c == SegmentKept(e, <<type>>)
         IN  /\ c.type = type
             /\ VerifySemantic(c)
             /\ Meaning("segment", c) = [Meaning("segment", e) EXCEPT !.type = type]
<1> DEFINE types == <<type>>
           c == SegmentKept(e, types)
           sets == getSets(e)
           parsed == ParsedSets(sets)
           encoded == EncodedSets(parsed)
           shape == DispatchOf(e)
<1>1. /\ c.type = types[e.moduleIndex + 1] /\ c.name = {Or(e.name, "")} /\ c.moduleIndex = e.moduleIndex
      /\ c.sets = {encoded} /\ c.inputs = {Or(e.inputs, <<>>)} /\ c.outputs = {Or(e.outputs, <<>>)}
      /\ c.constants = {Or(e.constants, <<>>)} /\ c.dispatchShape = {shape}
      /\ c.pushConstRanges = {Or(e.pushConstRanges, <<>>)}
  BY DEF SegmentKept, EncodedSegment
<1>2. c.type = type /\ fromVGFModuleType(c.type) = type
  <2> HIDE DEF c, types
  <2>1. e.moduleIndex = 0
    BY DEF SegmentInfo
  <2>2. types[0 + 1] = type
    BY DEF types
  <2>3. fromVGFModuleType(type) = type
    BY DEF fromVGFModuleType, Unknown
  <2>4. QED
    BY <1>1, <2>1, <2>2, <2>3
<1>3. Len(shape) = 3
  BY DispatchLemma
<1>4. shape # <<>>
  <2> HIDE DEF shape
  <2>1. QED
    BY <1>3
<1> HIDE DEF c
<1>5. VerifySemantic(c)
  <2> HIDE DEF shape
  <2>1. QED
    BY <1>1, <1>3 DEF VerifySemantic
<1>6. /\ Or(c.name, "") = Or(e.name, "") /\ Or(c.sets, <<>>) = encoded
      /\ Or(c.inputs, <<>>) = Or(e.inputs, <<>>) /\ Or(c.outputs, <<>>) = Or(e.outputs, <<>>)
      /\ Or(c.constants, <<>>) = Or(e.constants, <<>>)
      /\ Or(c.pushConstRanges, <<>>) = Or(e.pushConstRanges, <<>>)
  BY <1>1, OrLemma, Zenon
<1>7. Or(c.dispatchShape, <<>>) = shape /\ DispatchOf(c) = shape
  <2>1. \A default : Or(c.dispatchShape, default) = shape
    BY <1>1, OrLemma, Zenon
  <2>2. QED
    BY <2>1 DEF DispatchOf
<1>8. ParsedSets(getSets(c)) = parsed
  <2> DEFINE n == Len(sets)
             P(j) == [bindings |-> Or(sets[j].bindings, <<>>), setIndex |-> sets[j].setIndex]
             E(j) == [bindings |-> {parsed[j].bindings}, setIndex |-> parsed[j].setIndex]
             again == getSets(c)
             G(j) == [bindings |-> encoded[j].bindings,
                      setIndex |-> getSegmentDescriptorSetIndex(encoded[j].setIndex, j - 1)]
             Q(j) == [bindings |-> Or(again[j].bindings, <<>>), setIndex |-> again[j].setIndex]
  <2>1. /\ n \in Nat
        /\ \A j \in 1 .. n : \E index : sets[j].setIndex = getSegmentDescriptorSetIndex(index, j - 1)
    BY SetsLemma
  <2>2. parsed = [j \in 1 .. n |-> P(j)]
    BY DEF ParsedSets
  <2>3. encoded = [j \in 1 .. Len(parsed) |-> E(j)]
    BY DEF EncodedSets
  <2>4. again = [j \in 1 .. Len(encoded) |-> G(j)]
    <3> HIDE DEF encoded
    <3>1. QED
      BY <1>6 DEF getSets
  <2>5. ParsedSets(again) = [j \in 1 .. Len(again) |-> Q(j)]
    BY DEF ParsedSets
  <2>6. /\ \A j : P(j).bindings = Or(sets[j].bindings, <<>>) /\ P(j).setIndex = sets[j].setIndex
        /\ \A j : E(j).bindings = {parsed[j].bindings} /\ E(j).setIndex = parsed[j].setIndex
        /\ \A j : G(j).bindings = encoded[j].bindings
        /\ \A j : G(j).setIndex = getSegmentDescriptorSetIndex(encoded[j].setIndex, j - 1)
    OBVIOUS
  <2> HIDE DEF n, sets, parsed, encoded, again, P, E, G
  <2>7. Len(parsed) = n /\ \A j \in 1 .. n : parsed[j] = P(j)
    BY <2>1, <2>2
  <2>8. Len(encoded) = n /\ \A j \in 1 .. n : encoded[j] = E(j)
    BY <2>1, <2>3, <2>7
  <2>9. Len(again) = n /\ \A j \in 1 .. n : again[j] = G(j)
    BY <2>1, <2>4, <2>8
  <2>10. ASSUME NEW j \in 1 .. n PROVE Q(j) = P(j)
    <3>1. again[j].bindings = {P(j).bindings}
      BY <2>6, <2>7, <2>8, <2>9
    <3>2. Or(again[j].bindings, <<>>) = Or(sets[j].bindings, <<>>)
      <4>1. Or({P(j).bindings}, <<>>) = P(j).bindings
        BY OrLemma, Zenon
      <4>2. P(j).bindings = Or(sets[j].bindings, <<>>)
        BY <2>6
      <4>3. QED
        BY <3>1, <4>1, <4>2, Zenon
    <3>3. again[j].setIndex = getSegmentDescriptorSetIndex(sets[j].setIndex, j - 1)
      BY <2>6, <2>7, <2>8, <2>9
    <3>4. PICK index : sets[j].setIndex = getSegmentDescriptorSetIndex(index, j - 1)
      BY <2>1
    <3>5. again[j].setIndex = sets[j].setIndex
      BY <3>3, <3>4 DEF getSegmentDescriptorSetIndex
    <3>6. QED
      BY <3>2, <3>5, Zenon DEF P
  <2>11. [j \in 1 .. Len(again) |-> Q(j)] = [j \in 1 .. n |-> P(j)]
    <3> HIDE DEF Q
    <3>1. QED
      BY <2>9, <2>10, Zenon
  <2>12. QED
    BY <2>2, <2>5, <2>11 DEF again
<1>9. SegmentMeans(c) = [SegmentMeans(e) EXCEPT !.type = type]
  <2>1. c.moduleIndex = e.moduleIndex
    BY <1>1
  <2>2. SegmentMeans(c) =
          [type |-> type, name |-> Or(e.name, ""), moduleIndex |-> e.moduleIndex, sets |-> parsed,
           inputs |-> Or(e.inputs, <<>>), outputs |-> Or(e.outputs, <<>>),
           constants |-> Or(e.constants, <<>>), dispatchShape |-> shape,
           pushConstRanges |-> Or(e.pushConstRanges, <<>>)]
    BY <1>2, <1>6, <1>7, <1>8, <2>1, Zenon DEF SegmentMeans
  <2> DEFINE was == fromVGFModuleType(e.type)
             name == Or(e.name, "")
             module == e.moduleIndex
             inputs == Or(e.inputs, <<>>)
             outputs == Or(e.outputs, <<>>)
             constants == Or(e.constants, <<>>)
             ranges == Or(e.pushConstRanges, <<>>)
             Means(t) == [type |-> t, name |-> name, moduleIndex |-> module, sets |-> parsed,
                          inputs |-> inputs, outputs |-> outputs, constants |-> constants,
                          dispatchShape |-> shape, pushConstRanges |-> ranges]
  <2>3. SegmentMeans(e) = Means(was)
    BY Zenon DEF SegmentMeans, parsed, sets, shape
  <2>4. SegmentMeans(c) = Means(type)
    BY <2>2, Zenon
  <2> HIDE DEF was, name, module, parsed, shape, inputs, outputs, constants, ranges
  <2>5. [Means(was) EXCEPT !.type = type] = Means(type)
    OBVIOUS
  <2> HIDE DEF Means
  <2>6. QED
    BY <2>3, <2>4, <2>5
<1>10. Meaning("segment", c) = SegmentMeans(c)
  <2>1. (IF Or(c.dispatchShape, <<>>) = <<>> THEN <<0, 0, 0>> ELSE Or(c.dispatchShape, <<>>)) = DispatchOf(c)
    <3> HIDE DEF shape
    <3>1. QED
      BY <1>4, <1>7
  <2>2. QED
    BY <2>1, SegmentMeaningIs
<1>11. Meaning("segment", e) = SegmentMeans(e)
  BY DispatchLemma, SegmentMeaningIs
<1>12. QED
  BY <1>2, <1>5, <1>9, <1>10, <1>11 DEF c

--------------------------------------------------------------------------------
\* An element read through one API and encoded again, against another API,
\* when the module of a segment was added with the type.
RelaysWell(with, other, t, e, type) ==
  LET c == Copied(with, t, Answers(with, t, e), <<type>>)
  IN  /\ c = Copied(other, t, Answers(other, t, e), <<type>>)
      /\ Meaning(t, c) = IF t = "segment" THEN [Meaning(t, e) EXCEPT !.type = type] ELSE Meaning(t, e)
      /\ t = "module" => c.type = fromVGFModuleType(e.type)
      /\ t = "segment" => c.type = type /\ VerifySemantic(c)
      /\ t = "resource" => c.category = fromVGFResourceCategory(e.category)
      /\ ~NotEncodable(t, Answers(with, t, c))

LEMMA ModuleRelays ==
  ASSUME NEW e \in Module, NEW with \in APIs, NEW other \in APIs, NEW type,
         ~NotEncodable("module", Answers(with, "module", e))
  PROVE  RelaysWell(with, other, "module", e, type)
<1> DEFINE c == ModuleKept(e)
<1>1. ~NotEncodable("module", Answers(other, "module", e))
  BY ModuleAnswers DEF ModuleSays, NotEncodable
<1>2. e.codeType \in Kinds /\ Copied(with, "module", Answers(with, "module", e), <<type>>) = c
  BY ModuleCopies
<1>3. Copied(other, "module", Answers(other, "module", e), <<type>>) = c
  BY <1>1, ModuleCopies
<1>4. c \in Module /\ c.type = fromVGFModuleType(e.type) /\ c.codeType \in Kinds /\ Meaning("module", c) = Meaning("module", e)
  BY <1>2, ModuleMeaning
<1> HIDE DEF c
<1>5. ~NotEncodable("module", Answers(with, "module", c))
  <2>1. ModuleSays(Answers(with, "module", c), c)
    BY <1>4, ModuleAnswers
  <2>2. QED
    BY <1>4, <2>1 DEF ModuleSays, NotEncodable
<1>6. QED
  BY <1>2, <1>3, <1>4, <1>5 DEF RelaysWell

LEMMA ResourceRelays ==
  ASSUME NEW e \in ModelResourceTableEntry, NEW with \in APIs, NEW other \in APIs, NEW type,
         ~NotEncodable("resource", Answers(with, "resource", e))
  PROVE  RelaysWell(with, other, "resource", e, type)
<1> DEFINE c == ResourceKept(e)
<1>1. \A x : /\ Answers(with, "resource", x).category = getResource(x).category
             /\ Answers(with, "resource", x).descriptorType = getResource(x).descriptorType
  <2> TAKE x
  <2>1. /\ cResource(x).category = getResource(x).category
        /\ cResource(x).descriptorType = getResource(x).descriptorType
        /\ pyResource(x).category = getResource(x).category
        /\ pyResource(x).descriptorType = getResource(x).descriptorType
    BY DEF cResource, cOptional, pyResource, getResource
  <2>2. Answers(with, "resource", x) \in {getResource(x), cResource(x), pyResource(x)}
    BY DEF Answers, APIs
  <2>3. QED
    BY <2>1, <2>2
<1>2. /\ Copied(with, "resource", Answers(with, "resource", e), <<type>>) = c
      /\ Copied(other, "resource", Answers(other, "resource", e), <<type>>) = c
  BY ResourceCopies
<1>3. /\ c.category = fromVGFResourceCategory(e.category) /\ Meaning("resource", c) = Meaning("resource", e)
      /\ getResource(c).category = getResource(e).category
      /\ getResource(e).category # "CONSTANT" => getResource(c).descriptorType = getResource(e).descriptorType
  BY ResourceMeaning
<1> HIDE DEF c
<1>4. ~NotEncodable("resource", Answers(with, "resource", c))
  BY <1>1, <1>3 DEF NotEncodable
<1>5. QED
  BY <1>2, <1>3, <1>4 DEF RelaysWell

LEMMA SegmentRelays ==
  ASSUME NEW e \in SegmentInfo, VerifySemantic(e), NEW with \in APIs, NEW other \in APIs,
         NEW type \in {"COMPUTE", "GRAPH"}
  PROVE  RelaysWell(with, other, "segment", e, type)
<1> DEFINE c == SegmentKept(e, <<type>>)
<1>1. /\ Copied(with, "segment", Answers(with, "segment", e), <<type>>) = c
      /\ Copied(other, "segment", Answers(other, "segment", e), <<type>>) = c
  BY SegmentCopies
<1>2. /\ c.type = type /\ VerifySemantic(c)
      /\ Meaning("segment", c) = [Meaning("segment", e) EXCEPT !.type = type]
  BY SegmentMeaning
<1> HIDE DEF c
<1>3. ~NotEncodable("segment", Answers(with, "segment", c))
  BY DEF NotEncodable
<1>4. QED
  BY <1>1, <1>2, <1>3 DEF RelaysWell

LEMMA SequenceRelays ==
  ASSUME NEW e, NEW with \in APIs, NEW other \in APIs, NEW type
  PROVE  RelaysWell(with, other, "sequence", e, type)
<1> DEFINE c == SequenceKept(e)
<1>1. /\ Copied(with, "sequence", Answers(with, "sequence", e), <<type>>) = c
      /\ Copied(other, "sequence", Answers(other, "sequence", e), <<type>>) = c
  BY SequenceCopies
<1>2. Meaning("sequence", c) = Meaning("sequence", e)
  BY SequenceMeaning
<1> HIDE DEF c
<1>3. ~NotEncodable("sequence", Answers(with, "sequence", c))
  BY DEF NotEncodable
<1>4. QED
  BY <1>1, <1>2, <1>3 DEF RelaysWell

LEMMA ConstantRelays ==
  ASSUME NEW e \in ConstantData, NEW with \in APIs, NEW other \in APIs, NEW type,
         ~NotEncodable("constant", Answers(with, "constant", e))
  PROVE  RelaysWell(with, other, "constant", e, type)
<1>1. /\ Answers(with, "constant", e) = getConstant(e)
      /\ Copied(with, "constant", Answers(with, "constant", e), <<type>>) = e
      /\ Copied(other, "constant", Answers(other, "constant", e), <<type>>) = e
      /\ ~NotEncodable("constant", getConstant(e))
  BY ConstantCopies
<1>2. QED
  BY <1>1 DEF RelaysWell

\* Whatever a client has encoded, it was told so by the decoder of its API.
LEMMA CopiesRelay ==
  ASSUME RelayInv, NEW c \in copy, NEW other \in APIs
  PROVE  /\ c = Copied(api, table, Answers(api, table, element), moduleRefToType)
         /\ RelaysWell(api, other, table, element, fromVGFModuleType(moduleType))
<1> DEFINE type == fromVGFModuleType(moduleType)
<1>1. /\ c = Copied(api, table, Answers(api, table, element), moduleRefToType)
      /\ ~NotEncodable(table, Answers(api, table, element))
      /\ table = "segment" => VerifySemantic(element)
      /\ api \in APIs /\ table \in {"module", "resource", "segment", "sequence", "constant"}
      /\ element \in StoredIn(table)
      /\ table = "segment" => moduleType \in {"COMPUTE", "GRAPH", Unknown}
  BY DEF RelayInv
<1>2. /\ Modules \subseteq Module /\ Entries \subseteq ModelResourceTableEntry
      /\ Segments \subseteq SegmentInfo /\ Constants \subseteq ConstantData
  BY RelayAssumption
<1>3. CASE table = "module"
  <2>1. element \in Module
    BY <1>1, <1>2, <1>3 DEF StoredIn
  <2>2. QED
    BY <1>1, <1>3, <2>1, ModuleRelays
<1>4. CASE table = "resource"
  <2>1. element \in ModelResourceTableEntry
    BY <1>1, <1>2, <1>4 DEF StoredIn
  <2>2. QED
    BY <1>1, <1>4, <2>1, ResourceRelays
<1>5. CASE table = "segment"
  <2>1. element \in SegmentInfo
    BY <1>1, <1>2, <1>5 DEF StoredIn
  <2>2. QED
    BY <1>1, <1>5, <2>1, TypeLemma, SegmentRelays
<1>6. CASE table = "sequence"
  BY <1>1, <1>6, SequenceRelays
<1>7. CASE table = "constant"
  <2>1. element \in ConstantData
    BY <1>1, <1>2, <1>7 DEF StoredIn
  <2>2. QED
    BY <1>1, <1>7, <2>1, ConstantRelays
<1>8. QED
  BY <1>1, <1>3, <1>4, <1>5, <1>6, <1>7

\* An element that is read through the decoders of an API and encoded again
\* through its encoder means to every reader what it meant, for every
\* element of a section the decoders accept, whatever is null, None, absent
\* or empty in it (src/decoder.cpp, decoder_c_api.cpp, decoder_py.cpp and
\* the encoders beside them), but that a segment takes the type of its
\* module; and its type or category is the stored one exactly if a decoder
\* knows it, and a segment's if it is its module's.
THEOREM RelayKeepsMeaning == RelaySpec => []MeaningKept
<1>1. ASSUME RelayInv, NEW c \in copy
      PROVE  RelaysWell(api, api, table, element, fromVGFModuleType(moduleType))
             /\ c = Copied(api, table, Answers(api, table, element), <<fromVGFModuleType(moduleType)>>)
  <2>1. api \in APIs
    BY <1>1 DEF RelayInv
  <2>2. QED
    BY <1>1, <2>1, CopiesRelay DEF moduleRefToType
<1>2. RelayInv => ReadersMeaningKept
  BY <1>1 DEF ReadersMeaningKept, RelaysWell
<1>3. RelayInv => EnumeratorsKept
  <2> SUFFICES ASSUME RelayInv, NEW c \in copy
               PROVE  /\ table = "module" => (c.type = element.type <=> ~Asserts(element.type))
                      /\ table = "resource" => (c.category = element.category <=> ~Asserts(element.category))
                      /\ table = "segment" =>
                           (c.type = element.type <=> element.type = fromVGFModuleType(moduleType))
    BY DEF EnumeratorsKept
  <2>1. /\ table = "module" => c.type = fromVGFModuleType(element.type)
        /\ table = "resource" => c.category = fromVGFResourceCategory(element.category)
        /\ table = "segment" => c.type = fromVGFModuleType(moduleType)
    BY <1>1 DEF RelaysWell
  <2>2. QED
    BY <2>1 DEF fromVGFModuleType, fromVGFResourceCategory, Asserts, Unknown
<1>4. QED
  BY <1>2, <1>3, RelayInvariant, PTL DEF MeaningKept

\* The three APIs store the same element for the same one, and each says of
\* a module that it has code exactly when it hands code out.
THEOREM ApisStoreTheSame == RelaySpec => []ApisAgree
<1>1. RelayInv => CopiesAgree
  <2> SUFFICES ASSUME RelayInv, NEW c \in copy, NEW other \in APIs
               PROVE  c = Copied(other, table, Answers(other, table, element), moduleRefToType)
    BY DEF CopiesAgree
  <2>1. QED
    BY CopiesRelay DEF RelaysWell, moduleRefToType
<1>2. RelayInv => HasMeansCode
  <2> SUFFICES ASSUME RelayInv, NEW a \in answers, table = "module", NEW kind \in Kinds
               PROVE  kind \in a.has <=> NotEmpty(a.code[kind], "") # {}
    BY DEF HasMeansCode
  <2>1. api \in APIs /\ element \in Module /\ a = Answers(api, "module", element)
    BY RelayAssumption DEF RelayInv, StoredIn
  <2>2. ModuleSays(a, element)
    BY <2>1, ModuleAnswers
  <2>3. QED
    BY <2>2 DEF ModuleSays
<1>3. QED
  BY <1>1, <1>2, RelayInvariant, PTL DEF ApisAgree

\* What a client has encoded it can read and encode again: no enumeration
\* of it stops at an assertion, no segment of it is refused, and nothing it
\* is told is what the encoder does not take.
THEOREM RelayedElementsReadClean == RelaySpec => []CopyReadsClean
<1>1. RelayInv => CopyReadsClean
  <2> SUFFICES ASSUME RelayInv, NEW c \in copy
               PROVE  /\ table \in {"module", "segment"} => ~Asserts(c.type)
                      /\ table = "segment" => VerifySemantic(c)
                      /\ table = "resource" => ~Asserts(c.category)
                      /\ ~NotEncodable(table, Answers(api, table, c))
    BY DEF CopyReadsClean
  <2>1. /\ api \in APIs /\ element \in StoredIn(table)
        /\ table = "segment" => moduleType \in {"COMPUTE", "GRAPH", Unknown}
    BY DEF RelayInv
  <2>2. /\ c = Copied(api, table, Answers(api, table, element), <<fromVGFModuleType(moduleType)>>)
        /\ RelaysWell(api, api, table, element, fromVGFModuleType(moduleType))
    BY <2>1, CopiesRelay DEF moduleRefToType
  <2>3. /\ table = "module" => c.type = fromVGFModuleType(element.type)
        /\ table = "segment" => c.type = fromVGFModuleType(moduleType) /\ VerifySemantic(c)
        /\ table = "resource" => c.category = fromVGFResourceCategory(element.category)
        /\ ~NotEncodable(table, Answers(api, table, c))
    BY <2>2 DEF RelaysWell
  <2>4. \A x : ~Asserts(fromVGFModuleType(x)) /\ ~Asserts(fromVGFResourceCategory(x))
    BY DEF fromVGFModuleType, fromVGFResourceCategory, Asserts, Unknown
  <2>5. QED
    BY <2>3, <2>4
<1>2. QED
  BY <1>1, RelayInvariant, PTL
===============================================================================
