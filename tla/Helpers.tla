-------------------------------- MODULE Helpers --------------------------------
(***************************************************************************)
(* The pure functions of ByteRanges, Numpy, VulkanEnums and VulkanFormats, *)
(* called with arguments of the word, against reference definitions over   *)
(* the unbounded integers, and SectionIndexTable beside them.  A behaviour *)
(* is one call, or the life of a section table.                            *)
(***************************************************************************)
EXTENDS SectionIndexTable, Numpy, VulkanEnums, VulkanFormats

CONSTANTS
  Arguments,           \* of the arithmetic
  Shapes, ItemSizes,   \* of NumPy files
  TextLens,            \* lengths of the dictionary in a NumPy header
  FileSizes            \* lengths of a file that is read as a NumPy file

\* A dimension is an int64_t, which may be below 0.
ASSUME HelpersAssumption ==
  /\ Arguments \subseteq U64
  /\ Shapes \subseteq Seq(Int)
  /\ ItemSizes \subseteq U64
  /\ TextLens \subseteq Nat /\ FileSizes \subseteq Nat

VARIABLE call   \* the function called, its arguments, its result

helpersVars == <<vars, call>>

HelpersInit ==
  /\ Init
  /\ call \in {[fn |-> "none"], [fn |-> "table"]}

CallAdd == \E lhs, rhs \in Arguments :
  call' = [fn |-> "checkedAdd", lhs |-> lhs, rhs |-> rhs, result |-> checkedAdd(lhs, rhs)]

CallMul == \E lhs, rhs \in Arguments :
  call' = [fn |-> "checkedMul", lhs |-> lhs, rhs |-> rhs, result |-> checkedMul(lhs, rhs)]

CallAlignUp == \E size, alignment \in Arguments :
  call' = [fn |-> "checkedAlignUp", size |-> size, alignment |-> alignment,
           result |-> checkedAlignUp(size, alignment)]

CallWithin == \E range \in [offset : Arguments, size : Arguments], payloadSize \in Arguments :
  call' = [fn |-> "byteRangeWithinBounds", range |-> range, payloadSize |-> payloadSize,
           result |-> byteRangeWithinBounds(range, payloadSize)]

CallSplit == \E sectionSize, recordsOffset, recordSize, recordCount \in Arguments :
  call' = [fn |-> "splitFixedRecordTable", sectionSize |-> sectionSize,
           recordsOffset |-> recordsOffset, recordSize |-> recordSize, recordCount |-> recordCount,
           result |-> splitFixedRecordTable(sectionSize, recordsOffset, recordSize, recordCount)]

CallAppend == \E size, alignment, payloadSize \in Arguments :
  call' = [fn |-> "appendAlignedByteRange", size |-> size, alignment |-> alignment,
           payloadSize |-> payloadSize,
           result |-> appendAlignedByteRange(size, alignment, payloadSize)]

\* A number, and the name it is given.
CallToName == \E type \in Enumerations, e \in {NoNumber} \cup 0 .. 9 :
  call' = [fn |-> "ToName", type |-> type, e |-> e, result |-> ToName(type, e)]

CallNumericFormat == \E format \in SizedFormats :
  call' = [fn |-> "numpyTypeEncoding", format |-> format,
           result |-> numpyTypeEncoding(componentNumericFormat(format))]

\* A NumPy file is written, and read again.
CallWrite == \E shape \in Shapes, itemsize \in ItemSizes, textLen \in TextLens :
  LET dtype == [byteorder |-> "native", kind |-> "i", itemsize |-> itemsize]
      file == write(shape, dtype, textLen)
  IN  call' = [fn |-> "write", shape |-> shape, dtype |-> dtype, file |-> file,
               result |-> parse(file)]

\* Any file is read.
CallParse ==
  \E shape \in Shapes, itemsize \in ItemSizes, textLen \in TextLens, size \in FileSizes,
     version \in 1 .. 3, byteorder \in {"native", "foreign"}, fortran \in BOOLEAN :
    LET dtype == [byteorder |-> byteorder, kind |-> "i", itemsize |-> itemsize]
        file == [writeHeader(shape, dtype, textLen) EXCEPT
                   !.size = size, !.version = version, !.fortran = fortran]
    IN  call' = [fn |-> "parse", shape |-> shape, file |-> file, result |-> parse(file)]

CallNext ==
  \/ CallAdd \/ CallMul \/ CallAlignUp \/ CallWithin \/ CallSplit \/ CallAppend
  \/ CallToName \/ CallNumericFormat \/ CallWrite \/ CallParse

HelpersNext ==
  \/ call.fn = "none" /\ CallNext /\ UNCHANGED vars
  \/ call.fn = "table" /\ Next /\ UNCHANGED call

HelpersSpec == HelpersInit /\ [][HelpersNext]_helpersVars

--------------------------------------------------------------------------------
Fits(n) == n <= U64Max

\* checkedAdd and checkedMul (utils.hpp) return the integer result exactly
\* when a uint64_t holds it, though they never compute past the word.
SumProductExact ==
  /\ call.fn = "checkedAdd" =>
       call.result = {n \in {call.lhs + call.rhs} : Fits(n)}
  /\ call.fn = "checkedMul" =>
       call.result = {n \in {call.lhs * call.rhs} : Fits(n)}

\* checkedAlignUp returns the least multiple of the alignment that is not
\* below size, and refuses exactly when size + alignment - 1 leaves the word
\* (a multiple in the word may still exist then: the check is conservative).
AlignUpLeast ==
  call.fn = "checkedAlignUp" =>
    /\ call.result = {} <=> call.alignment = 0 \/ ~Fits(call.size + call.alignment - 1)
    /\ \A n \in call.result :
         /\ n % call.alignment = 0
         /\ call.size <= n
         /\ n < call.size + call.alignment

\* byteRangeWithinBounds accepts a range exactly when its integer end,
\* offset + size, is inside the payload, whatever the sum does in the word.
WithinBoundsExact ==
  call.fn = "byteRangeWithinBounds" =>
    (call.result <=> call.range.offset + call.range.size <= call.payloadSize)

Addressable(range) == SizeMax = U64Max \/ range.offset + range.size <= SizeMax

\* splitFixedRecordTable answers exactly when the records and the payload
\* after them are the whole rest of the section and can be addressed.
SplitExact ==
  call.fn = "splitFixedRecordTable" =>
    LET records == [offset |-> call.recordsOffset, size |-> call.recordCount * call.recordSize]
        end == records.offset + records.size
        payload == [offset |-> end, size |-> call.sectionSize - end]
    IN  call.result =
          IF /\ call.recordSize # 0
             /\ end <= call.sectionSize
             /\ Addressable(records)
             /\ Addressable(payload)
          THEN {[records |-> records, payload |-> payload]}
          ELSE {}

\* appendAlignedByteRange places the entry at the old end of the payload,
\* and moves the end past it to where the next entry may start, never past
\* the word or the address space.
AppendExtends ==
  call.fn = "appendAlignedByteRange" =>
    \A a \in call.result :
      /\ a.range = [offset |-> call.payloadSize, size |-> call.size]
      /\ a.payloadSize = a.range.offset + a.paddedSize
      /\ a.paddedSize \in call.size .. call.size + call.alignment - 1
      /\ a.paddedSize % call.alignment = 0
      /\ Fits(a.payloadSize)
      /\ Addressable([offset |-> call.payloadSize, size |-> a.paddedSize])

\* The helpers of utils.hpp compute over the integers what they say, or say
\* that they cannot.
ArithmeticExact ==
  SumProductExact /\ AlignUpLeast /\ WithinBoundsExact /\ SplitExact /\ AppendExtends

\* What *ToName prints reads back as the number only if the number has one
\* name: the others are printed "name / alias", which no NameTo* knows.
\* Taken apart, the first name always reads back; a further one does for
\* filters, address modes and border colors, while for descriptor types and
\* formats it is refused, never taken for another number.  "Unknown" is
\* printed for exactly what no header defines, and reads back as nothing.
NamesReadBack ==
  call.fn = "ToName" =>
    LET printed == call.result
        read(i) == NameTo(call.type, <<printed[i]>>)
    IN  /\ printed = UnknownName <=> ~ValidateDecoded(call.type, call.e)
        /\ printed = UnknownName => NameTo(call.type, printed) = NoNumber
        /\ printed # UnknownName =>
             /\ NameTo(call.type, printed) = IF Len(printed) = 1 THEN call.e ELSE NoNumber
             /\ read(1) = call.e
             /\ \A i \in 2 .. Len(printed) :
                  read(i) = IF call.type \in {"DescriptorType", "FormatType"}
                            THEN NoNumber ELSE call.e

\* The item of a NumPy file is the block of its format but for one format,
\* whose blocks of 10 bytes become items of 16; and no format is dumped as
\* raw bytes ("V"), though bfloat16 and the 8-bit floats are meant to be
\* (numpy.cpp:176): their numeric format is that of the IEEE floats.
ItemIsBlock ==
  call.fn = "numpyTypeEncoding" =>
    /\ elementSizeFromBlockSize(blockSize(call.format)) = blockSize(call.format)
         <=> call.format # "SBS80_ARM"
    /\ call.result \subseteq {"b", "i", "u", "f"}
    /\ call.result = {} <=>
         componentNumericFormat(call.format) \in {"USCALED", "SSCALED", "SRGB"}

\* What vulkan_helpers.generated.hpp says of enumerators and formats can be
\* used as the tools use it.
GeneratedHelpersExact == NamesReadBack /\ ItemIsBlock

\* parse finds what write wrote, in the order written, unless there is
\* nothing to find: a file whose data is empty ends with its header and is
\* refused.  The data starts on the 16 bytes NumPy asks for, but for a
\* header of version 2, which is padded like one of version 1 and is two
\* bytes longer.
NumpyReadsBack ==
  call.fn = "write" =>
    LET size == sizeOf(call.shape, call.dtype.itemsize)
    IN  /\ (call.file.size - size) % 16 = IF call.file.version = 1 THEN 0 ELSE 2
        /\ call.result =
          IF size = 0 THEN {}
          ELSE {[dtype |-> call.dtype, shape |-> call.shape, at |-> call.file.size - size]}

\* The data parse returns lies within the file, if its size and its end do
\* not leave the word: the product and the sum of the check both wrap.
ParsedInFile ==
  call.fn = "parse" =>
    \A data \in call.result :
      LET size == Exact(data.shape, data.dtype.itemsize)
      IN  /\ data.at < call.file.size
          /\ size >= 0 /\ data.at + size <= U64Max => data.at + size <= call.file.size
================================================================================
