--------------------------------- MODULE Numpy ---------------------------------
(***************************************************************************)
(* utils/src/numpy.cpp: NumPy files.  A file is [headerLen, version,       *)
(* dtype, fortran, shape, size], the fields of its header and its length;  *)
(* a DataPtr is [dtype, shape, at], at the offset of its data.  As in      *)
(* ByteRanges what may throw is a set, {} if it does.                      *)
(***************************************************************************)
EXTENDS ByteRanges, Integers, SequencesExt

CONSTANT HeaderLenMax   \* 65535, the longest header of version 1

\* A number without a fractional power of two: 2^0 up to the word.
Powers == {2^k : k \in 0 .. 20}

\* Zero passes too.
isPow2(value) == value = 0 \/ value \in Powers

\* Rounding up what is a power of two already.
elementSizeFromBlockSizeBug(blockSize) ==
  CHOOSE p \in Powers : blockSize < p /\ p <= 2 * blockSize

elementSizeFromBlockSize(blockSize) ==
  IF isPow2(blockSize) THEN blockSize
  ELSE CHOOSE p \in Powers : blockSize < p /\ p <= 2 * blockSize

numpyTypeEncoding(numeric) ==
  CASE numeric = "BOOL" -> {"b"}
    [] numeric \in {"SINT", "SNORM"} -> {"i"}
    [] numeric \in {"UINT", "UNORM"} -> {"u"}
    [] numeric \in {"SFLOAT", "UFLOAT"} -> {"f"}
    [] numeric \in {"BFLOAT16", "FLOAT8E4M3", "FLOAT8E5M2"} -> {"V"}
    [] OTHER -> {}

\* Dimensions are int64_t, and the product is taken in the word.
sizeOf(shape, itemsize) ==
  FoldLeft(LAMBDA product, dim : (product * (dim % (U64Max + 1))) % (U64Max + 1), itemsize, shape)

\* The product as it would be without the word.
Exact(shape, itemsize) == FoldLeft(LAMBDA product, dim : product * dim, itemsize, shape)

--------------------------------------------------------------------------------
\* A tuple as text is what stands between its commas, <<>> after the last
\* one of a tuple of one.  getline does not give that back; stoull takes a
\* sign and wraps, and int64_t undoes it.
shapeToStr(shape) ==
  [i \in 1 .. Len(shape) |-> <<shape[i]>>] \o (IF Len(shape) = 1 THEN <<<<>>>> ELSE <<>>)

strToShape(text) == FoldLeft(LAMBDA shape, token : shape \o token, <<>>, text)

\* One blank less than to the next multiple.
PaddingBug(textLen) == 16 - ((10 + textLen) % 16)

Padding(textLen) == 16 - ((10 + textLen + 1) % 16)

\* Magic, version and length of the header.
Prefix(version) == IF version = 1 THEN 10 ELSE 12

\* The header of a dictionary of textLen characters.
writeHeader(shape, dtype, textLen) ==
  LET headerLen == textLen + Padding(textLen) + 1
      version == IF headerLen > HeaderLenMax THEN 2 ELSE 1
  IN  [headerLen |-> headerLen, version |-> version, dtype |-> dtype, fortran |-> FALSE,
       shape |-> shapeToStr(shape), size |-> Prefix(version) + headerLen]

\* A file whose data was written whole.
write(shape, dtype, textLen) ==
  [writeHeader(shape, dtype, textLen) EXCEPT !.size = @ + sizeOf(shape, dtype.itemsize)]

\* The data need not fit.
fitsBug(file, headerOffset, size) == headerOffset <= file.size

\* The check wraps with the word.
fits(file, headerOffset, size) == (headerOffset + size) % (U64Max + 1) <= file.size

\* MemoryMap::ptr throws for an offset that is not below the size.
parse(file) ==
  LET headerOffset == Prefix(file.version) + file.headerLen
      shape == strToShape(file.shape)
  IN  IF \/ file.version \notin {1, 2}
         \/ file.dtype.byteorder = "foreign"
         \/ file.fortran
         \/ headerOffset >= file.size
         \/ ~fits(file, headerOffset, sizeOf(shape, file.dtype.itemsize))
      THEN {}
      ELSE {[dtype |-> file.dtype, shape |-> shape, at |-> headerOffset]}
================================================================================
