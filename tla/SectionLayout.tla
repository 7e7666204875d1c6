----------------------------- MODULE SectionLayout -----------------------------
(***************************************************************************)
(* The section index of src/section_index_table.hpp: one section's offset, *)
(* size, alignment and padding, and how a section follows the one before   *)
(* it.  Offsets are uint64_t, so sums and differences wrap at U64Max + 1.  *)
(***************************************************************************)
EXTENDS ByteRanges, Integers

Wrap(n) == n % (U64Max + 1)

SectionIndexType ==
  [offset : U64, size : U64, alignment : U64 \ {0}, padding : U64]

\* A section as AddSection leaves it: not placed yet.
SectionIndex(size, alignment) ==
  [offset |-> 0, size |-> size, alignment |-> alignment, padding |-> 0]

IsAligned(section) == section.offset % section.alignment = 0

EndOfData(section) == Wrap(section.offset + section.size)

NextOffset(section) == Wrap(EndOfData(section) + section.padding)

\* Never, and one alignment too much where none is needed.
NoPaddingBug(alignment, end) == 0
FullPaddingBug(alignment, end) == alignment - (end % alignment)

\* EndOfData() - 1 wraps when the data ends at 0.
PaddingBefore(alignment, end) == alignment - ((Wrap(end - 1) % alignment) + 1)

UpdatePadding(section, next) ==
  [section EXCEPT !.padding = PaddingBefore(next.alignment, EndOfData(section))]

UpdateOffset(section, prev) ==
  [section EXCEPT !.offset = NextOffset(prev)]
================================================================================
