# Verification of the VGF library

VGF is the container in which an ML model, its SPIR-V modules, its resources and
its constants travel to a Vulkan runtime.  The library writes such files (the
encoder), reads them in place from mapped memory (the decoders), and comes with
tools that dump and update them.  This directory holds TLA+ specifications of
that code, the TLC configurations that check them on small instances, and
proofs, checked by TLAPS, that hold for every instance.

Paths below are relative to the repository.  `PROJECT.json` lists the runs, the
theorems, the hazards, and for each definition the lines of code it stands for.

    tlc -config MCVgfWriter.cfg MCVgfWriter      # a run
    tlapm VgfWriterProofs.tla                    # the proofs of a module

## 1. The system

The library is sequential: no threads, no locks, no asynchronous calls.  What is
hard in it is the order of API calls, streams that fail part way or only when
they are flushed, 64-bit arithmetic on sizes that may come from an arbitrary
file, data released while it is still declared, facts checked in one place and
relied on in another, and three APIs that each tell null, empty and absent apart
in their own way.

| component | code | state it keeps | operations |
|---|---|---|---|
| Checked arithmetic | `src/utils.hpp` | none | `checkedAdd`, `checkedMul`, `checkedAlignUp`, `byteRange...`, `splitFixedRecordTable`, `appendAlignedByteRange` |
| Section index table | `src/section_index_table.hpp` | a list of sections: offset, size, alignment, padding | `AddSection`, `Update`, `SectionIndex::Write` |
| Format | `src/header.hpp`, `src/constant.hpp` | none | header fields, CONST00 records |
| Encoder: constants | `src/encoder.cpp` | metadata records, padded data blocks, end of payload, `encodingFailed_`, `finished_` | `AddConstant` |
| Encoder: tables | `src/encoder.cpp` | three FlatBuffers builders, model inputs, outputs and their names, resources awaiting an alias group | `AddModule` ..., `AddSegmentInfo`, `AddModelSequenceInputsOutputs`, `SetAliasGroup`, `Finish` |
| Encoder: writing | `src/encoder.cpp` | all of the above, and the caller's stream | `WriteTo` |
| Decoders | `src/decoder.cpp` | pointers into the mapped file, the layout found at creation | creation with its checks, then getters |
| Memory map | `utils/src/memory_map.cpp` | the mapping | `ptr`, `size` |
| Parser | `utils/src/parse_vgf.cpp` | none | decoded tables to plain structs; joins bindings with names |
| `vgf_dump` | `vgf_dump/src` | the output file | lists a file, makes a scenario template, dumps code, a constant or a NumPy file of one |
| NumPy output | `utils/src/numpy.cpp` | none | `write`, `parse` |
| Generated code | `schema/generated`, `include/vgf/vulkan_helpers.generated.hpp` | none | accessors of tables with their defaults; names of enumerators, sizes of formats |
| `vgf_updater` | `vgf_updater/src` | references made so far, model inputs and outputs, the output file | decodes an old file and encodes it again |
| C API, Python | `src/*_c_api.cpp`, `src/*_py.cpp` | none of their own | forward the calls above; write to files and Python streams |

How they interact.  A client builds a model through the references the encoder
hands out, each an index into a builder.  `Finish` freezes the three tables;
`WriteTo` lays the sections out with a `SectionIndexTable`, writes header,
tables and constants to the caller's `ostream`, and releases each constant once
it was put.  A reader maps the file, creates a header decoder (which checks the
section ranges against the file's length), gives each section's pointer to its
own decoder (which checks the section against the size in the header), and
calls getters that trust those checks.  The parser calls the decoders and feeds
`vgf_dump` and `vgf_updater`; the latter is also a client of the encoder.

What makes each part correct:

- *Arithmetic*: every helper returns what unbounded integers would give, or
  nothing, and never computes past the word on the way.
- *Sections*: aligned, in order, adjacent but for the padding, also when
  `Update` runs again on a table that has grown.
- *Constants*: payload ranges tile the payload, and the record's offset is where
  the block is put although two functions compute the two.
- *Writing*: nothing is written after a refusal; what reaches the stream before
  a failure is in place; `true` means written; no block is lost to a call that
  failed before it got to the constants; and on a stream that did not fail a
  decoder reads back the constants that were added.
- *Tables*: references are in bounds in every file that can be written; a name
  never lands on another binding; an alias group never changes.
- *Decoders*: whatever the file holds, a view stays inside the section and the
  file; a decoder that was created serves all it counts.
- *Updater*: what is the same model afterwards, and under which conditions the
  rest is; no reference of the old file is followed out of bounds, nor one written
  that is; an input with a fault leaves the output as it was.
- *Readers*: what is stored, read through any API and encoded again through it
  means the same, but for a segment's type and for enumerators that are not
  known, and the three APIs agree.
- *Writers of files*: how much of the file is there when a program reports
  success; what a retry can still write; what becomes of an output that is the
  input; every call returns.
- *Templates*: closed (whatever is named is declared, once), with the directions
  and the sizes of the file's tables, and each segment its own shader.

The hazards, each at its line, are in `PROJECT.json`.

## 2. The modules

Which module stands on which (`A < B`: `B` extends `A`):

    ByteRanges       < SectionLayout, EncoderConstants, Numpy
    SectionLayout    < SectionIndexTable, VgfFormat
    VgfFormat        < VgfDecoder, VgfWriter
    EncoderConstants < VgfWriter, EncoderTables
    ParsedModel      < EncoderTables, TableFormat, VgfDump
    EncoderTables    < VgfUpdater
    TableFormat      < TableDecoders < TableEncoders < TableRelay
    Numpy            < VgfDump
    VulkanFormats    < VgfDump
    VgfDump          < VgfDumpTool
    OutputFiles      < VgfDumpTool
    SectionIndexTable, Numpy, VulkanEnums, VulkanFormats < Helpers

`VgfWriter` implements `ConstantStore`, which it instantiates.  The checked
modules are `MCVgfWriter`, `MCVgfDecoder`, `MCEncoderTables`, `MCVgfUpdater`,
`MCReaders` (over `TableRelay`), `MCOutputs` (over `VgfDumpTool`) and
`MCHelpers`.  Proofs are in modules of their own, which extend each other as the
modules they are about do:

    ByteRangesProofs       < HelpersProofs, VgfDecoderProofs, EncoderConstantsProofs,
                             OutputFilesProofs
    EncoderConstantsProofs < VgfWriterProofs, EncoderTablesProofs
    EncoderTablesProofs    < VgfUpdaterProofs
    HelpersProofs          (of Helpers, with Numpy, VulkanEnums and VulkanFormats)
    VgfDecoderProofs       (of VgfDecoder, and of TableRelay)
    OutputFilesProofs      (of VgfDumpTool, OutputFiles and VgfDump)

`ByteRangesProofs` (of `SectionLayout` and `Numpy`) and `EncoderConstantsProofs`
hold lemmas only.

| module | stands for |
|---|---|
| `ByteRanges` | every helper of `src/utils.hpp` |
| `SectionLayout` | `SectionIndex`: `UpdatePadding`, `UpdateOffset` in wrapping arithmetic |
| `SectionIndexTable` | `AddSection`, and `Update` with a step for each iteration |
| `VgfFormat` | header, CONST00 records, and all that the decoders verify of them |
| `EncoderConstants` | `AddConstant`: clamp, placing, refusal |
| `ConstantStore` | abstract: what the encoder promises about constants |
| `VgfWriter` | `Finish` and `WriteTo` on a stream that fails at any write |
| `ParsedModel` | `parseModelSequenceTable`, the descriptor set index, `validateParsedReferences` |
| `EncoderTables` | all other `Add...`/`Set...` calls and the tables `Finish` builds |
| `VgfDecoder` | mapping, header decoder, CONST00 and legacy constant decoders |
| `VgfUpdater` | `update` of `vgf_updater`, over `EncoderTables` and `ParsedModel` |
| `TableFormat` | the generated accessors of each table, with absent fields and unknown enumerators, and the verifier's verdict |
| `TableDecoders` | the getters of `src/decoder.cpp`, `src/decoder_c_api.cpp`, `src/decoder_py.cpp`, and the parser's structs |
| `TableEncoders` | what `src/encoder.cpp`, `src/encoder_c_api.cpp`, `src/encoder_py.cpp` store of a call's arguments |
| `TableRelay` | a client that reads an element through one API and encodes it again |
| `VulkanEnums`, `VulkanFormats` | names of enumerators both ways; block sizes and numeric formats |
| `Helpers` | a call of a pure function, with the definitions it is compared to; and `SectionIndexTable` beside it |
| `Numpy` | `writeHeader`, `write`, `parse`, encodings and item sizes |
| `VgfDump` | each command of `vgf_dump`, from a file to what is put out |
| `OutputFiles` | the six programs that write a file, on streams that hold back and fail |
| `VgfDumpTool` | `main` of `vgf_dump` on `OutputFiles` |

Conventions.  A `std::optional` is a set with at most one member, so a chain of
optionals is a `UNION` and `{}` is `nullopt` (or a null decoder).  `uint64_t` is
`0..U64Max` and sums wrap where the code does not check them; `size_t` may be
narrower (`SizeMax`), as it is on 32-bit builds.  Variables keep the names of
the members they stand for, without the trailing underscore.  An assertion on
the caller (`assert(!finished_)`) is a guard: the client keeps to the API.
Operators whose names end in `Bug` are mistakes the properties must notice, no
specification uses them.

### What a step is

- `AddConstant`, `RejectConstant`: a whole call.  The client may ignore the
  reference `UINT32_MAX` it gets and use it in a segment (`failedRef`).
- `WriteTo` does the refusals and the layout; `WriteSection` a section with its
  padding and the check after it; `WriteConstantHead` the version, count and
  records, which no check follows; `WriteConstant` a block, its release and the
  check; `EndWriteTo` the final clear and `return true`.  The client's calls do
  not interleave with these steps (the code is sequential); what does is the
  failure of the stream, between any two writes and before the first.
- A stream is what it accepted: a list of `[part, idx, at, size]`.  Whether a
  block's bytes are the right ones shows in `idx` and `size`, a released block
  being empty.
- A step of `VgfUpdater` is one call it makes of the encoder, which is an action
  of `EncoderTables`, or an exit.  Where its loops are follows from the lengths of
  the lists they fill (`work`), and resources are added one for one, so that a
  resource's index is its reference.  The tool reads the file as structs: a
  header or table that a decoder refuses is the version `"invalid"`.
- `OutputFiles` has a step for each thing that can fail or be seen apart: making
  the output (`Compute...`), opening it, each put, the end of `WriteTo`, and the
  close.  `Taken` is what a stream makes of a put: it holds back up to
  `BufferSize` bytes, and when it writes it gets all out but a rest, or fails for
  good having got out any part.  `Throwing` and `Checked` are where a program
  looks.  What `WriteTo` itself does around its puts is `VgfWriter`.
- `TableRelay` has a step for creating the decoder, reading the element and
  encoding the copy.  `moduleType` is the stored type of the module a segment is
  of, which the client adds first: `AddSegmentInfo` takes no type, it looks up that
  one (`moduleRefToType`).
- `Helpers` has a behaviour of one step for each call of a pure function, and
  the life of a section table beside them.
- `OpenConstants` maps the section and creates the decoder that the section's
  first bytes select, on arbitrary content; `GetConstantV00` is any call on it.

### Left to a history variable

`added`, `given`, `failedRef` and `intact` are never read by the code's actions,
only by properties: the arguments the client used, and whether the last
`WriteTo` began with every block still there.  So are `asked` and `fresh` of
`OutputFiles`: the bytes the call has put, or would have if no block was gone,
and whether it found every block.

## 3. What is checked

Every run has its bounds in its `.cfg`.  All passing runs are exhaustive for
their bounds.

| run | states | question |
|---|---|---|
| `helpers` | 617k | do the helpers agree with integer arithmetic, names and files read back, and are sections placed aligned and tight, again and again? |
| `writer` | 55k | is a file right when `WriteTo` returns true, and what is left when it does not? |
| `tables` | 131k | does every reference the encoder stores stay in bounds? which names does a reader see? does an alias group settle, in every order of calls? |
| `decoder` | 53k | what does the decoder serve from an arbitrary file? |
| `readers` | 395k | what of an element is the same when it has been read and encoded again, through each API? |
| `outputs` | 226k | what does `vgf_dump` make of a file, and what is on the disk when a program that writes one has ended? |
| `updater` | 13k | is the updated file valid, what of the model is the same, and what is left when there is none? |
| `writer_stream`, `writer_twice`, `writer_sparsity`, `updater_modules`, `updater_names` | | counterexamples, section 5 |

**helpers: arithmetic.**  Arguments near 0, the middle, the end of `size_t` (95)
and the end of the word (127), so that each check of each helper can be the one
that fails.  `ArithmeticExact` has five parts: `SumProductExact`, `WithinBoundsExact` and `SplitExact` are
equivalences with the mathematical definition; `AlignUpLeast` pins the one place
where the code is conservative (it refuses when `size + alignment - 1` leaves
the word, although a multiple may still fit); `AppendExtends` is what the
constants rest on.  A word has no other structure than its end, so a small one
shows what a large one does; `ArithmeticIsExact` proves it of every word.

**helpers: sections.**  Up to four sections of 0, 3 or 7 bytes with alignments 1,
2, 4, 8, and `Update` run at any time between the additions.  Four sections are
three iterations of the loop: first, middle, last.  Sizes 0, 3, 7 reach every
residue.  The parts of `SectionsLaidOut`, `PlacedAligned` and `PlacedTight`, also bind the
last section, at which the code's assertion never looks; `OffsetsKept` says that
a second `Update` moves nothing it had placed.

**helpers: names, formats, NumPy.**  Enumerations in which one enumerator, two or
none have a second name, and numbers that none defines.  A name function joins
all names of a number, and no lookup knows the joined string.  The lookups of
descriptor types and formats know the first name only (`FirstNameOnly`), those of
filters and address modes both; so the run gives an alias to types of either
sort, and `NamesReadBack` says which name leads back.  Every format the code can size.  Files with headers
just below, at and past the largest one of version 1 (30 here, 65535 in the
code), with shapes that are scalar, empty, and negative or whose product wraps;
and files of any length with any of these headers.  `GeneratedHelpersExact` is
`NamesReadBack` and `ItemIsBlock`.  `NumpyReadsBack` has two
exceptions the code makes, `ItemIsBlock` one and a classification that never
happens, and `ParsedInFile` says when the check of the end can be trusted; see
section 5.

**writer.**  Two constants, of 1, 17 or 1000 bytes on a 10-bit word: padded; a
second one refused by `AddConstant`; and one accepted by it but too large for
`WriteTo`'s own computation of the section's size.  Finished tables of 12 or 16
bytes, with and without padding.  Two calls of `WriteTo`, which is a first call
and a retry or another output.  Each of the writes may fail.  `int32_t` has four
bits, and sparsity 17 is beyond it.  Two constants give a first and a last;
a third repeats the loop's middle.
`FileLaidOut` has two parts: `ChunksInPlace` relates what the stream took, before
any failure, to offsets computed beforehand by other functions, and
`FileEndsWithConstants` says that a complete file has the declared length; `TrueMeansWritten` says that the sticky
failure makes up for the unchecked head of the constant section as long as there
is a constant;
`BlocksLostOnlyToStream` that a call that failed before the constants leaves the
encoder fit for a retry; `StoresConstants` is the refinement of section 4.

**tables.**  Four regions of one instance, which the constraint `Regions` keeps
apart since their product is out of reach and they do not affect each other.
References: one object of every kind, two resources and two constants of 40
bytes, of which a 6-bit word holds one, so the refused one's `UINT32_MAX` can
reach a segment; set indices include `U32Max`.  Names: up to three inputs and
outputs in calls of up to two, named `a`, `b` or not at all: three are enough for
a call without names before, between and after calls with.  Such a call hides
the names of all others from the parser, so `AllNamedAllRead` asks for names in
every call.  Alias groups: three resources, two groups and two sampler
configurations, in every order of calls.

**decoder.**  Files of 127 (too short for a header), 128 and 199 bytes on an
8-bit word, `size_t` ending at 199.  Sections that end before, at and past the
end of the file, whose sum wraps, that are empty at the end; headers of other
magic and version; counts up to 255; records whose range is inside, at the end
of, outside, or wraps the payload.  `ViewsInFile` takes the check of the header
against the file and the check of the record against the section together;
`CountedAreServed` says that what `getConstant` relies on was really established
at creation; `CheckedIsMapped` that `MemoryMap::ptr` throws only for an empty
section at the very end.

**updater.**  810 old files, as initial states, with inputs, an output, a constant
or an intermediate resource and one or two segments, in four sets whose product
would add nothing.  Those about references vary module, resource and constant
indices in and out of bounds, set indices equal to another set's position, and
constants used by both segments: of two of 40 bytes a 6-bit word has room for one, so
`AddConstant` refuses a constant that the old file had once.  One constant has a
sparsity dimension beyond `int32_t`.  Those about inputs and outputs have them, for
the model and for its segment, in the order of the bindings or not, and named or
not.  Those about what segments take and give have two, the first of which gives
the second an intermediate resource, or a declared output, or nothing; lists that
are what is bound, leave some of it out or have another order; and a segment's
type that is its module's or not.  Those about modules have each kind, with code
and without.  `FaultyNeverReplaces` needs every check that encoding makes to come before the output is opened;
`WrittenIsValid` that the reference of a refused constant, which nobody looks at,
never reaches a file.

`ModelKept` compares what the parser reads from the old file and the new, each part
under the condition without which it is not so (section 5).  `SegmentsKept`
is about modules, sets, ranges, constants and resources, if no module was
skipped.  `InterfacesKept` is about the lists of inputs and outputs each segment
has of its own: the updater does not read them, it makes new ones of the bindings
whose resource is an input or output of the model, so a list comes through
*exactly if* it is these bindings, in order; a segment's type becomes its
module's.  `InputsOutputsKept` is about the model's inputs and outputs and their
names, if they are what the segments bind, in order.

**readers.**  Every module, resource, segment, model sequence and constant whose
fields are each absent, empty or there, whose enumerators are known or not, and
whose unions have a type with or without a value; a segment of a module of
either type or of one not known, whatever its own; sections that are too short,
too long, unaligned or damaged; three APIs.  The fields that interact vary
together (a segment's sets with its dispatch shape); the lists that do not, one
at a time.  Fields are read one by one, so one element of a table shows what
many do; indices into vectors are in `EncoderTables` and `VgfUpdater`.

`MeaningKept` has two parts.  `ReadersMeaningKept` compares what the parser makes of
the stored element and of its copy, so that a null pointer, `None`, `UINT32_MAX` or
a default of one stage that another takes for a value shows; only the type of a
segment is not its own any more but its module's.  `EnumeratorsKept` looks at what
is stored instead, since a reader takes an unknown number for a default on both
sides: the number comes through exactly if the decoder knows it.  `ApisAgree`
compares the three copies field by field, and what is said of a module's code with
what is there; `CopyReadsClean` asks that nothing the encoder writes is refused or
runs into an assertion of the decoder.

**outputs: what is made.**  Files for each command: up to two modules of each
kind, with and without code, with the same name or another, and a segment that
uses either or one that is not there; two resources of five shapes (one buffer
fits `uint32_t`, here of 4 bits, one does not, one overflows the word, one is
dynamic) used by an input and an output or out of bounds; a constant of seven
sizes in six formats.  Sections may be undecodable, names not UTF-8, and the
index on the command line negative.  `ScenarioConsistent` and `SegmentsGetTheirShader`
relate lists that the code fills in different loops; `CodeAsListed` the listing
to the commands that dump; `NumpyExact` relates a constant's size to the bytes
written.

**outputs: what gets to the disk.**  A buffer of 4 bytes; tables of 3, a head of
1, and blocks that fit in the buffer and that do not, none, one and two of them.
Up to three calls: one that releases some or all blocks, and two after it.  A
stream may fail whenever it writes, having got out any part; opening may fail;
`WriteTo` may refuse; Python's `write` takes any part, or raises.
`UpdaterSuccessIsWhole` and `ShortOnlyByBuffer` say how much is there when a
program reports success, `RetryNeverWhole` that an encoder is spent,
`OwnInput` what happens when the output is the input, `FaultyInputKeepsOutput`
that nothing is opened for an input that is refused, `CallEnds` that each call
returns.

### Fairness and deadlock

`UpdateEnds` assumes weak fairness of the tool as a whole: it runs by itself until
it exits, and asks for no input.  Having exited it does nothing, so deadlock is
not checked there.

`CallEnds` assumes weak fairness of the running call's steps (`Compute`,
`WriteStep`) and none of a client's next call.  A blocked device would refute it,
as it would stop the process.

`WriteReturns` assumes weak fairness of the steps of the running call alone
(`WriteStep`): the call runs on the caller's thread and every `ostream::write`
returns, having failed or not.  Nothing is assumed of the client, which may stop at any time.  For that reason
deadlock is not checked: a model that was finished, with its bounds used up, a
program that has ended and a helper that has returned have nothing left to do.

## 4. What is proved

The theorems hold for every value of the constants that satisfies the named
assumptions, which the runs evaluate:

- `WordAssumption`: `size_t` is no wider than `uint64_t`.
- `ConstantAssumption`: resources are naturals, data is not empty, `int32_t` is
  an interval.  The code asserts none of it: the types do, and the emptiness is
  the API's.
- `WriterAssumption`: four sections without a payload fit the word (a FlatBuffer
  is at most 2^31 bytes), and 8 divides 2^64.
- `SectionAssumption`: as many sections as are added fit the word, with their
  alignments, which divide 2^64.  The code adds four of at most 2^31 bytes, and the
  constants, whose size `WriteTo` checks first.
- `HelpersAssumption`: arguments and item sizes are of the word, a shape is a
  sequence of integers (any `int64_t`, so also below 0), lengths of texts and
  files are naturals.
- `TablesAssumption`, `DecoderAssumption`: types of the parameters, and that a
  section has no more records than the model keeps.
- `FilesAssumption`: what the decoders yield of an old file has the types of the
  structs they fill; references are any `uint32_t`.
- `OutputAssumption`: types of the parameters, and that a constant has data.
- `RunsAssumption`: the runs of `vgf_dump` are of its own programs and of the
  five things `main` makes, and the standard output is not the input.  `IsFile`
  says of a file what the decoders' return types say of it: any categories,
  shapes of any integers, references that are any naturals.  One part is not a
  type: a constant has at most half as many bytes as the word counts, since it
  is a view of a mapped file, and neither a file's length nor an object goes
  beyond that.
- `FormatAssumption`, `RelayAssumption`: what a buffer can hold of an element
  (`Module`, `SegmentInfo` ... of `TableFormat`); a text, a shape and a list may be
  empty; `UINT32_MAX` is no alias group, which `addResource` asserts.
- `EnumerationAssumption`: an enumerator has a name, no name is of two, nor twice
  of one, and none is `Unknown`.  TLC evaluates it on the tables of the runs.

| module | theorem | says |
|---|---|---|
| `HelpersProofs` | `ArithmeticIsExact` | each checked helper gives what the integers do, or refuses where it must |
| | `SectionsAreLaidOut` | what `Update` has placed is aligned, in order and tight |
| | `OffsetsAreKept` | and is never moved again |
| | `NamesAndFormatsReadBack` | a printed name reads back when it has no alias, else its first name does, and its alias by type; a NumPy item is a format's block, but for one format |
| | `NumpyFilesReadBack` | `parse` gives back what `write` wrote, for every shape |
| | `NumpyDataIsInFile` | what `parse` returns is in the file, when its sums do not wrap |
| `VgfWriterProofs` | `TypeCorrect` | `TypeOK` of `VgfWriter` |
| | `PayloadIsTiled` | the payload ranges tile the payload, for any sizes and number of constants |
| | `RefusedIsNeverWritten` | after a refusal no call writes a byte or returns true |
| | `TrueIsWritten` | with a constant, and every block there at the start, true means that the stream took all |
| | `FileIsLaidOut` | what the stream took is where header and records say |
| | `BlocksAreLostOnlyToStream` | a call that fails before the constants loses none |
| | `EncoderStoresConstants` | the encoder implements `ConstantStore` |
| | `CompleteFileIsReadable` | a complete file of valid constants is accepted by the decoder |
| | `WriteToIsFinite` | every step of `WriteTo` is nearer to its end |
| `VgfDecoderProofs` | `DecoderTypeCorrect` | `TypeOK` of `VgfDecoder` |
| | `ViewsAreInFile` | a view is inside the payload, the section and the file |
| | `CountedAreAllServed` | a CONST00 decoder serves what it counts, and nothing else |
| | `CheckedSectionsMap` | a nonempty section of a verified header can be mapped |
| | `RelayKeepsMeaning` | an element read and encoded again, through any API, means what it meant, but for a segment's type and unknown enumerators |
| | `ApisStoreTheSame` | the three APIs store the same copy of it |
| | `RelayedElementsReadClean` | and the copy is read without an assertion or a refusal |
| `EncoderTablesProofs` | `TablesTypeCorrect` | `TypeOK` of `EncoderTables` |
| | `ReferencesAreValid` | every index in a file that is not refused is in bounds |
| | `NamesAreNeverMisattached` | a binding has its own name or none |
| | `AllNamedAreRead` | names given throughout are all read |
| | `AliasGroupsSettle` | an alias group, once set, stays |
| `VgfUpdaterProofs` | `FaultyInputNeverReplaces` | an input with a fault leaves the output untouched |
| | `WrittenFileIsValid` | the references of a written file are in bounds |
| | `UpdaterKeepsModel` | how much of the old model a reader finds in a written file: each part under its condition |
| | `UpdateIsFinite` | every step of `update` is nearer to its end, on every file |
| `OutputFilesProofs` | `UpdaterWritesAll` | exit status 0 of `vgf_updater` means that every byte is in the file |
| | `RetriesWriteShort` | after a block was released, no call from C or Python reports success for a whole file |
| | `SuccessIsShortByTheBuffer` | a success reported without a look at the close is short by no more than the buffer |
| | `OwnInputIsLeftOrLost` | `vgf_updater` leaves its own input alone, `vgf_dump` never dumps it whole |
| | `FaultyInputIsHarmless` | a refused input leaves the output of `vgf_dump` as it was |
| | `ListingIsOfTheCode` | the listing says of each module's code what a dump of it does |
| | `TemplateIsConsistent` | a scenario template is closed, with the file's directions and exact buffer sizes |
| | `SubstitutionsFindTheShader` | a segment's substitution leads to its own shader, if names are distinct |
| | `NumpyTakesTheConstant` | a NumPy file has the constant's bytes, or overruns it for 10-byte blocks |
| | `CallsAreFinite` | every step of a call that writes a file is nearer to its end |

**The helpers.**  Each call is one step, so `ArithmeticExact` is proved from one
lemma for each function; those that divide, `AlignUpExact` and `MulExact`, rest on
`PaddingLemma` and `QuotientLemma`, which say by which multiples a quotient is
bounded.

**The section table.**  Its properties speak of the sections a loop has passed,
but which those are is not to be read off the state once sections were added
after an `Update`.  `TableInv` therefore says that there *is* a prefix up to which
each section follows the one before, and after which the offsets are 0
(`PlacedUpTo`); and that offsets grow by at most `Room` a section, so that nothing
wraps.

**The writer.**  None of its properties is inductive.  The strengthening for what
a call reports is `WriterInv`: `ConstantsInv` (the tiling, restated so that it can
be carried over an append), `ConstantsBounded` (the lists' lengths),
`ControlTypeOK`, `NothingBeforeFinish`, and `LoopInv`.  The last says what
`TrueIsWritten` needs: past the first block the stream is good (the check after
each block made sure), and a call that began with all blocks still has the list at
full length, so the loop runs at least once when there is a constant.  That is why
the unchecked writes of the head do no harm there, and why they do without
constants.  `RefusedIsNeverWritten` needs that a refusal is possible only before
`Finish`, and that nothing was written by then.

For where the bytes are, `FileInv` is added: the records and the table computed
before the first write agree with each other (`RecordsMatch`, `TablePlaced`); the
stream's position is the offset of the part that comes next (`StreamPlaced`), so
that whatever is put lands there; the parts before it are on the stream
(`SectionsPassed`, `ChunksPlaced`), and of the blocks those the loop has passed,
while the others are still held (`BlocksPlaced`).

**Refinement.**  `StoresConstants` maps the encoder to `ConstantStore`: its `stored`
is what a decoder, with all of its checks, reads from a file for which `WriteTo`
returned true on a good stream, from blocks that no earlier call had released.
The mapping goes through `VgfFormat`, the operators that also define `VgfDecoder`,
so it is the encoder against this repository's decoder.  `FileInv` makes every
such reading the constants that were added (`ReadsAreFaithful`); `StepRefines` then
maps each action to one of the store's or to none.  The store may store nothing,
so `CompleteFileIsReadable` says separately that the decoder refuses no complete
file, but for a sparsity dimension below -1 (section 5) and a section beyond the
decoder's `size_t`.

**The decoder.**  `DecoderInv` keeps that the header was verified against the
file, that the section has the size the header gave, that the layout is one
`VerifiedLayout` returned for it, and that the last view came from
`GetConstant` on that layout.  `VerifiedLemma` and `GetConstantLemma` then add
up two inequalities, over the integers, that the code establishes by
subtractions only.

**The tables.**  `NamesInv` holds what makes the parser's comparison of two lengths
sound (`NamesMatch`): there are never more names than bindings, and as many only if
every call gave them, in which case they are the given ones in order.
`ReferencesInv` says that each object refers to objects there are, now and later,
since the lists only grow; that a segment's constants are references to constants
or `UINT32_MAX`, the latter only if a constant was refused (`failedRef`), which
makes `WriteTo` refuse; and that the file is made of what is still there.

**The updater.**  `UpdaterInv` takes `ReferencesInv` along, since each step is a call
of the encoder.  `ProgressInv` counts what the loops have done, and `CheckedInv`
says that what they passed was checked: when all of it is, nothing is left that
`Faulty` could be about, and only then is the output opened.

`UpdaterKeepsModel` adds, in `KeptInv`, that each reference held or stored leads to
an object that means what the old file has in its place: in the segments that are
complete (`SegmentsTaken`), in the one being encoded as far as it is
(`CurrentTaken`), among modules and resources (`ModulesTaken`, `ResourcesTaken`).
Objects are only ever appended, so what matched goes on matching
(`SegmentGrows`), and a step has to be looked at for its own object alone.
For constants it says so only while none was refused.  For inputs and outputs,
the model's (`BoundTaken`) and each segment's (`InterfacesTaken`), `Taken` speaks of
the places where the old file binds a resource of the category, in two forms.
`TakenInOrder`: there is a list of the places `Before` the `Cursor`, in order, and
the references taken so far lead to what is bound there.  `TakenOfAll`: whichever
list `at` of *all* the places in order is taken, they are its beginning.  The loop
keeps each of the two by itself (`TakenNextInOrder`, `TakenNext`); that a set of
places has only one list in order, which would give one from the other, would take
an induction.  When a segment is done each of its places is before the cursor,
and when the last one is, every place (`AllBefore`, `EndPassed`).  The equivalence
of `InterfacesKept` needs both: if the old list is what is bound, the second form
makes the new one equal to it; if the new one is equal to the old, the first form
says of the new, hence of the old, that it is what is bound.

**The writers of files.**  `OutputInv` counts: `BytesInv` says that what is on the
disk and what is held back is never more than was put, for the updater exactly
that much as long as it runs (its stream throws at once), and for an encoder
with a released block less, as soon as the put of that block is passed
(`LostAhead` until then).  `TakenLemma` is the stream: it takes no more than it
is given, and all of it while it is good.  The close, which `vgf_updater` alone
looks at, then makes the difference between `UpdaterWritesAll` and
`SuccessIsShortByTheBuffer`.  The latter needs `CapiInv` for the C function, which
has no exceptions: its stream was good at the last check, unless the list of
blocks was cleared, and that takes all of the blocks; and `ToolInv` for `vgf_dump`,
whose stream throws.  `ToolInv` also has the file that is lost while it is read.
`MadeInv` ties what is written to the command's outcome, for the two theorems
about `vgf_dump`'s commands.  They hold for every list of puts, every
`BufferSize`, every command and file and any number of calls.

**What a loop over a list computes.**  Products over a shape, the shaders of a
template and the tuple of a NumPy header are folds.  The library's induction
theorems take a predicate as a parameter, which the provers cannot instantiate; its
`WFMin` takes sets, and gives `SetInduction`: a set of naturals that has 0, and
with each number its successor, has them all.  The fold of the community modules
chooses a function on sets of indices by the equation it satisfies, so it has first
to be shown that there is one (`FoldExists`); then its values on the prefixes
`1 .. k` are the loop's states (`PrefixLemma`), and an invariant of the loop is the
set of those `k` at which it holds (`ExactFold`, `SizeOfFold`, `ShadersFold`,
`ReadFold`).  The product that `numpy::sizeOf` takes is, in the word, the integer
one modulo the word (`SizeOfLemma`, over `MulMod`), also when a dimension is
negative.

**NumPy.**  `NumpyFilesReadBack` puts together that the header ends on a multiple of
16 (`HeaderLemma`, by `PaddingLemma`), that a tuple as text reads back
(`TupleReadsBack`: `getline` drops what follows the last comma, which is there
only for a tuple of one) and that the size `parse` computes is the one `write`
did.  `NumpyDataIsInFile` is the check at the end of `parse` undone modulo the word
(`FoundInFile`).  For `NumpyTakesTheConstant`, a constant that has the integer
size cannot have wrapped, and `elementSizeFromBlockSize` is the identity on powers
of two.

**The template.**  `ScenarioLemma` describes each part that `scenarioTemplate` lists
by the file alone (`Laid`), without a reference to the order in which the code
fills it: the shaders are the compute modules in order (`ShadersFold`), a bound
resource is its slot's table entry (`DeclaredLemma`), and uids are told apart by the
kind and the index they were made of (`UidLemma`).  With that the template is closed
(`ClosedLemma`), and the substitution that has the name of a segment's module is
unique when names are (`SegmentsLemma`).

**The relay.**  `RelayInv` says that what the client was told is what its API's
decoder says of the stored element, and that a copy is what its encoder makes of
that.  What remains is an equation over elements for each table, three APIs at a
time.  It is proved by way of one copy that does not mention an API (`...Kept`):
each of them stores that one (`...Copies`), a reader makes of it what it made of
the original (`...Meaning`), and it can be encoded again (`...Relays`).  The copy of
a segment takes its type from `moduleRefToType`, so all three are lemmas about any
type of the module, and the meaning is that of the original with this type.
`OptionalLemma` has what all of this rests on: taking a default for absent, and
the default for absent again, comes to the same.  Segments need, in addition, that
`VerifySemantic` accepted the stored one (`DispatchLemma`): the C decoder answers
zeros for a dispatch shape that has not three dimensions, the others hand it on.

**Termination.**  That no loop goes on forever is proved without fairness, by
measures in `Nat` that each step makes less: `StepsLeft` for `WriteTo` (sections and
blocks not written), `CallStepsLeft` for the programs that write a file, and for
`update` four numbers in lexicographic order (`Nearer`): `ObjectsLeft` of the loops
over modules, resources and segments, `PartsLeft`, and `SegmentLeft` and
`BindingsLeft` of the lists `encodeSegments` fills.  These are naturals since no list
outgrows the one it is made from (`ProgressInv`, `CheckedInv`).  So a call takes
finitely many steps, in the updater on every file, with faults or without.

Only model-checked: `WriteReturns`, `UpdateEnds` and `CallEnds`.  What they add to
that is that a call which has not ended always can take its next step: weak
fairness speaks of ENABLED, which the prover does not handle.

## 5. Where code and documentation differ

Each is a run whose property TLC refutes.

- `writer_stream`: without constants, a failure while the constant section's
  head is written goes unseen and `WriteTo` returns true.
- `writer_twice`: blocks are released as they are written, so a second call, or
  a retry after a failure among the blocks, returns true for a file without the
  data.
- `writer_sparsity`: a sparsity dimension below -1 is written, though the format
  calls it invalid and the decoder then rejects the whole section.
- `updater_modules`: a GLSL or HLSL module without code is skipped but still
  counted by the indices of the segments, so that a segment gets another module,
  or the update fails.
- `updater_names`: names are carried over by position, to inputs and outputs that
  are rebuilt in the order in which segments bind them.

Other places where the code does less than one would expect are stated by
properties that hold, as the exceptions they make:

- A sparsity dimension is an `int64` in an old file (`schema/vgf.fbs:125`) and an
  `int32_t` in a new one: the updater keeps it up to that clamp, without a word
  (`Meaning`).
- `mlsdk_encoder_write_to_file` and `vgf_dump` report success for a file that may
  lack what the stream held back (`ShortOnlyByBuffer`: by no more than that), and
  the NumPy writer for one that may lack anything.
- After a call that failed among the constants, or succeeded, no call of the same
  encoder writes the whole model (`RetryNeverWhole`).
- `vgf_dump` onto its own input truncates the input before it copies the bytes
  (`OwnInput`); `vgf_updater` compares the paths and does not.
- A constant of `SBS80_ARM`, of 10-byte blocks, becomes items of 16 bytes, so
  `dumpNumpy` writes past the constant's view (`NumpyExact`, `ItemIsBlock`).
- bfloat16 and the 8-bit floats are dumped as IEEE floats: the numeric format the
  generated helper gives for them is `SFLOAT`, so that `numpy.cpp:176` is never
  reached (`ItemIsBlock`).
- A NumPy header of version 2 is padded for version 1, two bytes off, and a file
  without data is refused by `parse` (`NumpyReadsBack`); the check of its end is
  on wrapping sums (`ParsedInFile`).
- An enumerator with an alias is printed as "name / alias", which no reverse
  lookup knows.  Those of descriptor types and formats do not know the alias
  itself either (`NamesReadBack`).
- A number without an enumerator is read, in a release build, as the first
  enumerator, and written so when the element is encoded again: the number itself
  is lost (`EnumeratorsKept`).
- The updater rebuilds the inputs and outputs of a segment from the bindings whose
  resource is an `INPUT` or `OUTPUT` of the model: what one segment hands to another
  through an `INTERMEDIATE` resource is in neither list of the new file
  (`InterfacesKept` says exactly when a list is kept).
- A segment has a type of its own in a file, but not in the encoder's API, which
  gives it its module's: encoding it again, or updating the file, replaces the
  one by the other (`ReadersMeaningKept`, `InterfacesKept`).

## 6. Abstractions, and what is not modelled

- Contents are left out: SPIR-V code, tensor data, the wording of JSON.  A
  FlatBuffer is known by its size where it is written and by its fields where
  they are read; FlatBuffers itself and its verifier are a library, the verdict
  of which is whether a buffer is intact, aligned and not too short or long.
- An index a getter asserts on is in range: clients ask up to the size reported.
- `numpy::parse` copies its header before it knows that the file holds it; the
  model has the exception that follows when it does not.
- How many bytes of a failing write get out is free; no stream recovers.
- A write that fails is not counted in `pos`.  A real stream may keep a part of
  it; nothing is accepted after that, so no property tells the two apart.
- A second `WriteTo` gets a new stream.  Appending to the same one would shift
  every offset, and is not something the header can express.
- `AddConstant` before or between table operations is free; calls after
  `Finish` are not made, as the assertions demand.
- In `VgfUpdater` a segment has no name and no dispatch shape: both are handed
  on, a shape that has not three dimensions as zeros (`vgf_updater.cpp:208-211`,
  `241`), and what becomes of them
  between decoder and encoder is in `TableRelay`, whose copy through the C++ API
  takes the same path.
- `HeaderVerified` starts from a header that is there and of 128 bytes: that
  `CreateHeaderDecoder` refuses a null pointer or another size is left out, as no
  client here passes either.  `ConstantsParse` says once what the parser tests again
  after the decoder did: an opened section has no sparsity dimension below -1.
- In `VgfUpdater`, `WriteTo` is three outcomes: refused, failed part way,
  written; `VgfWriter` and `OutputFiles` have the rest.
- The file under a map changes only through the program itself (`OwnInput`).
- Not modelled: logging (a callback and a switch no property depends on),
  fuzzers, samples and scripts (clients and build tools); of the C API the header
  queries and sizes, which forward; of the Python bindings the trampolines of
  abstract classes and the lifetime of views, which pybind11 manages; the
  FlatBuffers builders and verifiers; the NumPy write with a callback, which no
  program here calls; open and mmap.

## 7. Plan

The order was: arithmetic; section layout; encoder constants and writing, with
their abstract specification; decoder; encoder tables and parser; proofs of
each; the updater; the three APIs over the tables; `vgf_dump`, NumPy and the
writers of files, with the proofs of what they report; the proofs of the section
table, of the file's layout, of the refinement, of the references and of the
updater, down to the model it writes; the proofs of the generated tables and
NumPy, of the template and of the relay.  Every safety and action property of
the passing runs is now a theorem.  What could follow is in section 6: the API for
headers and sizes, and the rules by which views outlive what they point into.
