------------------------------- MODULE VgfUpdater -------------------------------
(***************************************************************************)
(* vgf_updater (vgf_updater/src/vgf_updater.cpp): an old file is decoded,  *)
(* its model encoded again through EncoderTables, call by call, and the    *)
(* result written to the output path.  The file is anything the decoders   *)
(* accept: its references may be out of bounds.                            *)
(*                                                                         *)
(* The loops of encodeSegments are where the lists they fill say they are: *)
(* so many constants, ranges, bindings, sets and segments encoded so far.  *)
(* Resources are encoded one for one, so a resource's index is its own     *)
(* reference, and the vector resourceRefs is left out.                     *)
(***************************************************************************)
EXTENDS EncoderTables

CONSTANT OldFiles   \* the inputs: a file's tables with version, "invalid" if
                    \* its header or a table is refused, "outdated" or "latest"

Slots == [binding : Nat, mrtIndex : 0 .. U32Max]

\* What the decoders make of a file, whatever its references are.  All but an
\* empty constant is an argument the encoder takes; resources may lack a
\* descriptor type (described).
ASSUME FilesAssumption ==
  /\ U32Max \in SetIndices
  /\ OldFiles \subseteq
       [version : {"invalid", "outdated", "latest"},
        modules : Seq([type : ModuleTypes, code : ModuleCodes]),
        resources : Seq([category : Categories, aliasGroup : AliasGroups \cup {U32Max},
                         sampler : {{}} \cup {{config} : config \in SamplerConfigs},
                         described : BOOLEAN]),
        segments : Seq([type : ModuleTypes, module : 0 .. U32Max,
                        sets : Seq([bindings : Seq(Slots), setIndex : SetIndices]),
                        inputs : Seq(Slots), outputs : Seq(Slots),
                        constants : Seq(0 .. U32Max), pushConstRanges : Seq(PushConstRanges)]),
        inputs : Seq(Slots), inputNames : Seq(Names),
        outputs : Seq(Slots), outputNames : Seq(Names),
        constants : Seq([mrtIndex : Resources, size : DataSizes \cup {0},
                         sparsityDimension : Sparsities])]

CONSTANT_INVALID_MRT_INDEX == U32Max
CONSTANT_NOT_SPARSE_DIMENSION == -1

VARIABLES
  old,      \* the input file
  pc,       \* the part of update that runs
  scanned,  \* the modules extractModules has looked at
  work,     \* what its functions hold: moduleRefs, modelSequenceIO, and the
            \* references made for the segment being encoded
  output    \* the file at the output path

updaterVars == <<old, pc, scanned, work, output>>

NewSegment == [constants |-> <<>>, ranges |-> <<>>, sets |-> <<>>, bindings |-> <<>>,
               inputs |-> <<>>, outputs |-> <<>>]

UpdaterInit ==
  /\ Init
  /\ old \in OldFiles
  /\ pc = "open"
  /\ scanned = 0
  /\ work = [modules |-> <<>>, inputs |-> <<>>, outputs |-> <<>>, segment |-> NewSegment]
  /\ output = "untouched"

--------------------------------------------------------------------------------
Sequence == parseModelSequenceTable(old)

\* An exception: main prints it and exits with a failure.
Throw == pc' = "failed" /\ UNCHANGED <<vars, old, scanned, work, output>>

\* The header is refused, or there is nothing to do.
Open ==
  /\ pc = "open"
  /\ pc' = CASE old.version = "invalid" -> "failed"
             [] old.version = "latest" -> "done"
             [] old.version = "outdated" -> "modules"
  /\ UNCHANGED <<vars, old, scanned, work, output>>

\* A module with code is extracted, and a placeholder if it is SPIR-V.
Extracted(code) == code.text # "" \/ code.shader = "SPIRV"

ExtractModule ==
  /\ pc = "modules" /\ scanned < Len(old.modules)
  /\ scanned' = scanned + 1
  /\ LET module == old.modules[scanned + 1]
     IN  IF Extracted(module.code)
         THEN /\ AddModule(module.type, module.code)
              /\ work' = [work EXCEPT !.modules = Append(@, Len(modules))]
         ELSE UNCHANGED <<vars, work>>
  /\ UNCHANGED <<old, pc, output>>

NextResource == old.resources[Len(resourceRecords) + 1]

\* encodeResource; a constant has neither alias group nor sampler.
EncodeResource ==
  /\ pc = "resources" /\ Len(resourceRecords) < Len(old.resources)
  /\ UNCHANGED <<old, scanned, work, output>>
  /\ IF NextResource.category = "CONSTANT"
     THEN AddModelResourceTableEntry("CONSTANT", U32Max) /\ UNCHANGED pc
     ELSE IF ~NextResource.described THEN pc' = "failed" /\ UNCHANGED vars
     ELSE /\ AddModelResourceTableEntry(NextResource.category, NextResource.aliasGroup)
          /\ pc' = IF NextResource.sampler = {} THEN pc ELSE "sampler"

\* The same sampler again and again.
EncodeSamplerBug ==
  /\ pc = "sampler"
  /\ \E config \in old.resources[Len(resourceRecords)].sampler :
       AddSamplerConfig(Len(resourceRecords) - 1, config)
  /\ UNCHANGED updaterVars

\* Its second call, maybeAddSamplerConfig, for the resource just added.
EncodeSampler ==
  /\ pc = "sampler"
  /\ \E config \in old.resources[Len(resourceRecords)].sampler :
       AddSamplerConfig(Len(resourceRecords) - 1, config)
  /\ pc' = "resources"
  /\ UNCHANGED <<old, scanned, work, output>>

\* parseConstantSection does not throw, though no segment may use the
\* constant it would throw for.
ConstantsParsed ==
  \A constant \in Elements(old.constants) :
    /\ constant.size > 0
    /\ constant.mrtIndex # CONSTANT_INVALID_MRT_INDEX
    /\ constant.sparsityDimension >= CONSTANT_NOT_SPARSE_DIMENSION

\* Nor does decodeConstants, for the constants the segments use.
ConstantsDecoded ==
  /\ ConstantsParsed
  /\ \A segment \in Elements(old.segments) : \A idx \in Elements(segment.constants) :
       /\ idx < Len(old.constants)
       /\ old.constants[idx + 1].mrtIndex < Len(old.resources)

DecodeConstants ==
  /\ pc = "constants"
  /\ pc' = IF ConstantsDecoded THEN "segments" ELSE "failed"
  /\ UNCHANGED <<vars, old, scanned, work, output>>

--------------------------------------------------------------------------------
\* encodeSegments.

Segment == Sequence.segments[Len(segmentInfos) + 1]

Encoding ==
  /\ pc = "segments"
  /\ Len(segmentInfos) < Len(old.segments)
  /\ Segment.module < Len(work.modules)

BadModule ==
  /\ pc = "segments"
  /\ Len(segmentInfos) < Len(old.segments)
  /\ Segment.module >= Len(work.modules)
  /\ Throw

ConstantsEncoded == Len(work.segment.constants) = Len(Segment.constants)
RangesEncoded == Len(work.segment.ranges) = Len(Segment.pushConstRanges)
SetsEncoded == Len(work.segment.sets) = Len(Segment.sets)

\* The reference AddConstant returns.
ConstantRef == IF constsMetaData' = constsMetaData THEN U32Max ELSE Len(constsMetaData)

\* A constant that several segments use is added for each of them; what
\* AddConstant returns is not looked at.
EncodeConstant ==
  /\ Encoding /\ ~ConstantsEncoded
  /\ LET constant == old.constants[Segment.constants[Len(work.segment.constants) + 1] + 1]
     IN  IF old.resources[constant.mrtIndex + 1].category # "CONSTANT" THEN Throw
         ELSE /\ AddConstantTo(constant.mrtIndex, constant.size, constant.sparsityDimension)
              /\ work' = [work EXCEPT !.segment.constants = Append(@, ConstantRef)]
              /\ UNCHANGED <<old, pc, scanned, output>>

EncodePushConstRange ==
  /\ Encoding /\ ConstantsEncoded /\ ~RangesEncoded
  /\ AddPushConstRange(Segment.pushConstRanges[Len(work.segment.ranges) + 1])
  /\ work' = [work EXCEPT !.segment.ranges = Append(@, Len(pushConstRanges))]
  /\ UNCHANGED <<old, pc, scanned, output>>

NextSet == Segment.sets[Len(work.segment.sets) + 1]

AppendIfBug(refs, ref, resource, category) ==
  IF resource.category = category THEN <<ref>> \o refs ELSE refs

\* ref at the end of refs, if its resource is of the category.
AppendIf(refs, ref, resource, category) ==
  IF resource.category = category THEN Append(refs, ref) ELSE refs

\* A binding of an input is an input of the segment and of the model.
EncodeBindingSlot ==
  /\ Encoding /\ ConstantsEncoded /\ RangesEncoded /\ ~SetsEncoded
  /\ Len(work.segment.bindings) < Len(NextSet.bindings)
  /\ LET slot == NextSet.bindings[Len(work.segment.bindings) + 1]
         resource == old.resources[slot.mrtIndex + 1]
         ref == Len(bindingSlots)
     IN  IF slot.mrtIndex >= Len(old.resources) THEN Throw
         ELSE /\ AddBindingSlot(slot.binding, slot.mrtIndex)
              /\ work' = [work EXCEPT
                   !.segment.bindings = Append(@, ref),
                   !.segment.inputs = AppendIf(@, ref, resource, "INPUT"),
                   !.segment.outputs = AppendIf(@, ref, resource, "OUTPUT"),
                   !.inputs = AppendIf(@, ref, resource, "INPUT"),
                   !.outputs = AppendIf(@, ref, resource, "OUTPUT")]
              /\ UNCHANGED <<old, pc, scanned, output>>

\* The explicit index dropped for the wrong sets.
EncodedSetIndexBug(setIndex, position) == IF setIndex = position + 1 THEN U32Max ELSE setIndex

\* An index that is the position need not be explicit.
EncodedSetIndex(setIndex, position) == IF setIndex = position THEN U32Max ELSE setIndex

EncodeDescriptorSet ==
  /\ Encoding /\ ConstantsEncoded /\ RangesEncoded /\ ~SetsEncoded
  /\ Len(work.segment.bindings) = Len(NextSet.bindings)
  /\ AddDescriptorSetInfo(work.segment.bindings,
                          EncodedSetIndex(NextSet.setIndex, Len(work.segment.sets)))
  /\ work' = [work EXCEPT !.segment.sets = Append(@, Len(descriptorSetInfos)),
                          !.segment.bindings = <<>>]
  /\ UNCHANGED <<old, pc, scanned, output>>

EncodeSegment ==
  /\ Encoding /\ ConstantsEncoded /\ RangesEncoded /\ SetsEncoded
  /\ AddSegmentInfo(work.modules[Segment.module + 1], work.segment.sets, work.segment.inputs,
                    work.segment.outputs, work.segment.constants, work.segment.ranges)
  /\ work' = [work EXCEPT !.segment = NewSegment]
  /\ UNCHANGED <<old, pc, scanned, output>>

--------------------------------------------------------------------------------
\* The names of the old inputs and outputs, with what was found to bind.
NamesOf(bindings) == [i \in 1 .. Len(bindings) |-> bindings[i].name]

EncodeInputsOutputs ==
  /\ pc = "io"
  /\ AddModelSequenceInputsOutputs(work.inputs, NamesOf(Sequence.inputs),
                                   work.outputs, NamesOf(Sequence.outputs))
  /\ pc' = "finish"
  /\ UNCHANGED <<old, scanned, work, output>>

FinishModel ==
  /\ pc = "finish"
  /\ Finish
  /\ pc' = "output"
  /\ UNCHANGED <<old, scanned, work, output>>

\* The loops of update end.
NextPart ==
  /\ \/ pc = "modules" /\ scanned = Len(old.modules) /\ pc' = "resources"
     \/ pc = "resources" /\ Len(resourceRecords) = Len(old.resources) /\ pc' = "constants"
     \/ pc = "segments" /\ Len(segmentInfos) = Len(old.segments) /\ pc' = "io"
  /\ UNCHANGED <<vars, old, scanned, work, output>>

\* The output is opened along with the input.
OpenOutputBug ==
  /\ pc \in {"modules", "output"}
  /\ output' = "truncated"
  /\ pc' = IF pc = "output" THEN "write" ELSE pc
  /\ UNCHANGED <<vars, old, scanned, work>>

\* Whether WriteTo accepts the model is not known yet: the old contents of
\* the output are gone by then.
OpenOutput ==
  /\ pc = "output"
  /\ \/ pc' = "write" /\ output' = "truncated"
     \/ pc' = "failed" /\ UNCHANGED output
  /\ UNCHANGED <<vars, old, scanned, work>>

WrittenAnyway == output' = "written" /\ pc' = "done"

WriteRefusedBug == WrittenAnyway

\* WriteTo refuses a model that was not encoded.
WriteAccepted == ~encodingFailed /\ WrittenAnyway

\* WriteTo, and close: the stream throws where it would set a failure bit.
WriteOutput ==
  /\ pc = "write"
  /\ \/ WriteAccepted
     \/ pc' = "failed" /\ output' \in {"truncated", "partial"}
  /\ UNCHANGED <<vars, old, scanned, work>>

UpdaterNext ==
  \/ Open
  \/ ExtractModule
  \/ EncodeResource
  \/ EncodeSampler
  \/ DecodeConstants
  \/ BadModule
  \/ EncodeConstant
  \/ EncodePushConstRange
  \/ EncodeBindingSlot
  \/ EncodeDescriptorSet
  \/ EncodeSegment
  \/ EncodeInputsOutputs
  \/ FinishModel
  \/ NextPart
  \/ OpenOutput
  \/ WriteOutput

\* The tool runs on its own, until it exits.
UpdaterSpec ==
  UpdaterInit /\ [][UpdaterNext]_<<vars, updaterVars>> /\ WF_<<vars, updaterVars>>(UpdaterNext)

--------------------------------------------------------------------------------
\* A reference that update follows leads nowhere, or to the wrong thing.
Faulty ==
  \/ ~ConstantsDecoded
  \/ \E resource \in Elements(old.resources) :
       resource.category # "CONSTANT" /\ ~resource.described
  \/ \E segment \in Elements(old.segments) :
       \/ segment.module >= Len(old.modules)
       \/ \E set \in Elements(segment.sets) : \E slot \in Elements(set.bindings) :
            slot.mrtIndex >= Len(old.resources)
       \/ \E idx \in Elements(segment.constants) :
            old.resources[old.constants[idx + 1].mrtIndex + 1].category # "CONSTANT"

\* An input with such a fault, wherever it is in the file, is found out
\* before the output is opened: what was there stays (vgf_updater.cpp:252).
FaultyNeverReplaces == Faulty => output = "untouched"

\* Whatever the references of the old file, those of a file that was written
\* are in bounds: that AddConstant may have refused a constant, and returned
\* UINT32_MAX to a caller that does not look, never shows.
WrittenIsValid ==
  output = "written" => \A tables \in file : validateParsedReferences(tables)

\* What a segment of a file runs, and on what, past its references: its
\* module, and what is bound, pushed and read.  A sparsity
\* dimension is an int64_t in the constants of old files, an int32_t in new.
Meaning(tables, segment) ==
  [module |-> tables.modules[segment.module + 1],
   sets |-> segment.sets,
   ranges |-> segment.pushConstRanges,
   constants |-> [k \in 1 .. Len(segment.constants) |->
     LET constant == tables.constants[segment.constants[k] + 1]
     IN  <<constant.mrtIndex, constant.size, SparsityDim32(constant.sparsityDimension)>>]]

SegmentMeanings(tables) ==
  LET segments == parseModelSequenceTable(tables).segments
  IN  [i \in 1 .. Len(segments) |-> Meaning(tables, segments[i])]

NoneSkipped == \A module \in Elements(old.modules) : Extracted(module.code)

\* If no module is skipped, a reader finds in the new file the segments of
\* the old one: the same modules, constants, bindings and set indices, though
\* constants have moved, and explicit indices have become implicit or the
\* other way round; and resources have kept their category, alias group and
\* sampler.
SegmentsKept ==
  output = "written" /\ NoneSkipped =>
    \A tables \in file :
      /\ SegmentMeanings(tables) = SegmentMeanings(old)
      /\ Len(tables.resources) = Len(old.resources)
      /\ \A i \in DOMAIN old.resources :
           /\ tables.resources[i].category = old.resources[i].category
           /\ old.resources[i].category # "CONSTANT" =>
                /\ tables.resources[i].aliasGroup = old.resources[i].aliasGroup
                /\ tables.resources[i].sampler = old.resources[i].sampler

\* Where the bindings of a file are, by segment, set and place in the set;
\* in which order; and those whose resource is in a category.
Bindings(tables) ==
  UNION {UNION {{<<i, j, b>> : b \in 1 .. Len(tables.segments[i].sets[j].bindings)} :
                j \in 1 .. Len(tables.segments[i].sets)} : i \in 1 .. Len(tables.segments)}

Before(p, q) ==
  p[1] < q[1] \/ (p[1] = q[1] /\ (p[2] < q[2] \/ (p[2] = q[2] /\ p[3] < q[3])))

BoundAt(tables, p) == tables.segments[p[1]].sets[p[2]].bindings[p[3]]

BoundAs(tables, category) ==
  {p \in Bindings(tables) :
     tables.resources[BoundAt(tables, p).mrtIndex + 1].category = category}

\* Those of one segment.
BoundIn(tables, i, category) == {p \in BoundAs(tables, category) : p[1] = i}

\* The places in set, one after the other.
InOrder(set, n) ==
  {at \in [1 .. n -> set] :
     /\ \A k, l \in 1 .. n : k < l => Before(at[k], at[l])
     /\ \A p \in set : \E k \in 1 .. n : at[k] = p}

\* The slots are the bindings at the places, in order.
AllBound(tables, slots, places) ==
  \E at \in InOrder(places, Len(slots)) :
    \A k \in 1 .. Len(slots) : slots[k] = BoundAt(tables, at[k])

\* What a segment takes and gives comes through exactly if it is what the
\* segment's sets bind to the model's inputs and outputs, in that order: the
\* updater does not read the lists of an old segment, and makes new ones of
\* these bindings.  What one segment hands to another, through a resource
\* that is neither, is in no list of the new file.  The type of a segment
\* becomes its module's.
InterfacesKept ==
  output = "written" =>
    \A tables \in file : \A i \in 1 .. Len(old.segments) :
      LET was == old.segments[i]
          is == tables.segments[i]
      IN  /\ is.inputs = was.inputs <=> AllBound(old, was.inputs, BoundIn(old, i, "INPUT"))
          /\ is.outputs = was.outputs <=> AllBound(old, was.outputs, BoundIn(old, i, "OUTPUT"))
          /\ is.type = tables.modules[is.module + 1].type

BoundInOrder ==
  /\ AllBound(old, old.inputs, BoundAs(old, "INPUT"))
  /\ AllBound(old, old.outputs, BoundAs(old, "OUTPUT"))

\* If the model's inputs and outputs are the inputs and outputs bound by its
\* segments, in that order, they are the same in the new file, under the
\* same names or still without.
InputsOutputsKept ==
  output = "written" /\ BoundInOrder =>
    \A tables \in file :
      LET parsed == parseModelSequenceTable(tables)
      IN  parsed.inputs = Sequence.inputs /\ parsed.outputs = Sequence.outputs

\* Of the model in the old file, a reader finds this much in the new one:
\* its resources, and what its segments run and bind, if no module is
\* skipped; what each segment takes and gives, and the model's inputs and
\* outputs with their names, if they are what is bound.
ModelKept == SegmentsKept /\ InterfacesKept /\ InputsOutputsKept

\* The tool exits, whatever the file.
UpdateEnds == <>(pc \in {"done", "failed"})

--------------------------------------------------------------------------------
\* README.md:31, "The VGF Updater rewrites an existing VGF file to the latest
\* VGF format version": its segments run the modules they ran.
ModulesKept ==
  output = "written" => \A tables \in file :
    \A i \in DOMAIN old.segments :
      tables.modules[tables.segments[i].module + 1] = old.modules[old.segments[i].module + 1]

\* The same: a name a reader finds in the new file is on the binding it was
\* on in the old one.
NamesKept ==
  output = "written" => \A tables \in file :
    \A input \in Elements(parseModelSequenceTable(tables).inputs) :
      input.name # NoName => input \in Elements(Sequence.inputs)
===============================================================================
