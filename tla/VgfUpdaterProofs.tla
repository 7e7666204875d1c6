---------------------------- MODULE VgfUpdaterProofs ----------------------------
(***************************************************************************)
(* vgf_updater, for every input the decoders accept: that its references   *)
(* are checked before the output is opened, that those of the file it      *)
(* writes are in bounds, how much of the model in the input is in it, and  *)
(* that update ends.                                                       *)
(***************************************************************************)
EXTENDS VgfUpdater, EncoderTablesProofs

\* What update holds: references to objects of the new model.
SegmentWork ==
  [constants : Seq(ConstantRefs), ranges : Seq(Refs(pushConstRanges)),
   sets : Seq(Refs(descriptorSetInfos)), bindings : Seq(Refs(bindingSlots)),
   inputs : Seq(Refs(bindingSlots)), outputs : Seq(Refs(bindingSlots))]

Work ==
  [modules : Seq(Refs(modules)), inputs : Seq(Refs(bindingSlots)),
   outputs : Seq(Refs(bindingSlots)), segment : SegmentWork]

ModulesExtracted ==
  /\ scanned \in 0 .. Len(old.modules)
  /\ Len(work.modules) <= scanned

\* How far update is.
ProgressInv ==
  /\ ModulesExtracted
  /\ Len(resourceRecords) <= Len(old.resources)
  /\ pc = "sampler" => Len(resourceRecords) > 0
  /\ pc \in {"constants", "segments", "io", "finish", "output", "write"} =>
       Len(resourceRecords) = Len(old.resources)
  /\ pc \in {"segments", "io", "finish", "output", "write"} => ConstantsDecoded
  /\ Len(segmentInfos) <= Len(old.segments)
  /\ pc \in {"io", "finish", "output", "write"} => Len(segmentInfos) = Len(old.segments)

\* The references of the old file that update follows.
ResourceChecked(resource) == resource.category = "CONSTANT" \/ resource.described

SlotChecked(slot) == slot.mrtIndex < Len(old.resources)

ConstantChecked(idx) ==
  old.resources[old.constants[idx + 1].mrtIndex + 1].category = "CONSTANT"

SetChecked(set) == \A b \in 1 .. Len(set.bindings) : SlotChecked(set.bindings[b])

SegmentChecked(segment) ==
  /\ segment.module < Len(old.modules)
  /\ \A j \in 1 .. Len(segment.sets) : SetChecked(segment.sets[j])
  /\ \A k \in 1 .. Len(segment.constants) : ConstantChecked(segment.constants[k])

\* The segment that is being encoded, as far as it is.
CurrentChecked(segment) ==
  /\ Len(work.segment.constants) <= Len(segment.constants)
  /\ \A k \in 1 .. Len(work.segment.constants) : ConstantChecked(segment.constants[k])
  /\ Len(work.segment.ranges) <= Len(segment.pushConstRanges)
  /\ Len(work.segment.sets) <= Len(segment.sets)
  /\ \A j \in 1 .. Len(work.segment.sets) : SetChecked(segment.sets[j])
  /\ Len(work.segment.sets) < Len(segment.sets) =>
       LET bindings == segment.sets[Len(work.segment.sets) + 1].bindings
       IN  /\ Len(work.segment.bindings) <= Len(bindings)
           /\ \A b \in 1 .. Len(work.segment.bindings) : SlotChecked(bindings[b])

CheckedInv ==
  /\ \A i \in 1 .. Len(resourceRecords) : ResourceChecked(old.resources[i])
  /\ \A i \in 1 .. Len(segmentInfos) : SegmentChecked(old.segments[i])
  /\ Len(segmentInfos) < Len(old.segments) =>
       CurrentChecked(old.segments[Len(segmentInfos) + 1])

\* What became of the output.
ResultInv ==
  /\ output # "untouched" => ~Faulty
  /\ output = "written" => pc = "done" /\ ~encodingFailed

UpdaterInv ==
  /\ ReferencesInv
  /\ old \in OldFiles
  /\ work \in Work
  /\ ProgressInv
  /\ CheckedInv
  /\ ResultInv

--------------------------------------------------------------------------------
\* The parts of an old file.
SetTables == [bindings : Seq(Slots), setIndex : SetIndices]

SegmentTables ==
  [type : ModuleTypes, module : 0 .. U32Max, sets : Seq(SetTables), inputs : Seq(Slots),
   outputs : Seq(Slots), constants : Seq(0 .. U32Max), pushConstRanges : Seq(PushConstRanges)]

ResourceTables ==
  [category : Categories, aliasGroup : AliasGroups \cup {U32Max},
   sampler : {{}} \cup {{config} : config \in SamplerConfigs}, described : BOOLEAN]

ConstantTables ==
  [mrtIndex : Resources, size : DataSizes \cup {0}, sparsityDimension : Sparsities]

LEMMA OldTyped ==
  ASSUME old \in OldFiles
  PROVE  /\ old.modules \in Seq(Module)
         /\ old.resources \in Seq(ResourceTables)
         /\ old.segments \in Seq(SegmentTables)
         /\ old.constants \in Seq(ConstantTables)
BY FilesAssumption DEF Module, SegmentTables, SetTables, ResourceTables, ConstantTables

LEMMA OldLengths ==
  ASSUME old \in OldFiles
  PROVE  /\ Len(old.modules) \in Nat /\ Len(old.resources) \in Nat
         /\ Len(old.segments) \in Nat /\ Len(old.constants) \in Nat
BY OldTyped

LEMMA Lengths ==
  ASSUME ReferencesInv, work \in Work
  PROVE  /\ Len(resourceRecords) \in Nat /\ Len(segmentInfos) \in Nat
         /\ Len(work.modules) \in Nat
         /\ Len(work.segment.constants) \in Nat /\ Len(work.segment.ranges) \in Nat
         /\ Len(work.segment.sets) \in Nat /\ Len(work.segment.bindings) \in Nat
         /\ Len(bindingSlots) \in Nat /\ Len(descriptorSetInfos) \in Nat
         /\ Len(pushConstRanges) \in Nat /\ Len(modules) \in Nat
<1>1. /\ resourceRecords \in Seq(ResourceRecord) /\ segmentInfos \in Seq(SegmentInfo)
      /\ bindingSlots \in Seq(BindingSlot) /\ descriptorSetInfos \in Seq(DescriptorSetInfo)
      /\ pushConstRanges \in Seq(PushConstRanges) /\ modules \in Seq(Module)
  BY DEF ReferencesInv, ObjectsOK
<1>2. /\ work.modules \in Seq(Refs(modules)) /\ work.segment \in SegmentWork
  BY DEF Work
<1>3. /\ work.segment.constants \in Seq(ConstantRefs)
      /\ work.segment.ranges \in Seq(Refs(pushConstRanges))
      /\ work.segment.sets \in Seq(Refs(descriptorSetInfos))
      /\ work.segment.bindings \in Seq(Refs(bindingSlots))
  BY <1>2 DEF SegmentWork
<1>4. \A S : \A seq \in Seq(S) : Len(seq) \in Nat
  OBVIOUS
<1>5. QED
  BY <1>1, <1>2, <1>3, <1>4, Zenon

\* A segment of the old file, and what the parser makes of it.
OldSegment == old.segments[Len(segmentInfos) + 1]

LEMMA ParsedSegment ==
  ASSUME NEW s \in SegmentTables
  PROVE  /\ parseSegment(s).module = s.module
         /\ parseSegment(s).constants = s.constants
         /\ parseSegment(s).pushConstRanges = s.pushConstRanges
         /\ Len(parseSegment(s).sets) = Len(s.sets)
         /\ \A j \in 1 .. Len(s.sets) :
              /\ parseSegment(s).sets[j].bindings = s.sets[j].bindings
              /\ parseSegment(s).sets[j].setIndex =
                   getSegmentDescriptorSetIndex(s.sets[j].setIndex, j - 1)
<1> DEFINE parsed == parseSegment(s)
<1>1. /\ parsed.module = s.module /\ parsed.constants = s.constants
      /\ parsed.pushConstRanges = s.pushConstRanges
  BY DEF parseSegment, SegmentTables
<1>2. parsed.sets = [j \in 1 .. Len(s.sets) |->
        [s.sets[j] EXCEPT !.setIndex = getSegmentDescriptorSetIndex(@, j - 1)]]
  BY DEF parseSegment, SegmentTables
<1> HIDE DEF parsed
<1>3. Len(parsed.sets) = Len(s.sets)
  BY <1>2 DEF SegmentTables
<1>4. ASSUME NEW j \in 1 .. Len(s.sets)
      PROVE  /\ parsed.sets[j].bindings = s.sets[j].bindings
             /\ parsed.sets[j].setIndex = getSegmentDescriptorSetIndex(s.sets[j].setIndex, j - 1)
  <2>1. s.sets[j] \in SetTables
    BY ElementOfSeq DEF SegmentTables
  <2>2. parsed.sets[j] = [s.sets[j] EXCEPT !.setIndex = getSegmentDescriptorSetIndex(@, j - 1)]
    BY <1>2
  <2>3. QED
    BY <2>1, <2>2 DEF SetTables
<1>5. QED
  BY <1>1, <1>3, <1>4 DEF parsed

LEMMA SegmentIsOld ==
  ASSUME UpdaterInv, Len(segmentInfos) < Len(old.segments)
  PROVE  /\ OldSegment \in SegmentTables
         /\ Segment.module = OldSegment.module
         /\ Segment.constants = OldSegment.constants
         /\ Segment.pushConstRanges = OldSegment.pushConstRanges
         /\ Len(Segment.sets) = Len(OldSegment.sets)
         /\ \A j \in 1 .. Len(OldSegment.sets) :
              /\ Segment.sets[j].bindings = OldSegment.sets[j].bindings
              /\ Segment.sets[j].setIndex =
                   getSegmentDescriptorSetIndex(OldSegment.sets[j].setIndex, j - 1)
<1> DEFINE n == Len(segmentInfos) + 1
<1>1. n \in 1 .. Len(old.segments)
  BY OldLengths, Lengths, SMT DEF UpdaterInv
<1>2. OldSegment \in SegmentTables
  BY <1>1, OldTyped, ElementOfSeq DEF UpdaterInv, OldSegment
<1>3. Segment = parseSegment(OldSegment)
  BY <1>1 DEF Segment, Sequence, parseModelSequenceTable, OldSegment
<1>4. QED
  BY <1>2, <1>3, ParsedSegment

--------------------------------------------------------------------------------
\* What update holds stays valid as long as objects are only added.
LEMMA WorkStays ==
  ASSUME RefsGrow
  PROVE  /\ Work \subseteq Work' /\ SegmentWork \subseteq SegmentWork'
         /\ Seq(Refs(modules)) \subseteq Seq(Refs(modules'))
<1>1. /\ Seq(Refs(modules)) \subseteq Seq(Refs(modules'))
      /\ Seq(Refs(bindingSlots)) \subseteq Seq(Refs(bindingSlots'))
      /\ Seq(Refs(descriptorSetInfos)) \subseteq Seq(Refs(descriptorSetInfos'))
      /\ Seq(Refs(pushConstRanges)) \subseteq Seq(Refs(pushConstRanges'))
      /\ Seq(ConstantRefs) \subseteq Seq(ConstantRefs')
  BY SeqSubset DEF RefsGrow
<1>2. SegmentWork \subseteq SegmentWork'
  BY <1>1 DEF SegmentWork
<1>3. QED
  BY <1>1, <1>2 DEF Work

\* A step of update that leaves the encoder and what it holds alone.
LEMMA TablesStill ==
  ASSUME UpdaterInv, UNCHANGED <<vars, old, scanned, work>>
  PROVE  /\ ReferencesInv' /\ old' \in OldFiles /\ work' \in Work' /\ CheckedInv'
         /\ ModulesExtracted' /\ Len(resourceRecords') = Len(resourceRecords)
         /\ Len(segmentInfos') = Len(segmentInfos) /\ ConstantsDecoded' = ConstantsDecoded
         /\ Faulty' = Faulty /\ encodingFailed' = encodingFailed
<1>1. ReferencesInv' /\ RefsGrow
  BY FinishRefs DEF UpdaterInv
<1>2. work' \in Work'
  BY <1>1, WorkStays DEF UpdaterInv
<1>3. CheckedInv' /\ ModulesExtracted'
  BY Zenon DEF UpdaterInv, CheckedInv, ResourceChecked, SegmentChecked, SetChecked, SlotChecked,
         ConstantChecked, CurrentChecked, ProgressInv, ModulesExtracted, vars, tableVars
<1>4. ConstantsDecoded' = ConstantsDecoded /\ Faulty' = Faulty
  BY DEF ConstantsDecoded, ConstantsParsed, Faulty
<1>5. QED
  BY <1>1, <1>2, <1>3, <1>4 DEF UpdaterInv, vars, constantVars, tableVars

\* Once everything is encoded, every reference of the old file was checked.
LEMMA AllChecked ==
  ASSUME UpdaterInv, pc \in {"output", "write"}
  PROVE  ~Faulty
<1>1. Len(resourceRecords) = Len(old.resources) /\ Len(segmentInfos) = Len(old.segments)
      /\ ConstantsDecoded
  BY DEF UpdaterInv, ProgressInv
<1>2. ASSUME NEW resource \in Elements(old.resources)
      PROVE  resource.category = "CONSTANT" \/ resource.described
  BY <1>1 DEF UpdaterInv, CheckedInv, ResourceChecked, Elements
<1>3. ASSUME NEW segment \in Elements(old.segments)
      PROVE  SegmentChecked(segment)
  BY <1>1 DEF UpdaterInv, CheckedInv, Elements
<1>4. ASSUME NEW segment \in Elements(old.segments)
      PROVE  /\ ~(segment.module >= Len(old.modules))
             /\ \A set \in Elements(segment.sets) : \A slot \in Elements(set.bindings) :
                  ~(slot.mrtIndex >= Len(old.resources))
             /\ \A idx \in Elements(segment.constants) :
                  old.resources[old.constants[idx + 1].mrtIndex + 1].category = "CONSTANT"
  <2>1. segment \in SegmentTables
    BY OldTyped, ElementOfSeq DEF UpdaterInv, Elements
  <2>2. ~(segment.module >= Len(old.modules))
    <3>1. segment.module \in Nat /\ segment.module < Len(old.modules) /\ Len(old.modules) \in Nat
      BY <2>1, <1>3, OldLengths DEF SegmentChecked, UpdaterInv, SegmentTables
    <3>2. QED
      BY <3>1
  <2>3. ASSUME NEW set \in Elements(segment.sets), NEW slot \in Elements(set.bindings)
        PROVE  ~(slot.mrtIndex >= Len(old.resources))
    <3>0. PICK j \in 1 .. Len(segment.sets) : set = segment.sets[j]
      BY DEF Elements
    <3>1. set \in SetTables /\ SetChecked(set)
      BY <2>1, <1>3, <3>0, ElementOfSeq DEF SegmentChecked, SegmentTables
    <3>2. slot \in Slots /\ SlotChecked(slot)
      BY <3>1 DEF SetChecked, Elements, SetTables
    <3>3. slot.mrtIndex \in Nat /\ slot.mrtIndex < Len(old.resources) /\ Len(old.resources) \in Nat
      BY <3>2, OldLengths DEF SlotChecked, Slots, UpdaterInv
    <3>4. QED
      BY <3>3
  <2>4. \A idx \in Elements(segment.constants) : ConstantChecked(idx)
    BY <1>3 DEF SegmentChecked, Elements
  <2>5. QED
    BY <2>2, <2>3, <2>4 DEF ConstantChecked
<1>5. QED
  BY <1>1, <1>2, <1>4 DEF Faulty

--------------------------------------------------------------------------------
\* A new encoder, and nothing checked.
LEMMA UpdaterInitInv == UpdaterInit => UpdaterInv
<1> SUFFICES ASSUME UpdaterInit PROVE UpdaterInv
  OBVIOUS
<1>1. ReferencesInv
  BY ReferencesInit DEF UpdaterInit
<1>2. \A S : <<>> \in Seq(S) /\ Len(<<>>) = 0
  BY EmptySeq
<1>3. work \in Work
  BY <1>2 DEF UpdaterInit, Work, SegmentWork, NewSegment
<1>4. /\ Len(work.modules) = 0 /\ Len(work.segment.constants) = 0 /\ Len(work.segment.sets) = 0
      /\ Len(work.segment.ranges) = 0
      /\ Len(work.segment.bindings) = 0 /\ Len(resourceRecords) = 0 /\ Len(segmentInfos) = 0
  BY <1>2 DEF UpdaterInit, Init, NewSegment
<1>5. old \in OldFiles /\ pc = "open" /\ scanned = 0 /\ output = "untouched"
  BY DEF UpdaterInit
<1>6. ProgressInv
  BY <1>4, <1>5, OldLengths DEF ProgressInv, ModulesExtracted
<1>7. ASSUME Len(segmentInfos) < Len(old.segments)
      PROVE  CurrentChecked(OldSegment)
  <2>1. OldSegment \in SegmentTables
    BY <1>4, <1>5, <1>7, OldTyped, OldLengths, ElementOfSeq DEF OldSegment
  <2>2. /\ Len(OldSegment.constants) \in Nat /\ Len(OldSegment.sets) \in Nat
        /\ Len(OldSegment.pushConstRanges) \in Nat
    BY <2>1 DEF SegmentTables
  <2>3. ASSUME Len(OldSegment.sets) > 0
        PROVE  Len(OldSegment.sets[1].bindings) \in Nat
    <3>1. OldSegment.sets[1] \in SetTables
      BY <2>1, <2>2, <2>3, ElementOfSeq DEF SegmentTables
    <3>2. QED
      BY <3>1 DEF SetTables
  <2>4. QED
    BY <1>4, <2>2, <2>3 DEF CurrentChecked
<1>8. CheckedInv
  BY <1>4, <1>7 DEF CheckedInv, OldSegment
<1>9. ResultInv
  BY <1>5 DEF ResultInv
<1>10. QED
  BY <1>1, <1>3, <1>5, <1>6, <1>8, <1>9 DEF UpdaterInv

--------------------------------------------------------------------------------
\* One lemma for each action.

LEMMA ThrowChecked ==
  ASSUME UpdaterInv, pc # "done", Throw
  PROVE  UpdaterInv'
<1>1. pc' = "failed" /\ UNCHANGED <<vars, old, scanned, work, output>>
  BY DEF Throw
<1>2. ProgressInv'
  BY <1>1, TablesStill DEF UpdaterInv, ProgressInv
<1>3. ResultInv'
  BY <1>1, TablesStill DEF UpdaterInv, ResultInv
<1>4. QED
  BY <1>1, <1>2, <1>3, TablesStill DEF UpdaterInv

LEMMA OpenChecked ==
  ASSUME UpdaterInv, Open
  PROVE  UpdaterInv'
<1>1. /\ pc = "open" /\ pc' \in {"failed", "done", "modules"}
      /\ UNCHANGED <<vars, old, scanned, work, output>>
  <2>1. old.version \in {"invalid", "outdated", "latest"}
    BY FilesAssumption DEF UpdaterInv
  <2>2. QED
    BY <2>1 DEF Open
<1>2. ProgressInv'
  BY <1>1, TablesStill DEF UpdaterInv, ProgressInv
<1>3. ResultInv'
  BY <1>1, TablesStill DEF UpdaterInv, ResultInv
<1>4. QED
  BY <1>1, <1>2, <1>3, TablesStill DEF UpdaterInv

LEMMA DecodeConstantsChecked ==
  ASSUME UpdaterInv, DecodeConstants
  PROVE  UpdaterInv'
<1>1. /\ pc = "constants" /\ pc' \in {"segments", "failed"}
      /\ pc' = "segments" => ConstantsDecoded
      /\ UNCHANGED <<vars, old, scanned, work, output>>
  BY DEF DecodeConstants
<1>2. ProgressInv'
  BY <1>1, TablesStill DEF UpdaterInv, ProgressInv
<1>3. ResultInv'
  BY <1>1, TablesStill DEF UpdaterInv, ResultInv
<1>4. QED
  BY <1>1, <1>2, <1>3, TablesStill DEF UpdaterInv

LEMMA NextPartChecked ==
  ASSUME UpdaterInv, NextPart
  PROVE  UpdaterInv'
<1>1. /\ \/ pc = "modules" /\ pc' = "resources"
         \/ pc = "resources" /\ pc' = "constants" /\ Len(resourceRecords) = Len(old.resources)
         \/ pc = "segments" /\ pc' = "io" /\ Len(segmentInfos) = Len(old.segments)
      /\ UNCHANGED <<vars, old, scanned, work, output>>
  BY DEF NextPart
<1>2. ProgressInv'
  BY <1>1, TablesStill DEF UpdaterInv, ProgressInv
<1>3. ResultInv'
  BY <1>1, TablesStill DEF UpdaterInv, ResultInv
<1>4. QED
  BY <1>1, <1>2, <1>3, TablesStill DEF UpdaterInv

\* The output is opened when everything was checked.
LEMMA OutputChecked ==
  ASSUME UpdaterInv, OpenOutput \/ WriteOutput
  PROVE  UpdaterInv'
<1>1. /\ pc \in {"output", "write"} /\ pc' \in {"write", "failed", "done"}
      /\ pc' = "write" => pc = "output"
      /\ UNCHANGED <<vars, old, scanned, work>>
      /\ output' = "written" => \/ pc' = "done" /\ ~encodingFailed
                                \/ output = "written"
  BY DEF OpenOutput, WriteOutput, WriteAccepted, WrittenAnyway
<1>2. ProgressInv'
  BY <1>1, TablesStill DEF UpdaterInv, ProgressInv
<1>3. ResultInv'
  BY <1>1, TablesStill, AllChecked DEF UpdaterInv, ResultInv
<1>4. QED
  BY <1>1, <1>2, <1>3, TablesStill DEF UpdaterInv

LEMMA StutterChecked ==
  ASSUME UpdaterInv, UNCHANGED <<vars, updaterVars>>
  PROVE  UpdaterInv'
<1>1. UNCHANGED <<vars, old, scanned, work, pc, output>>
  BY DEF updaterVars
<1>2. ProgressInv'
  BY <1>1, TablesStill DEF UpdaterInv, ProgressInv
<1>3. ResultInv'
  BY <1>1, TablesStill DEF UpdaterInv, ResultInv
<1>4. QED
  BY <1>1, <1>2, <1>3, TablesStill DEF UpdaterInv

\* Before update is done, nothing was written.
LEMMA ResultStays ==
  ASSUME UpdaterInv, pc # "done", UNCHANGED <<old, output>>
  PROVE  ResultInv'
<1>1. Faulty' = Faulty
  BY DEF Faulty, ConstantsDecoded, ConstantsParsed
<1>2. QED
  BY <1>1 DEF UpdaterInv, ResultInv

\* What was checked stays so while no resource and no segment is added, and
\* the current segment is where it was.
LEMMA CheckedStays ==
  ASSUME UpdaterInv, UNCHANGED <<old, segmentInfos>>, Len(resourceRecords') = Len(resourceRecords),
         work'.segment.constants = work.segment.constants,
         work'.segment.ranges = work.segment.ranges,
         work'.segment.sets = work.segment.sets, work'.segment.bindings = work.segment.bindings
  PROVE  CheckedInv'
BY Zenon DEF UpdaterInv, CheckedInv, ResourceChecked, SegmentChecked, SetChecked, SlotChecked,
       ConstantChecked, CurrentChecked

\* The pc stays while objects are added for a segment.
LEMMA EncodingStays ==
  ASSUME UpdaterInv, pc = "segments", work'.modules = work.modules,
         UNCHANGED <<old, pc, scanned, output, resourceRecords, segmentInfos>>
  PROVE  ProgressInv' /\ ResultInv'
<1>1. ConstantsDecoded' = ConstantsDecoded
  BY DEF ConstantsDecoded, ConstantsParsed
<1>2. QED
  BY <1>1, ResultStays DEF UpdaterInv, ProgressInv, ModulesExtracted

LEMMA ExtractModuleChecked ==
  ASSUME UpdaterInv, ExtractModule
  PROVE  UpdaterInv'
<1> DEFINE module == old.modules[scanned + 1]
<1>1. /\ pc = "modules" /\ scanned < Len(old.modules) /\ scanned' = scanned + 1
      /\ UNCHANGED <<old, pc, output>>
  BY DEF ExtractModule
<1>2. module \in Module
  BY <1>1, OldTyped, OldLengths, ElementOfSeq, SMT DEF UpdaterInv, ProgressInv, ModulesExtracted
<1>3. scanned \in Nat /\ Len(old.modules) \in Nat
  BY OldLengths DEF UpdaterInv, ProgressInv, ModulesExtracted
<1>4. ResultInv'
  BY <1>1, ResultStays
<1>5. CASE /\ AddModule(module.type, module.code)
           /\ work' = [work EXCEPT !.modules = Append(@, Len(modules))]
  <2>1. ReferencesInv' /\ RefsGrow
    BY <1>2, <1>5, AddModuleRefs DEF Module, UpdaterInv
  <2>2. Len(modules) \in Refs(modules') /\ UNCHANGED <<resourceRecords, segmentInfos>>
    BY <1>5, Lengths DEF AddModule, UpdaterInv, Refs, ReferencesInv, ObjectsOK
  <2>3. work.modules \in Seq(Refs(modules')) /\ work \in Work'
    BY <2>1, WorkStays DEF UpdaterInv, Work
  <2>4. Append(work.modules, Len(modules)) \in Seq(Refs(modules'))
        /\ Len(Append(work.modules, Len(modules))) = Len(work.modules) + 1
    BY <2>2, <2>3
  <2>5. /\ work' \in Work' /\ work'.segment = work.segment
        /\ work'.modules = Append(work.modules, Len(modules))
    BY <1>5, <2>3, <2>4 DEF Work
  <2>6. ModulesExtracted'
    <3>1. Len(work.modules) \in Nat /\ Len(work.modules) <= scanned
      BY Lengths DEF UpdaterInv, ProgressInv, ModulesExtracted
    <3>2. Len(work'.modules) = Len(work.modules) + 1
      BY <2>4, <2>5
    <3>3. QED
      BY <1>1, <1>3, <3>1, <3>2 DEF ModulesExtracted
  <2>7. ProgressInv'
    BY <1>1, <2>2, <2>6 DEF UpdaterInv, ProgressInv
  <2>8. QED
    BY <1>1, <1>4, <2>1, <2>2, <2>5, <2>7, CheckedStays DEF UpdaterInv
<1>6. CASE UNCHANGED <<vars, work>>
  <2>1. ReferencesInv' /\ RefsGrow /\ UNCHANGED <<resourceRecords, segmentInfos>>
    BY <1>6, FinishRefs DEF UpdaterInv, vars, tableVars
  <2>2. work' \in Work'
    BY <1>6, <2>1, WorkStays DEF UpdaterInv
  <2>3. ModulesExtracted'
    BY <1>1, <1>3, <1>6, Lengths, SMT DEF UpdaterInv, ProgressInv, ModulesExtracted
  <2>4. ProgressInv'
    BY <1>1, <2>1, <2>3 DEF UpdaterInv, ProgressInv
  <2>5. QED
    BY <1>1, <1>4, <1>6, <2>1, <2>2, <2>4, CheckedStays DEF UpdaterInv
<1>7. QED
  BY <1>5, <1>6 DEF ExtractModule

\* A resource is added when it was checked.
LEMMA AddedResourceChecked ==
  ASSUME UpdaterInv, pc = "resources", pc' \in {"resources", "sampler"},
         Len(resourceRecords) < Len(old.resources), ResourceChecked(NextResource),
         UNCHANGED <<old, scanned, work, output>>,
         NEW category \in Categories, NEW group \in AliasGroups \cup {U32Max},
         AddModelResourceTableEntry(category, group)
  PROVE  UpdaterInv'
<1>1. ReferencesInv' /\ RefsGrow
  BY AddResourceRefs DEF UpdaterInv
<1>2. work' \in Work'
  BY <1>1, WorkStays DEF UpdaterInv
<1>3. Len(resourceRecords') = Len(resourceRecords) + 1 /\ UNCHANGED segmentInfos
  BY DEF AddModelResourceTableEntry, UpdaterInv, ReferencesInv, ObjectsOK
<1>4. Len(resourceRecords) \in Nat /\ Len(old.resources) \in Nat
  BY OldLengths, Lengths DEF UpdaterInv
<1>5. ProgressInv'
  BY <1>3, <1>4, SMT DEF UpdaterInv, ProgressInv, ModulesExtracted
<1>6. \A i \in 1 .. Len(resourceRecords') : ResourceChecked(old'.resources[i])
  BY <1>3, <1>4, SMT DEF UpdaterInv, CheckedInv, NextResource
<1>7. CheckedInv'
  BY <1>3, <1>6, Zenon DEF UpdaterInv, CheckedInv, ResourceChecked, SegmentChecked, SetChecked, SlotChecked,
       ConstantChecked, CurrentChecked
<1>8. QED
  BY <1>1, <1>2, <1>5, <1>7, ResultStays DEF UpdaterInv

LEMMA EncodeResourceChecked ==
  ASSUME UpdaterInv, EncodeResource
  PROVE  UpdaterInv'
<1>1. /\ pc = "resources" /\ Len(resourceRecords) < Len(old.resources)
      /\ UNCHANGED <<old, scanned, work, output>>
  BY DEF EncodeResource
<1>2. NextResource \in ResourceTables
  BY <1>1, OldTyped, OldLengths, Lengths, ElementOfSeq, SMT DEF UpdaterInv, NextResource
<1>3. CASE /\ NextResource.category = "CONSTANT"
           /\ AddModelResourceTableEntry("CONSTANT", U32Max) /\ UNCHANGED pc
  BY <1>1, <1>2, <1>3, AddedResourceChecked DEF ResourceTables, ResourceChecked
<1>4. CASE pc' = "failed" /\ UNCHANGED vars
  BY <1>1, <1>4, ThrowChecked DEF Throw
<1>5. CASE /\ NextResource.described
           /\ AddModelResourceTableEntry(NextResource.category, NextResource.aliasGroup)
           /\ pc' \in {"resources", "sampler"}
  BY <1>1, <1>2, <1>5, AddedResourceChecked DEF ResourceTables, ResourceChecked
<1>6. QED
  BY <1>1, <1>3, <1>4, <1>5 DEF EncodeResource

LEMMA EncodeSamplerChecked ==
  ASSUME UpdaterInv, EncodeSampler
  PROVE  UpdaterInv'
<1>1. PICK config \in old.resources[Len(resourceRecords)].sampler :
        AddSamplerConfig(Len(resourceRecords) - 1, config)
  BY DEF EncodeSampler
<1>2. pc = "sampler" /\ pc' = "resources" /\ UNCHANGED <<old, scanned, work, output>>
  BY DEF EncodeSampler
<1>3. Len(resourceRecords) \in 1 .. Len(old.resources)
  BY <1>2, Lengths, OldLengths DEF UpdaterInv, ProgressInv
<1>4. config \in SamplerConfigs
  <2>1. old.resources[Len(resourceRecords)] \in ResourceTables
    BY <1>3, OldTyped, ElementOfSeq DEF UpdaterInv
  <2>2. QED
    BY <1>1, <2>1 DEF ResourceTables
<1>5. Len(resourceRecords) - 1 \in Refs(resourceRecords)
  BY <1>3, Lengths DEF UpdaterInv, Refs
<1>6. ReferencesInv' /\ RefsGrow
  BY <1>1, <1>4, <1>5, AddSamplerConfigRefs DEF UpdaterInv
<1>7. Len(resourceRecords') = Len(resourceRecords) /\ UNCHANGED segmentInfos
  BY <1>1 DEF AddSamplerConfig, UpdaterInv, ReferencesInv, ObjectsOK
<1>8. work' \in Work'
  BY <1>2, <1>6, WorkStays DEF UpdaterInv
<1>9. ProgressInv'
  BY <1>2, <1>7 DEF UpdaterInv, ProgressInv, ModulesExtracted
<1>10. QED
  BY <1>2, <1>6, <1>7, <1>8, <1>9, CheckedStays, ResultStays DEF UpdaterInv

LEMMA Sizes ==
  ASSUME UpdaterInv
  PROVE  /\ Len(old.modules) \in Nat /\ Len(old.resources) \in Nat
         /\ Len(old.segments) \in Nat /\ Len(old.constants) \in Nat
         /\ Len(resourceRecords) \in Nat /\ Len(segmentInfos) \in Nat
         /\ Len(work.modules) \in Nat
         /\ Len(work.segment.constants) \in Nat /\ Len(work.segment.ranges) \in Nat
         /\ Len(work.segment.sets) \in Nat /\ Len(work.segment.bindings) \in Nat
         /\ Len(bindingSlots) \in Nat /\ Len(descriptorSetInfos) \in Nat
         /\ Len(pushConstRanges) \in Nat /\ Len(modules) \in Nat
BY Lengths, OldLengths DEF UpdaterInv

\* The reference of a constant, or UINT32_MAX.
LEMMA ConstantGiven ==
  ASSUME ReferencesInv, NEW resource, NEW size, NEW sparsity, AddConstantTo(resource, size, sparsity)
  PROVE  ConstantRef \in ConstantRefs'
<1>1. constsMetaData \in Seq(ConstantMetaData) /\ Len(constsMetaData) \in Nat
  BY DEF ReferencesInv, ConstantsOK, ConstantsInv, ConstantsTypeOK
<1>2. CASE AddConstant(resource, size, sparsity)
  <2>1. PICK record : constsMetaData' = Append(constsMetaData, record)
    BY <1>2 DEF AddConstant
  <2>2. Len(constsMetaData') = Len(constsMetaData) + 1
    BY <1>1, <2>1
  <2>3. QED
    BY <1>1, <2>2 DEF ConstantRef, ConstantRefs, Refs
<1>3. CASE RejectConstant(size) /\ failedRef' = TRUE
  BY <1>3 DEF RejectConstant, ConstantRef, ConstantRefs
<1>4. QED
  BY <1>2, <1>3 DEF AddConstantTo

\* The constant, range, set and binding that is next.
LEMMA EncodingFacts ==
  ASSUME UpdaterInv, Encoding
  PROVE  /\ pc = "segments" /\ Len(segmentInfos) < Len(old.segments)
         /\ OldSegment \in SegmentTables /\ CurrentChecked(OldSegment) /\ ConstantsDecoded
         /\ Len(resourceRecords) = Len(old.resources)
BY SegmentIsOld DEF Encoding, UpdaterInv, CheckedInv, ProgressInv, OldSegment

LEMMA ConstantFacts ==
  ASSUME UpdaterInv, Encoding, ~ConstantsEncoded
  PROVE  LET n == Len(work.segment.constants) + 1
             constant == old.constants[OldSegment.constants[n] + 1]
         IN  /\ n \in 1 .. Len(OldSegment.constants) /\ Len(work.segment.constants) \in Nat
             /\ constant.mrtIndex \in Refs(resourceRecords) \cap Resources
             /\ constant.size \in DataSizes /\ constant.sparsityDimension \in Sparsities
<1> DEFINE n == Len(work.segment.constants) + 1
           idx == OldSegment.constants[n]
           constant == old.constants[idx + 1]
<1>1. Encoding /\ ~ConstantsEncoded
  OBVIOUS
<1>2. /\ pc = "segments" /\ Len(segmentInfos) < Len(old.segments)
      /\ OldSegment \in SegmentTables /\ CurrentChecked(OldSegment) /\ ConstantsDecoded
      /\ Len(resourceRecords) = Len(old.resources)
  BY <1>1, EncodingFacts
<1>3. Segment.constants = OldSegment.constants
  BY <1>2, SegmentIsOld
<1>4. n \in 1 .. Len(OldSegment.constants) /\ Len(work.segment.constants) \in Nat
  <2>1. Len(work.segment.constants) \in Nat /\ Len(OldSegment.constants) \in Nat
    BY <1>2, Sizes DEF SegmentTables
  <2>2. Len(work.segment.constants) <= Len(OldSegment.constants)
    BY <1>2 DEF CurrentChecked
  <2>3. Len(work.segment.constants) # Len(OldSegment.constants)
    BY <1>1, <1>3 DEF ConstantsEncoded
  <2>4. QED
    BY <2>1, <2>2, <2>3
<1>5. idx \in Nat /\ idx < Len(old.constants) /\ constant.mrtIndex < Len(old.resources)
  <2>1. idx \in 0 .. U32Max /\ idx \in Elements(OldSegment.constants)
    BY <1>2, <1>4, ElementOfSeq DEF SegmentTables, Elements
  <2>2. OldSegment \in Elements(old.segments)
    <3>1. Len(segmentInfos) + 1 \in 1 .. Len(old.segments)
      BY <1>2, Sizes, SMT
    <3>2. QED
      BY <3>1 DEF OldSegment, Elements
  <2>3. \A segment \in Elements(old.segments) : \A i \in Elements(segment.constants) :
          i < Len(old.constants) /\ old.constants[i + 1].mrtIndex < Len(old.resources)
    BY <1>2 DEF ConstantsDecoded
  <2>4. idx \in Nat
    BY <2>1, TablesAssumption, SMT
  <2> HIDE DEF idx
  <2>5. QED
    BY <2>1, <2>2, <2>3, <2>4
<1>6. constant \in ConstantTables /\ constant.size > 0
  <2>1. idx + 1 \in 1 .. Len(old.constants)
    BY <1>5, OldLengths, SMT DEF UpdaterInv
  <2>2. constant \in ConstantTables
    BY <2>1, OldTyped, ElementOfSeq DEF UpdaterInv
  <2>3. constant \in Elements(old.constants)
    BY <2>1 DEF Elements
  <2>4. QED
    BY <1>2, <2>2, <2>3 DEF ConstantsDecoded, ConstantsParsed
<1>7. /\ constant.mrtIndex \in Refs(resourceRecords) \cap Resources
      /\ constant.size \in DataSizes /\ constant.sparsityDimension \in Sparsities
  <2>1. constant.mrtIndex \in Resources /\ constant.size \in DataSizes
        /\ constant.sparsityDimension \in Sparsities
    BY <1>6 DEF ConstantTables
  <2>2. constant.mrtIndex \in Nat
    BY <2>1, ConstantAssumption
  <2>3. QED
    <3>1. constant.mrtIndex < Len(resourceRecords) /\ Len(resourceRecords) \in Nat
      BY <1>2, <1>5, Sizes
    <3> HIDE DEF constant
    <3>2. QED
      BY <2>1, <2>2, <3>1 DEF Refs
<1>8. QED
  BY <1>4, <1>7

LEMMA EncodeConstantChecked ==
  ASSUME UpdaterInv, EncodeConstant
  PROVE  UpdaterInv'
<1> DEFINE n == Len(work.segment.constants) + 1
           idx == OldSegment.constants[n]
           constant == old.constants[idx + 1]
<1>1. Encoding /\ ~ConstantsEncoded
  BY Zenon DEF EncodeConstant
<1>2. /\ pc = "segments" /\ Len(segmentInfos) < Len(old.segments)
      /\ OldSegment \in SegmentTables /\ CurrentChecked(OldSegment) /\ ConstantsDecoded
      /\ Len(resourceRecords) = Len(old.resources)
  BY <1>1, EncodingFacts
<1>3. Segment.constants = OldSegment.constants
  BY <1>2, SegmentIsOld
<1>4. n \in 1 .. Len(OldSegment.constants) /\ Len(work.segment.constants) \in Nat
  BY <1>1, ConstantFacts
<1>5. /\ constant.mrtIndex \in Refs(resourceRecords) \cap Resources
      /\ constant.size \in DataSizes /\ constant.sparsityDimension \in Sparsities
  BY <1>1, ConstantFacts
<1> HIDE DEF idx, n, constant
<1>6. CASE Throw
  BY <1>2, <1>6, ThrowChecked
<1>7. CASE /\ old.resources[constant.mrtIndex + 1].category = "CONSTANT"
           /\ AddConstantTo(constant.mrtIndex, constant.size, constant.sparsityDimension)
           /\ work' = [work EXCEPT !.segment.constants = Append(@, ConstantRef)]
           /\ UNCHANGED <<old, pc, scanned, output>>
  <2>1. ReferencesInv' /\ RefsGrow /\ ConstantRef \in ConstantRefs'
    BY <1>5, <1>7, AddConstantRefs, ConstantGiven DEF UpdaterInv
  <2>2. UNCHANGED <<resourceRecords, segmentInfos>>
    BY <1>7 DEF AddConstantTo
  <2>3. work \in Work' /\ work.segment \in SegmentWork' /\ work.segment.constants \in Seq(ConstantRefs')
    BY <2>1, WorkStays DEF UpdaterInv, Work, SegmentWork
  <2> DEFINE more == Append(work.segment.constants, ConstantRef)
  <2>4. more \in Seq(ConstantRefs') /\ Len(more) = n
    BY <2>1, <2>3 DEF n
  <2> HIDE DEF more
  <2>5. work' = [work EXCEPT !.segment.constants = more]
    BY <1>7 DEF more
  <2>6. /\ work' \in Work' /\ work'.modules = work.modules /\ work'.segment.constants = more
        /\ work'.segment.sets = work.segment.sets /\ work'.segment.bindings = work.segment.bindings
        /\ work'.segment.ranges = work.segment.ranges
    BY <2>3, <2>4, <2>5 DEF Work, SegmentWork
  <2>7. \A k \in 1 .. n : ConstantChecked(OldSegment.constants[k])
    <3>1. ConstantChecked(OldSegment.constants[n])
      BY <1>7 DEF ConstantChecked, constant, idx
    <3>2. QED
      BY <1>2, <1>4, <3>1 DEF CurrentChecked, n
  <2>8. CheckedInv'
    <3>1. Len(work'.segment.constants) = n /\ Len(OldSegment.constants) >= n
      BY <1>4, <2>4, <2>6
    <3>2. CurrentChecked(OldSegment)'
      BY <1>2, <1>4, <1>7, <2>2, <2>6, <2>7, <3>1, Zenon
      DEF CurrentChecked, ConstantChecked, SetChecked, SlotChecked, OldSegment
    <3>3. QED
      BY <1>7, <2>2, <3>2, Zenon DEF UpdaterInv, CheckedInv, ResourceChecked, SegmentChecked, SetChecked,
         SlotChecked, ConstantChecked, OldSegment
  <2>9. QED
    BY <1>2, <1>7, <2>1, <2>2, <2>6, <2>8, EncodingStays DEF UpdaterInv
<1>8. QED
  BY <1>3, <1>6, <1>7, Zenon DEF EncodeConstant, constant, idx, n

\* The segment that is being encoded got further.
LEMMA CurrentMoves ==
  ASSUME UpdaterInv, Len(segmentInfos) < Len(old.segments), CurrentChecked(OldSegment)',
         UNCHANGED <<old, resourceRecords, segmentInfos>>
  PROVE  CheckedInv'
BY Zenon DEF UpdaterInv, CheckedInv, ResourceChecked, SegmentChecked, SetChecked, SlotChecked,
       ConstantChecked, OldSegment

LEMMA EncodePushConstRangeChecked ==
  ASSUME UpdaterInv, EncodePushConstRange
  PROVE  UpdaterInv'
<1> DEFINE n == Len(work.segment.ranges) + 1
           range == Segment.pushConstRanges[n]
           more == Append(work.segment.ranges, Len(pushConstRanges))
<1>1. /\ Encoding /\ ~RangesEncoded
      /\ AddPushConstRange(range)
      /\ work' = [work EXCEPT !.segment.ranges = more]
      /\ UNCHANGED <<old, pc, scanned, output>>
  BY DEF EncodePushConstRange
<1>2. /\ pc = "segments" /\ Len(segmentInfos) < Len(old.segments)
      /\ OldSegment \in SegmentTables /\ CurrentChecked(OldSegment)
  BY <1>1, EncodingFacts
<1>3. Segment.pushConstRanges = OldSegment.pushConstRanges
  BY <1>2, SegmentIsOld
<1>4. n \in 1 .. Len(OldSegment.pushConstRanges)
  <2>1. Len(work.segment.ranges) \in Nat /\ Len(OldSegment.pushConstRanges) \in Nat
    BY <1>2, Sizes DEF SegmentTables
  <2>2. Len(work.segment.ranges) <= Len(OldSegment.pushConstRanges)
    BY <1>2 DEF CurrentChecked
  <2>3. Len(work.segment.ranges) # Len(OldSegment.pushConstRanges)
    BY <1>1, <1>3 DEF RangesEncoded
  <2>4. QED
    BY <2>1, <2>2, <2>3, SMT
<1>5. range \in PushConstRanges
  BY <1>2, <1>3, <1>4, ElementOfSeq DEF SegmentTables
<1> HIDE DEF range
<1>6. ReferencesInv' /\ RefsGrow
  BY <1>1, <1>5, AddPushConstRangeRefs DEF UpdaterInv
<1>7. UNCHANGED <<resourceRecords, segmentInfos>> /\ Len(pushConstRanges) \in Refs(pushConstRanges')
  BY <1>1, Sizes DEF AddPushConstRange, Refs, UpdaterInv, ReferencesInv, ObjectsOK
<1>8. work \in Work' /\ work.segment \in SegmentWork'
      /\ work.segment.ranges \in Seq(Refs(pushConstRanges'))
  BY <1>6, WorkStays DEF UpdaterInv, Work, SegmentWork
<1>9. more \in Seq(Refs(pushConstRanges')) /\ Len(more) = n
  BY <1>7, <1>8
<1> HIDE DEF more
<1>10. /\ work' \in Work' /\ work'.modules = work.modules /\ work'.segment.ranges = more
       /\ work'.segment.sets = work.segment.sets /\ work'.segment.bindings = work.segment.bindings
       /\ work'.segment.constants = work.segment.constants
  BY <1>1, <1>8, <1>9, Zenon DEF Work, SegmentWork
<1>11. CurrentChecked(OldSegment)'
  <2>1. Len(work'.segment.ranges) <= Len(OldSegment.pushConstRanges)
    BY <1>4, <1>9, <1>10
  <2> HIDE DEF n
  <2>2. QED
    BY <1>1, <1>2, <1>7, <1>10, <2>1, Zenon
    DEF CurrentChecked, ConstantChecked, SetChecked, SlotChecked, OldSegment
<1>12. QED
  BY <1>1, <1>2, <1>6, <1>7, <1>10, <1>11, CurrentMoves, EncodingStays DEF UpdaterInv

\* What AppendIf does to references.
LEMMA AppendIfLemma ==
  ASSUME NEW S, NEW refs \in Seq(S), NEW ref \in S, NEW resource, NEW category
  PROVE  AppendIf(refs, ref, resource, category) \in Seq(S)
BY DEF AppendIf

\* Where encodeSegments is in a descriptor set.
LEMMA SetFacts ==
  ASSUME UpdaterInv, Encoding, ~SetsEncoded
  PROVE  LET n == Len(work.segment.sets) + 1
         IN  /\ n \in 1 .. Len(OldSegment.sets)
             /\ OldSegment.sets[n] \in SetTables
             /\ NextSet.bindings = OldSegment.sets[n].bindings
             /\ NextSet.setIndex = getSegmentDescriptorSetIndex(OldSegment.sets[n].setIndex, n - 1)
             /\ Len(work.segment.bindings) <= Len(OldSegment.sets[n].bindings)
             /\ \A b \in 1 .. Len(work.segment.bindings) : SlotChecked(OldSegment.sets[n].bindings[b])
<1> DEFINE n == Len(work.segment.sets) + 1
<1>1. /\ Len(segmentInfos) < Len(old.segments)
      /\ OldSegment \in SegmentTables /\ CurrentChecked(OldSegment)
  BY EncodingFacts
<1>2. /\ Len(Segment.sets) = Len(OldSegment.sets)
      /\ \A j \in 1 .. Len(OldSegment.sets) :
              /\ Segment.sets[j].bindings = OldSegment.sets[j].bindings
              /\ Segment.sets[j].setIndex =
                   getSegmentDescriptorSetIndex(OldSegment.sets[j].setIndex, j - 1)
  BY <1>1, SegmentIsOld
<1>3. Len(work.segment.sets) \in Nat /\ Len(OldSegment.sets) \in Nat
  BY <1>1, Sizes DEF SegmentTables
<1>4. Len(work.segment.sets) < Len(OldSegment.sets)
  <2>1. Len(work.segment.sets) <= Len(OldSegment.sets)
    BY <1>1 DEF CurrentChecked
  <2>2. Len(work.segment.sets) # Len(OldSegment.sets)
    BY <1>2 DEF SetsEncoded
  <2>3. QED
    BY <1>3, <2>1, <2>2
<1>5. n \in 1 .. Len(OldSegment.sets)
  BY <1>3, <1>4
<1>6. OldSegment.sets[n] \in SetTables
  BY <1>1, <1>5, ElementOfSeq DEF SegmentTables
<1>7. /\ Len(work.segment.bindings) <= Len(OldSegment.sets[n].bindings)
      /\ \A b \in 1 .. Len(work.segment.bindings) : SlotChecked(OldSegment.sets[n].bindings[b])
  BY <1>1, <1>4 DEF CurrentChecked
<1>8. NextSet = Segment.sets[n]
  BY DEF NextSet
<1>9. QED
  BY <1>2, <1>5, <1>6, <1>7, <1>8

LEMMA EncodeBindingSlotChecked ==
  ASSUME UpdaterInv, EncodeBindingSlot
  PROVE  UpdaterInv'
<1> DEFINE n == Len(work.segment.sets) + 1
           b == Len(work.segment.bindings) + 1
           bindings == OldSegment.sets[n].bindings
           slot == bindings[b]
           resource == old.resources[slot.mrtIndex + 1]
           ref == Len(bindingSlots)
<1>1. Encoding /\ ~SetsEncoded /\ Len(work.segment.bindings) < Len(NextSet.bindings)
  BY DEF EncodeBindingSlot
<1>2. /\ pc = "segments" /\ Len(segmentInfos) < Len(old.segments)
      /\ OldSegment \in SegmentTables /\ CurrentChecked(OldSegment)
      /\ Len(resourceRecords) = Len(old.resources)
  BY <1>1, EncodingFacts
<1>3. /\ n \in 1 .. Len(OldSegment.sets) /\ OldSegment.sets[n] \in SetTables
      /\ NextSet.bindings = bindings
      /\ \A i \in 1 .. Len(work.segment.bindings) : SlotChecked(bindings[i])
  BY <1>1, SetFacts
<1>4. bindings \in Seq(Slots) /\ b \in 1 .. Len(bindings) /\ Len(work.segment.bindings) \in Nat
  <2>1. bindings \in Seq(Slots)
    BY <1>3 DEF SetTables
  <2>2. Len(work.segment.bindings) \in Nat /\ Len(work.segment.bindings) < Len(bindings)
    BY <1>1, <1>3, Sizes
  <2> HIDE DEF bindings
  <2>3. QED
    BY <2>1, <2>2
<1>5. slot \in Slots
  BY <1>4, ElementOfSeq
<1> HIDE DEF slot, bindings, resource, ref
<1>6. CASE slot.mrtIndex >= Len(old.resources) /\ Throw
  BY <1>2, <1>6, ThrowChecked
<1>7. CASE /\ ~(slot.mrtIndex >= Len(old.resources))
           /\ AddBindingSlot(slot.binding, slot.mrtIndex)
           /\ work' = [work EXCEPT
                   !.segment.bindings = Append(@, ref),
                   !.segment.inputs = AppendIf(@, ref, resource, "INPUT"),
                   !.segment.outputs = AppendIf(@, ref, resource, "OUTPUT"),
                   !.inputs = AppendIf(@, ref, resource, "INPUT"),
                   !.outputs = AppendIf(@, ref, resource, "OUTPUT")]
           /\ UNCHANGED <<old, pc, scanned, output>>
  <2>1. slot.binding \in Nat /\ slot.mrtIndex \in Refs(resourceRecords) /\ SlotChecked(slot)
    <3>1. slot.binding \in Nat /\ slot.mrtIndex \in Nat
      BY <1>5, TablesAssumption DEF Slots
    <3>2. slot.mrtIndex < Len(old.resources) /\ Len(old.resources) \in Nat
      BY <1>7, <3>1, Sizes, SMT
    <3>3. QED
      BY <1>2, <3>1, <3>2 DEF Refs, SlotChecked
  <2>2. ReferencesInv' /\ RefsGrow
    BY <1>7, <2>1, AddBindingSlotRefs DEF UpdaterInv
  <2>3. UNCHANGED <<resourceRecords, segmentInfos>> /\ ref \in Refs(bindingSlots')
    BY <1>7, Sizes DEF AddBindingSlot, Refs, UpdaterInv, ReferencesInv, ObjectsOK, ref
  <2>4. /\ work \in Work' /\ work.segment \in SegmentWork'
        /\ work.segment.bindings \in Seq(Refs(bindingSlots'))
        /\ work.segment.inputs \in Seq(Refs(bindingSlots'))
        /\ work.segment.outputs \in Seq(Refs(bindingSlots'))
        /\ work.inputs \in Seq(Refs(bindingSlots')) /\ work.outputs \in Seq(Refs(bindingSlots'))
    BY <2>2, WorkStays DEF UpdaterInv, Work, SegmentWork
  <2> DEFINE more == Append(work.segment.bindings, ref)
             segmentInputs == AppendIf(work.segment.inputs, ref, resource, "INPUT")
             segmentOutputs == AppendIf(work.segment.outputs, ref, resource, "OUTPUT")
             inputs == AppendIf(work.inputs, ref, resource, "INPUT")
             outputs == AppendIf(work.outputs, ref, resource, "OUTPUT")
  <2>5. /\ more \in Seq(Refs(bindingSlots')) /\ Len(more) = b
        /\ segmentInputs \in Seq(Refs(bindingSlots')) /\ segmentOutputs \in Seq(Refs(bindingSlots'))
        /\ inputs \in Seq(Refs(bindingSlots')) /\ outputs \in Seq(Refs(bindingSlots'))
    BY <2>3, <2>4, AppendIfLemma, SMT
  <2>6. work' = [work EXCEPT !.segment.bindings = more, !.segment.inputs = segmentInputs,
                   !.segment.outputs = segmentOutputs, !.inputs = inputs, !.outputs = outputs]
    BY <1>7
  <2> HIDE DEF more, segmentInputs, segmentOutputs, inputs, outputs
  <2>7. /\ work' \in Work' /\ work'.modules = work.modules /\ work'.segment.bindings = more
        /\ work'.segment.sets = work.segment.sets /\ work'.segment.ranges = work.segment.ranges
        /\ work'.segment.constants = work.segment.constants
    BY <2>4, <2>5, <2>6 DEF Work, SegmentWork
  <2>8. \A i \in 1 .. b : SlotChecked(bindings[i])
    BY <1>3, <1>4, <2>1 DEF slot
  <2>9. CurrentChecked(OldSegment)'
    <3>1. Len(work'.segment.bindings) = b /\ b <= Len(bindings)
      BY <1>4, <2>5, <2>7
    <3> HIDE DEF b
    <3>2. QED
      BY <1>2, <1>3, <1>7, <2>3, <2>7, <2>8, <3>1, Zenon
      DEF CurrentChecked, ConstantChecked, SetChecked, SlotChecked, OldSegment, bindings
  <2>10. QED
    BY <1>2, <1>7, <2>2, <2>3, <2>7, <2>9, CurrentMoves, EncodingStays DEF UpdaterInv
<1>8. QED
  BY <1>3, <1>6, <1>7, Zenon DEF EncodeBindingSlot, slot, bindings, resource, ref

LEMMA EncodeDescriptorSetChecked ==
  ASSUME UpdaterInv, EncodeDescriptorSet
  PROVE  UpdaterInv'
<1> DEFINE n == Len(work.segment.sets) + 1
           bindings == OldSegment.sets[n].bindings
           setIndex == EncodedSetIndex(NextSet.setIndex, Len(work.segment.sets))
           more == Append(work.segment.sets, Len(descriptorSetInfos))
<1>1. /\ Encoding /\ ~SetsEncoded /\ Len(work.segment.bindings) = Len(NextSet.bindings)
      /\ AddDescriptorSetInfo(work.segment.bindings, setIndex)
      /\ work' = [work EXCEPT !.segment.sets = more, !.segment.bindings = <<>>]
      /\ UNCHANGED <<old, pc, scanned, output>>
  BY DEF EncodeDescriptorSet
<1>2. /\ pc = "segments" /\ Len(segmentInfos) < Len(old.segments)
      /\ OldSegment \in SegmentTables /\ CurrentChecked(OldSegment)
  BY <1>1, EncodingFacts
<1>3. /\ n \in 1 .. Len(OldSegment.sets) /\ OldSegment.sets[n] \in SetTables
      /\ NextSet.bindings = bindings
      /\ NextSet.setIndex = getSegmentDescriptorSetIndex(OldSegment.sets[n].setIndex, n - 1)
      /\ \A i \in 1 .. Len(work.segment.bindings) : SlotChecked(bindings[i])
  BY <1>1, SetFacts
<1>4. setIndex \in SetIndices
  <2>1. OldSegment.sets[n].setIndex \in SetIndices
    BY <1>3 DEF SetTables
  <2>2. n - 1 = Len(work.segment.sets)
    BY Sizes
  <2>3. QED
    BY <1>3, <2>1, <2>2, FilesAssumption DEF EncodedSetIndex, getSegmentDescriptorSetIndex
<1> HIDE DEF setIndex
<1>5. ReferencesInv' /\ RefsGrow
  <2>1. work.segment.bindings \in Seq(Refs(bindingSlots))
    BY DEF UpdaterInv, Work, SegmentWork
  <2>2. QED
    BY <1>1, <1>4, <2>1, AddDescriptorSetInfoRefs DEF UpdaterInv
<1>6. UNCHANGED <<resourceRecords, segmentInfos>>
      /\ Len(descriptorSetInfos) \in Refs(descriptorSetInfos')
  BY <1>1, Sizes DEF AddDescriptorSetInfo, Refs, UpdaterInv, ReferencesInv, ObjectsOK
<1>7. work \in Work' /\ work.segment \in SegmentWork'
      /\ work.segment.sets \in Seq(Refs(descriptorSetInfos'))
  BY <1>5, WorkStays DEF UpdaterInv, Work, SegmentWork
<1>8. more \in Seq(Refs(descriptorSetInfos')) /\ Len(more) = n
  BY <1>6, <1>7
<1> HIDE DEF more
<1>9. <<>> \in Seq(Refs(bindingSlots')) /\ Len(<<>>) = 0
  BY EmptySeq
<1>10. /\ work' \in Work' /\ work'.modules = work.modules /\ work'.segment.sets = more
       /\ work'.segment.bindings = <<>> /\ work'.segment.ranges = work.segment.ranges
       /\ work'.segment.constants = work.segment.constants
  BY <1>1, <1>7, <1>8, <1>9 DEF Work, SegmentWork
<1>11. SetChecked(OldSegment.sets[n])
  BY <1>1, <1>3 DEF SetChecked
<1>12. \A j \in 1 .. n : SetChecked(OldSegment.sets[j])
  <2>1. Len(work.segment.sets) \in Nat
    BY Sizes
  <2>2. \A j \in 1 .. Len(work.segment.sets) : SetChecked(OldSegment.sets[j])
    BY <1>2 DEF CurrentChecked
  <2>3. QED
    BY <1>11, <2>1, <2>2
<1>13. \A j \in 1 .. Len(OldSegment.sets) : Len(OldSegment.sets[j].bindings) \in Nat
  <2>1. ASSUME NEW j \in 1 .. Len(OldSegment.sets)
        PROVE  OldSegment.sets[j] \in SetTables
    BY <1>2, ElementOfSeq DEF SegmentTables
  <2>2. QED
    BY <2>1 DEF SetTables
<1>14. CurrentChecked(OldSegment)'
  <2>1. Len(work'.segment.sets) = n /\ Len(work'.segment.bindings) = 0
    BY <1>8, <1>9, <1>10
  <2>2. /\ n <= Len(OldSegment.sets)
        /\ n < Len(OldSegment.sets) => n + 1 \in 1 .. Len(OldSegment.sets)
    <3>1. n \in Nat /\ Len(OldSegment.sets) \in Nat
      <4>1. OldSegment.sets \in Seq(SetTables)
        BY <1>2 DEF SegmentTables
      <4>2. Len(work.segment.sets) \in Nat
        BY Sizes
      <4>3. QED
        BY <4>1, <4>2
    <3> HIDE DEF n
    <3>2. QED
      BY <1>3, <3>1
  <2>3. OldSegment' = OldSegment
    BY <1>1, <1>6 DEF OldSegment
  <2> HIDE DEF n
  <2>4. /\ \A j \in 1 .. n : SetChecked(OldSegment.sets[j])'
        /\ \A k \in 1 .. Len(work.segment.constants) : ConstantChecked(OldSegment.constants[k])'
    <3>1. \A set : SetChecked(set) => SetChecked(set)'
      BY <1>1 DEF SetChecked, SlotChecked
    <3>2. \A c : ConstantChecked(c) => ConstantChecked(c)'
      BY <1>1 DEF ConstantChecked
    <3>3. \A k \in 1 .. Len(work.segment.constants) : ConstantChecked(OldSegment.constants[k])
      BY <1>2 DEF CurrentChecked
    <3>4. QED
      BY <1>1, <1>12, <3>3, <2>3 DEF SetChecked, SlotChecked, ConstantChecked
  <2>5. \A i \in 1 .. Len(work'.segment.bindings) : FALSE
    BY <2>1
  <2>6. /\ Len(work'.segment.constants) <= Len(OldSegment.constants)
        /\ Len(work'.segment.ranges) <= Len(OldSegment.pushConstRanges)
    BY <1>2, <1>10 DEF CurrentChecked
  <2>7. Len(work'.segment.sets) < Len(OldSegment.sets) =>
          Len(work'.segment.bindings) <= Len(OldSegment.sets[Len(work'.segment.sets) + 1].bindings)
    BY <1>13, <2>1, <2>2
  <2>8. QED
    BY <1>10, <2>1, <2>2, <2>3, <2>4, <2>5, <2>6, <2>7 DEF CurrentChecked
<1>15. QED
  BY <1>1, <1>2, <1>5, <1>6, <1>10, <1>14, CurrentMoves, EncodingStays DEF UpdaterInv

\* A segment is added when all of it was checked.
LEMMA EncodeSegmentChecked ==
  ASSUME UpdaterInv, EncodeSegment
  PROVE  UpdaterInv'
<1> DEFINE module == work.modules[Segment.module + 1]
<1>1. /\ Encoding /\ ConstantsEncoded /\ SetsEncoded
      /\ AddSegmentInfo(module, work.segment.sets, work.segment.inputs,
                    work.segment.outputs, work.segment.constants, work.segment.ranges)
      /\ work' = [work EXCEPT !.segment = NewSegment]
      /\ UNCHANGED <<old, pc, scanned, output>>
  BY DEF EncodeSegment
<1>2. /\ pc = "segments" /\ Len(segmentInfos) < Len(old.segments)
      /\ OldSegment \in SegmentTables /\ CurrentChecked(OldSegment)
      /\ Len(resourceRecords) = Len(old.resources) /\ ConstantsDecoded
  BY <1>1, EncodingFacts
<1>3. /\ Segment.module = OldSegment.module /\ Segment.constants = OldSegment.constants
      /\ Len(Segment.sets) = Len(OldSegment.sets)
  BY <1>2, SegmentIsOld
<1>4. Segment.module + 1 \in 1 .. Len(work.modules) /\ OldSegment.module \in Nat
      /\ OldSegment.module < Len(work.modules)
  <2>1. OldSegment.module \in Nat
    BY <1>2, TablesAssumption DEF SegmentTables
  <2>2. OldSegment.module < Len(work.modules) /\ Len(work.modules) \in Nat
    BY <1>1, <1>3, Sizes DEF Encoding
  <2>3. QED
    BY <1>3, <2>1, <2>2
<1>5. SegmentChecked(OldSegment)
  <2>1. OldSegment.module < Len(old.modules)
    <3>1. Len(work.modules) <= scanned /\ scanned \in 0 .. Len(old.modules)
      BY DEF UpdaterInv, ProgressInv, ModulesExtracted
    <3>2. QED
      BY <1>4, <3>1, Sizes, SMT
  <2>2. \A j \in 1 .. Len(OldSegment.sets) : SetChecked(OldSegment.sets[j])
    BY <1>1, <1>2, <1>3 DEF SetsEncoded, CurrentChecked
  <2>3. \A k \in 1 .. Len(OldSegment.constants) : ConstantChecked(OldSegment.constants[k])
    BY <1>1, <1>2, <1>3 DEF ConstantsEncoded, CurrentChecked
  <2>4. QED
    BY <2>1, <2>2, <2>3 DEF SegmentChecked
<1>6. /\ work.segment.sets \in Seq(Refs(descriptorSetInfos))
      /\ work.segment.inputs \in Seq(Refs(bindingSlots))
      /\ work.segment.outputs \in Seq(Refs(bindingSlots))
      /\ work.segment.constants \in Seq(ConstantRefs)
      /\ work.segment.ranges \in Seq(Refs(pushConstRanges))
      /\ work.modules \in Seq(Refs(modules))
  BY DEF UpdaterInv, Work, SegmentWork
<1>7. module \in Refs(modules)
  BY <1>4, <1>6, ElementOfSeq
<1> HIDE DEF module
<1>8. ReferencesInv' /\ RefsGrow
  BY <1>1, <1>6, <1>7, AddSegmentInfoRefs DEF UpdaterInv
<1>9. Len(segmentInfos') = Len(segmentInfos) + 1 /\ UNCHANGED resourceRecords
  BY <1>1 DEF AddSegmentInfo, UpdaterInv, ReferencesInv, ObjectsOK
<1>10. \A S : <<>> \in Seq(S) /\ Len(<<>>) = 0
  BY EmptySeq
<1>11. work' \in Work' /\ work'.segment = NewSegment /\ work'.modules = work.modules
  <2>1. work \in Work'
    BY <1>8, WorkStays DEF UpdaterInv
  <2>2. NewSegment \in SegmentWork'
    BY <1>10 DEF NewSegment, SegmentWork
  <2>3. QED
    BY <1>1, <2>1, <2>2 DEF Work
<1>12. ProgressInv'
  <2>1. ConstantsDecoded' = ConstantsDecoded
    BY <1>1 DEF ConstantsDecoded, ConstantsParsed
  <2>2. ModulesExtracted'
    BY <1>1, <1>11 DEF ModulesExtracted, UpdaterInv, ProgressInv
  <2>3. Len(segmentInfos') <= Len(old'.segments)
    BY <1>1, <1>2, <1>9, Sizes, SMT
  <2>4. QED
    BY <1>1, <1>2, <1>9, <2>1, <2>2, <2>3 DEF ProgressInv
<1>13. /\ Len(work'.segment.constants) = 0 /\ Len(work'.segment.ranges) = 0
       /\ Len(work'.segment.sets) = 0 /\ Len(work'.segment.bindings) = 0
  BY <1>10, <1>11 DEF NewSegment
<1>14. ASSUME Len(segmentInfos') < Len(old'.segments)
       PROVE  CurrentChecked(OldSegment)'
  <2>1. OldSegment' \in SegmentTables
    <3>1. Len(segmentInfos') + 1 \in 1 .. Len(old.segments)
      BY <1>1, <1>9, <1>14, Sizes, SMT
    <3>2. old.segments[Len(segmentInfos') + 1] \in SegmentTables
      BY <3>1, OldTyped, ElementOfSeq DEF UpdaterInv
    <3>3. QED
      BY <1>1, <3>2 DEF OldSegment
  <2>2. /\ Len(OldSegment'.constants) \in Nat /\ Len(OldSegment'.sets) \in Nat
        /\ Len(OldSegment'.pushConstRanges) \in Nat /\ OldSegment'.sets \in Seq(SetTables)
    BY <2>1 DEF SegmentTables
  <2>3. ASSUME Len(OldSegment'.sets) > 0
        PROVE  Len(OldSegment'.sets[1].bindings) \in Nat
    <3>1. OldSegment'.sets[1] \in SetTables
      BY <2>2, <2>3, ElementOfSeq
    <3>2. QED
      BY <3>1 DEF SetTables
  <2>4. QED
    BY <1>13, <2>2, <2>3 DEF CurrentChecked
<1>15. CheckedInv'
  <2>1. \A i \in 1 .. Len(segmentInfos') : SegmentChecked(old.segments[i])
    <3>1. \A i \in 1 .. Len(segmentInfos) : SegmentChecked(old.segments[i])
      BY DEF UpdaterInv, CheckedInv
    <3>2. SegmentChecked(old.segments[Len(segmentInfos) + 1])
      BY <1>5 DEF OldSegment
    <3>3. Len(segmentInfos) \in Nat
      BY Sizes
    <3>4. \A i \in 1 .. Len(segmentInfos') : i \in 1 .. Len(segmentInfos) \/ i = Len(segmentInfos) + 1
      BY <1>9, <3>3
    <3>5. QED
      BY <3>1, <3>2, <3>4
  <2>2. \A i \in 1 .. Len(segmentInfos') : SegmentChecked(old.segments[i])'
    <3> DEFINE Checked(i) == SegmentChecked(old.segments[i])
    <3>1. \A i : Checked(i) => Checked(i)'
      BY <1>1, Zenon DEF SegmentChecked, SetChecked, SlotChecked, ConstantChecked
    <3>2. QED
      BY <2>1, <3>1
  <2>3. \A i \in 1 .. Len(resourceRecords') : ResourceChecked(old.resources[i])'
    BY <1>1, <1>9 DEF UpdaterInv, CheckedInv, ResourceChecked
  <2>4. QED
    BY <1>14, <2>2, <2>3, Zenon DEF CheckedInv, OldSegment
<1>16. QED
  BY <1>1, <1>2, <1>8, <1>11, <1>12, <1>15, ResultStays DEF UpdaterInv

LEMMA EncodeInputsOutputsChecked ==
  ASSUME UpdaterInv, EncodeInputsOutputs
  PROVE  UpdaterInv'
<1>1. /\ pc = "io" /\ pc' = "finish" /\ UNCHANGED <<old, scanned, work, output>>
      /\ AddModelSequenceInputsOutputs(work.inputs, NamesOf(Sequence.inputs),
                                       work.outputs, NamesOf(Sequence.outputs))
  BY DEF EncodeInputsOutputs
<1>2. work.inputs \in Seq(Refs(bindingSlots)) /\ work.outputs \in Seq(Refs(bindingSlots))
  BY DEF UpdaterInv, Work
<1>3. ReferencesInv' /\ RefsGrow
  BY <1>1, <1>2, AddIORefs DEF UpdaterInv
<1>4. UNCHANGED <<resourceRecords, segmentInfos>>
  BY <1>1 DEF AddModelSequenceInputsOutputs
<1>5. work' \in Work'
  BY <1>1, <1>3, WorkStays DEF UpdaterInv
<1>6. ConstantsDecoded' = ConstantsDecoded
  BY <1>1 DEF ConstantsDecoded, ConstantsParsed
<1>7. ProgressInv'
  BY <1>1, <1>4, <1>6 DEF UpdaterInv, ProgressInv, ModulesExtracted
<1>8. QED
  BY <1>1, <1>3, <1>4, <1>5, <1>7, CheckedStays, ResultStays DEF UpdaterInv

LEMMA FinishModelChecked ==
  ASSUME UpdaterInv, FinishModel
  PROVE  UpdaterInv'
<1>1. /\ pc = "finish" /\ pc' = "output" /\ UNCHANGED <<old, scanned, work, output>>
      /\ Finish
  BY DEF FinishModel
<1>2. ReferencesInv' /\ RefsGrow
  BY <1>1, FinishRefs DEF UpdaterInv
<1>3. UNCHANGED <<resourceRecords, segmentInfos>>
  BY <1>1 DEF Finish
<1>4. work' \in Work'
  BY <1>1, <1>2, WorkStays DEF UpdaterInv
<1>5. ConstantsDecoded' = ConstantsDecoded
  BY <1>1 DEF ConstantsDecoded, ConstantsParsed
<1>6. ProgressInv'
  BY <1>1, <1>3, <1>5 DEF UpdaterInv, ProgressInv, ModulesExtracted
<1>7. QED
  BY <1>1, <1>2, <1>3, <1>4, <1>6, CheckedStays, ResultStays DEF UpdaterInv

--------------------------------------------------------------------------------
\* UpdaterInv is inductive.
LEMMA UpdaterStep == UpdaterInv /\ [UpdaterNext]_<<vars, updaterVars>> => UpdaterInv'
<1> SUFFICES ASSUME UpdaterInv, [UpdaterNext]_<<vars, updaterVars>> PROVE UpdaterInv'
  OBVIOUS
<1>1. CASE BadModule
  BY <1>1, ThrowChecked DEF BadModule
<1>2. QED
  BY <1>1, StutterChecked, OpenChecked, ExtractModuleChecked, EncodeResourceChecked,
     EncodeSamplerChecked, DecodeConstantsChecked, EncodeConstantChecked,
     EncodePushConstRangeChecked, EncodeBindingSlotChecked, EncodeDescriptorSetChecked,
     EncodeSegmentChecked, EncodeInputsOutputsChecked, FinishModelChecked, NextPartChecked,
     OutputChecked DEF UpdaterNext

THEOREM UpdaterInvariance == UpdaterSpec => []UpdaterInv
BY UpdaterInitInv, UpdaterStep, PTL DEF UpdaterSpec

\* vgf_updater never touches its output for an input with a reference, of
\* those it follows, that is out of bounds or leads to the wrong kind of
\* object: all of them were checked before it opens the output.
THEOREM FaultyInputNeverReplaces == UpdaterSpec => []FaultyNeverReplaces
<1>1. UpdaterInv => FaultyNeverReplaces
  BY DEF UpdaterInv, ResultInv, FaultyNeverReplaces
<1>2. QED
  BY <1>1, UpdaterInvariance, PTL

\* The file vgf_updater writes passes vgf_dump's cross-section check,
\* whatever the references of the old one, and whether or not a constant was
\* refused on the way.
THEOREM WrittenFileIsValid == UpdaterSpec => []WrittenIsValid
<1>1. UpdaterInv => WrittenIsValid
  BY ReferencesInvValid DEF UpdaterInv, ResultInv, WrittenIsValid, ReferencesValid
<1>2. QED
  BY <1>1, UpdaterInvariance, PTL

--------------------------------------------------------------------------------
(***************************************************************************)
(* What the new model means.                                               *)
(***************************************************************************)

\* The objects made so far; references into them.
Made ==
  [modules |-> modules, slots |-> bindingSlots, sets |-> descriptorSetInfos,
   ranges |-> pushConstRanges, constants |-> constsMetaData]

\* The first n references of a list lead to what the old file has there.
SlotsMatch(made, refs, slots, n) ==
  \A b \in 1 .. n : made.slots[refs[b] + 1] = slots[b]

SetMatches(made, ref, set, position) ==
  LET info == made.sets[ref + 1]
  IN  /\ Len(info.bindings) = Len(set.bindings)
      /\ SlotsMatch(made, info.bindings, set.bindings, Len(set.bindings))
      /\ getSegmentDescriptorSetIndex(info.setIndex, position) =
           getSegmentDescriptorSetIndex(set.setIndex, position)

SetsMatch(made, refs, sets, n) ==
  \A j \in 1 .. n : SetMatches(made, refs[j], sets[j], j - 1)

RangesMatch(made, refs, ranges, n) ==
  \A k \in 1 .. n : made.ranges[refs[k] + 1] = ranges[k]

ConstantMatches(made, ref, constant) ==
  /\ ref \in Refs(made.constants)
  /\ LET new == made.constants[ref + 1]
     IN  /\ new.mrtIndex = constant.mrtIndex /\ new.size = constant.size
         /\ new.sparsityDimension = SparsityDim32(constant.sparsityDimension)

ConstantsMatch(made, refs, constants, indices, n) ==
  \A k \in 1 .. n : ConstantMatches(made, refs[k], constants[indices[k] + 1])

AllExtracted(tables) == \A module \in Elements(tables.modules) : Extracted(module.code)

\* The objects of a segment are those of a segment of tables.
SegmentMatches(made, failed, info, segment, tables) ==
  /\ Len(info.sets) = Len(segment.sets)
  /\ SetsMatch(made, info.sets, segment.sets, Len(segment.sets))
  /\ Len(info.pushConstRanges) = Len(segment.pushConstRanges)
  /\ RangesMatch(made, info.pushConstRanges, segment.pushConstRanges, Len(segment.pushConstRanges))
  /\ Len(info.constants) = Len(segment.constants)
  /\ ~failed =>
       ConstantsMatch(made, info.constants, tables.constants, segment.constants,
                      Len(segment.constants))
  /\ info.type = made.modules[info.module + 1].type
  /\ AllExtracted(tables) => made.modules[info.module + 1] = tables.modules[segment.module + 1]

\* Those encoded so far are.
PartMatches(made, failed, refs, segment, tables) ==
  /\ SetsMatch(made, refs.sets, segment.sets, Len(refs.sets))
  /\ SlotsMatch(made, refs.bindings, segment.sets[Len(refs.sets) + 1].bindings, Len(refs.bindings))
  /\ RangesMatch(made, refs.ranges, segment.pushConstRanges, Len(refs.ranges))
  /\ ~failed =>
       ConstantsMatch(made, refs.constants, tables.constants, segment.constants, Len(refs.constants))

SegmentsTaken ==
  \A i \in 1 .. Len(segmentInfos) :
    SegmentMatches(Made, encodingFailed, segmentInfos[i], old.segments[i], old)

CurrentTaken ==
  Len(segmentInfos) < Len(old.segments) =>
    PartMatches(Made, encodingFailed, work.segment, OldSegment, old)

ModulesTaken ==
  NoneSkipped =>
    /\ Len(modules) = scanned /\ Len(work.modules) = scanned
    /\ \A i \in 1 .. scanned : work.modules[i] = i - 1 /\ modules[i] = old.modules[i]

\* The sampler comes after the resource.
ResourceTaken(record, resource, sampled) ==
  /\ record.category = resource.category
  /\ resource.category # "CONSTANT" =>
       /\ record.aliasGroup = resource.aliasGroup
       /\ sampled => record.sampler = resource.sampler

ResourcesTaken ==
  \A i \in 1 .. Len(resourceRecords) :
    ResourceTaken(resourceRecords[i], old.resources[i], pc = "sampler" => i < Len(resourceRecords))

--------------------------------------------------------------------------------
\* Nothing is taken away from a list.
Longer(list, more) ==
  \A r \in Refs(list) : r \in Refs(more) /\ more[r + 1] = list[r + 1]

Grown(made, more) ==
  /\ Longer(made.modules, more.modules) /\ Longer(made.slots, more.slots)
  /\ Longer(made.sets, more.sets) /\ Longer(made.ranges, more.ranges)
  /\ Longer(made.constants, more.constants)

LEMMA AppendLonger ==
  ASSUME NEW S, NEW list \in Seq(S), NEW e
  PROVE  /\ Longer(list, Append(list, e))
         /\ Len(Append(list, e)) = Len(list) + 1
         /\ Append(list, e)[Len(list) + 1] = e
         /\ \A i \in 1 .. Len(list) : Append(list, e)[i] = list[i]
<1>1. list \in Seq(S \cup {e})
  BY SeqSubset
<1> DEFINE more == Append(list, e)
<1>2. /\ Len(more) = Len(list) + 1 /\ Len(list) \in Nat
      /\ \A i \in 1 .. Len(list) : more[i] = list[i]
      /\ more[Len(list) + 1] = e
  BY <1>1
<1> HIDE DEF more
<1>3. Longer(list, more)
  BY <1>2 DEF Longer, Refs
<1>4. QED
  BY <1>2, <1>3 DEF more

\* A list that stays.
LEMMA SameLonger == \A list : Longer(list, list)
BY DEF Longer

\* Descriptor sets refer to slots there are.
SetsRefer(made) == made.sets \in Seq([bindings : Seq(Refs(made.slots)), setIndex : SetIndices])

\* What matches still does when there are more objects.
LEMMA SlotsGrow ==
  ASSUME NEW made, NEW more, Grown(made, more), NEW refs \in Seq(Refs(made.slots)), NEW slots,
         NEW n \in 0 .. Len(refs), SlotsMatch(made, refs, slots, n)
  PROVE  SlotsMatch(more, refs, slots, n)
<1> SUFFICES ASSUME NEW b \in 1 .. n PROVE more.slots[refs[b] + 1] = slots[b]
  BY DEF SlotsMatch
<1>1. b \in 1 .. Len(refs)
  BY DEF SlotsMatch
<1>2. refs[b] \in Refs(made.slots)
  BY <1>1, ElementOfSeq
<1>3. QED
  BY <1>2 DEF Grown, Longer, SlotsMatch

LEMMA RangesGrow ==
  ASSUME NEW made, NEW more, Grown(made, more), NEW refs \in Seq(Refs(made.ranges)), NEW ranges,
         NEW n \in 0 .. Len(refs), RangesMatch(made, refs, ranges, n)
  PROVE  RangesMatch(more, refs, ranges, n)
<1> SUFFICES ASSUME NEW k \in 1 .. n PROVE more.ranges[refs[k] + 1] = ranges[k]
  BY DEF RangesMatch
<1>1. k \in 1 .. Len(refs)
  OBVIOUS
<1>2. refs[k] \in Refs(made.ranges)
  BY <1>1, ElementOfSeq
<1>3. QED
  BY <1>2 DEF Grown, Longer, RangesMatch

LEMMA ConstantsGrow ==
  ASSUME NEW made, NEW more, Grown(made, more), NEW refs, NEW constants, NEW indices, NEW n,
         ConstantsMatch(made, refs, constants, indices, n)
  PROVE  ConstantsMatch(more, refs, constants, indices, n)
BY DEF ConstantsMatch, ConstantMatches, Grown, Longer

LEMMA SetGrows ==
  ASSUME NEW made, NEW more, Grown(made, more), SetsRefer(made),
         NEW ref \in Refs(made.sets), NEW set \in SetTables, NEW position,
         SetMatches(made, ref, set, position)
  PROVE  SetMatches(more, ref, set, position)
<1> DEFINE info == made.sets[ref + 1]
<1>1. more.sets[ref + 1] = info
  BY DEF Grown, Longer
<1>2. info \in [bindings : Seq(Refs(made.slots)), setIndex : SetIndices]
  <2>1. Len(made.sets) \in Nat
    BY DEF SetsRefer
  <2>2. ref + 1 \in 1 .. Len(made.sets)
    BY <2>1 DEF Refs
  <2>3. QED
    BY <2>2, ElementOfSeq DEF SetsRefer
<1>3. info.bindings \in Seq(Refs(made.slots)) /\ Len(set.bindings) \in Nat
  BY <1>2 DEF SetTables
<1> HIDE DEF info
<1>4. /\ Len(info.bindings) = Len(set.bindings)
      /\ SlotsMatch(made, info.bindings, set.bindings, Len(set.bindings))
      /\ getSegmentDescriptorSetIndex(info.setIndex, position) =
           getSegmentDescriptorSetIndex(set.setIndex, position)
  BY DEF SetMatches, info
<1>5. SlotsMatch(more, info.bindings, set.bindings, Len(set.bindings))
  BY <1>3, <1>4, SlotsGrow
<1>6. QED
  BY <1>1, <1>4, <1>5 DEF SetMatches

LEMMA SetsGrow ==
  ASSUME NEW made, NEW more, Grown(made, more), SetsRefer(made),
         NEW refs \in Seq(Refs(made.sets)), NEW sets \in Seq(SetTables),
         NEW n \in Nat, n <= Len(refs), n <= Len(sets), SetsMatch(made, refs, sets, n)
  PROVE  SetsMatch(more, refs, sets, n)
<1> SUFFICES ASSUME NEW j \in 1 .. n PROVE SetMatches(more, refs[j], sets[j], j - 1)
  BY DEF SetsMatch
<1>1. j \in 1 .. Len(refs) /\ j \in 1 .. Len(sets)
  OBVIOUS
<1>2. refs[j] \in Refs(made.sets) /\ sets[j] \in SetTables
  BY <1>1, ElementOfSeq
<1>3. SetMatches(made, refs[j], sets[j], j - 1)
  BY DEF SetsMatch
<1>4. QED
  BY <1>2, <1>3, SetGrows

--------------------------------------------------------------------------------
\* What a step of encodeSegments adds to what it holds.
LEMMA ConstantEffect ==
  ASSUME UpdaterInv, EncodeConstant
  PROVE  \/ Throw
         \/ LET n == Len(work.segment.constants) + 1
                constant == old.constants[OldSegment.constants[n] + 1]
            IN  /\ Encoding /\ ~ConstantsEncoded
                /\ AddConstantTo(constant.mrtIndex, constant.size, constant.sparsityDimension)
                /\ UNCHANGED <<old, pc, scanned, output>>
                /\ work'.modules = work.modules
                /\ work'.inputs = work.inputs /\ work'.outputs = work.outputs
                /\ work'.segment.constants = Append(work.segment.constants, ConstantRef)
                /\ work'.segment.ranges = work.segment.ranges
                /\ work'.segment.sets = work.segment.sets
                /\ work'.segment.bindings = work.segment.bindings
                /\ work'.segment.inputs = work.segment.inputs
                /\ work'.segment.outputs = work.segment.outputs
<1> DEFINE n == Len(work.segment.constants) + 1
           constant == old.constants[OldSegment.constants[n] + 1]
           more == Append(work.segment.constants, ConstantRef)
<1>1. Encoding /\ ~ConstantsEncoded
  BY Zenon DEF EncodeConstant
<1>2. Segment.constants = OldSegment.constants
  BY <1>1, SegmentIsOld DEF Encoding
<1>3. work \in Work /\ work.segment \in SegmentWork
  BY DEF UpdaterInv, Work
<1> HIDE DEF constant
<1>4. CASE /\ AddConstantTo(constant.mrtIndex, constant.size, constant.sparsityDimension)
           /\ work' = [work EXCEPT !.segment.constants = more]
           /\ UNCHANGED <<old, pc, scanned, output>>
  <2> HIDE DEF more
  <2>1. /\ work'.modules = work.modules
        /\ work'.inputs = work.inputs /\ work'.outputs = work.outputs
        /\ work'.segment.constants = more
        /\ work'.segment.ranges = work.segment.ranges
        /\ work'.segment.sets = work.segment.sets
        /\ work'.segment.bindings = work.segment.bindings
        /\ work'.segment.inputs = work.segment.inputs
        /\ work'.segment.outputs = work.segment.outputs
    BY <1>3, <1>4 DEF Work, SegmentWork
  <2>2. QED
    BY <1>1, <1>4, <2>1, Zenon DEF constant, more
<1>5. QED
  BY <1>2, <1>4, Zenon DEF EncodeConstant, constant

LEMMA RangeEffect ==
  ASSUME UpdaterInv, EncodePushConstRange
  PROVE  LET n == Len(work.segment.ranges) + 1
         IN  /\ Encoding /\ ~RangesEncoded
             /\ AddPushConstRange(OldSegment.pushConstRanges[n])
             /\ UNCHANGED <<old, pc, scanned, output>>
             /\ work'.modules = work.modules
             /\ work'.inputs = work.inputs /\ work'.outputs = work.outputs
             /\ work'.segment.constants = work.segment.constants
             /\ work'.segment.ranges = Append(work.segment.ranges, Len(pushConstRanges))
             /\ work'.segment.sets = work.segment.sets
             /\ work'.segment.bindings = work.segment.bindings
             /\ work'.segment.inputs = work.segment.inputs
             /\ work'.segment.outputs = work.segment.outputs
<1> DEFINE more == Append(work.segment.ranges, Len(pushConstRanges))
<1>1. /\ Encoding /\ ~RangesEncoded
      /\ AddPushConstRange(Segment.pushConstRanges[Len(work.segment.ranges) + 1])
      /\ work' = [work EXCEPT !.segment.ranges = more]
      /\ UNCHANGED <<old, pc, scanned, output>>
  BY DEF EncodePushConstRange
<1>2. Segment.pushConstRanges = OldSegment.pushConstRanges
  BY <1>1, SegmentIsOld DEF Encoding
<1>3. work \in Work /\ work.segment \in SegmentWork
  BY DEF UpdaterInv, Work
<1> HIDE DEF more
<1>4. /\ work'.modules = work.modules
      /\ work'.inputs = work.inputs /\ work'.outputs = work.outputs
      /\ work'.segment.constants = work.segment.constants
      /\ work'.segment.ranges = more
      /\ work'.segment.sets = work.segment.sets
      /\ work'.segment.bindings = work.segment.bindings
      /\ work'.segment.inputs = work.segment.inputs
      /\ work'.segment.outputs = work.segment.outputs
  BY <1>1, <1>3 DEF Work, SegmentWork
<1>5. QED
  BY <1>1, <1>2, <1>4 DEF more

LEMMA BindingEffect ==
  ASSUME UpdaterInv, EncodeBindingSlot
  PROVE  \/ Throw
         \/ LET n == Len(work.segment.sets) + 1
                b == Len(work.segment.bindings) + 1
                slot == OldSegment.sets[n].bindings[b]
                resource == old.resources[slot.mrtIndex + 1]
                ref == Len(bindingSlots)
            IN  /\ Encoding /\ ~SetsEncoded /\ b \in 1 .. Len(OldSegment.sets[n].bindings)
                /\ AddBindingSlot(slot.binding, slot.mrtIndex)
                /\ UNCHANGED <<old, pc, scanned, output>>
                /\ work'.modules = work.modules
                /\ work'.inputs = AppendIf(work.inputs, ref, resource, "INPUT")
                /\ work'.outputs = AppendIf(work.outputs, ref, resource, "OUTPUT")
                /\ work'.segment.constants = work.segment.constants
                /\ work'.segment.ranges = work.segment.ranges
                /\ work'.segment.sets = work.segment.sets
                /\ work'.segment.bindings = Append(work.segment.bindings, ref)
                /\ work'.segment.inputs = AppendIf(work.segment.inputs, ref, resource, "INPUT")
                /\ work'.segment.outputs = AppendIf(work.segment.outputs, ref, resource, "OUTPUT")
<1> DEFINE n == Len(work.segment.sets) + 1
           b == Len(work.segment.bindings) + 1
           bindings == OldSegment.sets[n].bindings
           slot == bindings[b]
           resource == old.resources[slot.mrtIndex + 1]
           ref == Len(bindingSlots)
           more == Append(work.segment.bindings, ref)
           segmentInputs == AppendIf(work.segment.inputs, ref, resource, "INPUT")
           segmentOutputs == AppendIf(work.segment.outputs, ref, resource, "OUTPUT")
           inputs == AppendIf(work.inputs, ref, resource, "INPUT")
           outputs == AppendIf(work.outputs, ref, resource, "OUTPUT")
<1>1. Encoding /\ ~SetsEncoded /\ Len(work.segment.bindings) < Len(NextSet.bindings)
  BY DEF EncodeBindingSlot
<1>2. NextSet.bindings = bindings /\ bindings \in Seq(Slots)
  BY <1>1, SetFacts DEF SetTables
<1>3. b \in 1 .. Len(bindings)
  <2>1. Len(work.segment.bindings) \in Nat /\ Len(work.segment.bindings) < Len(bindings)
    BY <1>1, <1>2, Sizes
  <2> HIDE DEF bindings
  <2>2. QED
    BY <1>2, <2>1
<1>4. work \in Work /\ work.segment \in SegmentWork
  BY DEF UpdaterInv, Work
<1> HIDE DEF slot, bindings, resource, ref
<1>5. CASE /\ AddBindingSlot(slot.binding, slot.mrtIndex)
           /\ work' = [work EXCEPT
                !.segment.bindings = more,
                !.segment.inputs = segmentInputs, !.segment.outputs = segmentOutputs,
                !.inputs = inputs, !.outputs = outputs]
           /\ UNCHANGED <<old, pc, scanned, output>>
  <2> HIDE DEF more, segmentInputs, segmentOutputs, inputs, outputs
  <2>1. /\ work'.modules = work.modules /\ work'.inputs = inputs /\ work'.outputs = outputs
        /\ work'.segment.constants = work.segment.constants
        /\ work'.segment.ranges = work.segment.ranges
        /\ work'.segment.sets = work.segment.sets
        /\ work'.segment.bindings = more
        /\ work'.segment.inputs = segmentInputs
        /\ work'.segment.outputs = segmentOutputs
    BY <1>4, <1>5 DEF Work, SegmentWork
  <2>2. QED
    BY <1>1, <1>3, <1>5, <2>1, Zenon
       DEF slot, bindings, resource, ref, more, inputs, outputs, segmentInputs, segmentOutputs
<1>6. QED
  BY <1>2, <1>5, Zenon DEF EncodeBindingSlot, slot, bindings, resource, ref

LEMMA SetEffect ==
  ASSUME UpdaterInv, EncodeDescriptorSet
  PROVE  LET n == Len(work.segment.sets) + 1
             set == OldSegment.sets[n]
         IN  /\ Encoding /\ ~SetsEncoded /\ Len(work.segment.bindings) = Len(set.bindings)
             /\ AddDescriptorSetInfo(work.segment.bindings,
                  EncodedSetIndex(getSegmentDescriptorSetIndex(set.setIndex, n - 1), n - 1))
             /\ UNCHANGED <<old, pc, scanned, output>>
             /\ work'.modules = work.modules
             /\ work'.inputs = work.inputs /\ work'.outputs = work.outputs
             /\ work'.segment.constants = work.segment.constants
             /\ work'.segment.ranges = work.segment.ranges
             /\ work'.segment.sets = Append(work.segment.sets, Len(descriptorSetInfos))
             /\ work'.segment.bindings = <<>>
             /\ work'.segment.inputs = work.segment.inputs
             /\ work'.segment.outputs = work.segment.outputs
<1> DEFINE n == Len(work.segment.sets) + 1
           set == OldSegment.sets[n]
           more == Append(work.segment.sets, Len(descriptorSetInfos))
<1>1. /\ Encoding /\ ~SetsEncoded /\ Len(work.segment.bindings) = Len(NextSet.bindings)
      /\ AddDescriptorSetInfo(work.segment.bindings,
           EncodedSetIndex(NextSet.setIndex, Len(work.segment.sets)))
      /\ work' = [work EXCEPT !.segment.sets = more, !.segment.bindings = <<>>]
      /\ UNCHANGED <<old, pc, scanned, output>>
  BY DEF EncodeDescriptorSet
<1>2. /\ NextSet.bindings = set.bindings
      /\ NextSet.setIndex = getSegmentDescriptorSetIndex(set.setIndex, n - 1)
      /\ Len(work.segment.sets) = n - 1
  BY <1>1, SetFacts, Sizes
<1>3. work \in Work /\ work.segment \in SegmentWork
  BY DEF UpdaterInv, Work
<1> HIDE DEF more
<1>4. /\ work'.modules = work.modules
      /\ work'.inputs = work.inputs /\ work'.outputs = work.outputs
      /\ work'.segment.constants = work.segment.constants
      /\ work'.segment.ranges = work.segment.ranges
      /\ work'.segment.sets = more
      /\ work'.segment.bindings = <<>>
      /\ work'.segment.inputs = work.segment.inputs
      /\ work'.segment.outputs = work.segment.outputs
  BY <1>1, <1>3 DEF Work, SegmentWork
<1>5. QED
  BY <1>1, <1>2, <1>4 DEF more

LEMMA SegmentEffect ==
  ASSUME UpdaterInv, EncodeSegment
  PROVE  /\ Encoding /\ ConstantsEncoded /\ RangesEncoded /\ SetsEncoded
         /\ AddSegmentInfo(work.modules[OldSegment.module + 1], work.segment.sets,
              work.segment.inputs, work.segment.outputs, work.segment.constants,
              work.segment.ranges)
         /\ UNCHANGED <<old, pc, scanned, output>>
         /\ work'.modules = work.modules
         /\ work'.inputs = work.inputs /\ work'.outputs = work.outputs
         /\ work'.segment = NewSegment
<1>1. /\ Encoding /\ ConstantsEncoded /\ RangesEncoded /\ SetsEncoded
      /\ AddSegmentInfo(work.modules[Segment.module + 1], work.segment.sets,
           work.segment.inputs, work.segment.outputs, work.segment.constants,
           work.segment.ranges)
      /\ work' = [work EXCEPT !.segment = NewSegment]
      /\ UNCHANGED <<old, pc, scanned, output>>
  BY DEF EncodeSegment
<1>2. Segment.module = OldSegment.module
  BY <1>1, SegmentIsOld DEF Encoding
<1>3. work \in Work
  BY DEF UpdaterInv
<1>4. QED
  BY <1>1, <1>2, <1>3 DEF Work

\* A step that neither encodes nor extracts.
Quiet == UNCHANGED <<vars, old, scanned, work>>

\* What a step of update leaves alone, whatever the step.
Frame ==
  /\ UNCHANGED old
  /\ ExtractModule \/ UNCHANGED <<modules, scanned>>
  /\ EncodeResource \/ EncodeSampler \/ UNCHANGED resourceRecords
  /\ EncodeConstant \/ UNCHANGED <<constsMetaData, encodingFailed>>
  /\ EncodePushConstRange \/ UNCHANGED pushConstRanges
  /\ EncodeBindingSlot \/ UNCHANGED bindingSlots
  /\ EncodeDescriptorSet \/ UNCHANGED descriptorSetInfos
  /\ EncodeSegment \/ UNCHANGED segmentInfos
  /\ EncodeInputsOutputs \/ UNCHANGED modelSequence
  /\ FinishModel \/ UNCHANGED file
  /\ ExtractModule \/ work'.modules = work.modules
  /\ EncodeBindingSlot \/ (work'.inputs = work.inputs /\ work'.outputs = work.outputs)
  /\ \/ EncodeConstant \/ EncodePushConstRange \/ EncodeBindingSlot
     \/ EncodeDescriptorSet \/ EncodeSegment \/ work'.segment = work.segment

LEMMA QuietFrame == Quiet => Frame
BY DEF Quiet, Frame, vars, constantVars, tableVars

LEMMA Framed ==
  ASSUME UpdaterInv, [UpdaterNext]_<<vars, updaterVars>>
  PROVE  Frame
<1> work \in Work /\ work.segment \in SegmentWork
  BY DEF UpdaterInv, Work
<1>1. CASE Open \/ DecodeConstants \/ BadModule \/ NextPart \/ OpenOutput \/ WriteOutput
  BY <1>1, QuietFrame DEF Quiet, Open, DecodeConstants, BadModule, Throw, NextPart, OpenOutput, WriteOutput
<1>2. CASE UNCHANGED <<vars, updaterVars>>
  BY <1>2, QuietFrame DEF Quiet, updaterVars
<1>3. CASE ExtractModule
  <2>1. CASE UNCHANGED <<vars, work>>
    BY <1>3, <2>1 DEF ExtractModule, Frame, vars, constantVars, tableVars
  <2>2. CASE AddModule(old.modules[scanned + 1].type, old.modules[scanned + 1].code)
    BY <1>3, <2>2 DEF ExtractModule, Work, Frame, AddModule, constantVars
  <2>3. QED
    BY <1>3, <2>1, <2>2 DEF ExtractModule
<1>4. CASE EncodeResource
  <2>1. CASE UNCHANGED vars
    BY <1>4, <2>1, QuietFrame DEF EncodeResource, Quiet
  <2>2. CASE \E category, group : AddModelResourceTableEntry(category, group)
    BY <1>4, <2>2 DEF EncodeResource, Work, Frame, AddModelResourceTableEntry, constantVars
  <2>3. QED
    BY <1>4, <2>1, <2>2 DEF EncodeResource
<1>5. CASE EncodeSampler
  BY <1>5 DEF EncodeSampler, Work, Frame, AddSamplerConfig, constantVars
<1>6. CASE EncodeConstant
  <2>1. CASE Throw
    BY <2>1, QuietFrame DEF Throw, Quiet
  <2>2. CASE ~Throw
    BY <1>6, <2>2, ConstantEffect DEF Frame, AddConstantTo
  <2>3. QED
    BY <2>1, <2>2
<1>7. CASE EncodePushConstRange
  BY <1>7, RangeEffect DEF Frame, AddPushConstRange, constantVars
<1>8. CASE EncodeBindingSlot
  <2>1. CASE Throw
    BY <2>1, QuietFrame DEF Throw, Quiet
  <2>2. CASE ~Throw
    <3>1. /\ UNCHANGED <<old, scanned>> /\ work'.modules = work.modules
          /\ \E binding, resource : AddBindingSlot(binding, resource)
      BY <1>8, <2>2, BindingEffect, Zenon
    <3>2. QED
      BY <1>8, <3>1 DEF Frame, AddBindingSlot, constantVars
  <2>3. QED
    BY <2>1, <2>2
<1>9. CASE EncodeDescriptorSet
  BY <1>9, SetEffect DEF Frame, AddDescriptorSetInfo, constantVars
<1>10. CASE EncodeSegment
  BY <1>10, SegmentEffect DEF Frame, AddSegmentInfo, constantVars
<1>11. CASE EncodeInputsOutputs
  BY <1>11 DEF EncodeInputsOutputs, Work, Frame, AddModelSequenceInputsOutputs, constantVars
<1>12. CASE FinishModel
  BY <1>12 DEF FinishModel, Frame, Finish
<1>13. QED
  BY <1>1, <1>2, <1>3, <1>4, <1>5, <1>6, <1>7, <1>8, <1>9, <1>10, <1>11, <1>12 DEF UpdaterNext

\* Objects are only added.
LEMMA MadeGrows ==
  ASSUME UpdaterInv, [UpdaterNext]_<<vars, updaterVars>>
  PROVE  Grown(Made, Made') /\ (encodingFailed => encodingFailed')
<1>1. Frame
  BY Framed
<1>2. /\ modules \in Seq(Module) /\ bindingSlots \in Seq(BindingSlot)
      /\ descriptorSetInfos \in Seq(DescriptorSetInfo) /\ pushConstRanges \in Seq(PushConstRanges)
      /\ constsMetaData \in Seq(ConstantMetaData)
  BY DEF UpdaterInv, ReferencesInv, ObjectsOK, ConstantsOK, ConstantsInv, ConstantsTypeOK
<1>3. Longer(modules, modules')
  <2>1. CASE UNCHANGED modules
    BY <2>1, SameLonger
  <2>2. CASE \E type, code : AddModule(type, code)
    BY <1>2, <2>2, AppendLonger DEF AddModule
  <2>3. CASE ExtractModule /\ UNCHANGED vars
    BY <2>1, <2>3 DEF vars, tableVars
  <2>4. QED
    BY <1>1, <2>1, <2>2, <2>3 DEF Frame, ExtractModule
<1>4. Longer(bindingSlots, bindingSlots')
  <2>1. CASE UNCHANGED bindingSlots
    BY <2>1, SameLonger
  <2>2. CASE \E binding, resource : AddBindingSlot(binding, resource)
    BY <1>2, <2>2, AppendLonger DEF AddBindingSlot
  <2>3. CASE EncodeBindingSlot /\ Throw
    BY <2>1, <2>3 DEF Throw, vars, tableVars
  <2>4. QED
    BY <1>1, <2>1, <2>2, <2>3, Zenon DEF Frame, EncodeBindingSlot
<1>5. Longer(descriptorSetInfos, descriptorSetInfos')
  <2>1. CASE UNCHANGED descriptorSetInfos
    BY <2>1, SameLonger
  <2>2. CASE \E bindings, setIndex : AddDescriptorSetInfo(bindings, setIndex)
    BY <1>2, <2>2, AppendLonger DEF AddDescriptorSetInfo
  <2>3. QED
    BY <1>1, <2>1, <2>2, Zenon DEF Frame, EncodeDescriptorSet
<1>6. Longer(pushConstRanges, pushConstRanges')
  <2>1. CASE UNCHANGED pushConstRanges
    BY <2>1, SameLonger
  <2>2. CASE \E range : AddPushConstRange(range)
    BY <1>2, <2>2, AppendLonger DEF AddPushConstRange
  <2>3. QED
    BY <1>1, <2>1, <2>2, Zenon DEF Frame, EncodePushConstRange
<1>7. Longer(constsMetaData, constsMetaData') /\ (encodingFailed => encodingFailed')
  <2>1. CASE UNCHANGED <<constsMetaData, encodingFailed>>
    BY <2>1, SameLonger
  <2>2. CASE \E resource, size, sparsity : AddConstantTo(resource, size, sparsity)
    <3>1. CASE \E resource, size, sparsity : AddConstant(resource, size, sparsity)
      BY <1>2, <3>1, AppendLonger DEF AddConstant
    <3>2. CASE \E size : RejectConstant(size)
      BY <3>2, SameLonger DEF RejectConstant
    <3>3. QED
      BY <2>2, <3>1, <3>2 DEF AddConstantTo
  <2>3. CASE EncodeConstant /\ Throw
    BY <2>1, <2>3 DEF Throw, vars, constantVars
  <2>4. QED
    BY <1>1, <2>1, <2>2, <2>3, Zenon DEF Frame, EncodeConstant
<1>8. QED
  BY <1>3, <1>4, <1>5, <1>6, <1>7 DEF Grown, Made

--------------------------------------------------------------------------------
\* The modules, one for one if none is skipped.
LEMMA ModulesStep ==
  ASSUME UpdaterInv, ModulesTaken, [UpdaterNext]_<<vars, updaterVars>>
  PROVE  ModulesTaken'
<1>1. Frame
  BY Framed
<1>2. CASE UNCHANGED <<old, modules, scanned>> /\ work'.modules = work.modules
  BY <1>2 DEF ModulesTaken, NoneSkipped
<1>3. ASSUME ExtractModule, NoneSkipped
      PROVE  /\ Len(modules') = scanned + 1 /\ Len(work'.modules) = scanned + 1
             /\ \A i \in 1 .. scanned + 1 :
                  work'.modules[i] = i - 1 /\ modules'[i] = old.modules[i]
  <2> DEFINE module == old.modules[scanned + 1]
  <2>1. scanned \in Nat /\ scanned + 1 \in 1 .. Len(old.modules)
    <3>1. scanned < Len(old.modules)
      BY <1>3 DEF ExtractModule
    <3>2. scanned \in 0 .. Len(old.modules) /\ Len(old.modules) \in Nat
      BY Sizes DEF UpdaterInv, ProgressInv, ModulesExtracted
    <3>3. QED
      BY <3>1, <3>2
  <2>2. module \in Module /\ module \in Elements(old.modules)
    BY <2>1, OldTyped, ElementOfSeq DEF UpdaterInv, Elements
  <2>3. Extracted(module.code)
    BY <1>3, <2>2 DEF NoneSkipped
  <2>4. /\ AddModule(module.type, module.code)
        /\ work' = [work EXCEPT !.modules = Append(@, Len(modules))]
    BY <1>3, <2>3 DEF ExtractModule
  <2>5. modules \in Seq(Module) /\ work.modules \in Seq(Refs(modules)) /\ work \in Work
    BY DEF UpdaterInv, ReferencesInv, ObjectsOK, Work
  <2>6. modules' = Append(modules, module) /\ work'.modules = Append(work.modules, Len(modules))
    BY <2>2, <2>4, <2>5 DEF AddModule, Module, Work
  <2>7. /\ Len(modules) = scanned /\ Len(work.modules) = scanned
        /\ \A i \in 1 .. scanned : work.modules[i] = i - 1 /\ modules[i] = old.modules[i]
    BY <1>3 DEF ModulesTaken
  <2>8. /\ Len(modules') = scanned + 1 /\ modules'[scanned + 1] = module
        /\ \A i \in 1 .. scanned : modules'[i] = modules[i]
    BY <2>5, <2>6, <2>7, AppendLonger
  <2>9. /\ Len(work'.modules) = scanned + 1 /\ work'.modules[scanned + 1] = scanned
        /\ \A i \in 1 .. scanned : work'.modules[i] = work.modules[i]
    BY <2>5, <2>6, <2>7, AppendLonger
  <2> HIDE DEF module
  <2>10. \A i \in 1 .. scanned + 1 : i \in 1 .. scanned \/ i = scanned + 1
    BY <2>1
  <2>11. (scanned + 1) - 1 = scanned
    BY <2>1
  <2>12. QED
    BY <2>7, <2>8, <2>9, <2>10, <2>11 DEF module
<1>4. CASE ExtractModule
  BY <1>3, <1>4 DEF ModulesTaken, NoneSkipped, ExtractModule
<1>5. QED
  BY <1>1, <1>2, <1>4 DEF Frame

\* The resources, one for one; a sampler comes after its resource.
LEMMA ResourcesStep ==
  ASSUME UpdaterInv, ResourcesTaken, [UpdaterNext]_<<vars, updaterVars>>
  PROVE  ResourcesTaken'
<1>1. Frame
  BY Framed
<1>2. /\ resourceRecords \in Seq(ResourceRecord) /\ Len(resourceRecords) \in Nat
      /\ Len(old.resources) \in Nat
  BY Sizes DEF UpdaterInv, ReferencesInv, ObjectsOK
<1>3. CASE UNCHANGED resourceRecords /\ pc # "sampler" /\ pc' # "sampler"
  BY <1>1, <1>3 DEF Frame, ResourcesTaken
<1>4. CASE UNCHANGED <<resourceRecords, pc>>
  BY <1>1, <1>4 DEF Frame, ResourcesTaken
<1>5. ASSUME pc = "resources", pc' \in {"resources", "sampler"}, UNCHANGED old,
             Len(resourceRecords) < Len(old.resources),
             NEW group, AddModelResourceTableEntry(NextResource.category, group),
             NextResource.category # "CONSTANT" =>
               /\ group = NextResource.aliasGroup
               /\ pc' = "resources" => NextResource.sampler = {}
      PROVE  ResourcesTaken'
  <2> DEFINE record == [category |-> NextResource.category, aliasGroup |-> group, sampler |-> {}]
  <2>1. resourceRecords' = Append(resourceRecords, record)
    BY <1>5 DEF AddModelResourceTableEntry
  <2> DEFINE n == Len(resourceRecords) + 1
  <2>2. /\ Len(resourceRecords') = n /\ resourceRecords'[n] = record
        /\ \A i \in 1 .. Len(resourceRecords) : resourceRecords'[i] = resourceRecords[i]
    BY <1>2, <2>1, AppendLonger
  <2>3. ResourceTaken(record, old.resources[n], pc' = "sampler" => n < n)
    BY <1>2, <1>5 DEF ResourceTaken, NextResource
  <2> HIDE DEF record
  <2>4. \A i \in 1 .. n : i \in 1 .. Len(resourceRecords) \/ i = n
    BY <1>2
  <2>5. ASSUME NEW i \in 1 .. Len(resourceRecords)
        PROVE  ResourceTaken(resourceRecords'[i], old.resources[i], pc' = "sampler" => i < n)
    BY <1>5, <2>2 DEF ResourcesTaken, ResourceTaken
  <2>6. QED
    BY <1>5, <2>2, <2>3, <2>4, <2>5 DEF ResourcesTaken
<1>6. CASE EncodeResource
  <2>1. CASE pc' = "failed" /\ UNCHANGED vars
    BY <1>3, <1>6, <2>1 DEF EncodeResource, vars, tableVars
  <2>2. CASE NextResource.category = "CONSTANT"
    BY <1>5, <1>6, <2>2 DEF EncodeResource
  <2>3. CASE NextResource.category # "CONSTANT" /\ NextResource.described
    BY <1>5, <1>6, <2>3 DEF EncodeResource
  <2>4. QED
    BY <1>6, <2>1, <2>2, <2>3 DEF EncodeResource
<1>7. CASE EncodeSampler
  <2> DEFINE n == Len(resourceRecords)
  <2>1. /\ pc = "sampler" /\ pc' = "resources" /\ UNCHANGED old
    BY <1>7 DEF EncodeSampler
  <2>2. n \in 1 .. Len(old.resources)
    BY <1>2, <2>1 DEF UpdaterInv, ProgressInv
  <2>3. PICK config \in old.resources[n].sampler : AddSamplerConfig(n - 1, config)
    BY <1>7 DEF EncodeSampler
  <2>4. old.resources[n].sampler = {config}
    <3>1. old.resources[n] \in ResourceTables
      BY <2>2, OldTyped, ElementOfSeq DEF UpdaterInv
    <3>2. QED
      BY <2>3, <3>1 DEF ResourceTables
  <2>5. resourceRecords' = [resourceRecords EXCEPT ![n].sampler = {config}]
    <3>1. (n - 1) + 1 = n
      BY <1>2
    <3>2. QED
      BY <2>3, <3>1 DEF AddSamplerConfig
  <2>6. resourceRecords[n] \in ResourceRecord
    BY <1>2, <2>2, ElementOfSeq
  <2>7. /\ Len(resourceRecords') = n
        /\ \A i \in 1 .. n : i # n => resourceRecords'[i] = resourceRecords[i]
        /\ resourceRecords'[n].category = resourceRecords[n].category
        /\ resourceRecords'[n].aliasGroup = resourceRecords[n].aliasGroup
        /\ resourceRecords'[n].sampler = {config}
    BY <1>2, <2>2, <2>5, <2>6 DEF ResourceRecord
  <2>8. ASSUME NEW i \in 1 .. n
        PROVE  ResourceTaken(resourceRecords'[i], old.resources[i], TRUE)
    <3>1. ResourceTaken(resourceRecords[i], old.resources[i], i < n)
      BY <2>1 DEF ResourcesTaken, ResourceTaken
    <3>2. CASE i = n
      BY <2>4, <2>7, <3>1, <3>2 DEF ResourceTaken
    <3>3. CASE i # n
      <4>1. i < n
        BY <1>2, <3>3
      <4>2. QED
        BY <2>7, <3>1, <3>3, <4>1 DEF ResourceTaken
    <3>4. QED
      BY <3>2, <3>3
  <2>9. QED
    BY <2>1, <2>7, <2>8 DEF ResourcesTaken, ResourceTaken
<1>8. ASSUME ~EncodeResource, ~EncodeSampler
      PROVE  UNCHANGED pc \/ (pc # "sampler" /\ pc' # "sampler")
  <2>1. CASE Open
    <3>1. old.version \in {"invalid", "outdated", "latest"}
      BY FilesAssumption DEF UpdaterInv
    <3>2. QED
      BY <2>1, <3>1 DEF Open
  <2>2. CASE BadModule \/ EncodeConstant \/ EncodeBindingSlot
    <3>1. pc = "segments"
      BY <2>2, Zenon DEF BadModule, EncodeConstant, EncodeBindingSlot, Encoding
    <3>2. Throw \/ UNCHANGED pc
      BY <2>2, ConstantEffect, BindingEffect, Zenon DEF BadModule
    <3>3. QED
      BY <3>1, <3>2 DEF Throw
  <2>3. CASE EncodePushConstRange \/ EncodeDescriptorSet \/ EncodeSegment \/ ExtractModule
    BY <2>3, Zenon DEF EncodePushConstRange, EncodeDescriptorSet, EncodeSegment, ExtractModule
  <2>4. CASE \/ DecodeConstants \/ EncodeInputsOutputs \/ FinishModel \/ NextPart \/ OpenOutput
             \/ WriteOutput
    BY <2>4 DEF DecodeConstants, EncodeInputsOutputs, FinishModel, NextPart, OpenOutput,
       WriteOutput, WriteAccepted, WrittenAnyway
  <2>5. QED
    BY <1>8, <2>1, <2>2, <2>3, <2>4 DEF UpdaterNext, updaterVars
<1>9. QED
  BY <1>1, <1>3, <1>4, <1>6, <1>7, <1>8 DEF Frame

--------------------------------------------------------------------------------
\* What is encoded of a segment, and one that is, when objects are added.
LEMMA PartGrows ==
  ASSUME NEW made, NEW more, Grown(made, more), SetsRefer(made),
         NEW failed, NEW fails, failed => fails,
         NEW refs, NEW segment \in SegmentTables, NEW tables,
         refs.sets \in Seq(Refs(made.sets)), refs.bindings \in Seq(Refs(made.slots)),
         refs.ranges \in Seq(Refs(made.ranges)), Len(refs.sets) <= Len(segment.sets),
         PartMatches(made, failed, refs, segment, tables)
  PROVE  PartMatches(more, fails, refs, segment, tables)
<1>1. segment.sets \in Seq(SetTables)
  BY DEF SegmentTables
<1>2. SetsMatch(more, refs.sets, segment.sets, Len(refs.sets))
  BY <1>1, SetsGrow DEF PartMatches
<1>3. SlotsMatch(more, refs.bindings, segment.sets[Len(refs.sets) + 1].bindings, Len(refs.bindings))
  BY SlotsGrow DEF PartMatches
<1>4. RangesMatch(more, refs.ranges, segment.pushConstRanges, Len(refs.ranges))
  BY RangesGrow DEF PartMatches
<1>5. ~fails =>
        ConstantsMatch(more, refs.constants, tables.constants, segment.constants, Len(refs.constants))
  BY ConstantsGrow DEF PartMatches
<1>6. QED
  BY <1>2, <1>3, <1>4, <1>5 DEF PartMatches

LEMMA SegmentGrows ==
  ASSUME NEW made, NEW more, Grown(made, more), SetsRefer(made),
         NEW failed, NEW fails, failed => fails,
         NEW info, NEW segment \in SegmentTables, NEW tables,
         info.sets \in Seq(Refs(made.sets)), info.pushConstRanges \in Seq(Refs(made.ranges)),
         info.module \in Refs(made.modules), SegmentMatches(made, failed, info, segment, tables)
  PROVE  SegmentMatches(more, fails, info, segment, tables)
<1>1. segment.sets \in Seq(SetTables) /\ Len(segment.pushConstRanges) \in Nat
  BY DEF SegmentTables
<1>2. SetsMatch(more, info.sets, segment.sets, Len(segment.sets))
  <2>1. Len(info.sets) = Len(segment.sets) /\ Len(segment.sets) \in Nat
    BY <1>1 DEF SegmentMatches
  <2>2. QED
    BY <1>1, <2>1, SetsGrow DEF SegmentMatches
<1>3. RangesMatch(more, info.pushConstRanges, segment.pushConstRanges, Len(segment.pushConstRanges))
  BY <1>1, RangesGrow DEF SegmentMatches
<1>4. ~fails =>
        ConstantsMatch(more, info.constants, tables.constants, segment.constants,
                       Len(segment.constants))
  BY ConstantsGrow DEF SegmentMatches
<1>5. more.modules[info.module + 1] = made.modules[info.module + 1]
  BY DEF Grown, Longer
<1>6. QED
  BY <1>2, <1>3, <1>4, <1>5 DEF SegmentMatches

\* One more that matches.
LEMMA SlotsExtend ==
  ASSUME NEW made, NEW S, NEW refs \in Seq(S), NEW ref, NEW slots,
         SlotsMatch(made, refs, slots, Len(refs)), made.slots[ref + 1] = slots[Len(refs) + 1]
  PROVE  SlotsMatch(made, Append(refs, ref), slots, Len(Append(refs, ref)))
<1>1. \A k \in 1 .. Len(refs) + 1 : k \in 1 .. Len(refs) \/ k = Len(refs) + 1
  OBVIOUS
<1>2. QED
  BY <1>1, AppendLonger DEF SlotsMatch

LEMMA RangesExtend ==
  ASSUME NEW made, NEW S, NEW refs \in Seq(S), NEW ref, NEW ranges,
         RangesMatch(made, refs, ranges, Len(refs)), made.ranges[ref + 1] = ranges[Len(refs) + 1]
  PROVE  RangesMatch(made, Append(refs, ref), ranges, Len(Append(refs, ref)))
<1>1. \A k \in 1 .. Len(refs) + 1 : k \in 1 .. Len(refs) \/ k = Len(refs) + 1
  OBVIOUS
<1>2. QED
  BY <1>1, AppendLonger DEF RangesMatch

LEMMA SetsExtend ==
  ASSUME NEW made, NEW S, NEW refs \in Seq(S), NEW ref, NEW sets,
         SetsMatch(made, refs, sets, Len(refs)),
         SetMatches(made, ref, sets[Len(refs) + 1], Len(refs))
  PROVE  SetsMatch(made, Append(refs, ref), sets, Len(Append(refs, ref)))
<1>1. \A k \in 1 .. Len(refs) + 1 : k \in 1 .. Len(refs) \/ k = Len(refs) + 1
  OBVIOUS
<1>2. (Len(refs) + 1) - 1 = Len(refs)
  OBVIOUS
<1>3. QED
  BY <1>1, <1>2, AppendLonger DEF SetsMatch

LEMMA ConstantsExtend ==
  ASSUME NEW made, NEW S, NEW refs \in Seq(S), NEW ref, NEW constants, NEW indices,
         ConstantsMatch(made, refs, constants, indices, Len(refs)),
         ConstantMatches(made, ref, constants[indices[Len(refs) + 1] + 1])
  PROVE  ConstantsMatch(made, Append(refs, ref), constants, indices, Len(Append(refs, ref)))
<1>1. \A k \in 1 .. Len(refs) + 1 : k \in 1 .. Len(refs) \/ k = Len(refs) + 1
  OBVIOUS
<1>2. QED
  BY <1>1, AppendLonger DEF ConstantsMatch

--------------------------------------------------------------------------------
LEMMA MadeTyped ==
  ASSUME UpdaterInv
  PROVE  /\ SetsRefer(Made)
         /\ work.segment.constants \in Seq(ConstantRefs)
         /\ work.segment.sets \in Seq(Refs(Made.sets))
         /\ work.segment.bindings \in Seq(Refs(Made.slots))
         /\ work.segment.ranges \in Seq(Refs(Made.ranges))
         /\ work.modules \in Seq(Refs(Made.modules))
         /\ bindingSlots \in Seq(BindingSlot) /\ descriptorSetInfos \in Seq(DescriptorSetInfo)
         /\ pushConstRanges \in Seq(PushConstRanges) /\ segmentInfos \in Seq(SegmentInfo)
         /\ constsMetaData \in Seq(ConstantMetaData)
BY DEF UpdaterInv, ReferencesInv, ObjectsOK, ConstantsOK, ConstantsInv, ConstantsTypeOK, Made,
   SetsRefer, DescriptorSetInfo, Work, SegmentWork

\* What was encoded of the segment still matches.
LEMMA PartStays ==
  ASSUME UpdaterInv, CurrentTaken, [UpdaterNext]_<<vars, updaterVars>>,
         Len(segmentInfos) < Len(old.segments)
  PROVE  PartMatches(Made', encodingFailed', work.segment, OldSegment, old)
<1>1. PartMatches(Made, encodingFailed, work.segment, OldSegment, old)
  BY DEF CurrentTaken
<1>2. Grown(Made, Made') /\ (encodingFailed => encodingFailed')
  BY MadeGrows
<1>3. OldSegment \in SegmentTables
  BY SegmentIsOld
<1>4. Len(work.segment.sets) <= Len(OldSegment.sets)
  BY DEF UpdaterInv, CheckedInv, CurrentChecked, OldSegment
<1>5. QED
  BY <1>1, <1>2, <1>3, <1>4, MadeTyped, PartGrows

LEMMA ConstantTaken ==
  ASSUME UpdaterInv, CurrentTaken, EncodeConstant, ~Throw
  PROVE  PartMatches(Made', encodingFailed', work'.segment, OldSegment, old)
<1> DEFINE n == Len(work.segment.constants) + 1
           constant == old.constants[OldSegment.constants[n] + 1]
<1>1. /\ Encoding /\ ~ConstantsEncoded
      /\ AddConstantTo(constant.mrtIndex, constant.size, constant.sparsityDimension)
      /\ work'.segment.constants = Append(work.segment.constants, ConstantRef)
      /\ work'.segment.ranges = work.segment.ranges
      /\ work'.segment.sets = work.segment.sets
      /\ work'.segment.bindings = work.segment.bindings
  BY ConstantEffect, Zenon
<1>2. PartMatches(Made', encodingFailed', work.segment, OldSegment, old)
  BY <1>1, PartStays, Zenon DEF Encoding, UpdaterNext
<1>3. /\ constant.mrtIndex \in Resources
      /\ constant.size \in DataSizes /\ constant.sparsityDimension \in Sparsities
  BY <1>1, ConstantFacts, Zenon
<1>4. ASSUME ~encodingFailed'
      PROVE  ConstantMatches(Made', ConstantRef, constant)
  <2> HIDE DEF constant
  <2>1. AddConstant(constant.mrtIndex, constant.size, constant.sparsityDimension)
    BY <1>1, <1>4 DEF AddConstantTo, RejectConstant
  <2> DEFINE record == Record(constant.mrtIndex, constant.size, constant.sparsityDimension)
  <2>2. /\ Len(constsMetaData') = Len(constsMetaData) + 1
        /\ constsMetaData'[Len(constsMetaData) + 1] = record
    BY <1>3, <2>1, AddConstantEffect DEF UpdaterInv, ReferencesInv, ConstantsOK
  <2>3. Len(constsMetaData) \in Nat
    BY MadeTyped
  <2>4. ConstantRef = Len(constsMetaData)
    BY <2>2, <2>3 DEF ConstantRef
  <2>5. ConstantRef \in Refs(Made'.constants)
    BY <2>2, <2>3, <2>4 DEF Refs, Made
  <2>6. Made'.constants[ConstantRef + 1] = record
    BY <2>2, <2>4 DEF Made
  <2>7. QED
    BY <2>5, <2>6 DEF ConstantMatches, Record
<1>5. ASSUME ~encodingFailed'
      PROVE  ConstantsMatch(Made', work'.segment.constants, old.constants, OldSegment.constants,
                            Len(work'.segment.constants))
  BY <1>1, <1>2, <1>4, <1>5, MadeTyped, ConstantsExtend, Zenon DEF PartMatches
<1> HIDE DEF constant
<1>6. QED
  BY <1>1, <1>2, <1>5 DEF PartMatches

LEMMA RangeTaken ==
  ASSUME UpdaterInv, CurrentTaken, EncodePushConstRange
  PROVE  PartMatches(Made', encodingFailed', work'.segment, OldSegment, old)
<1> DEFINE range == OldSegment.pushConstRanges[Len(work.segment.ranges) + 1]
           ref == Len(pushConstRanges)
<1>1. /\ Encoding /\ AddPushConstRange(range)
      /\ work'.segment.constants = work.segment.constants
      /\ work'.segment.ranges = Append(work.segment.ranges, ref)
      /\ work'.segment.sets = work.segment.sets
      /\ work'.segment.bindings = work.segment.bindings
  BY RangeEffect
<1>2. PartMatches(Made', encodingFailed', work.segment, OldSegment, old)
  BY <1>1, PartStays DEF Encoding, UpdaterNext
<1>3. Made'.ranges[ref + 1] = range
  <2>1. pushConstRanges' = Append(pushConstRanges, range)
    BY <1>1 DEF AddPushConstRange
  <2>2. QED
    BY <2>1, MadeTyped, AppendLonger DEF Made
<1> HIDE DEF ref
<1>4. RangesMatch(Made', work'.segment.ranges, OldSegment.pushConstRanges, Len(work'.segment.ranges))
  BY <1>1, <1>2, <1>3, MadeTyped, RangesExtend DEF PartMatches
<1>5. QED
  BY <1>1, <1>2, <1>4 DEF PartMatches

LEMMA BindingTaken ==
  ASSUME UpdaterInv, CurrentTaken, EncodeBindingSlot, ~Throw
  PROVE  PartMatches(Made', encodingFailed', work'.segment, OldSegment, old)
<1> DEFINE bindings == OldSegment.sets[Len(work.segment.sets) + 1].bindings
           slot == bindings[Len(work.segment.bindings) + 1]
           ref == Len(bindingSlots)
<1>1. /\ Encoding /\ ~SetsEncoded /\ Len(work.segment.bindings) + 1 \in 1 .. Len(bindings)
      /\ AddBindingSlot(slot.binding, slot.mrtIndex)
      /\ work'.segment.constants = work.segment.constants
      /\ work'.segment.ranges = work.segment.ranges
      /\ work'.segment.sets = work.segment.sets
      /\ work'.segment.bindings = Append(work.segment.bindings, ref)
  BY BindingEffect, Zenon
<1>2. PartMatches(Made', encodingFailed', work.segment, OldSegment, old)
  BY <1>1, PartStays, Zenon DEF Encoding, UpdaterNext
<1>3. slot \in Slots
  <2>1. bindings \in Seq(Slots)
    BY <1>1, SetFacts, Zenon DEF SetTables
  <2> HIDE DEF bindings
  <2>2. QED
    BY <1>1, <2>1, ElementOfSeq
<1> HIDE DEF slot
<1>4. Made'.slots[ref + 1] = slot
  <2>1. bindingSlots' = Append(bindingSlots, slot)
    BY <1>1, <1>3 DEF AddBindingSlot, Slots
  <2>2. QED
    BY <2>1, MadeTyped, AppendLonger DEF Made
<1> HIDE DEF ref
<1>5. SlotsMatch(Made', work'.segment.bindings, bindings, Len(work'.segment.bindings))
  BY <1>1, <1>2, <1>4, MadeTyped, SlotsExtend, Zenon DEF PartMatches, slot
<1>6. QED
  BY <1>1, <1>2, <1>5 DEF PartMatches

LEMMA SetTaken ==
  ASSUME UpdaterInv, CurrentTaken, EncodeDescriptorSet
  PROVE  PartMatches(Made', encodingFailed', work'.segment, OldSegment, old)
<1> DEFINE n == Len(work.segment.sets) + 1
           set == OldSegment.sets[n]
           setIndex == EncodedSetIndex(getSegmentDescriptorSetIndex(set.setIndex, n - 1), n - 1)
           ref == Len(descriptorSetInfos)
<1>1. /\ Encoding /\ ~SetsEncoded /\ Len(work.segment.bindings) = Len(set.bindings)
      /\ AddDescriptorSetInfo(work.segment.bindings, setIndex)
      /\ work'.segment.constants = work.segment.constants
      /\ work'.segment.ranges = work.segment.ranges
      /\ work'.segment.sets = Append(work.segment.sets, ref)
      /\ work'.segment.bindings = <<>>
  BY SetEffect
<1>2. PartMatches(Made', encodingFailed', work.segment, OldSegment, old)
  BY <1>1, PartStays DEF Encoding, UpdaterNext
<1>3. /\ n - 1 = Len(work.segment.sets) /\ Len(work.segment.sets) \in Nat
      /\ Len(<<>>) = 0
  BY Sizes, EmptySeq
<1>4. Made'.sets[ref + 1] = [bindings |-> work.segment.bindings, setIndex |-> setIndex]
  <2>1. descriptorSetInfos' =
          Append(descriptorSetInfos, [bindings |-> work.segment.bindings, setIndex |-> setIndex])
    BY <1>1 DEF AddDescriptorSetInfo
  <2> HIDE DEF setIndex
  <2>2. QED
    BY <2>1, MadeTyped, AppendLonger DEF Made
<1>5. getSegmentDescriptorSetIndex(setIndex, n - 1) = getSegmentDescriptorSetIndex(set.setIndex, n - 1)
  BY DEF EncodedSetIndex, getSegmentDescriptorSetIndex
<1>6. SlotsMatch(Made', work.segment.bindings, set.bindings, Len(set.bindings))
  BY <1>1, <1>2 DEF PartMatches
<1> HIDE DEF ref, setIndex
<1>7. SetMatches(Made', ref, set, n - 1)
  BY <1>1, <1>4, <1>5, <1>6 DEF SetMatches
<1>8. SetsMatch(Made', work'.segment.sets, OldSegment.sets, Len(work'.segment.sets))
  BY <1>1, <1>2, <1>3, <1>7, MadeTyped, SetsExtend DEF PartMatches
<1>9. SlotsMatch(Made', work'.segment.bindings,
                 OldSegment.sets[Len(work'.segment.sets) + 1].bindings, Len(work'.segment.bindings))
  BY <1>1, <1>3 DEF SlotsMatch
<1>10. QED
  BY <1>1, <1>2, <1>8, <1>9 DEF PartMatches

LEMMA CurrentStep ==
  ASSUME UpdaterInv, CurrentTaken, [UpdaterNext]_<<vars, updaterVars>>
  PROVE  CurrentTaken'
<1>1. Frame
  BY Framed
<1>2. CASE EncodeSegment
  <2>1. work'.segment = NewSegment
    BY <1>2, SegmentEffect
  <2>2. Len(<<>>) = 0
    BY EmptySeq
  <2>3. PartMatches(Made', encodingFailed', NewSegment, OldSegment', old')
    BY <2>2 DEF PartMatches, NewSegment, SetsMatch, SlotsMatch, RangesMatch, ConstantsMatch
  <2>4. QED
    BY <2>1, <2>3 DEF CurrentTaken
<1>3. ASSUME UNCHANGED segmentInfos, Len(segmentInfos) < Len(old.segments),
             PartMatches(Made', encodingFailed', work'.segment, OldSegment, old)
      PROVE  CurrentTaken'
  BY <1>1, <1>3 DEF Frame, CurrentTaken, OldSegment
<1>4. CASE ~EncodeSegment /\ Len(segmentInfos) < Len(old.segments)
  <2>1. CASE work'.segment = work.segment
    BY <1>1, <1>3, <1>4, <2>1, PartStays DEF Frame
  <2>2. CASE EncodeConstant \/ EncodeBindingSlot
    <3>1. CASE Throw
      BY <2>1, <3>1 DEF Throw
    <3>2. CASE ~Throw
      BY <1>1, <1>3, <1>4, <2>2, <3>2, ConstantTaken, BindingTaken, Zenon DEF Frame
    <3>3. QED
      BY <3>1, <3>2
  <2>3. CASE EncodePushConstRange \/ EncodeDescriptorSet
    BY <1>1, <1>3, <1>4, <2>3, RangeTaken, SetTaken, Zenon DEF Frame
  <2>4. QED
    BY <1>1, <1>4, <2>1, <2>2, <2>3 DEF Frame
<1>5. CASE ~EncodeSegment /\ ~(Len(segmentInfos) < Len(old.segments))
  BY <1>1, <1>5 DEF Frame, CurrentTaken
<1>6. QED
  BY <1>2, <1>4, <1>5

LEMMA SegmentsStep ==
  ASSUME UpdaterInv, ModulesTaken, CurrentTaken, SegmentsTaken, [UpdaterNext]_<<vars, updaterVars>>
  PROVE  SegmentsTaken'
<1>1. Frame /\ UNCHANGED old
  BY Framed DEF Frame
<1>2. ASSUME NEW i \in 1 .. Len(segmentInfos)
      PROVE  SegmentMatches(Made', encodingFailed', segmentInfos[i], old.segments[i], old)
  <2>1. Grown(Made, Made') /\ (encodingFailed => encodingFailed')
    BY MadeGrows
  <2>2. segmentInfos[i] \in SegmentInfo
    BY MadeTyped, ElementOfSeq
  <2>3. old.segments[i] \in SegmentTables
    <3>1. i \in 1 .. Len(old.segments)
      BY Sizes DEF UpdaterInv, ProgressInv
    <3>2. QED
      BY <3>1, OldTyped, ElementOfSeq DEF UpdaterInv
  <2>4. SegmentMatches(Made, encodingFailed, segmentInfos[i], old.segments[i], old)
    BY DEF SegmentsTaken
  <2>5. /\ segmentInfos[i].sets \in Seq(Refs(Made.sets))
        /\ segmentInfos[i].pushConstRanges \in Seq(Refs(Made.ranges))
        /\ segmentInfos[i].module \in Refs(Made.modules)
    BY <2>2 DEF SegmentInfo, Made
  <2>6. QED
    BY <2>1, <2>3, <2>4, <2>5, MadeTyped, SegmentGrows
<1>3. CASE UNCHANGED segmentInfos
  BY <1>1, <1>2, <1>3 DEF SegmentsTaken
<1>4. CASE EncodeSegment
  <2> DEFINE module == work.modules[OldSegment.module + 1]
             n == Len(segmentInfos) + 1
             info == [type |-> modules[module + 1].type, module |-> module,
                      sets |-> work.segment.sets,
                      inputs |-> work.segment.inputs, outputs |-> work.segment.outputs,
                      constants |-> work.segment.constants,
                      pushConstRanges |-> work.segment.ranges]
  <2>1. /\ Encoding /\ ConstantsEncoded /\ RangesEncoded /\ SetsEncoded
        /\ segmentInfos' = Append(segmentInfos, info)
    BY <1>4, SegmentEffect DEF AddSegmentInfo
  <2>2. /\ OldSegment \in SegmentTables /\ Segment.module = OldSegment.module
        /\ Len(work.segment.constants) = Len(OldSegment.constants)
        /\ Len(work.segment.ranges) = Len(OldSegment.pushConstRanges)
        /\ Len(work.segment.sets) = Len(OldSegment.sets)
    BY <2>1, SegmentIsOld, Zenon DEF Encoding, ConstantsEncoded, RangesEncoded, SetsEncoded
  <2>3. PartMatches(Made', encodingFailed', work.segment, OldSegment, old)
    BY <1>4, <2>1, PartStays DEF Encoding, UpdaterNext
  <2>4. ASSUME NoneSkipped
        PROVE  Made'.modules[module + 1] = old.modules[OldSegment.module + 1]
    <3>1. OldSegment.module \in Nat /\ OldSegment.module < Len(work.modules)
      BY <2>1, <2>2, TablesAssumption DEF Encoding, SegmentTables
    <3>2. OldSegment.module + 1 \in 1 .. scanned /\ (OldSegment.module + 1) - 1 = OldSegment.module
      <4>1. Len(work.modules) = scanned /\ scanned \in Nat
        BY <2>4, Sizes DEF ModulesTaken, UpdaterInv, ProgressInv, ModulesExtracted
      <4>2. QED
        BY <3>1, <4>1
    <3>3. /\ module = OldSegment.module
          /\ modules[OldSegment.module + 1] = old.modules[OldSegment.module + 1]
      BY <2>4, <3>2 DEF ModulesTaken
    <3>4. UNCHANGED modules
      BY <1>4, SegmentEffect DEF AddSegmentInfo
    <3>5. QED
      BY <3>3, <3>4 DEF Made
  <2>5. SegmentMatches(Made', encodingFailed', info, OldSegment, old)
    <3>1. /\ info.sets = work.segment.sets /\ info.pushConstRanges = work.segment.ranges
          /\ info.constants = work.segment.constants /\ info.module = module
          /\ info.type = modules[module + 1].type
      OBVIOUS
    <3> HIDE DEF info, module
    <3>2. AllExtracted(old) => NoneSkipped
      BY DEF AllExtracted, NoneSkipped
    <3>3. modules' = modules
      BY <1>4, SegmentEffect DEF AddSegmentInfo
    <3>4. info.type = Made'.modules[info.module + 1].type
      BY <3>1, <3>3 DEF Made
    <3>5. QED
      BY <2>2, <2>3, <2>4, <3>1, <3>2, <3>4 DEF SegmentMatches, PartMatches
  <2> HIDE DEF info
  <2>6. /\ Len(segmentInfos') = n /\ segmentInfos'[n] = info
        /\ \A i \in 1 .. Len(segmentInfos) : segmentInfos'[i] = segmentInfos[i]
    BY <2>1, MadeTyped, AppendLonger
  <2>7. \A i \in 1 .. n : i \in 1 .. Len(segmentInfos) \/ i = n
    <3>1. Len(segmentInfos) \in Nat
      BY Sizes
    <3>2. QED
      BY <3>1
  <2>8. SegmentMatches(Made', encodingFailed', info, old.segments[n], old)
    BY <2>5 DEF OldSegment
  <2> HIDE DEF n
  <2>9. QED
    BY <1>1, <1>2, <2>6, <2>7, <2>8 DEF SegmentsTaken
<1>5. QED
  BY <1>1, <1>3, <1>4 DEF Frame

--------------------------------------------------------------------------------
\* The bindings encoded so far are those before the cursor.
Cursor ==
  <<Len(segmentInfos) + 1, Len(work.segment.sets) + 1, Len(work.segment.bindings) + 1>>

\* Those of the places, one after the other, are what refs lead to; that the
\* places can be put in one order only would take an induction, so this is
\* said of every order of all of them as well.
Passed(places, cursor) == {p \in places : Before(p, cursor)}

TakenInOrder(slots, refs, cursor, tables, places) ==
  AllBound(tables, Objects(slots, refs), Passed(places, cursor))

TakenOfAll(slots, refs, cursor, tables, places) ==
  \A n \in Nat : \A at \in InOrder(places, n) :
    /\ Len(refs) <= n
    /\ \A k \in 1 .. n : k <= Len(refs) <=> Before(at[k], cursor)
    /\ \A k \in 1 .. Len(refs) : slots[refs[k] + 1] = BoundAt(tables, at[k])

Taken(slots, refs, cursor, tables, places) ==
  /\ TakenInOrder(slots, refs, cursor, tables, places)
  /\ TakenOfAll(slots, refs, cursor, tables, places)

BoundTaken ==
  /\ Taken(bindingSlots, work.inputs, Cursor, old, BoundAs(old, "INPUT"))
  /\ Taken(bindingSlots, work.outputs, Cursor, old, BoundAs(old, "OUTPUT"))

\* What the i-th segment takes and gives, as far as it was encoded.
InterfaceTaken(inputs, outputs, cursor, i) ==
  /\ Taken(bindingSlots, inputs, cursor, old, BoundIn(old, i, "INPUT"))
  /\ Taken(bindingSlots, outputs, cursor, old, BoundIn(old, i, "OUTPUT"))

InterfacesTaken ==
  /\ InterfaceTaken(work.segment.inputs, work.segment.outputs, Cursor, Len(segmentInfos) + 1)
  /\ \A i \in 1 .. Len(segmentInfos) :
       InterfaceTaken(segmentInfos[i].inputs, segmentInfos[i].outputs, <<i + 1, 1, 1>>, i)

Places == Int \X Int \X Int

LEMMA PlaceLemma ==
  ASSUME NEW tables \in OldFiles, NEW p \in Bindings(tables)
  PROVE  /\ p \in Places
         /\ p[1] \in 1 .. Len(tables.segments)
         /\ p[2] \in 1 .. Len(tables.segments[p[1]].sets)
         /\ p[3] \in 1 .. Len(tables.segments[p[1]].sets[p[2]].bindings)
<1> DEFINE inSet(k, l) == {<<k, l, c>> : c \in 1 .. Len(tables.segments[k].sets[l].bindings)}
           inSegment(k) == UNION {inSet(k, l) : l \in 1 .. Len(tables.segments[k].sets)}
<1>0. p \in UNION {inSegment(k) : k \in 1 .. Len(tables.segments)}
  BY Zenon DEF Bindings
<1> HIDE DEF inSegment
<1>1. PICK i \in 1 .. Len(tables.segments) : p \in inSegment(i)
  BY <1>0
<1> HIDE DEF inSet
<1>2. PICK j \in 1 .. Len(tables.segments[i].sets) : p \in inSet(i, j)
  BY <1>1 DEF inSegment
<1>3. PICK b \in 1 .. Len(tables.segments[i].sets[j].bindings) : p = <<i, j, b>>
  BY <1>2 DEF inSet
<1>4. p[1] = i /\ p[2] = j /\ p[3] = b
  BY <1>3
<1>5. p \in Places
  BY <1>3 DEF Places
<1>6. QED
  BY <1>4, <1>5

LEMMA PlaceIs ==
  ASSUME NEW tables, NEW i \in 1 .. Len(tables.segments),
         NEW j \in 1 .. Len(tables.segments[i].sets),
         NEW b \in 1 .. Len(tables.segments[i].sets[j].bindings)
  PROVE  <<i, j, b>> \in Bindings(tables)
<1> DEFINE inSet(k, l) == {<<k, l, c>> : c \in 1 .. Len(tables.segments[k].sets[l].bindings)}
           inSegment(k) == UNION {inSet(k, l) : l \in 1 .. Len(tables.segments[k].sets)}
<1>1. <<i, j, b>> \in inSet(i, j)
  OBVIOUS
<1> HIDE DEF inSet
<1>2. <<i, j, b>> \in inSegment(i)
  BY <1>1
<1> HIDE DEF inSegment
<1>3. <<i, j, b>> \in UNION {inSegment(k) : k \in 1 .. Len(tables.segments)}
  BY <1>2
<1>4. QED
  BY <1>3, Zenon DEF Bindings, inSegment, inSet

LEMMA BeforeLemma ==
  ASSUME NEW p \in Places, NEW q \in Places
  PROVE  /\ ~Before(p, p)
         /\ ~(Before(p, q) /\ Before(q, p))
         /\ p = q <=> p[1] = q[1] /\ p[2] = q[2] /\ p[3] = q[3]
BY DEF Places, Before

LEMMA ObjectsInOrder ==
  ASSUME NEW slots, NEW R, NEW refs \in Seq(R)
  PROVE  /\ Len(Objects(slots, refs)) = Len(refs) /\ Len(refs) \in Nat
         /\ \A k \in 1 .. Len(refs) : Objects(slots, refs)[k] = slots[refs[k] + 1]
BY DEF Objects

\* More slots, and a cursor that passes none of the places.
LEMMA TakenStays ==
  ASSUME NEW slots, NEW more, Longer(slots, more), NEW refs \in Seq(Refs(slots)),
         NEW cursor, NEW next, NEW tables, NEW places,
         \A p \in places : Before(p, next) <=> Before(p, cursor),
         Taken(slots, refs, cursor, tables, places)
  PROVE  Taken(more, refs, next, tables, places)
<1>1. \A k \in 1 .. Len(refs) : more[refs[k] + 1] = slots[refs[k] + 1]
  BY ElementOfSeq DEF Longer
<1>2. TakenInOrder(more, refs, next, tables, places)
  <2>1. Passed(places, next) = Passed(places, cursor)
    BY DEF Passed
  <2>2. Objects(more, refs) = Objects(slots, refs)
    BY <1>1 DEF Objects
  <2>3. QED
    BY <2>1, <2>2 DEF Taken, TakenInOrder
<1>3. TakenOfAll(more, refs, next, tables, places)
  <2> SUFFICES ASSUME NEW n \in Nat, NEW at \in InOrder(places, n)
               PROVE  /\ Len(refs) <= n
                      /\ \A k \in 1 .. n : k <= Len(refs) <=> Before(at[k], next)
                      /\ \A k \in 1 .. Len(refs) : more[refs[k] + 1] = BoundAt(tables, at[k])
    BY DEF TakenOfAll
  <2>1. /\ Len(refs) <= n
        /\ \A k \in 1 .. n : k <= Len(refs) <=> Before(at[k], cursor)
        /\ \A k \in 1 .. Len(refs) : slots[refs[k] + 1] = BoundAt(tables, at[k])
    BY DEF Taken, TakenOfAll
  <2>2. \A k \in 1 .. n : at[k] \in places
    BY DEF InOrder
  <2>3. QED
    BY <1>1, <2>1, <2>2
<1>4. QED
  BY <1>2, <1>3 DEF Taken

\* Nothing was passed.
LEMMA NoneTaken ==
  ASSUME NEW slots, NEW cursor, NEW tables, NEW places, \A p \in places : ~Before(p, cursor)
  PROVE  Taken(slots, <<>>, cursor, tables, places)
<1>1. Len(<<>>) = 0
  BY EmptySeq
<1>2. TakenInOrder(slots, <<>>, cursor, tables, places)
  <2>1. Passed(places, cursor) = {}
    BY DEF Passed
  <2>2. Len(Objects(slots, <<>>)) = 0
    BY <1>1 DEF Objects
  <2>3. <<>> \in InOrder({}, 0)
    <3>1. <<>> \in [1 .. 0 -> {}]
      BY SMT
    <3>2. QED
      BY <3>1 DEF InOrder
  <2>4. QED
    BY <2>1, <2>2, <2>3 DEF TakenInOrder, AllBound
<1>3. TakenOfAll(slots, <<>>, cursor, tables, places)
  <2>1. ASSUME NEW n \in Nat, NEW at \in InOrder(places, n), NEW k \in 1 .. n
        PROVE  ~Before(at[k], cursor) /\ ~(k <= 0)
    BY DEF InOrder
  <2>2. QED
    BY <1>1, <2>1 DEF TakenOfAll
<1>4. QED
  BY <1>2, <1>3 DEF Taken

\* A cursor that passes one, and a reference to it.
LEMMA TakenNextInOrder ==
  ASSUME NEW slots, NEW more, Longer(slots, more), NEW refs \in Seq(Refs(slots)), NEW ref,
         NEW tables, NEW places, NEW cursor \in places, NEW next,
         \A p \in places : Before(p, next) <=> Before(p, cursor) \/ p = cursor,
         more[ref + 1] = BoundAt(tables, cursor),
         TakenInOrder(slots, refs, cursor, tables, places)
  PROVE  TakenInOrder(more, Append(refs, ref), next, tables, places)
<1> DEFINE m == Len(refs)
           all == Append(refs, ref)
<1>1. /\ m \in Nat /\ Len(Objects(slots, refs)) = m
      /\ \A k \in 1 .. m : Objects(slots, refs)[k] = slots[refs[k] + 1]
  BY ObjectsInOrder
<1>2. PICK at \in InOrder(Passed(places, cursor), m) :
        \A k \in 1 .. m : slots[refs[k] + 1] = BoundAt(tables, at[k])
  BY <1>1 DEF TakenInOrder, AllBound
<1>3. /\ at \in [1 .. m -> Passed(places, cursor)]
      /\ \A k, l \in 1 .. m : k < l => Before(at[k], at[l])
      /\ \A p \in Passed(places, cursor) : \E k \in 1 .. m : at[k] = p
  BY DEF InOrder
<1>4. \A k \in 1 .. m : more[refs[k] + 1] = slots[refs[k] + 1]
  BY ElementOfSeq DEF Longer
<1>5. /\ all \in Seq(Refs(slots) \cup {ref}) /\ Len(all) = m + 1 /\ all[m + 1] = ref
      /\ \A k \in 1 .. m : all[k] = refs[k]
  <2>1. refs \in Seq(Refs(slots) \cup {ref})
    BY SeqSubset
  <2>2. QED
    BY <2>1, AppendLonger
<1> HIDE DEF m, all
<1>6. /\ Len(Objects(more, all)) = m + 1
      /\ \A k \in 1 .. m + 1 : Objects(more, all)[k] = more[all[k] + 1]
  <2>1. /\ Len(Objects(more, all)) = Len(all)
        /\ \A k \in 1 .. Len(all) : Objects(more, all)[k] = more[all[k] + 1]
    BY <1>5, ObjectsInOrder, Zenon
  <2>2. QED
    BY <1>5, <2>1, Zenon
<1> DEFINE then == [k \in 1 .. m + 1 |-> IF k = m + 1 THEN cursor ELSE at[k]]
<1>7. then[m + 1] = cursor /\ \A k \in 1 .. m : then[k] = at[k]
  BY <1>1
<1>8. \A k \in 1 .. m + 1 : k \in 1 .. m \/ k = m + 1
  BY <1>1
<1>9. Passed(places, next) = Passed(places, cursor) \cup {cursor}
  BY DEF Passed
<1>10. then \in InOrder(Passed(places, next), m + 1)
  <2>1. then \in [1 .. m + 1 -> Passed(places, next)]
    BY <1>3, <1>8, <1>9
  <2>2. ASSUME NEW k \in 1 .. m + 1, NEW l \in 1 .. m + 1, k < l
        PROVE  Before(then[k], then[l])
    <3>1. k \in 1 .. m
      BY <1>1, <2>2
    <3>2. CASE l = m + 1
      <4>1. at[k] \in Passed(places, cursor)
        BY <1>3, <3>1
      <4>2. QED
        BY <1>7, <3>1, <3>2, <4>1 DEF Passed
    <3>3. CASE l \in 1 .. m
      BY <1>3, <1>7, <2>2, <3>1, <3>3
    <3>4. QED
      BY <1>8, <3>2, <3>3
  <2>3. ASSUME NEW p \in Passed(places, next)
        PROVE  \E k \in 1 .. m + 1 : then[k] = p
    <3>1. CASE p = cursor
      <4>1. m + 1 \in 1 .. m + 1
        BY <1>1
      <4>2. QED
        BY <1>7, <3>1, <4>1
    <3>2. CASE p \in Passed(places, cursor)
      <4>1. PICK k \in 1 .. m : at[k] = p
        BY <1>3, <3>2
      <4>2. k \in 1 .. m + 1 /\ then[k] = p
        BY <1>1, <1>7, <4>1
      <4>3. QED
        BY <4>2
    <3>3. QED
      BY <1>9, <3>1, <3>2
  <2> HIDE DEF then
  <2>4. QED
    BY <2>1, <2>2, <2>3 DEF InOrder
<1> HIDE DEF then
<1>11. ASSUME NEW k \in 1 .. m + 1
       PROVE  more[all[k] + 1] = BoundAt(tables, then[k])
  <2>1. CASE k = m + 1
    BY <1>5, <1>7, <2>1
  <2>2. CASE k \in 1 .. m
    BY <1>2, <1>4, <1>5, <1>7, <2>2
  <2>3. QED
    BY <1>8, <2>1, <2>2
<1>12. AllBound(tables, Objects(more, all), Passed(places, next))
  BY <1>6, <1>10, <1>11 DEF AllBound
<1>13. QED
  BY <1>12 DEF TakenInOrder, all

LEMMA TakenNext ==
  ASSUME NEW slots, NEW more, Longer(slots, more), NEW refs \in Seq(Refs(slots)), NEW ref,
         NEW tables \in OldFiles, NEW places, places \subseteq Bindings(tables),
         NEW cursor \in places, NEW next,
         \A p \in places : Before(p, next) <=> Before(p, cursor) \/ p = cursor,
         more[ref + 1] = BoundAt(tables, cursor),
         Taken(slots, refs, cursor, tables, places)
  PROVE  Taken(more, Append(refs, ref), next, tables, places)
<1> SUFFICES ASSUME NEW n \in Nat, NEW at \in InOrder(places, n)
             PROVE  /\ Len(Append(refs, ref)) <= n
                    /\ \A k \in 1 .. n : k <= Len(Append(refs, ref)) <=> Before(at[k], next)
                    /\ \A k \in 1 .. Len(Append(refs, ref)) :
                         more[Append(refs, ref)[k] + 1] = BoundAt(tables, at[k])
  BY TakenNextInOrder DEF Taken, TakenOfAll
<1> DEFINE m == Len(refs)
<1>1. /\ m <= n /\ m \in Nat
      /\ \A k \in 1 .. n : k <= m <=> Before(at[k], cursor)
      /\ \A k \in 1 .. m : slots[refs[k] + 1] = BoundAt(tables, at[k])
  BY DEF Taken, TakenOfAll
<1>2. /\ \A k \in 1 .. n : at[k] \in places
      /\ \A k, l \in 1 .. n : k < l => Before(at[k], at[l])
      /\ \A p \in places : \E k \in 1 .. n : at[k] = p
  BY DEF InOrder
<1>3. \A k \in 1 .. m : more[refs[k] + 1] = slots[refs[k] + 1]
  BY ElementOfSeq DEF Longer
<1>4. /\ Len(Append(refs, ref)) = m + 1 /\ Append(refs, ref)[m + 1] = ref
      /\ \A k \in 1 .. m : Append(refs, ref)[k] = refs[k]
  BY AppendLonger
<1> HIDE DEF m
<1>5. ~Before(cursor, cursor)
  <2>1. cursor \in Places
    BY PlaceLemma
  <2>2. QED
    BY <2>1, BeforeLemma
<1>6. ASSUME NEW k \in 1 .. n, at[k] = cursor
      PROVE  k = m + 1
  <2>1. ~(k <= m)
    BY <1>1, <1>5, <1>6
  <2>2. ~(m + 1 < k)
    <3>1. SUFFICES ASSUME m + 1 < k PROVE FALSE
      OBVIOUS
    <3>2. m + 1 \in 1 .. n
      BY <1>1, <3>1
    <3>3. Before(at[m + 1], cursor)
      BY <1>2, <1>6, <3>1, <3>2
    <3>4. m + 1 <= m
      BY <1>1, <3>2, <3>3
    <3>5. QED
      BY <1>1, <3>4
  <2>3. QED
    BY <1>1, <2>1, <2>2
<1>7. m + 1 \in 1 .. n /\ at[m + 1] = cursor
  BY <1>2, <1>6
<1>8. ASSUME NEW k \in 1 .. n
      PROVE  k <= m + 1 <=> Before(at[k], next)
  <2>1. Before(at[k], next) <=> Before(at[k], cursor) \/ at[k] = cursor
    BY <1>2
  <2>2. at[k] = cursor <=> k = m + 1
    BY <1>6, <1>7
  <2>3. Before(at[k], cursor) <=> k <= m
    BY <1>1
  <2>4. k <= m + 1 <=> k <= m \/ k = m + 1
    BY <1>1
  <2>5. QED
    BY <2>1, <2>2, <2>3, <2>4
<1>9. \A k \in 1 .. m + 1 : k \in 1 .. m \/ k = m + 1
  BY <1>1
<1>10. ASSUME NEW k \in 1 .. m + 1
       PROVE  more[Append(refs, ref)[k] + 1] = BoundAt(tables, at[k])
  <2>1. CASE k = m + 1
    BY <1>4, <1>7, <2>1
  <2>2. CASE k \in 1 .. m
    BY <1>1, <1>3, <1>4, <2>2
  <2>3. QED
    BY <1>9, <2>1, <2>2
<1>11. QED
  BY <1>4, <1>7, <1>8, <1>10

\* What is before a cursor.
LEMMA CursorLemma ==
  ASSUME NEW p \in Places, NEW i \in Int, NEW j \in Int, NEW b \in Int
  PROVE  /\ Before(p, <<i, j, b>>) <=>
              p[1] < i \/ (p[1] = i /\ (p[2] < j \/ (p[2] = j /\ p[3] < b)))
         /\ p = <<i, j, b>> <=> p[1] = i /\ p[2] = j /\ p[3] = b
         /\ p[1] \in Int /\ p[2] \in Int /\ p[3] \in Int
BY DEF Before, Places

\* The places of the set that is next, after its last binding.
LEMMA SetPassed ==
  ASSUME UpdaterInv, EncodeDescriptorSet, NEW p \in Bindings(old)
  PROVE  Before(p, Cursor') <=> Before(p, Cursor)
<1> DEFINE i == Len(segmentInfos) + 1
           j == Len(work.segment.sets) + 1
           b == Len(work.segment.bindings) + 1
<1>1. /\ Encoding /\ Len(work.segment.bindings) = Len(OldSegment.sets[j].bindings)
      /\ UNCHANGED segmentInfos
      /\ work'.segment.sets = Append(work.segment.sets, Len(descriptorSetInfos))
      /\ work'.segment.bindings = <<>>
  BY SetEffect, Zenon DEF AddDescriptorSetInfo
<1>2. Len(work'.segment.sets) + 1 = j + 1 /\ Len(work'.segment.bindings) + 1 = 1
  <2>1. Len(work'.segment.sets) = Len(work.segment.sets) + 1
    BY <1>1, MadeTyped, AppendLonger
  <2>2. Len(<<>>) = 0
    BY EmptySeq
  <2>3. QED
    BY <1>1, <2>1, <2>2
<1>3. i \in Int /\ j \in Int /\ b \in Int /\ Len(work.segment.bindings) \in Int
  BY Sizes
<1>4. Cursor = <<i, j, b>> /\ Cursor' = <<i, j + 1, 1>>
  BY <1>1, <1>2 DEF Cursor
<1>5. /\ p \in Places /\ p[3] \in Int /\ p[3] >= 1
      /\ p[3] <= Len(old.segments[p[1]].sets[p[2]].bindings)
  BY PlaceLemma DEF UpdaterInv, Places
<1>6. ASSUME p[1] = i, p[2] = j
      PROVE  p[3] < b
  <2>1. Len(old.segments[p[1]].sets[p[2]].bindings) = Len(work.segment.bindings)
    BY <1>1, <1>6 DEF OldSegment
  <2>2. QED
    BY <1>3, <1>5, <2>1
<1> HIDE DEF i, j, b
<1>7. /\ Before(p, <<i, j, b>>) <=>
           p[1] < i \/ (p[1] = i /\ (p[2] < j \/ (p[2] = j /\ p[3] < b)))
      /\ Before(p, <<i, j + 1, 1>>) <=>
           p[1] < i \/ (p[1] = i /\ (p[2] < j + 1 \/ (p[2] = j + 1 /\ p[3] < 1)))
      /\ p[1] \in Int /\ p[2] \in Int
  BY <1>3, <1>5, CursorLemma
<1>8. p[2] < j + 1 <=> p[2] < j \/ p[2] = j
  BY <1>3, <1>7
<1>9. ~(p[3] < 1)
  BY <1>5
<1>10. QED
  BY <1>4, <1>6, <1>7, <1>8, <1>9

\* The places of a segment, after its last set.
LEMMA SegmentPassed ==
  ASSUME UpdaterInv, EncodeSegment, NEW p \in Bindings(old)
  PROVE  Before(p, Cursor') <=> Before(p, Cursor)
<1> DEFINE i == Len(segmentInfos) + 1
           j == Len(work.segment.sets) + 1
           b == Len(work.segment.bindings) + 1
<1>1. /\ Encoding /\ SetsEncoded /\ Len(segmentInfos') = Len(segmentInfos) + 1
      /\ work'.segment = NewSegment
  <2>1. /\ Encoding /\ SetsEncoded /\ work'.segment = NewSegment
        /\ \E info : segmentInfos' = Append(segmentInfos, info)
    BY SegmentEffect, Zenon DEF AddSegmentInfo
  <2>2. QED
    BY <2>1, MadeTyped, AppendLonger
<1>2. Len(work.segment.sets) = Len(OldSegment.sets)
  BY <1>1, SegmentIsOld, Zenon DEF Encoding, SetsEncoded
<1>3. i \in Int /\ j \in Int /\ b \in Int
  BY Sizes
<1>4. Cursor = <<i, j, b>> /\ Cursor' = <<i + 1, 1, 1>>
  <2>1. Len(<<>>) = 0
    BY EmptySeq
  <2>2. Len(work'.segment.sets) + 1 = 1 /\ Len(work'.segment.bindings) + 1 = 1
    BY <1>1, <2>1 DEF NewSegment
  <2>3. QED
    BY <1>1, <2>2 DEF Cursor
<1>5. /\ p \in Places /\ p[2] >= 1 /\ p[3] >= 1 /\ p[2] \in Int /\ p[3] \in Int
      /\ p[2] <= Len(old.segments[p[1]].sets)
  BY PlaceLemma DEF UpdaterInv, Places
<1>6. ASSUME p[1] = i
      PROVE  p[2] < j
  <2>1. Len(work.segment.sets) \in Nat
    BY Sizes
  <2>2. QED
    BY <1>2, <1>5, <1>6, <2>1 DEF OldSegment
<1> HIDE DEF i, j, b
<1>7. /\ Before(p, <<i, j, b>>) <=>
           p[1] < i \/ (p[1] = i /\ (p[2] < j \/ (p[2] = j /\ p[3] < b)))
      /\ Before(p, <<i + 1, 1, 1>>) <=>
           p[1] < i + 1 \/ (p[1] = i + 1 /\ (p[2] < 1 \/ (p[2] = 1 /\ p[3] < 1)))
      /\ p[1] \in Int
  BY <1>3, <1>5, CursorLemma
<1>8. p[1] < i + 1 <=> p[1] < i \/ p[1] = i
  BY <1>3, <1>7
<1>9. ~(p[2] < 1) /\ ~(p[3] < 1)
  BY <1>5
<1>10. QED
  BY <1>4, <1>6, <1>7, <1>8, <1>9

\* The binding that is encoded is at the cursor.
LEMMA BindingPassed ==
  ASSUME UpdaterInv, EncodeBindingSlot, ~Throw
  PROVE  /\ Cursor \in Bindings(old)
         /\ \A p \in Bindings(old) : Before(p, Cursor') <=> Before(p, Cursor) \/ p = Cursor
         /\ BoundAt(old, Cursor) =
              OldSegment.sets[Len(work.segment.sets) + 1].bindings[Len(work.segment.bindings) + 1]
<1> DEFINE i == Len(segmentInfos) + 1
           j == Len(work.segment.sets) + 1
           b == Len(work.segment.bindings) + 1
<1>1. /\ Encoding /\ ~SetsEncoded /\ b \in 1 .. Len(OldSegment.sets[j].bindings)
      /\ UNCHANGED segmentInfos
      /\ work'.segment.sets = work.segment.sets
      /\ work'.segment.bindings = Append(work.segment.bindings, Len(bindingSlots))
  BY BindingEffect, Zenon DEF AddBindingSlot
<1>2. i \in 1 .. Len(old.segments) /\ j \in 1 .. Len(old.segments[i].sets)
  <2>1. i \in 1 .. Len(old.segments)
    <3>1. Len(segmentInfos) < Len(old.segments)
      BY <1>1 DEF Encoding
    <3>2. QED
      BY <3>1, Sizes
  <2>2. j \in 1 .. Len(OldSegment.sets)
    BY <1>1, SetFacts
  <2>3. QED
    BY <2>1, <2>2 DEF OldSegment
<1>3. i \in Int /\ j \in Int /\ b \in Int
  BY Sizes
<1>4. Cursor = <<i, j, b>> /\ Cursor' = <<i, j, b + 1>>
  <2>1. Len(work'.segment.bindings) = Len(work.segment.bindings) + 1
    BY <1>1, MadeTyped, AppendLonger
  <2>2. QED
    BY <1>1, <2>1 DEF Cursor
<1>5. Cursor \in Bindings(old)
  BY <1>1, <1>2, <1>4, PlaceIs DEF OldSegment
<1>6. BoundAt(old, Cursor) = OldSegment.sets[j].bindings[b]
  BY <1>4 DEF BoundAt, OldSegment
<1>7. ASSUME NEW p \in Bindings(old)
      PROVE  Before(p, Cursor') <=> Before(p, Cursor) \/ p = Cursor
  <2>1. p \in Places
    BY PlaceLemma DEF UpdaterInv
  <2> HIDE DEF i, j, b
  <2>2. /\ Before(p, <<i, j, b>>) <=>
             p[1] < i \/ (p[1] = i /\ (p[2] < j \/ (p[2] = j /\ p[3] < b)))
        /\ Before(p, <<i, j, b + 1>>) <=>
             p[1] < i \/ (p[1] = i /\ (p[2] < j \/ (p[2] = j /\ p[3] < b + 1)))
        /\ p = <<i, j, b>> <=> p[1] = i /\ p[2] = j /\ p[3] = b
        /\ p[3] \in Int
    BY <1>3, <2>1, CursorLemma
  <2>3. p[3] < b + 1 <=> p[3] < b \/ p[3] = b
    BY <1>3, <2>2
  <2>4. QED
    BY <1>4, <2>2, <2>3
<1>8. QED
  BY <1>5, <1>6, <1>7

\* An input or output is taken when its binding is encoded, and only then.
LEMMA AppendIfTaken ==
  ASSUME UpdaterInv, EncodeBindingSlot, ~Throw, NEW refs \in Seq(Refs(bindingSlots)), NEW category,
         NEW places, places \subseteq Bindings(old),
         Cursor \in places <=> Cursor \in BoundAs(old, category),
         Taken(bindingSlots, refs, Cursor, old, places)
  PROVE  Taken(bindingSlots',
               AppendIf(refs, Len(bindingSlots),
                        old.resources[BoundAt(old, Cursor).mrtIndex + 1], category),
               Cursor', old, places)
<1> DEFINE slot == BoundAt(old, Cursor)
           ref == Len(bindingSlots)
<1>1. /\ Cursor \in Bindings(old)
      /\ \A p \in Bindings(old) : Before(p, Cursor') <=> Before(p, Cursor) \/ p = Cursor
  BY BindingPassed
<1>2. AddBindingSlot(slot.binding, slot.mrtIndex)
  BY BindingEffect, BindingPassed, Zenon
<1>3. slot \in Slots
  <2>1. old.segments[Cursor[1]] \in SegmentTables
    BY <1>1, PlaceLemma, OldTyped, ElementOfSeq DEF UpdaterInv
  <2>2. old.segments[Cursor[1]].sets[Cursor[2]] \in SetTables
    BY <1>1, <2>1, PlaceLemma, ElementOfSeq DEF UpdaterInv, SegmentTables
  <2>3. QED
    BY <1>1, <2>2, PlaceLemma, ElementOfSeq DEF UpdaterInv, SetTables, BoundAt
<1> HIDE DEF slot
<1>4. bindingSlots' = Append(bindingSlots, slot)
  BY <1>2, <1>3 DEF AddBindingSlot, Slots
<1>5. Longer(bindingSlots, bindingSlots') /\ bindingSlots'[ref + 1] = slot
  BY <1>4, MadeTyped, AppendLonger
<1>6. CASE old.resources[slot.mrtIndex + 1].category = category
  <2>1. Cursor \in places
    BY <1>1, <1>6 DEF BoundAs, slot
  <2>2. \A p \in places : Before(p, Cursor') <=> Before(p, Cursor) \/ p = Cursor
    BY <1>1
  <2>3. Taken(bindingSlots', Append(refs, ref), Cursor', old, places)
    BY <1>5, <2>1, <2>2, TakenNext DEF UpdaterInv, slot
  <2>4. QED
    BY <1>6, <2>3 DEF AppendIf, slot
<1>7. CASE old.resources[slot.mrtIndex + 1].category # category
  <2>1. \A p \in places : Before(p, Cursor') <=> Before(p, Cursor)
    BY <1>1, <1>7 DEF BoundAs, slot
  <2>2. Taken(bindingSlots', refs, Cursor', old, places)
    BY <1>5, <2>1, TakenStays
  <2>3. QED
    BY <1>7, <2>2 DEF AppendIf, slot
<1>8. QED
  BY <1>6, <1>7

LEMMA BoundStep ==
  ASSUME UpdaterInv, BoundTaken, [UpdaterNext]_<<vars, updaterVars>>
  PROVE  BoundTaken'
<1>1. Frame /\ UNCHANGED old
  BY Framed DEF Frame
<1>2. work.inputs \in Seq(Refs(bindingSlots)) /\ work.outputs \in Seq(Refs(bindingSlots))
  BY DEF UpdaterInv, Work
<1>3. Longer(bindingSlots, bindingSlots')
  BY MadeGrows DEF Grown, Made
<1>4. ASSUME work'.inputs = work.inputs, work'.outputs = work.outputs,
             \A p \in Bindings(old) : Before(p, Cursor') <=> Before(p, Cursor)
      PROVE  BoundTaken'
  <2>1. \A category : \A p \in BoundAs(old, category) : Before(p, Cursor') <=> Before(p, Cursor)
    BY <1>4 DEF BoundAs
  <2>2. /\ Taken(bindingSlots', work.inputs, Cursor', old, BoundAs(old, "INPUT"))
        /\ Taken(bindingSlots', work.outputs, Cursor', old, BoundAs(old, "OUTPUT"))
    BY <1>2, <1>3, <2>1, TakenStays DEF BoundTaken
  <2>3. QED
    BY <1>1, <1>4, <2>2 DEF BoundTaken
<1>5. CASE UNCHANGED segmentInfos /\ ~EncodeBindingSlot /\ ~EncodeDescriptorSet
  <2>1. work'.segment.sets = work.segment.sets /\ work'.segment.bindings = work.segment.bindings
    <3>1. CASE EncodeConstant
      BY <3>1, ConstantEffect, Zenon DEF Throw
    <3>2. CASE EncodePushConstRange
      BY <3>2, RangeEffect, Zenon
    <3>3. CASE EncodeSegment
      BY <1>5, <3>3, SegmentEffect, MadeTyped, AppendLonger DEF AddSegmentInfo
    <3>4. QED
      BY <1>1, <1>5, <3>1, <3>2, <3>3 DEF Frame
  <2>2. Cursor' = Cursor
    BY <1>5, <2>1 DEF Cursor
  <2>3. QED
    BY <1>1, <1>4, <1>5, <2>2 DEF Frame
<1>6. CASE EncodeDescriptorSet
  BY <1>4, <1>6, SetEffect, SetPassed, Zenon
<1>7. CASE EncodeSegment
  BY <1>4, <1>7, SegmentEffect, SegmentPassed, Zenon
<1>8. CASE EncodeBindingSlot
  <2>1. CASE Throw
    BY <1>4, <2>1 DEF Throw, vars, tableVars, Cursor
  <2>2. CASE ~Throw
    <3> DEFINE resource == old.resources[BoundAt(old, Cursor).mrtIndex + 1]
               ref == Len(bindingSlots)
    <3>1. /\ work'.inputs = AppendIf(work.inputs, ref, resource, "INPUT")
          /\ work'.outputs = AppendIf(work.outputs, ref, resource, "OUTPUT")
      BY <1>8, <2>2, BindingEffect, BindingPassed, Zenon
    <3>2. /\ Taken(bindingSlots', AppendIf(work.inputs, ref, resource, "INPUT"), Cursor', old, BoundAs(old, "INPUT"))
          /\ Taken(bindingSlots', AppendIf(work.outputs, ref, resource, "OUTPUT"), Cursor', old, BoundAs(old, "OUTPUT"))
      <4>1. \A category : BoundAs(old, category) \subseteq Bindings(old)
        BY DEF BoundAs
      <4>2. QED
        BY <1>2, <1>8, <2>2, <4>1, AppendIfTaken, Zenon DEF BoundTaken
    <3>3. QED
      BY <1>1, <3>1, <3>2, Zenon DEF BoundTaken
  <2>3. QED
    BY <2>1, <2>2
<1>9. QED
  BY <1>1, <1>5, <1>6, <1>7, <1>8 DEF Frame

--------------------------------------------------------------------------------
LEMMA InSegment ==
  ASSUME NEW tables, NEW i, NEW category
  PROVE  /\ BoundIn(tables, i, category) \subseteq Bindings(tables)
         /\ \A p : p \in BoundIn(tables, i, category) <=> p \in BoundAs(tables, category) /\ p[1] = i
BY DEF BoundIn, BoundAs

\* Before the first place of a segment are only those of segments before it.
LEMMA SegmentStart ==
  ASSUME NEW tables \in OldFiles, NEW p \in Bindings(tables), NEW i \in Int, p[1] >= i
  PROVE  ~Before(p, <<i, 1, 1>>)
<1>1. /\ p \in Places /\ p[2] >= 1 /\ p[3] >= 1
      /\ p[1] \in Int /\ p[2] \in Int /\ p[3] \in Int
  BY PlaceLemma DEF Places
<1>2. Before(p, <<i, 1, 1>>) <=> p[1] < i \/ (p[1] = i /\ (p[2] < 1 \/ (p[2] = 1 /\ p[3] < 1)))
  BY <1>1, CursorLemma
<1>3. QED
  BY <1>1, <1>2

LEMMA SegmentCursor ==
  ASSUME UpdaterInv, EncodeSegment
  PROVE  /\ Len(segmentInfos') = Len(segmentInfos) + 1 /\ Len(segmentInfos) \in Nat
         /\ Cursor' = <<Len(segmentInfos) + 2, 1, 1>>
         /\ segmentInfos'[Len(segmentInfos) + 1].inputs = work.segment.inputs
         /\ segmentInfos'[Len(segmentInfos) + 1].outputs = work.segment.outputs
         /\ \A i \in 1 .. Len(segmentInfos) : segmentInfos'[i] = segmentInfos[i]
<1> DEFINE module == work.modules[OldSegment.module + 1]
           info == [type |-> modules[module + 1].type, module |-> module,
                    sets |-> work.segment.sets,
                    inputs |-> work.segment.inputs, outputs |-> work.segment.outputs,
                    constants |-> work.segment.constants,
                    pushConstRanges |-> work.segment.ranges]
<1>1. segmentInfos' = Append(segmentInfos, info) /\ work'.segment = NewSegment
  BY SegmentEffect, Zenon DEF AddSegmentInfo
<1>2. info.inputs = work.segment.inputs /\ info.outputs = work.segment.outputs
  OBVIOUS
<1> HIDE DEF info
<1>3. /\ Len(segmentInfos') = Len(segmentInfos) + 1 /\ Len(segmentInfos) \in Nat
      /\ segmentInfos'[Len(segmentInfos) + 1] = info
      /\ \A i \in 1 .. Len(segmentInfos) : segmentInfos'[i] = segmentInfos[i]
  BY <1>1, MadeTyped, AppendLonger, Sizes
<1>4. Cursor' = <<Len(segmentInfos) + 2, 1, 1>>
  <2>1. Len(<<>>) = 0
    BY EmptySeq
  <2>2. Len(work'.segment.sets) + 1 = 1 /\ Len(work'.segment.bindings) + 1 = 1
    BY <1>1, <2>1 DEF NewSegment
  <2>3. Len(segmentInfos') + 1 = Len(segmentInfos) + 2
    BY <1>3
  <2>4. QED
    BY <2>2, <2>3 DEF Cursor
<1>5. QED
  BY <1>2, <1>3, <1>4

LEMMA InterfacesStep ==
  ASSUME UpdaterInv, InterfacesTaken, [UpdaterNext]_<<vars, updaterVars>>
  PROVE  InterfacesTaken'
<1> DEFINE inputs == work.segment.inputs
           outputs == work.segment.outputs
           n == Len(segmentInfos) + 1
           Still(ins, outs, cursor, i) ==
             /\ Taken(bindingSlots', ins, cursor, old, BoundIn(old, i, "INPUT"))
             /\ Taken(bindingSlots', outs, cursor, old, BoundIn(old, i, "OUTPUT"))
<1>1. Frame /\ UNCHANGED old
  BY Framed DEF Frame
<1>2. inputs \in Seq(Refs(bindingSlots)) /\ outputs \in Seq(Refs(bindingSlots))
  BY DEF UpdaterInv, Work, SegmentWork
<1>3. Longer(bindingSlots, bindingSlots')
  BY MadeGrows DEF Grown, Made
<1>4. ASSUME NEW i \in 1 .. Len(segmentInfos)
      PROVE  Still(segmentInfos[i].inputs, segmentInfos[i].outputs, <<i + 1, 1, 1>>, i)
  <2>1. segmentInfos[i] \in SegmentInfo
    BY MadeTyped, ElementOfSeq
  <2>2. /\ segmentInfos[i].inputs \in Seq(Refs(bindingSlots))
        /\ segmentInfos[i].outputs \in Seq(Refs(bindingSlots))
    BY <2>1 DEF SegmentInfo
  <2>3. InterfaceTaken(segmentInfos[i].inputs, segmentInfos[i].outputs, <<i + 1, 1, 1>>, i)
    BY DEF InterfacesTaken
  <2>4. QED
    BY <1>3, <2>2, <2>3, TakenStays DEF InterfaceTaken
<1>5. ASSUME \A p \in Bindings(old) : Before(p, Cursor') <=> Before(p, Cursor)
      PROVE  Still(inputs, outputs, Cursor', n)
  <2>1. \A category : \A p \in BoundIn(old, n, category) : Before(p, Cursor') <=> Before(p, Cursor)
    BY <1>5, InSegment
  <2>2. InterfaceTaken(inputs, outputs, Cursor, n)
    BY DEF InterfacesTaken
  <2> HIDE DEF inputs, outputs, n
  <2>3. QED
    BY <1>2, <1>3, <2>1, <2>2, TakenStays DEF InterfaceTaken
<1>6. ASSUME UNCHANGED segmentInfos, Still(work'.segment.inputs, work'.segment.outputs, Cursor', n)
      PROVE  InterfacesTaken'
  BY <1>1, <1>4, <1>6 DEF InterfacesTaken, InterfaceTaken
<1>7. CASE UNCHANGED segmentInfos /\ ~EncodeBindingSlot /\ ~EncodeDescriptorSet
  <2>1. /\ work'.segment.sets = work.segment.sets /\ work'.segment.bindings = work.segment.bindings
        /\ work'.segment.inputs = inputs /\ work'.segment.outputs = outputs
    <3>1. CASE EncodeConstant
      BY <3>1, ConstantEffect, Zenon DEF Throw
    <3>2. CASE EncodePushConstRange
      BY <3>2, RangeEffect, Zenon
    <3>3. CASE EncodeSegment
      BY <1>7, <3>3, SegmentCursor
    <3>4. QED
      BY <1>1, <1>7, <3>1, <3>2, <3>3 DEF Frame
  <2>2. Cursor' = Cursor
    BY <1>7, <2>1 DEF Cursor
  <2> HIDE DEF inputs, outputs, n, Still
  <2>3. QED
    BY <1>5, <1>6, <1>7, <2>1, <2>2
<1>8. CASE EncodeDescriptorSet
  <2>1. /\ UNCHANGED segmentInfos
        /\ work'.segment.inputs = inputs /\ work'.segment.outputs = outputs
    BY <1>8, SetEffect, Zenon DEF AddDescriptorSetInfo
  <2>2. \A p \in Bindings(old) : Before(p, Cursor') <=> Before(p, Cursor)
    BY <1>8, SetPassed
  <2> HIDE DEF inputs, outputs, n, Still
  <2>3. QED
    BY <1>5, <1>6, <2>1, <2>2
<1>9. CASE EncodeBindingSlot
  <2>1. CASE Throw
    <3>1. UNCHANGED <<segmentInfos, work>>
      BY <2>1 DEF Throw, vars, tableVars
    <3>2. Cursor' = Cursor /\ work'.segment.inputs = inputs /\ work'.segment.outputs = outputs
      BY <3>1 DEF Cursor
    <3> HIDE DEF inputs, outputs, n, Still
    <3>3. QED
      BY <1>5, <1>6, <3>1, <3>2
  <2>2. CASE ~Throw
    <3> DEFINE resource == old.resources[BoundAt(old, Cursor).mrtIndex + 1]
               ref == Len(bindingSlots)
    <3>1. /\ work'.segment.inputs = AppendIf(inputs, ref, resource, "INPUT")
          /\ work'.segment.outputs = AppendIf(outputs, ref, resource, "OUTPUT")
          /\ UNCHANGED segmentInfos
      BY <1>9, <2>2, BindingEffect, BindingPassed, Zenon DEF AddBindingSlot
    <3>2. Cursor[1] = n
      BY DEF Cursor
    <3>3. ASSUME NEW category
          PROVE  /\ BoundIn(old, n, category) \subseteq Bindings(old)
                 /\ Cursor \in BoundIn(old, n, category) <=> Cursor \in BoundAs(old, category)
      BY <3>2, InSegment
    <3>4. InterfaceTaken(inputs, outputs, Cursor, n)
      BY DEF InterfacesTaken
    <3> HIDE DEF inputs, outputs, n
    <3>5. Still(AppendIf(inputs, ref, resource, "INPUT"),
                AppendIf(outputs, ref, resource, "OUTPUT"), Cursor', n)
      BY <1>2, <1>9, <2>2, <3>3, <3>4, AppendIfTaken, Zenon DEF InterfaceTaken
    <3> HIDE DEF resource, ref, Still
    <3>6. QED
      BY <1>6, <3>1, <3>5
  <2>3. QED
    BY <2>1, <2>2
<1>10. CASE EncodeSegment
  <2>1. /\ Len(segmentInfos') = n /\ n \in Nat /\ Cursor' = <<n + 1, 1, 1>>
        /\ segmentInfos'[n].inputs = inputs /\ segmentInfos'[n].outputs = outputs
        /\ \A i \in 1 .. Len(segmentInfos) : segmentInfos'[i] = segmentInfos[i]
    BY <1>10, SegmentCursor
  <2>2. \A i \in 1 .. n : i \in 1 .. Len(segmentInfos) \/ i = n
    BY <1>10, SegmentCursor
  <2>3. work'.segment.inputs = <<>> /\ work'.segment.outputs = <<>>
    BY <1>10, SegmentEffect DEF NewSegment
  <2>4. Still(inputs, outputs, <<n + 1, 1, 1>>, n)
    <3>1. \A p \in Bindings(old) : Before(p, Cursor') <=> Before(p, Cursor)
      BY <1>10, SegmentPassed
    <3> HIDE DEF inputs, outputs, n, Still
    <3>2. QED
      BY <1>5, <2>1, <3>1
  <2> HIDE DEF inputs, outputs, n
  <2>5. Still(<<>>, <<>>, <<n + 1, 1, 1>>, n + 1)
    <3>1. \A category : \A p \in BoundIn(old, n + 1, category) : ~Before(p, <<n + 1, 1, 1>>)
      BY <2>1, InSegment, SegmentStart DEF UpdaterInv
    <3>2. QED
      BY <3>1, NoneTaken
  <2>6. ASSUME NEW i \in 1 .. n
        PROVE  Still(segmentInfos'[i].inputs, segmentInfos'[i].outputs, <<i + 1, 1, 1>>, i)
    <3> HIDE DEF Still
    <3>1. CASE i = n
      BY <2>1, <2>4, <3>1
    <3>2. CASE i \in 1 .. Len(segmentInfos)
      BY <1>4, <2>1, <3>2
    <3>3. QED
      BY <2>2, <3>1, <3>2
  <2>7. QED
    BY <1>1, <2>1, <2>3, <2>5, <2>6 DEF InterfacesTaken, InterfaceTaken
<1>11. QED
  BY <1>1, <1>7, <1>8, <1>9, <1>10 DEF Frame

--------------------------------------------------------------------------------
NoSequence == [inputs |-> <<>>, inputNames |-> <<>>, outputs |-> <<>>, outputNames |-> <<>>]

Ending == {"finish", "output", "write"}

\* The model sequence: nothing, until it is all there.
SequenceTaken ==
  /\ pc \in Ending \/ output = "written" =>
       /\ modelSequence = [inputs |-> work.inputs, inputNames |-> NamesOf(Sequence.inputs),
                           outputs |-> work.outputs, outputNames |-> NamesOf(Sequence.outputs)]
       /\ Len(segmentInfos) = Len(old.segments)
       /\ Len(resourceRecords) = Len(old.resources)
  /\ pc \notin Ending \cup {"done", "failed"} => modelSequence = NoSequence

\* Nothing before.
LEMMA NothingBefore == \A S : \A seq \in Seq(S) : <<>> \o seq = seq
OBVIOUS

LEMMA NamesAreSequence ==
  ASSUME NEW bindings, NEW names, Len(bindings) \in Nat
  PROVE  /\ NamesOf(merge(bindings, names)) =
              [i \in 1 .. Len(bindings) |-> merge(bindings, names)[i].name]
         /\ \E S : NamesOf(merge(bindings, names)) \in Seq(S)
<1> DEFINE S == {merge(bindings, names)[i].name : i \in 1 .. Len(bindings)}
           merged == merge(bindings, names)
<1>1. Len(merged) = Len(bindings)
  <2>1. merged = [i \in 1 .. Len(bindings) |->
           [slot |-> bindings[i],
            name |-> IF Len(names) = Len(bindings) THEN names[i] ELSE NoName]]
    BY DEF merge
  <2> HIDE DEF merged
  <2>2. merged \in Seq({merged[i] : i \in 1 .. Len(bindings)})
    BY <2>1
  <2>3. DOMAIN merged = 1 .. Len(bindings)
    BY <2>1
  <2>4. QED
    BY <2>2, <2>3
<1> HIDE DEF merged
<1>2. NamesOf(merged) = [i \in 1 .. Len(bindings) |-> merged[i].name]
  BY <1>1 DEF NamesOf
<1>3. NamesOf(merged) \in Seq({merged[i].name : i \in 1 .. Len(bindings)})
  BY <1>2
<1>4. QED
  BY <1>2, <1>3 DEF merged

LEMMA SequenceStep ==
  ASSUME UpdaterInv, SequenceTaken, [UpdaterNext]_<<vars, updaterVars>>
  PROVE  SequenceTaken'
<1>1. Frame /\ UNCHANGED old
  BY Framed DEF Frame
<1>2. output = "written" => pc = "done"
  BY DEF UpdaterInv, ResultInv
<1>3. CASE EncodeInputsOutputs
  <2>1. /\ pc = "io" /\ pc' = "finish" /\ UNCHANGED work
        /\ UNCHANGED <<segmentInfos, resourceRecords>>
        /\ modelSequence' =
             [inputs |-> modelSequence.inputs \o work.inputs,
              inputNames |-> modelSequence.inputNames \o NamesOf(Sequence.inputs),
              outputs |-> modelSequence.outputs \o work.outputs,
              outputNames |-> modelSequence.outputNames \o NamesOf(Sequence.outputs)]
    BY <1>3 DEF EncodeInputsOutputs, AddModelSequenceInputsOutputs, AppendedNames
  <2>2. modelSequence = NoSequence
    BY <2>1 DEF SequenceTaken, Ending
  <2>3. work.inputs \in Seq(Refs(bindingSlots)) /\ work.outputs \in Seq(Refs(bindingSlots))
    BY DEF UpdaterInv, Work
  <2>4. /\ \E S : NamesOf(Sequence.inputs) \in Seq(S)
        /\ \E S : NamesOf(Sequence.outputs) \in Seq(S)
    <3>1. Len(old.inputs) \in Nat /\ Len(old.outputs) \in Nat
      BY FilesAssumption DEF UpdaterInv
    <3>2. /\ Sequence.inputs = merge(old.inputs, old.inputNames)
          /\ Sequence.outputs = merge(old.outputs, old.outputNames)
      BY DEF Sequence, parseModelSequenceTable
    <3>3. QED
      BY <3>1, <3>2, NamesAreSequence
  <2>5. modelSequence' =
          [inputs |-> work.inputs, inputNames |-> NamesOf(Sequence.inputs),
           outputs |-> work.outputs, outputNames |-> NamesOf(Sequence.outputs)]
    BY <2>1, <2>2, <2>3, <2>4, NothingBefore DEF NoSequence
  <2>6. Len(segmentInfos) = Len(old.segments) /\ Len(resourceRecords) = Len(old.resources)
    BY <2>1 DEF UpdaterInv, ProgressInv
  <2>7. Sequence' = Sequence
    BY <1>1 DEF Sequence
  <2>8. QED
    BY <1>1, <2>1, <2>5, <2>6, <2>7 DEF SequenceTaken, Ending
<1>4. ASSUME UNCHANGED <<modelSequence, segmentInfos, resourceRecords>>,
             work'.inputs = work.inputs, work'.outputs = work.outputs,
             pc' \in Ending \/ output' = "written" => pc \in Ending \/ output = "written",
             pc' \notin Ending \cup {"done", "failed"} => pc \notin Ending \cup {"done", "failed"}
      PROVE  SequenceTaken'
  <2>1. Sequence' = Sequence
    BY <1>1 DEF Sequence
  <2>2. QED
    BY <1>1, <1>4, <2>1 DEF SequenceTaken
<1>5. CASE FinishModel \/ OpenOutput \/ WriteOutput
  <2>1. UNCHANGED <<modelSequence, segmentInfos, resourceRecords, work>>
    BY <1>5 DEF FinishModel, Finish, OpenOutput, WriteOutput, vars, tableVars
  <2>2. pc \in Ending /\ pc' \in Ending \cup {"done", "failed"}
    BY <1>5 DEF FinishModel, OpenOutput, WriteOutput, WriteAccepted, WrittenAnyway, Ending
  <2>3. QED
    BY <1>4, <2>1, <2>2
<1>6. CASE UNCHANGED <<vars, updaterVars>>
  BY <1>4, <1>6 DEF vars, tableVars, updaterVars
<1>7. ASSUME pc \notin Ending \cup {"done", "failed"}, pc' \notin Ending, UNCHANGED output,
             ~EncodeInputsOutputs
      PROVE  SequenceTaken'
  <2>1. UNCHANGED modelSequence /\ modelSequence = NoSequence
    BY <1>1, <1>7 DEF Frame, SequenceTaken
  <2>2. QED
    BY <1>2, <1>7, <2>1 DEF SequenceTaken
<1>8. CASE Open
  <2>1. old.version \in {"invalid", "outdated", "latest"}
    BY FilesAssumption DEF UpdaterInv
  <2>2. QED
    BY <1>7, <1>8, <2>1 DEF Open, Ending, EncodeInputsOutputs
<1>9. CASE BadModule \/ EncodeConstant \/ EncodeBindingSlot
  <2>1. pc = "segments"
    BY <1>9, Zenon DEF BadModule, EncodeConstant, EncodeBindingSlot, Encoding
  <2>2. Throw \/ UNCHANGED <<pc, output>>
    BY <1>9, ConstantEffect, BindingEffect, Zenon DEF BadModule
  <2>3. QED
    BY <1>7, <2>1, <2>2 DEF Throw, Ending, EncodeInputsOutputs
<1>10. CASE EncodePushConstRange \/ EncodeDescriptorSet \/ EncodeSegment \/ ExtractModule
  <2>1. pc \in {"segments", "modules"} /\ UNCHANGED <<pc, output>>
    BY <1>10, Zenon DEF EncodePushConstRange, EncodeDescriptorSet, EncodeSegment, ExtractModule, Encoding
  <2>2. QED
    BY <1>7, <2>1 DEF Ending, EncodeInputsOutputs
<1>11. CASE DecodeConstants \/ NextPart \/ EncodeResource \/ EncodeSampler
  <2>1. /\ pc \in {"modules", "resources", "sampler", "constants", "segments"}
        /\ pc' \in {"resources", "constants", "io", "failed", "segments", "sampler"}
        /\ UNCHANGED output
    BY <1>11 DEF DecodeConstants, NextPart, EncodeResource, EncodeSampler
  <2>2. QED
    BY <1>7, <2>1 DEF Ending, EncodeInputsOutputs
<1>12. QED
  BY <1>3, <1>5, <1>6, <1>8, <1>9, <1>10, <1>11 DEF UpdaterNext

--------------------------------------------------------------------------------
\* What a reader finds.
LEMMA ObjectsAre ==
  ASSUME NEW objects, NEW R, NEW refs \in Seq(R), NEW S, NEW seq \in Seq(S), Len(refs) = Len(seq),
         \A k \in 1 .. Len(seq) : objects[refs[k] + 1] = seq[k]
  PROVE  Objects(objects, refs) = seq
<1>1. Objects(objects, refs) = [k \in 1 .. Len(seq) |-> seq[k]]
  BY DEF Objects
<1>2. QED
  BY <1>1

ParsedSet(bindings, setIndex, position) ==
  [bindings |-> bindings, setIndex |-> getSegmentDescriptorSetIndex(setIndex, position)]

LEMMA OldParsed ==
  ASSUME NEW s \in SegmentTables
  PROVE  parseSegment(s).sets =
           [j \in 1 .. Len(s.sets) |-> ParsedSet(s.sets[j].bindings, s.sets[j].setIndex, j - 1)]
<1>1. parseSegment(s).sets = [j \in 1 .. Len(s.sets) |->
        [s.sets[j] EXCEPT !.setIndex = getSegmentDescriptorSetIndex(@, j - 1)]]
  BY DEF parseSegment, SegmentTables
<1>2. ASSUME NEW j \in 1 .. Len(s.sets)
      PROVE  [s.sets[j] EXCEPT !.setIndex = getSegmentDescriptorSetIndex(@, j - 1)] =
               ParsedSet(s.sets[j].bindings, s.sets[j].setIndex, j - 1)
  <2>1. s.sets[j] \in SetTables
    BY ElementOfSeq DEF SegmentTables
  <2>2. QED
    BY <2>1 DEF SetTables, ParsedSet
<1>3. QED
  BY <1>1, <1>2

LEMMA NewParsed ==
  ASSUME UpdaterInv, NEW i \in 1 .. Len(segmentInfos)
  PROVE  LET info == segmentInfos[i]
             parsed == parseSegment(Segments[i])
         IN  /\ parsed.module = info.module /\ parsed.constants = info.constants
             /\ parsed.pushConstRanges = Objects(pushConstRanges, info.pushConstRanges)
             /\ parsed.sets =
                  [j \in 1 .. Len(info.sets) |->
                     ParsedSet(Objects(bindingSlots, descriptorSetInfos[info.sets[j] + 1].bindings),
                               descriptorSetInfos[info.sets[j] + 1].setIndex, j - 1)]
<1> DEFINE info == segmentInfos[i]
           new == Segments[i]
           parsed == parseSegment(new)
           SetInfo(j) == descriptorSetInfos[info.sets[j] + 1]
           SetObjects(j) == [SetInfo(j) EXCEPT !.bindings = Objects(bindingSlots, @)]
<1>1. info \in SegmentInfo
  BY MadeTyped, ElementOfSeq
<1>2. new = [info EXCEPT !.sets = SetInfos(@), !.inputs = Objects(bindingSlots, @),
                         !.outputs = Objects(bindingSlots, @),
                         !.pushConstRanges = Objects(pushConstRanges, @)]
  BY DEF Segments
<1> HIDE DEF new
<1>3. /\ new \in [type : ModuleTypes, module : Refs(modules), sets : {SetInfos(info.sets)},
                  inputs : {Objects(bindingSlots, info.inputs)},
                  outputs : {Objects(bindingSlots, info.outputs)}, constants : Seq(ConstantRefs),
                  pushConstRanges : {Objects(pushConstRanges, info.pushConstRanges)}]
      /\ new.module = info.module /\ new.constants = info.constants
  BY <1>1, <1>2 DEF SegmentInfo
<1>4. /\ new.sets = SetInfos(info.sets)
      /\ new.pushConstRanges = Objects(pushConstRanges, info.pushConstRanges)
  BY <1>3
<1>5. /\ parsed.module = info.module /\ parsed.constants = info.constants
      /\ parsed.pushConstRanges = new.pushConstRanges
      /\ parsed.sets = [j \in 1 .. Len(new.sets) |->
           [new.sets[j] EXCEPT !.setIndex = getSegmentDescriptorSetIndex(@, j - 1)]]
  BY <1>3 DEF parseSegment
<1> HIDE DEF parsed
<1>6. info.sets \in Seq(Refs(descriptorSetInfos)) /\ Len(info.sets) \in Nat
  BY <1>1 DEF SegmentInfo
<1> HIDE DEF info
<1>7. new.sets = [j \in 1 .. Len(info.sets) |-> SetObjects(j)] /\ Len(new.sets) = Len(info.sets)
  <2> DEFINE infos == Objects(descriptorSetInfos, info.sets)
  <2>1. infos = [j \in 1 .. Len(info.sets) |-> SetInfo(j)]
    BY DEF Objects
  <2>2. Len(infos) = Len(info.sets)
    BY <1>6, <2>1
  <2>3. new.sets = [j \in 1 .. Len(infos) |-> [infos[j] EXCEPT !.bindings = Objects(bindingSlots, @)]]
    BY <1>4 DEF SetInfos
  <2> HIDE DEF infos
  <2>4. new.sets = [j \in 1 .. Len(info.sets) |-> SetObjects(j)]
    BY <2>1, <2>2, <2>3
  <2> HIDE DEF SetObjects
  <2>5. QED
    BY <1>6, <2>4
<1>8. ASSUME NEW j \in 1 .. Len(info.sets)
      PROVE  [new.sets[j] EXCEPT !.setIndex = getSegmentDescriptorSetIndex(@, j - 1)] =
               ParsedSet(Objects(bindingSlots, SetInfo(j).bindings), SetInfo(j).setIndex, j - 1)
  <2>1. SetInfo(j) \in DescriptorSetInfo
    <3>1. info.sets[j] \in Refs(descriptorSetInfos)
      BY <1>6, ElementOfSeq
    <3>2. info.sets[j] + 1 \in 1 .. Len(descriptorSetInfos)
      <4>1. Len(descriptorSetInfos) \in Nat
        BY Sizes
      <4>2. QED
        BY <3>1, <4>1 DEF Refs
    <3>3. QED
      BY <3>2, MadeTyped, ElementOfSeq
  <2>2. new.sets[j] = SetObjects(j)
    BY <1>7
  <2> HIDE DEF SetInfo
  <2>3. new.sets[j] \in [bindings : {Objects(bindingSlots, SetInfo(j).bindings)},
                         setIndex : {SetInfo(j).setIndex}]
    BY <2>1, <2>2 DEF DescriptorSetInfo
  <2>4. /\ new.sets[j].bindings = Objects(bindingSlots, SetInfo(j).bindings)
        /\ new.sets[j].setIndex = SetInfo(j).setIndex
    BY <2>3
  <2>5. QED
    BY <2>3, <2>4 DEF ParsedSet
<1> HIDE DEF SetInfo, SetObjects
<1>9. parsed.sets =
        [j \in 1 .. Len(info.sets) |->
           ParsedSet(Objects(bindingSlots, SetInfo(j).bindings), SetInfo(j).setIndex, j - 1)]
  BY <1>5, <1>7, <1>8
<1>10. QED
  BY <1>4, <1>5, <1>9 DEF info, parsed, new, SetInfo

--------------------------------------------------------------------------------
\* The model is in the new file, as far as it was encoded.
KeptInv ==
  /\ UpdaterInv
  /\ ModulesTaken /\ ResourcesTaken
  /\ SegmentsTaken /\ CurrentTaken
  /\ BoundTaken /\ InterfacesTaken /\ SequenceTaken

LEMMA KeptInit == UpdaterInit => KeptInv
<1> SUFFICES ASSUME UpdaterInit PROVE KeptInv
  OBVIOUS
<1>1. Len(<<>>) = 0 /\ \A S : <<>> \in Seq(S)
  BY EmptySeq
<1>2. UpdaterInv
  BY UpdaterInitInv
<1>3. ModulesTaken /\ ResourcesTaken /\ SegmentsTaken /\ SequenceTaken
  BY <1>1 DEF UpdaterInit, Init, ModulesTaken, ResourcesTaken, SegmentsTaken, SequenceTaken,
     Ending, NoSequence
<1>4. work.segment = NewSegment /\ work.inputs = <<>> /\ work.outputs = <<>>
  BY DEF UpdaterInit
<1>5. CurrentTaken
  BY <1>1, <1>4 DEF CurrentTaken, PartMatches, NewSegment, SetsMatch, SlotsMatch, RangesMatch,
     ConstantsMatch
<1>6. Cursor = <<1, 1, 1>>
  BY <1>1, <1>4 DEF Cursor, NewSegment, UpdaterInit, Init
<1>7. ASSUME NEW p \in Bindings(old)
      PROVE  ~Before(p, Cursor)
  <2>1. p[1] >= 1
    BY PlaceLemma DEF UpdaterInit
  <2>2. QED
    BY <1>6, <2>1, SegmentStart DEF UpdaterInit
<1>8. ASSUME NEW places, places \subseteq Bindings(old)
      PROVE  Taken(bindingSlots, <<>>, Cursor, old, places)
  BY <1>7, <1>8, NoneTaken
<1>9. BoundTaken
  BY <1>4, <1>8 DEF BoundTaken, BoundAs
<1>10. InterfacesTaken
  <2>1. Len(segmentInfos) = 0
    BY <1>1 DEF UpdaterInit, Init
  <2>2. work.segment.inputs = <<>> /\ work.segment.outputs = <<>>
    BY <1>4 DEF NewSegment
  <2>3. InterfaceTaken(<<>>, <<>>, Cursor, Len(segmentInfos) + 1)
    BY <1>8, InSegment DEF InterfaceTaken
  <2>4. QED
    BY <2>1, <2>2, <2>3 DEF InterfacesTaken
<1>11. QED
  BY <1>2, <1>3, <1>5, <1>9, <1>10 DEF KeptInv

LEMMA KeptStep == KeptInv /\ [UpdaterNext]_<<vars, updaterVars>> => KeptInv'
BY UpdaterStep, ModulesStep, ResourcesStep, SegmentsStep, CurrentStep, BoundStep,
   InterfacesStep, SequenceStep
   DEF KeptInv

--------------------------------------------------------------------------------
\* The file that was written.
LEMMA WrittenTables ==
  ASSUME KeptInv, output = "written", NEW tables \in file
  PROVE  /\ tables = Tables /\ ~encodingFailed
         /\ modelSequence = [inputs |-> work.inputs, inputNames |-> NamesOf(Sequence.inputs),
                             outputs |-> work.outputs, outputNames |-> NamesOf(Sequence.outputs)]
         /\ Len(segmentInfos) = Len(old.segments) /\ Len(segmentInfos) \in Nat
         /\ Len(resourceRecords) = Len(old.resources) /\ Len(resourceRecords) \in Nat
         /\ pc = "done"
<1>1. UpdaterInv /\ SequenceTaken
  BY DEF KeptInv
<1>2. tables = Tables
  BY <1>1 DEF UpdaterInv, ReferencesInv, FileOK
<1>3. QED
  BY <1>1, <1>2, Sizes DEF UpdaterInv, ResultInv, SequenceTaken

LEMMA SegmentKept ==
  ASSUME KeptInv, output = "written", NoneSkipped, file # {}, NEW i \in 1 .. Len(segmentInfos)
  PROVE  Meaning(Tables, parseSegment(Segments[i])) = Meaning(old, parseSegment(old.segments[i]))
<1> DEFINE info == segmentInfos[i]
           segment == old.segments[i]
           new == parseSegment(Segments[i])
           kept == parseSegment(segment)
<1>0. UpdaterInv /\ ~encodingFailed
  BY WrittenTables DEF KeptInv
<1>1. info \in SegmentInfo
  BY <1>0, MadeTyped, ElementOfSeq
<1>2. segment \in SegmentTables
  <2>1. i \in 1 .. Len(old.segments)
    BY WrittenTables
  <2>2. QED
    BY <1>0, <2>1, OldTyped, ElementOfSeq DEF UpdaterInv
<1>3. SegmentMatches(Made, FALSE, info, segment, old)
  BY <1>0 DEF KeptInv, SegmentsTaken, SegmentMatches
<1>4. /\ new.module = info.module /\ new.constants = info.constants
      /\ new.pushConstRanges = Objects(pushConstRanges, info.pushConstRanges)
      /\ new.sets =
           [j \in 1 .. Len(info.sets) |->
              ParsedSet(Objects(bindingSlots, descriptorSetInfos[info.sets[j] + 1].bindings),
                        descriptorSetInfos[info.sets[j] + 1].setIndex, j - 1)]
  BY <1>0, NewParsed
<1>5. /\ kept.module = segment.module /\ kept.constants = segment.constants
      /\ kept.pushConstRanges = segment.pushConstRanges
      /\ kept.sets = [j \in 1 .. Len(segment.sets) |->
           ParsedSet(segment.sets[j].bindings, segment.sets[j].setIndex, j - 1)]
  BY <1>2, ParsedSegment, OldParsed
<1> HIDE DEF new, kept
<1>6. /\ info.sets \in Seq(Refs(descriptorSetInfos)) /\ segment.sets \in Seq(SetTables)
      /\ info.pushConstRanges \in Seq(Refs(pushConstRanges))
      /\ segment.pushConstRanges \in Seq(PushConstRanges)
      /\ segment.constants \in Seq(0 .. U32Max)
      /\ Len(segment.constants) \in Nat /\ Len(segment.sets) \in Nat
  <2>1. info.sets \in Seq(Refs(descriptorSetInfos)) /\ info.pushConstRanges \in Seq(Refs(pushConstRanges))
    BY <1>1 DEF SegmentInfo
  <2> HIDE DEF info, segment
  <2>2. /\ segment.sets \in Seq(SetTables) /\ segment.pushConstRanges \in Seq(PushConstRanges)
        /\ segment.constants \in Seq(0 .. U32Max)
    BY <1>2 DEF SegmentTables
  <2>3. Len(segment.constants) \in Nat /\ Len(segment.sets) \in Nat
    BY <2>2
  <2>4. QED
    BY <2>1, <2>2, <2>3
<1> HIDE DEF info, segment
<1>7. modules[new.module + 1] = old.modules[kept.module + 1]
  BY <1>3, <1>4, <1>5 DEF SegmentMatches, AllExtracted, NoneSkipped, Made
<1>8. new.pushConstRanges = kept.pushConstRanges
  <2>1. \A k \in 1 .. Len(segment.pushConstRanges) :
          pushConstRanges[info.pushConstRanges[k] + 1] = segment.pushConstRanges[k]
    BY <1>3 DEF SegmentMatches, RangesMatch, Made
  <2>2. Len(info.pushConstRanges) = Len(segment.pushConstRanges)
    BY <1>3 DEF SegmentMatches
  <2> DEFINE refs == info.pushConstRanges
             ranges == segment.pushConstRanges
  <2>3. /\ refs \in Seq(Refs(pushConstRanges)) /\ ranges \in Seq(PushConstRanges)
        /\ Len(refs) = Len(ranges)
        /\ \A k \in 1 .. Len(ranges) : pushConstRanges[refs[k] + 1] = ranges[k]
    BY <1>6, <2>1, <2>2
  <2> HIDE DEF refs, ranges
  <2>4. Objects(pushConstRanges, refs) = ranges
    BY <2>3, ObjectsAre
  <2>5. QED
    BY <1>4, <1>5, <2>4, Zenon DEF refs, ranges
<1>9. Len(info.sets) = Len(segment.sets)
  BY <1>3 DEF SegmentMatches
<1>10. ASSUME NEW j \in 1 .. Len(segment.sets)
       PROVE  ParsedSet(Objects(bindingSlots, descriptorSetInfos[info.sets[j] + 1].bindings),
                        descriptorSetInfos[info.sets[j] + 1].setIndex, j - 1) =
                ParsedSet(segment.sets[j].bindings, segment.sets[j].setIndex, j - 1)
  <2> DEFINE made == descriptorSetInfos[info.sets[j] + 1]
             set == segment.sets[j]
  <2>1. made \in DescriptorSetInfo
    <3>1. info.sets[j] \in Refs(descriptorSetInfos)
      BY <1>6, <1>9, ElementOfSeq
    <3>2. Len(descriptorSetInfos) \in Nat
      BY <1>0, Sizes
    <3>3. info.sets[j] + 1 \in 1 .. Len(descriptorSetInfos)
      BY <3>1, <3>2 DEF Refs
    <3>4. QED
      BY <1>0, <3>3, MadeTyped, ElementOfSeq
  <2>2. set \in SetTables
    BY <1>6, ElementOfSeq
  <2>3. SetMatches(Made, info.sets[j], set, j - 1)
    BY <1>3 DEF SegmentMatches, SetsMatch
  <2>4. /\ Len(made.bindings) = Len(set.bindings)
        /\ \A b \in 1 .. Len(set.bindings) : bindingSlots[made.bindings[b] + 1] = set.bindings[b]
        /\ getSegmentDescriptorSetIndex(made.setIndex, j - 1) =
             getSegmentDescriptorSetIndex(set.setIndex, j - 1)
    BY <2>3 DEF SetMatches, SlotsMatch, Made
  <2>5. made.bindings \in Seq(Refs(bindingSlots)) /\ set.bindings \in Seq(Slots)
    BY <2>1, <2>2 DEF DescriptorSetInfo, SetTables
  <2> HIDE DEF made, set
  <2>6. Objects(bindingSlots, made.bindings) = set.bindings
    BY <2>4, <2>5, ObjectsAre
  <2>7. ParsedSet(Objects(bindingSlots, made.bindings), made.setIndex, j - 1) =
          ParsedSet(set.bindings, set.setIndex, j - 1)
    BY <2>4, <2>6 DEF ParsedSet
  <2>8. QED
    BY <2>7 DEF made, set
<1>11. new.sets = kept.sets
  BY <1>4, <1>5, <1>9, <1>10
<1>12. ConstantsMatch(Made, info.constants, old.constants, segment.constants, Len(segment.constants))
       /\ Len(info.constants) = Len(segment.constants)
  BY <1>3 DEF SegmentMatches
<1>13. ASSUME NEW k \in 1 .. Len(segment.constants)
       PROVE  LET constant == constsMetaData[info.constants[k] + 1]
                  was == old.constants[segment.constants[k] + 1]
              IN  /\ constant.mrtIndex = was.mrtIndex /\ constant.size = was.size
                  /\ SparsityDim32(constant.sparsityDimension) = SparsityDim32(was.sparsityDimension)
  <2>1. ConstantMatches(Made, info.constants[k], old.constants[segment.constants[k] + 1])
    BY <1>12 DEF ConstantsMatch
  <2>2. info.constants[k] \in Refs(constsMetaData)
    BY <2>1 DEF ConstantMatches, Made
  <2>3. constsMetaData \in Seq(ConstantMetaData)
    BY <1>0, MadeTyped
  <2>4. info.constants[k] + 1 \in 1 .. Len(constsMetaData)
    <3>1. Len(constsMetaData) \in Nat
      BY <2>3
    <3>2. QED
      BY <2>2, <3>1 DEF Refs
  <2>5. constsMetaData[info.constants[k] + 1] \in ConstantMetaData
    BY <2>3, <2>4, ElementOfSeq
  <2>6. constsMetaData[info.constants[k] + 1].sparsityDimension \in Int32Min .. Int32Max
    BY <2>5 DEF ConstantMetaData
  <2>7. SparsityDim32(constsMetaData[info.constants[k] + 1].sparsityDimension) =
          constsMetaData[info.constants[k] + 1].sparsityDimension
    BY <2>6, ConstantAssumption DEF SparsityDim32
  <2>8. QED
    BY <2>1, <2>7 DEF ConstantMatches, Made
<1>14. Tables.modules = modules /\ Tables.constants = constsMetaData
  BY DEF Tables
<1>15. Meaning(Tables, new).constants = Meaning(old, kept).constants
  <2> DEFINE Read(constant) ==
               <<constant.mrtIndex, constant.size, SparsityDim32(constant.sparsityDimension)>>
  <2>1. Meaning(Tables, new).constants =
          [k \in 1 .. Len(new.constants) |-> Read(constsMetaData[new.constants[k] + 1])]
    BY <1>14 DEF Meaning
  <2>2. Meaning(old, kept).constants =
          [k \in 1 .. Len(kept.constants) |-> Read(old.constants[kept.constants[k] + 1])]
    BY DEF Meaning
  <2>3. \A k \in 1 .. Len(segment.constants) :
          Read(constsMetaData[info.constants[k] + 1]) = Read(old.constants[segment.constants[k] + 1])
    BY <1>13
  <2> HIDE DEF Read
  <2>4. QED
    BY <1>4, <1>5, <1>12, <2>1, <2>2, <2>3
<1>16. /\ Meaning(Tables, new).module = modules[new.module + 1]
       /\ Meaning(Tables, new).sets = new.sets
       /\ Meaning(Tables, new).ranges = new.pushConstRanges
       /\ Meaning(old, kept).module = old.modules[kept.module + 1]
       /\ Meaning(old, kept).sets = kept.sets
       /\ Meaning(old, kept).ranges = kept.pushConstRanges
  BY <1>14 DEF Meaning
<1>17. \A tables, parsed :
         Meaning(tables, parsed) =
           [module |-> Meaning(tables, parsed).module, sets |-> Meaning(tables, parsed).sets,
            ranges |-> Meaning(tables, parsed).ranges,
            constants |-> Meaning(tables, parsed).constants]
  BY DEF Meaning
<1>18. Meaning(Tables, new) = Meaning(old, kept)
  BY <1>7, <1>8, <1>11, <1>15, <1>16, <1>17, Zenon
<1>19. QED
  BY <1>18 DEF new, kept, segment

LEMMA KeptSegments == KeptInv => SegmentsKept
<1> SUFFICES ASSUME KeptInv, output = "written", NoneSkipped, NEW tables \in file
             PROVE  /\ SegmentMeanings(tables) = SegmentMeanings(old)
                    /\ Len(tables.resources) = Len(old.resources)
                    /\ \A i \in DOMAIN old.resources :
                         /\ tables.resources[i].category = old.resources[i].category
                         /\ old.resources[i].category # "CONSTANT" =>
                              /\ tables.resources[i].aliasGroup = old.resources[i].aliasGroup
                              /\ tables.resources[i].sampler = old.resources[i].sampler
  BY Zenon DEF SegmentsKept
<1>1. /\ tables = Tables /\ pc = "done" /\ Len(segmentInfos) \in Nat
      /\ Len(segmentInfos) = Len(old.segments)
      /\ Len(resourceRecords) = Len(old.resources) /\ Len(resourceRecords) \in Nat
  BY WrittenTables
<1>2. SegmentMeanings(Tables) = SegmentMeanings(old)
  <2>1. Tables.segments = Segments
    BY DEF Tables
  <2>2. Len(Segments) = Len(segmentInfos)
    <3> DEFINE one(i) == [segmentInfos[i] EXCEPT !.sets = SetInfos(@),
                                                 !.inputs = Objects(bindingSlots, @),
                                                 !.outputs = Objects(bindingSlots, @),
                                                 !.pushConstRanges = Objects(pushConstRanges, @)]
    <3>1. Segments = [i \in 1 .. Len(segmentInfos) |-> one(i)]
      BY Zenon DEF Segments
    <3> HIDE DEF one
    <3>2. QED
      BY <1>1, <3>1
  <2>3. \A t : SegmentMeanings(t) =
          [i \in 1 .. Len(parseModelSequenceTable(t).segments) |->
             Meaning(t, parseModelSequenceTable(t).segments[i])]
    BY DEF SegmentMeanings
  <2>4. parseModelSequenceTable(Tables).segments =
          [i \in 1 .. Len(segmentInfos) |-> parseSegment(Segments[i])]
    BY <2>1, <2>2 DEF parseModelSequenceTable
  <2>5. parseModelSequenceTable(old).segments =
          [i \in 1 .. Len(segmentInfos) |-> parseSegment(old.segments[i])]
    BY <1>1 DEF parseModelSequenceTable
  <2>6. \A i \in 1 .. Len(segmentInfos) :
          Meaning(Tables, parseSegment(Segments[i])) = Meaning(old, parseSegment(old.segments[i]))
    BY SegmentKept
  <2>7. /\ Len(parseModelSequenceTable(Tables).segments) = Len(segmentInfos)
        /\ Len(parseModelSequenceTable(old).segments) = Len(segmentInfos)
    BY <1>1, <2>4, <2>5
  <2>8. SegmentMeanings(Tables) =
          [i \in 1 .. Len(segmentInfos) |-> Meaning(Tables, parseSegment(Segments[i]))]
    BY <2>3, <2>4, <2>7
  <2>9. SegmentMeanings(old) =
          [i \in 1 .. Len(segmentInfos) |-> Meaning(old, parseSegment(old.segments[i]))]
    BY <2>3, <2>5, <2>7
  <2>10. QED
    BY <2>6, <2>8, <2>9
<1>3. Tables.resources = resourceRecords
  BY DEF Tables
<1>4. DOMAIN old.resources = 1 .. Len(resourceRecords)
  <2>1. old.resources \in Seq(ResourceTables)
    BY OldTyped DEF KeptInv, UpdaterInv
  <2>2. QED
    BY <1>1, <2>1
<1>5. ASSUME NEW i \in 1 .. Len(resourceRecords)
      PROVE  /\ resourceRecords[i].category = old.resources[i].category
             /\ old.resources[i].category # "CONSTANT" =>
                  /\ resourceRecords[i].aliasGroup = old.resources[i].aliasGroup
                  /\ resourceRecords[i].sampler = old.resources[i].sampler
  BY <1>1 DEF KeptInv, ResourcesTaken, ResourceTaken
<1>6. QED
  BY <1>1, <1>2, <1>3, <1>4, <1>5

\* Once all the places are passed.
LEMMA AllTaken ==
  ASSUME NEW cursor, NEW places, \A p \in places : Before(p, cursor),
         NEW refs \in Seq(Refs(bindingSlots)), NEW slots \in Seq(Slots),
         Taken(bindingSlots, refs, cursor, old, places)
  PROVE  Objects(bindingSlots, refs) = slots <=> AllBound(old, slots, places)
<1>1. ASSUME Objects(bindingSlots, refs) = slots
      PROVE  AllBound(old, slots, places)
  <2>1. Passed(places, cursor) = places
    BY DEF Passed
  <2>2. QED
    BY <1>1, <2>1 DEF Taken, TakenInOrder
<1>2. ASSUME AllBound(old, slots, places)
      PROVE  Objects(bindingSlots, refs) = slots
  <2> DEFINE n == Len(slots)
  <2>1. PICK at \in InOrder(places, n) : \A k \in 1 .. n : slots[k] = BoundAt(old, at[k])
    BY <1>2 DEF AllBound
  <2>2. n \in Nat /\ Len(refs) \in Nat
    OBVIOUS
  <2>3. /\ Len(refs) <= n
        /\ \A k \in 1 .. n : k <= Len(refs) <=> Before(at[k], cursor)
        /\ \A k \in 1 .. Len(refs) : bindingSlots[refs[k] + 1] = BoundAt(old, at[k])
    BY <2>1, <2>2 DEF Taken, TakenOfAll
  <2>4. \A k \in 1 .. n : Before(at[k], cursor)
    BY <2>1 DEF InOrder
  <2>5. Len(refs) = n
    BY <2>2, <2>3, <2>4
  <2>6. QED
    BY <2>1, <2>3, <2>5, ObjectsAre
<1>3. QED
  BY <1>1, <1>2

\* The cursor is past the last segment at the end.
LEMMA AllBefore ==
  ASSUME NEW tables \in OldFiles, NEW p \in Bindings(tables),
         NEW i \in Int, NEW j \in Int, NEW b \in Int, p[1] < i
  PROVE  Before(p, <<i, j, b>>)
<1>1. p \in Places
  BY PlaceLemma
<1>2. QED
  BY <1>1, CursorLemma

LEMMA EndPassed ==
  ASSUME KeptInv, output = "written", file # {}, NEW p \in Bindings(old)
  PROVE  Before(p, Cursor)
<1>1. Len(segmentInfos) = Len(old.segments) /\ Len(segmentInfos) \in Nat
  BY WrittenTables
<1>2. /\ Len(work.segment.sets) \in Nat /\ Len(work.segment.bindings) \in Nat
  BY Sizes DEF KeptInv
<1> DEFINE i == Len(segmentInfos) + 1
           j == Len(work.segment.sets) + 1
           b == Len(work.segment.bindings) + 1
<1>3. old \in OldFiles /\ i \in Int /\ j \in Int /\ b \in Int /\ p[1] < i
  BY <1>1, <1>2, PlaceLemma DEF KeptInv, UpdaterInv
<1> HIDE DEF i, j, b
<1>4. Before(p, <<i, j, b>>)
  BY <1>3, AllBefore
<1>5. QED
  BY <1>4 DEF Cursor, i, j, b

LEMMA KeptInterfaces == KeptInv => InterfacesKept
<1> SUFFICES ASSUME KeptInv, output = "written", NEW tables \in file, NEW i \in 1 .. Len(old.segments)
             PROVE  LET was == old.segments[i]
                        is == tables.segments[i]
                    IN  /\ is.inputs = was.inputs <=> AllBound(old, was.inputs, BoundIn(old, i, "INPUT"))
                        /\ is.outputs = was.outputs <=> AllBound(old, was.outputs, BoundIn(old, i, "OUTPUT"))
                        /\ is.type = tables.modules[is.module + 1].type
  BY Zenon DEF InterfacesKept
<1> DEFINE was == old.segments[i]
           is == Segments[i]
           info == segmentInfos[i]
<1>1. /\ tables = Tables /\ UpdaterInv /\ i \in 1 .. Len(segmentInfos) /\ i \in Int
      /\ Tables.segments = Segments /\ Tables.modules = modules
  BY WrittenTables DEF KeptInv, Tables
<1>2. was.inputs \in Seq(Slots) /\ was.outputs \in Seq(Slots)
  <2>1. was \in SegmentTables
    BY <1>1, OldTyped, ElementOfSeq DEF UpdaterInv
  <2> HIDE DEF was
  <2>2. QED
    BY <2>1 DEF SegmentTables
<1>3. info \in SegmentInfo
  BY <1>1, MadeTyped, ElementOfSeq
<1>4. is = [info EXCEPT !.sets = SetInfos(@), !.inputs = Objects(bindingSlots, @),
                        !.outputs = Objects(bindingSlots, @),
                        !.pushConstRanges = Objects(pushConstRanges, @)]
  BY <1>1 DEF Segments
<1>5. InterfaceTaken(info.inputs, info.outputs, <<i + 1, 1, 1>>, i)
  BY <1>1 DEF KeptInv, InterfacesTaken
<1>6. info.type = modules[info.module + 1].type
  BY <1>1 DEF KeptInv, SegmentsTaken, SegmentMatches, Made
<1> HIDE DEF was, is, info
<1>7. /\ is.inputs = Objects(bindingSlots, info.inputs) /\ is.outputs = Objects(bindingSlots, info.outputs)
      /\ is.type = info.type /\ is.module = info.module
      /\ info.inputs \in Seq(Refs(bindingSlots)) /\ info.outputs \in Seq(Refs(bindingSlots))
  BY <1>3, <1>4 DEF SegmentInfo
<1>8. \A category : \A p \in BoundIn(old, i, category) : Before(p, <<i + 1, 1, 1>>)
  <2>1. ASSUME NEW category, NEW p \in BoundIn(old, i, category)
        PROVE  Before(p, <<i + 1, 1, 1>>)
    <3>1. p \in Bindings(old) /\ p[1] = i
      BY InSegment
    <3>2. p[1] < i + 1 /\ i + 1 \in Int
      BY <1>1, <3>1
    <3>3. QED
      BY <1>1, <3>1, <3>2, AllBefore DEF UpdaterInv
  <2>2. QED
    BY <2>1
<1>9. /\ is.inputs = was.inputs <=> AllBound(old, was.inputs, BoundIn(old, i, "INPUT"))
      /\ is.outputs = was.outputs <=> AllBound(old, was.outputs, BoundIn(old, i, "OUTPUT"))
  <2>1. /\ Taken(bindingSlots, info.inputs, <<i + 1, 1, 1>>, old, BoundIn(old, i, "INPUT"))
        /\ Taken(bindingSlots, info.outputs, <<i + 1, 1, 1>>, old, BoundIn(old, i, "OUTPUT"))
    BY <1>5 DEF InterfaceTaken
  <2>2. Objects(bindingSlots, info.inputs) = was.inputs <=>
          AllBound(old, was.inputs, BoundIn(old, i, "INPUT"))
    BY <1>2, <1>7, <1>8, <2>1, AllTaken
  <2>3. Objects(bindingSlots, info.outputs) = was.outputs <=>
          AllBound(old, was.outputs, BoundIn(old, i, "OUTPUT"))
    BY <1>2, <1>7, <1>8, <2>1, AllTaken
  <2>4. QED
    BY <1>7, <2>2, <2>3
<1>10. is.type = modules[is.module + 1].type
  BY <1>6, <1>7
<1>11. QED
  BY <1>1, <1>9, <1>10 DEF was, is

LEMMA SameNames ==
  ASSUME NEW slots, NEW names, Len(slots) \in Nat
  PROVE  merge(slots, NamesOf(merge(slots, names))) = merge(slots, names)
<1> DEFINE found == NamesOf(merge(slots, names))
<1>1. found = [i \in 1 .. Len(slots) |-> merge(slots, names)[i].name]
      /\ \E S : found \in Seq(S)
  BY NamesAreSequence
<1>2. \A i \in 1 .. Len(slots) : found[i] = IF Len(names) = Len(slots) THEN names[i] ELSE NoName
  BY <1>1 DEF merge
<1>3. Len(found) = Len(slots)
  BY <1>1
<1> HIDE DEF found
<1>4. merge(slots, found) = merge(slots, names)
  BY <1>2, <1>3 DEF merge
<1>5. QED
  BY <1>4 DEF found

LEMMA KeptInputsOutputs == KeptInv => InputsOutputsKept
<1> SUFFICES ASSUME KeptInv, output = "written", BoundInOrder, NEW tables \in file
             PROVE  /\ parseModelSequenceTable(tables).inputs = Sequence.inputs
                    /\ parseModelSequenceTable(tables).outputs = Sequence.outputs
  BY DEF InputsOutputsKept
<1>1. /\ tables = Tables
      /\ modelSequence = [inputs |-> work.inputs, inputNames |-> NamesOf(Sequence.inputs),
                          outputs |-> work.outputs, outputNames |-> NamesOf(Sequence.outputs)]
  BY WrittenTables
<1>2. /\ work.inputs \in Seq(Refs(bindingSlots)) /\ work.outputs \in Seq(Refs(bindingSlots))
  BY DEF KeptInv, UpdaterInv, Work
<1>3. old.inputs \in Seq(Slots) /\ old.outputs \in Seq(Slots)
  BY FilesAssumption DEF KeptInv, UpdaterInv
<1>4. Len(old.inputs) \in Nat /\ Len(old.outputs) \in Nat
  BY <1>3
<1> \A category : \A p \in BoundAs(old, category) : Before(p, Cursor)
  BY EndPassed DEF BoundAs
<1>5. Objects(bindingSlots, work.inputs) = old.inputs
  BY <1>2, <1>3, AllTaken DEF KeptInv, BoundTaken, BoundInOrder
<1>6. Objects(bindingSlots, work.outputs) = old.outputs
  BY <1>2, <1>3, AllTaken DEF KeptInv, BoundTaken, BoundInOrder
<1>7. /\ Sequence.inputs = merge(old.inputs, old.inputNames)
      /\ Sequence.outputs = merge(old.outputs, old.outputNames)
  BY DEF Sequence, parseModelSequenceTable
<1>8. /\ parseModelSequenceTable(Tables).inputs =
           merge(Objects(bindingSlots, modelSequence.inputs), modelSequence.inputNames)
      /\ parseModelSequenceTable(Tables).outputs =
           merge(Objects(bindingSlots, modelSequence.outputs), modelSequence.outputNames)
  BY DEF Tables, parseModelSequenceTable
<1>9. /\ parseModelSequenceTable(Tables).inputs = merge(old.inputs, NamesOf(Sequence.inputs))
      /\ parseModelSequenceTable(Tables).outputs = merge(old.outputs, NamesOf(Sequence.outputs))
  BY <1>1, <1>5, <1>6, <1>8
<1>10. /\ merge(old.inputs, NamesOf(Sequence.inputs)) = merge(old.inputs, old.inputNames)
       /\ merge(old.outputs, NamesOf(Sequence.outputs)) = merge(old.outputs, old.outputNames)
  BY <1>4, <1>7, SameNames
<1>11. QED
  BY <1>1, <1>7, <1>9, <1>10, Zenon

\* What a reader finds in the file the updater wrote of the model in the old
\* file: its resources are the same, and its segments run the same modules on
\* the same bindings with the same constants, ranges and set indices, if no
\* module is skipped; what a segment takes and gives is the same exactly if
\* it is what its sets bind of the model's inputs and outputs, in that order;
\* and the model's inputs and outputs have the same names, if they are bound
\* in their order.
THEOREM UpdaterKeepsModel == UpdaterSpec => []ModelKept
<1>1. KeptInv => ModelKept
  BY KeptSegments, KeptInterfaces, KeptInputsOutputs DEF ModelKept
<1>2. QED
  BY <1>1, KeptInit, KeptStep, PTL DEF UpdaterSpec

--------------------------------------------------------------------------------
\* How far update is from its end: the objects its loops have not reached,
\* the parts that follow, and what is left of the segment and of the set
\* that are being encoded.
ObjectsLeft ==
  Len(old.modules) - scanned + Len(old.resources) - Len(resourceRecords)
    + Len(old.segments) - Len(segmentInfos)

Following ==
  [open |-> 10, modules |-> 9, sampler |-> 8, resources |-> 7, constants |-> 6, segments |-> 5,
   io |-> 4, finish |-> 3, output |-> 2, write |-> 1, done |-> 0, failed |-> 0]

PartsLeft == Following[pc]

SegmentLeft ==
  IF Len(segmentInfos) < Len(old.segments)
  THEN Len(OldSegment.constants) - Len(work.segment.constants)
         + Len(OldSegment.pushConstRanges) - Len(work.segment.ranges)
         + Len(OldSegment.sets) - Len(work.segment.sets)
  ELSE 0

BindingsLeft ==
  IF Len(segmentInfos) < Len(old.segments) /\ Len(work.segment.sets) < Len(OldSegment.sets)
  THEN Len(OldSegment.sets[Len(work.segment.sets) + 1].bindings) - Len(work.segment.bindings)
  ELSE 0

\* The four numbers are less, in lexicographic order.
Nearer ==
  \/ ObjectsLeft' < ObjectsLeft
  \/ /\ ObjectsLeft' = ObjectsLeft
     /\ \/ PartsLeft' < PartsLeft
        \/ /\ PartsLeft' = PartsLeft
           /\ \/ SegmentLeft' < SegmentLeft
              \/ SegmentLeft' = SegmentLeft /\ BindingsLeft' < BindingsLeft

LEMMA SumOfThree ==
  \A a, b, c, i, j, k \in Nat : i <= a /\ j <= b /\ k <= c => a - i + b - j + c - k \in Nat
OBVIOUS

LEMMA LeftAreNat ==
  ASSUME UpdaterInv, pc \in DOMAIN Following
  PROVE  /\ ObjectsLeft \in Nat /\ PartsLeft \in Nat /\ SegmentLeft \in Nat /\ BindingsLeft \in Nat
         /\ PartsLeft = 0 <=> pc \in {"done", "failed"}
<1>1. ObjectsLeft \in Nat
  <2>1. /\ scanned \in 0 .. Len(old.modules)
        /\ Len(resourceRecords) <= Len(old.resources) /\ Len(segmentInfos) <= Len(old.segments)
    BY DEF UpdaterInv, ProgressInv, ModulesExtracted
  <2>2. scanned \in Nat /\ scanned <= Len(old.modules)
    BY <2>1, Sizes
  <2>3. QED
    BY <2>1, <2>2, Sizes, SumOfThree, Zenon DEF ObjectsLeft
<1>2. PartsLeft \in Nat /\ (PartsLeft = 0 <=> pc \in {"done", "failed"})
  BY DEF PartsLeft, Following
<1>3. CASE Len(segmentInfos) < Len(old.segments)
  <2>1. OldSegment \in SegmentTables /\ CurrentChecked(OldSegment)
    BY <1>3, SegmentIsOld DEF UpdaterInv, CheckedInv, OldSegment
  <2>2. /\ Len(OldSegment.constants) \in Nat /\ Len(OldSegment.pushConstRanges) \in Nat
        /\ Len(OldSegment.sets) \in Nat
    BY <2>1 DEF SegmentTables
  <2>3. SegmentLeft \in Nat
    BY <1>3, <2>1, <2>2, Sizes, SumOfThree DEF SegmentLeft, CurrentChecked
  <2>4. BindingsLeft \in Nat
    <3>1. CASE Len(work.segment.sets) < Len(OldSegment.sets)
      <4>1. Len(work.segment.sets) + 1 \in 1 .. Len(OldSegment.sets)
        <5>1. \A m, n \in Nat : m < n => m + 1 \in 1 .. n
          OBVIOUS
        <5>2. QED
          BY <2>2, <3>1, <5>1, Sizes, Zenon
      <4>2. OldSegment.sets[Len(work.segment.sets) + 1] \in SetTables
        BY <2>1, <4>1, ElementOfSeq DEF SegmentTables
      <4>3. Len(OldSegment.sets[Len(work.segment.sets) + 1].bindings) \in Nat
        BY <4>2 DEF SetTables
      <4>4. QED
        BY <1>3, <2>1, <3>1, <4>3, Sizes DEF BindingsLeft, CurrentChecked
    <3>2. QED
      BY <3>1 DEF BindingsLeft
  <2>5. QED
    BY <1>1, <1>2, <2>3, <2>4
<1>4. QED
  BY <1>1, <1>2, <1>3 DEF SegmentLeft, BindingsLeft

LEMMA LenOfAppend == \A S : \A seq \in Seq(S) : \A e : Len(Append(seq, e)) = Len(seq) + 1
OBVIOUS

\* A step that puts one of the three loops over objects ahead.
LEMMA ObjectsNearer ==
  ASSUME UpdaterInv, old' = old, NEW m \in 0 .. 1, NEW r \in 0 .. 1, NEW s \in 0 .. 1,
         scanned' = scanned + m, Len(resourceRecords') = Len(resourceRecords) + r,
         Len(segmentInfos') = Len(segmentInfos) + s, m + r + s > 0
  PROVE  Nearer
<1> DEFINE left(a, b, c, i, j, k) == a - i + b - j + c - k
<1>1. \A a, b, c, i, j, k \in Int : left(a, b, c, i + m, j + r, k + s) < left(a, b, c, i, j, k)
  OBVIOUS
<1>2. scanned \in Int /\ Len(resourceRecords) \in Int /\ Len(segmentInfos) \in Int
  BY Sizes DEF UpdaterInv, ProgressInv, ModulesExtracted
<1>3. Len(old.modules) \in Int /\ Len(old.resources) \in Int /\ Len(old.segments) \in Int
  BY Sizes
<1>4. left(Len(old.modules), Len(old.resources), Len(old.segments),
           scanned + m, Len(resourceRecords) + r, Len(segmentInfos) + s)
        < left(Len(old.modules), Len(old.resources), Len(old.segments),
               scanned, Len(resourceRecords), Len(segmentInfos))
  <2> HIDE DEF left
  <2>1. QED
    BY <1>1, <1>2, <1>3, Zenon
<1>5. ObjectsLeft' < ObjectsLeft
  BY <1>4, Zenon DEF ObjectsLeft
<1>6. QED
  BY <1>5, Zenon DEF Nearer

\* A step to another part.
LEMMA PartNearer ==
  ASSUME UNCHANGED <<old, scanned>>, Len(resourceRecords') = Len(resourceRecords),
         Len(segmentInfos') = Len(segmentInfos), PartsLeft' < PartsLeft
  PROVE  Nearer
BY DEF Nearer, ObjectsLeft

\* A step within the segment that is being encoded: one of its lists grows.
LEMMA EncodingNearer ==
  ASSUME UpdaterInv, Encoding, UNCHANGED <<old, scanned, pc, segmentInfos>>,
         Len(resourceRecords') = Len(resourceRecords),
         NEW c \in 0 .. 1, NEW r \in 0 .. 1, NEW s \in 0 .. 1, NEW b \in 0 .. 1,
         Len(work'.segment.constants) = Len(work.segment.constants) + c,
         Len(work'.segment.ranges) = Len(work.segment.ranges) + r,
         Len(work'.segment.sets) = Len(work.segment.sets) + s,
         \/ c + r + s > 0
         \/ /\ Len(work.segment.sets) < Len(OldSegment.sets)
            /\ Len(work.segment.bindings) < Len(OldSegment.sets[Len(work.segment.sets) + 1].bindings)
            /\ Len(work'.segment.bindings) = Len(work.segment.bindings) + 1
  PROVE  Nearer
<1>1. Len(segmentInfos) < Len(old.segments) /\ OldSegment \in SegmentTables
  BY SegmentIsOld DEF Encoding
<1>2. /\ Len(OldSegment.constants) \in Nat /\ Len(OldSegment.pushConstRanges) \in Nat
      /\ Len(OldSegment.sets) \in Nat
  BY <1>1 DEF SegmentTables
<1>3. OldSegment' = OldSegment /\ ObjectsLeft' = ObjectsLeft /\ PartsLeft' = PartsLeft
  BY DEF OldSegment, ObjectsLeft, PartsLeft
<1>4. /\ Len(work.segment.constants) \in Nat /\ Len(work.segment.ranges) \in Nat
      /\ Len(work.segment.sets) \in Nat /\ Len(work.segment.bindings) \in Nat
  BY Sizes
<1>5. SegmentLeft' = SegmentLeft - (c + r + s)
  BY <1>1, <1>2, <1>3, <1>4 DEF SegmentLeft
<1> SegmentLeft \in Int
  BY <1>1, <1>2, <1>4 DEF SegmentLeft
<1>6. CASE c + r + s > 0
  BY <1>3, <1>5, <1>6 DEF Nearer
<1>7. CASE /\ c + r + s = 0 /\ Len(work.segment.sets) < Len(OldSegment.sets)
           /\ Len(work.segment.bindings) < Len(OldSegment.sets[Len(work.segment.sets) + 1].bindings)
           /\ Len(work'.segment.bindings) = Len(work.segment.bindings) + 1
  <2> DEFINE n == Len(work.segment.sets) + 1
  <2>1. SegmentLeft' = SegmentLeft
    BY <1>5, <1>7
  <2>2. s = 0 /\ Len(work'.segment.sets) = Len(work.segment.sets)
    BY <1>4, <1>7
  <2>3. Len(OldSegment.sets[n].bindings) \in Nat
    <3>1. n \in 1 .. Len(OldSegment.sets)
      <4>1. \A i, j \in Nat : i < j => i + 1 \in 1 .. j
        OBVIOUS
      <4>2. QED
        BY <1>2, <1>4, <1>7, <4>1, Zenon
    <3> HIDE DEF n
    <3>2. OldSegment.sets[n] \in SetTables
      BY <1>1, <3>1, ElementOfSeq DEF SegmentTables
    <3>3. QED
      BY <3>2 DEF SetTables
  <2> DEFINE all == Len(OldSegment.sets[n].bindings)
             done == Len(work.segment.bindings)
  <2>4. BindingsLeft = all - done /\ BindingsLeft' = all - (done + 1)
    BY <1>1, <1>3, <1>7, <2>2, Zenon DEF BindingsLeft
  <2> HIDE DEF all, done, n
  <2>5. all \in Nat /\ done \in Nat
    BY <1>4, <2>3 DEF all, done
  <2>6. BindingsLeft' < BindingsLeft
    BY <2>4, <2>5
  <2>7. QED
    BY <1>3, <2>1, <2>6, Zenon DEF Nearer
<1>8. QED
  BY <1>6, <1>7

\* Every step is nearer to the end, and there is none after it.
LEMMA NearerStep ==
  ASSUME UpdaterInv, pc \in DOMAIN Following, UpdaterNext
  PROVE  Nearer /\ pc' \in DOMAIN Following /\ pc \notin {"done", "failed"}
<1> USE DEF Following
<1>1. CASE Open \/ DecodeConstants \/ BadModule \/ NextPart \/ OpenOutput \/ WriteOutput
           \/ (Encoding /\ Throw)
  <2>1. UNCHANGED <<vars, old, scanned>>
    BY <1>1, Zenon DEF Open, DecodeConstants, BadModule, NextPart, OpenOutput, WriteOutput, Throw
  <2>2. UNCHANGED <<resourceRecords, segmentInfos>>
    BY <2>1 DEF vars, tableVars
  <2>3. pc' \in DOMAIN Following /\ PartsLeft' < PartsLeft /\ pc \notin {"done", "failed"}
    <3>1. CASE Open
      <4>1. old.version \in {"invalid", "latest", "outdated"}
        BY FilesAssumption DEF UpdaterInv
      <4>2. pc = "open" /\ pc' \in {"failed", "done", "modules"}
        BY <3>1, <4>1 DEF Open
      <4>3. QED
        BY <4>2 DEF PartsLeft
    <3>2. CASE DecodeConstants
      BY <3>2 DEF DecodeConstants, PartsLeft
    <3>3. CASE BadModule
      BY <3>3 DEF BadModule, Throw, PartsLeft
    <3>4. CASE NextPart
      BY <3>4 DEF NextPart, PartsLeft
    <3>5. CASE OpenOutput
      BY <3>5 DEF OpenOutput, PartsLeft
    <3>6. CASE WriteOutput
      BY <3>6 DEF WriteOutput, WriteAccepted, WrittenAnyway, PartsLeft
    <3>7. CASE Encoding /\ Throw
      BY <3>7 DEF Encoding, Throw, PartsLeft
    <3>8. QED
      BY <1>1, <3>1, <3>2, <3>3, <3>4, <3>5, <3>6, <3>7
  <2>4. QED
    BY <2>1, <2>2, <2>3, PartNearer
<1>2. CASE ExtractModule
  <2>1. /\ pc = "modules" /\ pc' = pc /\ old' = old /\ scanned' = scanned + 1
        /\ UNCHANGED <<resourceRecords, segmentInfos>>
    BY <1>2 DEF ExtractModule, AddModule, vars, tableVars
  <2>2. /\ Len(resourceRecords') = Len(resourceRecords) + 0
        /\ Len(segmentInfos') = Len(segmentInfos) + 0
    BY <2>1, Sizes
  <2>3. Nearer
    BY <2>1, <2>2, ObjectsNearer
  <2>4. QED
    BY <2>1, <2>3
<1>3. CASE EncodeResource
  <2>1. pc = "resources" /\ UNCHANGED <<old, scanned>>
    BY <1>3 DEF EncodeResource
  <2>2. CASE pc' = "failed" /\ UNCHANGED vars
    BY <2>1, <2>2, PartNearer DEF PartsLeft, vars, tableVars
  <2>3. CASE /\ pc' \in {"resources", "sampler"}
             /\ \E category, group : AddModelResourceTableEntry(category, group)
    <3>1. Len(resourceRecords') = Len(resourceRecords) + 1 /\ UNCHANGED segmentInfos
      BY <2>3 DEF AddModelResourceTableEntry, UpdaterInv, ReferencesInv, ObjectsOK
    <3>2. scanned' = scanned + 0 /\ Len(segmentInfos') = Len(segmentInfos) + 0
      BY <2>1, <3>1, Sizes DEF UpdaterInv, ProgressInv, ModulesExtracted
    <3>3. Nearer
      BY <2>1, <3>1, <3>2, ObjectsNearer
    <3>4. QED
      BY <2>1, <2>3, <3>3
  <2>4. QED
    BY <1>3, <2>1, <2>2, <2>3 DEF EncodeResource
<1>4. CASE EncodeSampler
  <2>1. /\ pc = "sampler" /\ pc' = "resources" /\ UNCHANGED <<old, scanned>>
        /\ Len(resourceRecords') = Len(resourceRecords) /\ UNCHANGED segmentInfos
    BY <1>4 DEF EncodeSampler, AddSamplerConfig, UpdaterInv, ReferencesInv, ObjectsOK
  <2>2. QED
    BY <2>1, PartNearer DEF PartsLeft
<1>5. CASE EncodeInputsOutputs \/ FinishModel
  <2>1. /\ UNCHANGED <<old, scanned, resourceRecords, segmentInfos>>
        /\ \/ pc = "io" /\ pc' = "finish"
           \/ pc = "finish" /\ pc' = "output"
    BY <1>5 DEF EncodeInputsOutputs, AddModelSequenceInputsOutputs, FinishModel, Finish
  <2>2. QED
    BY <2>1, PartNearer DEF PartsLeft
<1>6. CASE EncodeConstant /\ ~Throw
  <2>1. /\ Encoding /\ UNCHANGED <<old, scanned, pc, segmentInfos, resourceRecords>>
        /\ Len(work'.segment.constants) = Len(work.segment.constants) + 1
        /\ work'.segment.ranges = work.segment.ranges /\ work'.segment.sets = work.segment.sets
    <3>1. work.segment.constants \in Seq(ConstantRefs)
      BY DEF UpdaterInv, Work, SegmentWork
    <3>2. QED
      BY <1>6, <3>1, ConstantEffect, LenOfAppend DEF AddConstantTo
  <2>2. Nearer
    BY <2>1, EncodingNearer, Sizes
  <2>3. QED
    BY <2>1, <2>2 DEF Encoding
<1>7. CASE EncodePushConstRange
  <2>1. /\ Encoding /\ UNCHANGED <<old, scanned, pc, segmentInfos, resourceRecords>>
        /\ Len(work'.segment.ranges) = Len(work.segment.ranges) + 1
        /\ work'.segment.constants = work.segment.constants /\ work'.segment.sets = work.segment.sets
    <3>1. work.segment.ranges \in Seq(Refs(pushConstRanges))
      BY DEF UpdaterInv, Work, SegmentWork
    <3>2. QED
      BY <1>7, <3>1, RangeEffect, LenOfAppend DEF AddPushConstRange
  <2>2. Nearer
    BY <2>1, EncodingNearer, Sizes
  <2>3. QED
    BY <2>1, <2>2 DEF Encoding
<1>8. CASE EncodeBindingSlot /\ ~Throw
  <2>1. /\ Encoding /\ UNCHANGED <<old, scanned, pc, segmentInfos, resourceRecords>>
        /\ Len(work'.segment.bindings) = Len(work.segment.bindings) + 1
        /\ work'.segment.constants = work.segment.constants
        /\ work'.segment.ranges = work.segment.ranges /\ work'.segment.sets = work.segment.sets
        /\ ~SetsEncoded
        /\ Len(work.segment.bindings) + 1
             \in 1 .. Len(OldSegment.sets[Len(work.segment.sets) + 1].bindings)
    <3>1. work.segment.bindings \in Seq(Refs(bindingSlots))
      BY DEF UpdaterInv, Work, SegmentWork
    <3>2. QED
      BY <1>8, <3>1, BindingEffect, LenOfAppend DEF AddBindingSlot
  <2>2. /\ Len(work.segment.sets) < Len(OldSegment.sets)
        /\ Len(work.segment.bindings) < Len(OldSegment.sets[Len(work.segment.sets) + 1].bindings)
    <3>1. Len(work.segment.sets) + 1 \in 1 .. Len(OldSegment.sets)
      BY <2>1, SetFacts
    <3>2. Len(OldSegment.sets[Len(work.segment.sets) + 1].bindings) \in Nat
      BY <2>1, SetFacts DEF SetTables
    <3>3. Len(OldSegment.sets) \in Nat
      BY <2>1, EncodingFacts DEF SegmentTables
    <3>4. \A m, n \in Nat : m + 1 \in 1 .. n => m < n
      OBVIOUS
    <3>5. QED
      BY <2>1, <3>1, <3>2, <3>3, <3>4, Sizes, Zenon
  <2>3. Nearer
    BY <2>1, <2>2, EncodingNearer, Sizes
  <2>4. QED
    BY <2>1, <2>3 DEF Encoding
<1>9. CASE EncodeDescriptorSet
  <2>1. /\ Encoding /\ UNCHANGED <<old, scanned, pc, segmentInfos, resourceRecords>>
        /\ Len(work'.segment.sets) = Len(work.segment.sets) + 1
        /\ work'.segment.constants = work.segment.constants
        /\ work'.segment.ranges = work.segment.ranges
    <3>1. work.segment.sets \in Seq(Refs(descriptorSetInfos))
      BY DEF UpdaterInv, Work, SegmentWork
    <3>2. QED
      BY <1>9, <3>1, SetEffect, LenOfAppend DEF AddDescriptorSetInfo
  <2>2. Nearer
    BY <2>1, EncodingNearer, Sizes
  <2>3. QED
    BY <2>1, <2>2 DEF Encoding
<1>10. CASE EncodeSegment
  <2>1. /\ Encoding /\ UNCHANGED <<old, scanned, pc, resourceRecords>>
        /\ Len(segmentInfos') = Len(segmentInfos) + 1
    BY <1>10, SegmentEffect DEF AddSegmentInfo, UpdaterInv, ReferencesInv, ObjectsOK
  <2>2. scanned' = scanned + 0 /\ Len(resourceRecords') = Len(resourceRecords) + 0
    BY <2>1, Sizes DEF UpdaterInv, ProgressInv, ModulesExtracted
  <2>3. Nearer
    BY <2>1, <2>2, ObjectsNearer
  <2>4. QED
    BY <2>1, <2>3 DEF Encoding
<1>11. EncodeConstant \/ EncodeBindingSlot => Encoding
  BY DEF EncodeConstant, EncodeBindingSlot
<1>12. CASE Throw /\ (EncodeConstant \/ EncodeBindingSlot)
  BY <1>1, <1>11, <1>12
<1>13. QED
  BY <1>1, <1>2, <1>3, <1>4, <1>5, <1>6, <1>7, <1>8, <1>9, <1>10, <1>12 DEF UpdaterNext

\* update ends on every file, however its references, sizes and names are:
\* each step of it is nearer to the end in an order of naturals that does
\* not descend forever, and at the end it takes none.
THEOREM UpdateIsFinite ==
  UpdaterSpec => /\ [](/\ ObjectsLeft \in Nat /\ PartsLeft \in Nat
                       /\ SegmentLeft \in Nat /\ BindingsLeft \in Nat)
                 /\ [][Nearer /\ pc \notin {"done", "failed"}]_<<vars, updaterVars>>
<1> DEFINE Placed == pc \in DOMAIN Following
<1>1. UpdaterInit => UpdaterInv /\ Placed
  BY UpdaterInitInv DEF UpdaterInit, Following
<1>2. UpdaterInv /\ Placed /\ [UpdaterNext]_<<vars, updaterVars>>
      => /\ UpdaterInv' /\ Placed'
         /\ [Nearer /\ pc \notin {"done", "failed"}]_<<vars, updaterVars>>
  <2>1. UpdaterInv /\ [UpdaterNext]_<<vars, updaterVars>> => UpdaterInv'
    BY UpdaterStep
  <2>2. ASSUME Placed, UNCHANGED <<vars, updaterVars>> PROVE Placed'
    BY <2>2 DEF updaterVars
  <2>3. QED
    BY <2>1, <2>2, NearerStep
<1>3. UpdaterInv /\ Placed => /\ ObjectsLeft \in Nat /\ PartsLeft \in Nat
                              /\ SegmentLeft \in Nat /\ BindingsLeft \in Nat
  BY LeftAreNat
<1> HIDE DEF Placed
<1>4. QED
  BY <1>1, <1>2, <1>3, PTL DEF UpdaterSpec
================================================================================
