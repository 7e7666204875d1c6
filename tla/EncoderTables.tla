----------------------------- MODULE EncoderTables -----------------------------
(***************************************************************************)
(* The modules, resources and model sequence of EncoderImpl                *)
(* (src/encoder.cpp), built by a client through references the encoder     *)
(* hands out, and the tables Finish makes of them.                         *)
(*                                                                         *)
(* The client keeps to include/vgf/encoder.hpp: it passes references it    *)
(* was given, names that are absent or one each, and alias groups only to  *)
(* resources that are not constants.  A FlatBuffer object once created is  *)
(* never changed, so the offset of one stands for the reference to it.     *)
(***************************************************************************)
EXTENDS EncoderConstants, ParsedModel, FiniteSets

CONSTANTS
  ModuleTypes, ModuleCodes, Categories, AliasGroups, SamplerConfigs, SetIndices,
  PushConstRanges, Names,
  MaxModules, MaxResources, MaxSlots, MaxSets, MaxPushConstRanges, MaxSegments,
  MaxIO,   \* bounds: objects of each kind, and model inputs or outputs,
  MaxRefs  \* bound: references of one kind in a call

ASSUME TablesAssumption ==
  /\ Categories \subseteq {"INPUT", "OUTPUT", "INTERMEDIATE", "CONSTANT"}
  /\ U32Max \in Nat
  /\ {MaxModules, MaxResources, MaxSlots, MaxSets, MaxPushConstRanges, MaxSegments,
      MaxIO, MaxRefs} \subseteq 0 .. U32Max
  /\ MaxConstants <= U32Max
  /\ SetIndices \subseteq 0 .. U32Max

VARIABLES
  modules, resourceRecords, bindingSlots, descriptorSetInfos, pushConstRanges, segmentInfos,
  modelSequence,   \* modelSequenceInputs_, inputNames_ and the same of outputs
  failedRef,       \* history: AddConstant returned UINT32_MAX
  given,           \* history: the name the client gave each input and output, if any
  file             \* {} until Finish, then {the tables}

tableVars == <<modules, resourceRecords, bindingSlots, descriptorSetInfos, pushConstRanges,
               segmentInfos, modelSequence, failedRef, given, file>>
vars == <<constantVars, tableVars>>

Init ==
  /\ ConstantsInit
  /\ modules = <<>>
  /\ resourceRecords = <<>>
  /\ bindingSlots = <<>>
  /\ descriptorSetInfos = <<>>
  /\ pushConstRanges = <<>>
  /\ segmentInfos = <<>>
  /\ modelSequence = [inputs |-> <<>>, inputNames |-> <<>>, outputs |-> <<>>, outputNames |-> <<>>]
  /\ failedRef = FALSE
  /\ given = [inputs |-> <<>>, outputs |-> <<>>]
  /\ file = {}

--------------------------------------------------------------------------------
\* The references the client holds, and the lists of them it may pass.

Refs(objects) == 0 .. Len(objects) - 1

\* AddConstant returns UINT32_MAX for a constant it refuses.
ConstantRefs == Refs(constsMetaData) \cup (IF failedRef THEN {U32Max} ELSE {})

ListsOf(set) == UNION {[1 .. n -> set] : n \in 0 .. MaxRefs}

\* No names, or one for each of n bindings.
NameLists(n) == {<<>>} \cup [1 .. n -> Names]

CanAdd(objects, bound) == ~finished /\ Len(objects) < bound

--------------------------------------------------------------------------------
\* The two overloads.  A code is [shader, text], its text "" if the module
\* is a placeholder; AddPlaceholderModule adds one for SPIR-V.
AddModule(type, code) ==
  /\ CanAdd(modules, MaxModules)
  /\ modules' = Append(modules, [type |-> type, code |-> code])
  /\ UNCHANGED <<constantVars, resourceRecords, bindingSlots, descriptorSetInfos,
                 pushConstRanges, segmentInfos, modelSequence, failedRef, given, file>>

\* AddInputResource and the three others: constants have no alias group.
AddModelResourceTableEntry(category, aliasGroup) ==
  /\ CanAdd(resourceRecords, MaxResources)
  /\ category = "CONSTANT" => aliasGroup = U32Max
  /\ resourceRecords' = Append(resourceRecords,
       [category |-> category, aliasGroup |-> aliasGroup, sampler |-> {}])
  /\ UNCHANGED <<constantVars, modules, bindingSlots, descriptorSetInfos, pushConstRanges,
                 segmentInfos, modelSequence, failedRef, given, file>>

AddSamplerConfig(resource, config) ==
  /\ ~finished
  /\ resourceRecords' = [resourceRecords EXCEPT ![resource + 1].sampler = {config}]
  /\ UNCHANGED <<constantVars, modules, bindingSlots, descriptorSetInfos, pushConstRanges,
                 segmentInfos, modelSequence, failedRef, given, file>>

WithAliasGroupBug(record, group) == [record EXCEPT !.aliasGroup = group]

\* A group is set once; with another one a debug build stops at an
\* assertion and a release build returns.
WithAliasGroup(record, group) ==
  IF record.aliasGroup = U32Max THEN [record EXCEPT !.aliasGroup = group] ELSE record

SetAliasGroup(resource, group) ==
  /\ ~finished
  /\ resourceRecords[resource + 1].category # "CONSTANT"
  /\ resourceRecords' = [resourceRecords EXCEPT ![resource + 1] = WithAliasGroup(@, group)]
  /\ UNCHANGED <<constantVars, modules, bindingSlots, descriptorSetInfos, pushConstRanges,
                 segmentInfos, modelSequence, failedRef, given, file>>

AddBindingSlot(binding, resource) ==
  /\ CanAdd(bindingSlots, MaxSlots)
  /\ bindingSlots' = Append(bindingSlots, [binding |-> binding, mrtIndex |-> resource])
  /\ UNCHANGED <<constantVars, modules, resourceRecords, descriptorSetInfos, pushConstRanges,
                 segmentInfos, modelSequence, failedRef, given, file>>

AddDescriptorSetInfo(bindings, setIndex) ==
  /\ CanAdd(descriptorSetInfos, MaxSets)
  /\ descriptorSetInfos' =
       Append(descriptorSetInfos, [bindings |-> bindings, setIndex |-> setIndex])
  /\ UNCHANGED <<constantVars, modules, resourceRecords, bindingSlots, pushConstRanges,
                 segmentInfos, modelSequence, failedRef, given, file>>

AddPushConstRange(range) ==
  /\ CanAdd(pushConstRanges, MaxPushConstRanges)
  /\ pushConstRanges' = Append(pushConstRanges, range)
  /\ UNCHANGED <<constantVars, modules, resourceRecords, bindingSlots, descriptorSetInfos,
                 segmentInfos, modelSequence, failedRef, given, file>>

\* The segment's type is its module's; the three dispatch dimensions and
\* the name play no part here.
AddSegmentInfo(module, sets, inputs, outputs, constants, ranges) ==
  /\ CanAdd(segmentInfos, MaxSegments)
  /\ segmentInfos' = Append(segmentInfos,
       [type |-> modules[module + 1].type, module |-> module, sets |-> sets,
        inputs |-> inputs, outputs |-> outputs, constants |-> constants,
        pushConstRanges |-> ranges])
  /\ UNCHANGED <<constantVars, modules, resourceRecords, bindingSlots, descriptorSetInfos,
                 pushConstRanges, modelSequence, failedRef, given, file>>

\* The names of a call replace those of the calls before it.
AppendedNamesBug(names, more) == IF more = <<>> THEN names ELSE more

AppendedNames(names, more) == names \o more

\* Each call adds to the lists of the calls before it.
AddModelSequenceInputsOutputs(inputs, inputNames, outputs, outputNames) ==
  /\ ~finished
  /\ Len(modelSequence.inputs) + Len(inputs) <= MaxIO
  /\ Len(modelSequence.outputs) + Len(outputs) <= MaxIO
  /\ modelSequence' =
       [inputs |-> modelSequence.inputs \o inputs,
        inputNames |-> AppendedNames(modelSequence.inputNames, inputNames),
        outputs |-> modelSequence.outputs \o outputs,
        outputNames |-> AppendedNames(modelSequence.outputNames, outputNames)]
  /\ LET named(bindings, names) ==
           [i \in 1 .. Len(bindings) |-> IF i \in 1 .. Len(names) THEN names[i] ELSE NoName]
     IN  given' = [inputs |-> given.inputs \o named(inputs, inputNames),
                   outputs |-> given.outputs \o named(outputs, outputNames)]
  /\ UNCHANGED <<constantVars, modules, resourceRecords, bindingSlots, descriptorSetInfos,
                 pushConstRanges, segmentInfos, failedRef, file>>

\* AddConstant, and whether the client got a reference for it.
AddConstantTo(resource, size, sparsity) ==
  /\ \/ AddConstant(resource, size, sparsity) /\ UNCHANGED failedRef
     \/ RejectConstant(size) /\ failedRef' = TRUE
  /\ UNCHANGED <<modules, resourceRecords, bindingSlots, descriptorSetInfos, pushConstRanges,
                 segmentInfos, modelSequence, given, file>>

--------------------------------------------------------------------------------
\* What the references stand for.
Objects(objects, refs) == [i \in 1 .. Len(refs) |-> objects[refs[i] + 1]]

SetInfos(refs) ==
  LET infos == Objects(descriptorSetInfos, refs)
  IN  [j \in 1 .. Len(infos) |-> [infos[j] EXCEPT !.bindings = Objects(bindingSlots, @)]]

Segments ==
  [i \in 1 .. Len(segmentInfos) |->
     [segmentInfos[i] EXCEPT !.sets = SetInfos(@),
                             !.inputs = Objects(bindingSlots, @),
                             !.outputs = Objects(bindingSlots, @),
                             !.pushConstRanges = Objects(pushConstRanges, @)]]

Tables ==
  [modules |-> modules,
   resources |-> resourceRecords,
   segments |-> Segments,
   inputs |-> Objects(bindingSlots, modelSequence.inputs),
   inputNames |-> modelSequence.inputNames,
   outputs |-> Objects(bindingSlots, modelSequence.outputs),
   outputNames |-> modelSequence.outputNames,
   constants |-> constsMetaData]

\* The encoder does not remember that it is finished.
FinishBug ==
  /\ ~finished
  /\ file' = {Tables}
  /\ UNCHANGED <<constantVars, modules, resourceRecords, bindingSlots, descriptorSetInfos,
                 pushConstRanges, segmentInfos, modelSequence, failedRef, given>>

Finish ==
  /\ ~finished
  /\ finished' = TRUE
  /\ file' = {Tables}
  /\ UNCHANGED <<encodingFailed, constsMetaData, constsData, constDataOffset, added>>
  /\ UNCHANGED <<modules, resourceRecords, bindingSlots, descriptorSetInfos, pushConstRanges,
                 segmentInfos, modelSequence, failedRef, given>>

--------------------------------------------------------------------------------
AddReferringObject ==
  \/ \E binding \in {0, 1}, resource \in Refs(resourceRecords) : AddBindingSlot(binding, resource)
  \/ \E bindings \in ListsOf(Refs(bindingSlots)), setIndex \in SetIndices :
       AddDescriptorSetInfo(bindings, setIndex)
  \/ \E module \in Refs(modules), sets \in ListsOf(Refs(descriptorSetInfos)),
        inputs, outputs \in ListsOf(Refs(bindingSlots)), constants \in ListsOf(ConstantRefs),
        ranges \in ListsOf(Refs(pushConstRanges)) :
       AddSegmentInfo(module, sets, inputs, outputs, constants, ranges)
  \/ \E inputs, outputs \in ListsOf(Refs(bindingSlots)) :
       \E inputNames \in NameLists(Len(inputs)), outputNames \in NameLists(Len(outputs)) :
         AddModelSequenceInputsOutputs(inputs, inputNames, outputs, outputNames)

AddConstantToResource ==
  \E resource \in Refs(resourceRecords) \cap Resources, size \in DataSizes, sparsity \in Sparsities :
    /\ resourceRecords[resource + 1].category = "CONSTANT"
    /\ AddConstantTo(resource, size, sparsity)

Next ==
  \/ \E type \in ModuleTypes, code \in ModuleCodes : AddModule(type, code)
  \/ \E category \in Categories, group \in AliasGroups \cup {U32Max} :
       AddModelResourceTableEntry(category, group)
  \/ \E resource \in Refs(resourceRecords), config \in SamplerConfigs :
       AddSamplerConfig(resource, config)
  \/ \E resource \in Refs(resourceRecords), group \in AliasGroups : SetAliasGroup(resource, group)
  \/ \E range \in PushConstRanges : AddPushConstRange(range)
  \/ AddReferringObject
  \/ AddConstantToResource
  \/ Finish

Spec == Init /\ [][Next]_vars
--------------------------------------------------------------------------------
ResourceRecord ==
  [category : Categories, aliasGroup : AliasGroups \cup {U32Max}, sampler : SUBSET SamplerConfigs]

TypeOK ==
  /\ ConstantsTypeOK
  /\ modules \in Seq([type : ModuleTypes, code : ModuleCodes])
  /\ resourceRecords \in Seq(ResourceRecord)
  /\ bindingSlots \in Seq([binding : Nat, mrtIndex : Nat])
  /\ descriptorSetInfos \in Seq([bindings : Seq(Nat), setIndex : SetIndices])
  /\ Len(segmentInfos) <= MaxSegments
  /\ Len(modelSequence.inputNames) <= Len(modelSequence.inputs)
  /\ Len(modelSequence.outputNames) <= Len(modelSequence.outputs)
  /\ failedRef \in BOOLEAN
  /\ Cardinality(file) = (IF finished THEN 1 ELSE 0)

\* Every file the encoder agrees to write passes vgf_dump's cross-section
\* check (vgf_dump.cpp:464).  A client that ignores the result of a failed
\* AddConstant and gives UINT32_MAX to a segment gets no file at all.
ReferencesValid ==
  \A tables \in file : ~encodingFailed => validateParsedReferences(tables)

\* The parser never gives an input or an output a name the client gave to
\* another one, however the client spread them over calls and named some
\* calls and not others: the name is the one given, or none.
NamesNeverMisattached ==
  \A tables \in file :
    LET parsed == parseModelSequenceTable(tables)
    IN  /\ \A i \in DOMAIN parsed.inputs : parsed.inputs[i].name \in {given.inputs[i], NoName}
        /\ \A i \in DOMAIN parsed.outputs : parsed.outputs[i].name \in {given.outputs[i], NoName}

\* Names the client gives in every call all reach the parser.
AllNamedAllRead ==
  \A tables \in file :
    LET parsed == parseModelSequenceTable(tables)
        namesOf(bindings) == [i \in DOMAIN bindings |-> bindings[i].name]
    IN  /\ NoName \notin Elements(given.inputs) => namesOf(parsed.inputs) = given.inputs
        /\ NoName \notin Elements(given.outputs) => namesOf(parsed.outputs) = given.outputs

\* A resource's alias group, once it has one, stays: neither a second
\* SetAliasGroup nor anything added later moves it to other storage.
AliasGroupSettled ==
  [][\A i \in DOMAIN resourceRecords :
       resourceRecords[i].aliasGroup # U32Max =>
         resourceRecords'[i].aliasGroup = resourceRecords[i].aliasGroup]_vars
===============================================================================
