-------------------------- MODULE EncoderTablesProofs --------------------------
(***************************************************************************)
(* Names, alias groups and references, for any number of modules,          *)
(* resources, slots, segments, constants and calls.                        *)
(***************************************************************************)
EXTENDS EncoderTables, EncoderConstantsProofs, FiniteSetTheorems

\* What AddModelSequenceInputsOutputs keeps true of one of its two lists of
\* bindings, the names stored for it and the names the client gave: a list
\* with a name for each binding has, for each, the one that was given, and
\* one for which none is missing has them all.
NamesMatch(bindings, names, givenNames) ==
  /\ bindings \in Seq(Nat)
  /\ names \in Seq(Names)
  /\ Len(names) <= Len(bindings)
  /\ Len(givenNames) = Len(bindings)
  /\ Len(names) = Len(bindings) => givenNames = names
  /\ NoName \notin Elements(givenNames) => givenNames = names

\* The file was made of what is still there.
FileMatches ==
  /\ file # {} => finished
  /\ \A tables \in file :
       /\ tables.inputs = Objects(bindingSlots, modelSequence.inputs)
       /\ tables.inputNames = modelSequence.inputNames
       /\ tables.outputs = Objects(bindingSlots, modelSequence.outputs)
       /\ tables.outputNames = modelSequence.outputNames

NamesInv ==
  /\ given.inputs \in Seq(Names \cup {NoName}) /\ given.outputs \in Seq(Names \cup {NoName})
  /\ NamesMatch(modelSequence.inputs, modelSequence.inputNames, given.inputs)
  /\ NamesMatch(modelSequence.outputs, modelSequence.outputNames, given.outputs)
  /\ FileMatches

--------------------------------------------------------------------------------
\* A call with a name for each new binding, or with none.
Named(bindings, names) ==
  [i \in 1 .. Len(bindings) |-> IF i \in 1 .. Len(names) THEN names[i] ELSE NoName]

\* A call of AddModelSequenceInputsOutputs keeps a list matched, whether it
\* names all of the bindings it adds or none.
LEMMA MatchKept ==
  ASSUME NEW bindings, NEW names, NEW givenNames, NamesMatch(bindings, names, givenNames),
         givenNames \in Seq(Names \cup {NoName}),
         NEW n \in 0 .. MaxRefs, NEW more \in [1 .. n -> Nat],
         NEW moreNames \in {<<>>} \cup [1 .. n -> Names]
  PROVE  /\ NamesMatch(bindings \o more, names \o moreNames, givenNames \o Named(more, moreNames))
         /\ givenNames \o Named(more, moreNames) \in Seq(Names \cup {NoName})
<1>1. n \in Nat /\ more \in Seq(Nat) /\ Len(more) = n
  BY TablesAssumption
<1>2. moreNames \in Seq(Names) /\ (Len(moreNames) = 0 \/ Len(moreNames) = n)
  <2>1. CASE moreNames = <<>>
    BY <2>1, EmptySeq
  <2>2. CASE moreNames \in [1 .. n -> Names]
    BY <2>2, <1>1
  <2>3. QED
    BY <2>1, <2>2
<1>3. Named(more, moreNames) \in Seq(Names \cup {NoName}) /\ Len(Named(more, moreNames)) = n
  <2>1. CASE moreNames = <<>>
    BY <2>1, <1>1 DEF Named
  <2>2. CASE moreNames \in [1 .. n -> Names]
    BY <2>2, <1>1 DEF Named
  <2>3. QED
    BY <2>1, <2>2
<1>4. /\ bindings \in Seq(Nat) /\ names \in Seq(Names)
      /\ Len(names) <= Len(bindings) /\ Len(givenNames) = Len(bindings)
      /\ Len(names) = Len(bindings) => givenNames = names
      /\ NoName \notin Elements(givenNames) => givenNames = names
  BY DEF NamesMatch
<1>5. /\ bindings \o more \in Seq(Nat) /\ Len(bindings \o more) = Len(bindings) + n
      /\ names \o moreNames \in Seq(Names)
      /\ Len(names \o moreNames) = Len(names) + Len(moreNames)
      /\ givenNames \o Named(more, moreNames) \in Seq(Names \cup {NoName})
      /\ Len(givenNames \o Named(more, moreNames)) = Len(bindings) + n
  <2>1. bindings \o more \in Seq(Nat) /\ Len(bindings \o more) = Len(bindings) + n
    BY <1>1, <1>4, ConcatProperties, Zenon
  <2>2. names \o moreNames \in Seq(Names) /\ Len(names \o moreNames) = Len(names) + Len(moreNames)
    BY <1>2, <1>4
  <2>3. /\ givenNames \o Named(more, moreNames) \in Seq(Names \cup {NoName})
        /\ Len(givenNames \o Named(more, moreNames)) = Len(bindings) + n
    BY <1>3, <1>4, ConcatProperties, Zenon
  <2>4. QED
    BY <2>1, <2>2, <2>3
<1>6. Len(names) \in Nat /\ Len(bindings) \in Nat /\ Len(moreNames) \in Nat
  <2>1. names \in Seq(Names) /\ bindings \in Seq(Nat) /\ moreNames \in Seq(Names)
    BY <1>2, <1>4
  <2>2. QED
    BY <2>1, LenProperties, Zenon
<1>7. ASSUME Len(moreNames) = n
      PROVE  Named(more, moreNames) = moreNames
  <2>1. CASE n = 0
    BY <2>1, <1>7, <1>2, <1>3, EmptySeq
  <2>2. CASE n # 0
    <3>1. moreNames # <<>>
      BY <2>2, <1>7, EmptySeq
    <3>2. moreNames = [i \in 1 .. n |-> moreNames[i]]
      BY <1>7, <1>2
    <3>3. QED
      BY <3>1, <3>2, <1>1 DEF Named
  <2>3. QED
    BY <2>1, <2>2
<1>8. ASSUME Len(names \o moreNames) = Len(bindings \o more)
      PROVE  givenNames \o Named(more, moreNames) = names \o moreNames
  <2>1. Len(moreNames) = n /\ Len(names) = Len(bindings)
    BY <1>1, <1>2, <1>4, <1>5, <1>6, <1>8
  <2>2. QED
    BY <2>1, <1>7, <1>4
<1>9. ASSUME NoName \notin Elements(givenNames \o Named(more, moreNames))
       PROVE  givenNames \o Named(more, moreNames) = names \o moreNames
  <2> DEFINE added0 == Named(more, moreNames)
  <2>1. /\ added0 \in Seq(Names \cup {NoName}) /\ Len(added0) = n
        /\ givenNames \in Seq(Names \cup {NoName}) /\ Len(givenNames) \in Nat
    BY <1>3, <1>4, <1>6
  <2>2. /\ \A i \in 1 .. Len(givenNames) :
             i \in 1 .. Len(givenNames \o added0) /\ (givenNames \o added0)[i] = givenNames[i]
        /\ \A i \in 1 .. n : /\ Len(givenNames) + i \in 1 .. Len(givenNames \o added0)
                            /\ (givenNames \o added0)[Len(givenNames) + i] = added0[i]
    <3> HIDE DEF added0
    <3>1. QED
      BY <2>1, <1>1
  <2>3. NoName \notin Elements(givenNames)
    BY <2>2, <1>9 DEF Elements
  <2>4. \A i \in 1 .. n : added0[i] # NoName
    BY <2>2, <1>9 DEF Elements
  <2>5. Len(moreNames) = n
    <3>1. CASE n = 0
      BY <3>1, <1>2
    <3>2. CASE n # 0
      <4>1. 1 \in 1 .. n /\ 1 \in 1 .. Len(more)
        BY <3>2, <1>1
      <4>2. added0[1] = IF 1 \in 1 .. Len(moreNames) THEN moreNames[1] ELSE NoName
        BY <4>1 DEF Named
      <4>3. Len(moreNames) # 0
        BY <4>1, <4>2, <2>4
      <4>4. QED
        BY <4>3, <1>2
    <3>3. QED
      BY <3>1, <3>2
  <2>6. QED
    BY <2>3, <2>5, <1>7, <1>4
<1>10. /\ Len(names \o moreNames) <= Len(bindings \o more)
      /\ Len(givenNames \o Named(more, moreNames)) = Len(bindings \o more)
  BY <1>1, <1>2, <1>4, <1>5, <1>6
<1>11. QED
  BY <1>5, <1>8, <1>10, <1>9 DEF NamesMatch

--------------------------------------------------------------------------------
\* Empty lists match.
LEMMA NamesInitInv == Init => NamesInv
BY EmptySeq DEF Init, NamesInv, NamesMatch, FileMatches

\* Adding to the lists keeps each of them matched.
LEMMA AddIONames ==
  ASSUME NamesInv,
         NEW inputs \in ListsOf(Refs(bindingSlots)), NEW outputs \in ListsOf(Refs(bindingSlots)),
         NEW inputNames \in NameLists(Len(inputs)), NEW outputNames \in NameLists(Len(outputs)),
         AddModelSequenceInputsOutputs(inputs, inputNames, outputs, outputNames)
  PROVE  NamesInv'
<1>1. ASSUME NEW more \in ListsOf(Refs(bindingSlots)), NEW names \in NameLists(Len(more))
      PROVE  \E n \in 0 .. MaxRefs : more \in [1 .. n -> Nat] /\ names \in {<<>>} \cup [1 .. n -> Names]
  <2>1. PICK n \in 0 .. MaxRefs : more \in [1 .. n -> Refs(bindingSlots)]
    BY <1>1 DEF ListsOf
  <2>2. n \in Nat /\ Len(more) = n
    BY <2>1, TablesAssumption
  <2>3. more \in [1 .. n -> Nat]
    BY <2>1 DEF Refs
  <2>4. QED
    BY <2>2, <2>3, <1>1 DEF NameLists
<1>2. PICK n \in 0 .. MaxRefs :
        inputs \in [1 .. n -> Nat] /\ inputNames \in {<<>>} \cup [1 .. n -> Names]
  BY <1>1
<1>3. PICK m \in 0 .. MaxRefs :
        outputs \in [1 .. m -> Nat] /\ outputNames \in {<<>>} \cup [1 .. m -> Names]
  BY <1>1
<1>4. /\ NamesMatch(modelSequence.inputs \o inputs, modelSequence.inputNames \o inputNames,
                    given.inputs \o Named(inputs, inputNames))
      /\ given.inputs \o Named(inputs, inputNames) \in Seq(Names \cup {NoName})
  BY <1>2, MatchKept DEF NamesInv
<1>5. /\ NamesMatch(modelSequence.outputs \o outputs, modelSequence.outputNames \o outputNames,
                    given.outputs \o Named(outputs, outputNames))
      /\ given.outputs \o Named(outputs, outputNames) \in Seq(Names \cup {NoName})
  BY <1>3, MatchKept DEF NamesInv
<1>6. /\ modelSequence' = [inputs |-> modelSequence.inputs \o inputs,
                           inputNames |-> modelSequence.inputNames \o inputNames,
                           outputs |-> modelSequence.outputs \o outputs,
                           outputNames |-> modelSequence.outputNames \o outputNames]
      /\ given' = [inputs |-> given.inputs \o Named(inputs, inputNames),
                   outputs |-> given.outputs \o Named(outputs, outputNames)]
      /\ ~finished /\ UNCHANGED <<finished, file>>
  BY DEF AddModelSequenceInputsOutputs, AppendedNames, Named, constantVars
<1>7. FileMatches'
  BY <1>6 DEF NamesInv, FileMatches
<1>8. QED
  BY <1>4, <1>5, <1>6, <1>7 DEF NamesInv

\* Finish makes the file of the lists as they are.
LEMMA FinishNames ==
  ASSUME NamesInv, Finish
  PROVE  NamesInv'
<1>1. file' = {Tables} /\ finished' = TRUE
      /\ UNCHANGED <<modelSequence, given, bindingSlots>>
  BY DEF Finish
<1>2. FileMatches'
  BY <1>1 DEF FileMatches, Tables, Objects
<1>3. QED
  BY <1>1, <1>2 DEF NamesInv

\* No other action touches the lists, and none the file once there is one.
LEMMA OthersKeepNames ==
  ASSUME NamesInv, UNCHANGED <<modelSequence, given, file>>,
         \/ UNCHANGED <<finished, bindingSlots>>
         \/ ~finished /\ UNCHANGED finished
  PROVE  NamesInv'
BY DEF NamesInv, FileMatches, Objects

\* Every call of the encoder keeps the lists matched.
LEMMA NamesStepInv == NamesInv /\ [Next]_vars => NamesInv'
<1> SUFFICES ASSUME NamesInv, [Next]_vars PROVE NamesInv'
  OBVIOUS
<1>1. ASSUME NEW type, NEW code, AddModule(type, code) PROVE NamesInv'
  BY <1>1, OthersKeepNames DEF AddModule, constantVars
<1>2. ASSUME NEW category, NEW group, AddModelResourceTableEntry(category, group) PROVE NamesInv'
  BY <1>2, OthersKeepNames DEF AddModelResourceTableEntry, constantVars
<1>3. ASSUME NEW resource, NEW config, AddSamplerConfig(resource, config) PROVE NamesInv'
  BY <1>3, OthersKeepNames DEF AddSamplerConfig, constantVars
<1>4. ASSUME NEW resource, NEW group, SetAliasGroup(resource, group) PROVE NamesInv'
  BY <1>4, OthersKeepNames DEF SetAliasGroup, constantVars
<1>5. ASSUME NEW range, AddPushConstRange(range) PROVE NamesInv'
  BY <1>5, OthersKeepNames DEF AddPushConstRange, constantVars
<1>6. CASE AddReferringObject
  <2>1. ASSUME NEW binding, NEW resource, AddBindingSlot(binding, resource) PROVE NamesInv'
    BY <2>1, OthersKeepNames DEF AddBindingSlot, CanAdd, constantVars
  <2>2. ASSUME NEW bindings, NEW index, AddDescriptorSetInfo(bindings, index) PROVE NamesInv'
    BY <2>2, OthersKeepNames DEF AddDescriptorSetInfo, constantVars
  <2>3. ASSUME NEW module, NEW sets, NEW inputs, NEW outputs, NEW constants, NEW ranges,
               AddSegmentInfo(module, sets, inputs, outputs, constants, ranges)
        PROVE  NamesInv'
    BY <2>3, OthersKeepNames DEF AddSegmentInfo, constantVars
  <2>4. QED
    BY <1>6, <2>1, <2>2, <2>3, AddIONames DEF AddReferringObject
<1>7. CASE AddConstantToResource
  <2>1. UNCHANGED <<modelSequence, given, file, finished, bindingSlots>>
    BY <1>7 DEF AddConstantToResource, AddConstantTo, AddConstant, RejectConstant
  <2>2. QED
    BY <2>1, OthersKeepNames
<1>8. CASE UNCHANGED vars
  BY <1>8, OthersKeepNames DEF vars, constantVars, tableVars
<1>9. QED
  BY <1>1, <1>2, <1>3, <1>4, <1>5, <1>6, <1>7, <1>8, FinishNames DEF Next

--------------------------------------------------------------------------------
\* A name counts only if there is one for each binding, and then it is the
\* name that was given.
LEMMA MergeLemma ==
  ASSUME NEW slots, NEW bindings, NEW names, NEW givenNames, NamesMatch(bindings, names, givenNames),
         slots = Objects(bindingSlots, bindings),
         NEW i \in DOMAIN merge(slots, names)
  PROVE  merge(slots, names)[i].name \in {givenNames[i], NoName}
<1>1. Len(bindings) \in Nat
  BY DEF NamesMatch
<1>2. Len(slots) = Len(bindings)
  BY <1>1 DEF Objects
<1>3. QED
  BY <1>2 DEF merge, NamesMatch

\* The parser never gives a model input or output the name of another.
THEOREM NamesAreNeverMisattached == Spec => []NamesNeverMisattached
<1>1. NamesInv => NamesNeverMisattached
  <2> SUFFICES ASSUME NamesInv, NEW tables \in file
               PROVE  LET parsed == parseModelSequenceTable(tables)
                      IN  /\ \A i \in DOMAIN parsed.inputs :
                               parsed.inputs[i].name \in {given.inputs[i], NoName}
                          /\ \A i \in DOMAIN parsed.outputs :
                               parsed.outputs[i].name \in {given.outputs[i], NoName}
    BY DEF NamesNeverMisattached
  <2>1. /\ parseModelSequenceTable(tables).inputs = merge(tables.inputs, tables.inputNames)
        /\ parseModelSequenceTable(tables).outputs = merge(tables.outputs, tables.outputNames)
    BY DEF parseModelSequenceTable
  <2>2. QED
    BY <2>1, MergeLemma DEF NamesInv, FileMatches
<1>2. QED
  BY <1>1, NamesInitInv, NamesStepInv, PTL DEF Spec

\* A list of names with one for each binding is read as it was given.
LEMMA MergeAllLemma ==
  ASSUME NEW slots, NEW bindings, NEW names, NEW givenNames, NamesMatch(bindings, names, givenNames),
         slots = Objects(bindingSlots, bindings), NoName \notin Elements(givenNames),
         givenNames \in Seq(Names \cup {NoName})
  PROVE  [i \in DOMAIN merge(slots, names) |-> merge(slots, names)[i].name] = givenNames
<1>1. Len(bindings) \in Nat /\ givenNames = names /\ Len(names) = Len(bindings)
  BY DEF NamesMatch
<1>2. Len(slots) = Len(bindings)
  BY <1>1 DEF Objects
<1>3. merge(slots, names) = [i \in 1 .. Len(names) |-> [slot |-> slots[i], name |-> names[i]]]
  BY <1>1, <1>2 DEF merge
<1>4. givenNames = [i \in 1 .. Len(names) |-> names[i]]
  BY <1>1
<1>5. QED
  BY <1>3, <1>4

\* Names given in every call are all read.
THEOREM AllNamedAreRead == Spec => []AllNamedAllRead
<1>1. NamesInv => AllNamedAllRead
  <2> SUFFICES ASSUME NamesInv, NEW tables \in file
               PROVE  LET parsed == parseModelSequenceTable(tables)
                          namesOf(bindings) == [i \in DOMAIN bindings |-> bindings[i].name]
                      IN  /\ NoName \notin Elements(given.inputs) =>
                               namesOf(parsed.inputs) = given.inputs
                          /\ NoName \notin Elements(given.outputs) =>
                               namesOf(parsed.outputs) = given.outputs
    BY DEF AllNamedAllRead
  <2>1. /\ parseModelSequenceTable(tables).inputs = merge(tables.inputs, tables.inputNames)
        /\ parseModelSequenceTable(tables).outputs = merge(tables.outputs, tables.outputNames)
    BY DEF parseModelSequenceTable
  <2>2. /\ tables.inputs = Objects(bindingSlots, modelSequence.inputs)
        /\ tables.inputNames = modelSequence.inputNames
        /\ tables.outputs = Objects(bindingSlots, modelSequence.outputs)
        /\ tables.outputNames = modelSequence.outputNames
    BY DEF NamesInv, FileMatches
  <2> DEFINE ins == merge(tables.inputs, tables.inputNames)
             outs == merge(tables.outputs, tables.outputNames)
  <2>3. NoName \notin Elements(given.inputs) => [i \in DOMAIN ins |-> ins[i].name] = given.inputs
    BY <2>2, MergeAllLemma DEF NamesInv
  <2>4. NoName \notin Elements(given.outputs) => [i \in DOMAIN outs |-> outs[i].name] = given.outputs
    BY <2>2, MergeAllLemma DEF NamesInv
  <2> HIDE DEF ins, outs
  <2>5. QED
    BY <2>1, <2>3, <2>4 DEF ins, outs
<1>2. QED
  BY <1>1, NamesInitInv, NamesStepInv, PTL DEF Spec

--------------------------------------------------------------------------------
\* A resource keeps the alias group it has, whatever is done to it.
THEOREM AliasGroupsSettle == Spec => AliasGroupSettled
<1> DEFINE Records == resourceRecords \in Seq(ResourceRecord)
           Settled == \A i \in DOMAIN resourceRecords :
                        resourceRecords[i].aliasGroup # U32Max =>
                          resourceRecords'[i].aliasGroup = resourceRecords[i].aliasGroup
<1>1. Init => Records
  BY EmptySeq DEF Init
<1>2. Records /\ [Next]_vars => Records' /\ Settled
  <2> SUFFICES ASSUME Records, [Next]_vars PROVE Records' /\ Settled
    OBVIOUS
  <2>1. CASE UNCHANGED resourceRecords
    BY <2>1
  <2>2. ASSUME NEW category \in Categories, NEW group \in AliasGroups \cup {U32Max},
               AddModelResourceTableEntry(category, group)
        PROVE  Records' /\ Settled
    <3>1. resourceRecords' = Append(resourceRecords,
            [category |-> category, aliasGroup |-> group, sampler |-> {}])
      BY <2>2 DEF AddModelResourceTableEntry
    <3>2. [category |-> category, aliasGroup |-> group, sampler |-> {}] \in ResourceRecord
      BY DEF ResourceRecord
    <3>3. QED
      BY <3>1, <3>2
  <2> DEFINE Changed(i, record) ==
        /\ resourceRecords' = [resourceRecords EXCEPT ![i] = record]
        /\ resourceRecords[i].aliasGroup # U32Max =>
             record.aliasGroup = resourceRecords[i].aliasGroup
  <2>3. ASSUME NEW i \in 1 .. Len(resourceRecords), NEW record \in ResourceRecord, Changed(i, record)
        PROVE  Records' /\ Settled
    <3>1. resourceRecords' \in Seq(ResourceRecord)
      BY <2>3
    <3>2. \A j \in DOMAIN resourceRecords :
            resourceRecords'[j] = IF j = i THEN record ELSE resourceRecords[j]
      BY <2>3
    <3>3. QED
      BY <3>1, <3>2, <2>3
  <2>4. ASSUME NEW resource \in Refs(resourceRecords)
        PROVE  resource + 1 \in 1 .. Len(resourceRecords) /\ resourceRecords[resource + 1] \in ResourceRecord
    BY DEF Refs
  <2> HIDE DEF Records, Settled
  <2>5. ASSUME NEW resource \in Refs(resourceRecords), NEW config \in SamplerConfigs,
               AddSamplerConfig(resource, config)
        PROVE  Records' /\ Settled
    <3> DEFINE record == [resourceRecords[resource + 1] EXCEPT !.sampler = {config}]
    <3>1. record \in ResourceRecord /\ record.aliasGroup = resourceRecords[resource + 1].aliasGroup
      BY <2>4 DEF ResourceRecord
    <3>2. resourceRecords' = [resourceRecords EXCEPT ![resource + 1] = record]
      BY <2>5 DEF AddSamplerConfig
    <3>3. QED
      BY <2>3, <2>4, <3>1, <3>2
  <2>6. ASSUME NEW resource \in Refs(resourceRecords), NEW group \in AliasGroups,
               SetAliasGroup(resource, group)
        PROVE  Records' /\ Settled
    <3> DEFINE record == WithAliasGroup(resourceRecords[resource + 1], group)
    <3>1. /\ record \in ResourceRecord
          /\ resourceRecords[resource + 1].aliasGroup # U32Max =>
               record.aliasGroup = resourceRecords[resource + 1].aliasGroup
      BY <2>4 DEF ResourceRecord, WithAliasGroup
    <3>2. resourceRecords' = [resourceRecords EXCEPT ![resource + 1] = record]
      BY <2>6 DEF SetAliasGroup
    <3>3. QED
      BY <2>3, <2>4, <3>1, <3>2
  <2>7. QED
    BY <2>1, <2>2, <2>5, <2>6 DEF Next, vars, tableVars, AddModule, AddPushConstRange,
       AddReferringObject, AddBindingSlot, AddDescriptorSetInfo, AddSegmentInfo,
       AddModelSequenceInputsOutputs, AddConstantToResource, AddConstantTo, Finish
<1>3. QED
  BY <1>1, <1>2, PTL DEF Spec, AliasGroupSettled

--------------------------------------------------------------------------------
(***************************************************************************)
(* References: each is to an object there is, when it is given and later.  *)
(***************************************************************************)

\* The objects, by what they may refer to.
Module == [type : ModuleTypes, code : ModuleCodes]

BindingSlot == [binding : Nat, mrtIndex : Refs(resourceRecords)]

DescriptorSetInfo == [bindings : Seq(Refs(bindingSlots)), setIndex : SetIndices]

SegmentInfo ==
  [type : ModuleTypes, module : Refs(modules), sets : Seq(Refs(descriptorSetInfos)),
   inputs : Seq(Refs(bindingSlots)), outputs : Seq(Refs(bindingSlots)),
   constants : Seq(ConstantRefs), pushConstRanges : Seq(Refs(pushConstRanges))]

ObjectsOK ==
  /\ modules \in Seq(Module)
  /\ resourceRecords \in Seq(ResourceRecord)
  /\ bindingSlots \in Seq(BindingSlot)
  /\ descriptorSetInfos \in Seq(DescriptorSetInfo)
  /\ pushConstRanges \in Seq(PushConstRanges)
  /\ segmentInfos \in Seq(SegmentInfo) /\ Len(segmentInfos) <= MaxSegments
  /\ modelSequence.inputs \in Seq(Refs(bindingSlots))
  /\ modelSequence.outputs \in Seq(Refs(bindingSlots))

ConstantsOK ==
  /\ ConstantsInv
  /\ \A k \in 1 .. Len(constsMetaData) : constsMetaData[k].mrtIndex \in Refs(resourceRecords)
  /\ failedRef \in BOOLEAN
  /\ failedRef => encodingFailed

\* The objects are frozen once there is a file of them.
FileOK == file = IF finished THEN {Tables} ELSE {}

ReferencesInv == ObjectsOK /\ ConstantsOK /\ FileOK

--------------------------------------------------------------------------------
\* What AddModule and its like do to a sequence of objects.
LEMMA AppendLemma2 ==
  ASSUME NEW S, NEW seq \in Seq(S), NEW e \in S
  PROVE  /\ Append(seq, e) \in Seq(S)
         /\ Len(Append(seq, e)) = Len(seq) + 1
         /\ Refs(seq) \subseteq Refs(Append(seq, e))
BY DEF Refs

LEMMA SeqSubset ==
  ASSUME NEW S, NEW T, S \subseteq T
  PROVE  Seq(S) \subseteq Seq(T)
<1> SUFFICES ASSUME NEW seq \in Seq(S) PROVE seq \in Seq(T)
  OBVIOUS
<1>1. Len(seq) \in Nat /\ seq \in [1 .. Len(seq) -> S]
  OBVIOUS
<1>2. seq \in [1 .. Len(seq) -> T]
  BY <1>1
<1>3. QED
  BY <1>1, <1>2

\* A list of references the client holds is a sequence of them.
LEMMA ListLemma ==
  ASSUME NEW S, NEW list \in ListsOf(S)
  PROVE  list \in Seq(S)
<1>1. PICK n \in 0 .. MaxRefs : list \in [1 .. n -> S]
  BY DEF ListsOf
<1>2. n \in Nat
  BY <1>1, TablesAssumption
<1>3. QED
  BY <1>1, <1>2

\* No action takes an object away.
RefsGrow ==
  /\ Refs(modules) \subseteq Refs(modules')
  /\ Refs(resourceRecords) \subseteq Refs(resourceRecords')
  /\ Refs(bindingSlots) \subseteq Refs(bindingSlots')
  /\ Refs(descriptorSetInfos) \subseteq Refs(descriptorSetInfos')
  /\ Refs(pushConstRanges) \subseteq Refs(pushConstRanges')
  /\ ConstantRefs \subseteq ConstantRefs'

\* Then what was an object with valid references still is.
LEMMA ObjectsStay ==
  ASSUME RefsGrow
  PROVE  /\ Seq(BindingSlot) \subseteq Seq(BindingSlot')
         /\ Seq(DescriptorSetInfo) \subseteq Seq(DescriptorSetInfo')
         /\ Seq(SegmentInfo) \subseteq Seq(SegmentInfo')
         /\ Seq(Refs(bindingSlots)) \subseteq Seq(Refs(bindingSlots'))
<1>1. /\ Seq(Refs(bindingSlots)) \subseteq Seq(Refs(bindingSlots'))
      /\ Seq(Refs(descriptorSetInfos)) \subseteq Seq(Refs(descriptorSetInfos'))
      /\ Seq(Refs(pushConstRanges)) \subseteq Seq(Refs(pushConstRanges'))
      /\ Seq(ConstantRefs) \subseteq Seq(ConstantRefs')
  BY SeqSubset DEF RefsGrow
<1>2. BindingSlot \subseteq BindingSlot'
  BY DEF RefsGrow, BindingSlot
<1>3. DescriptorSetInfo \subseteq DescriptorSetInfo'
  BY <1>1 DEF DescriptorSetInfo
<1>4. SegmentInfo \subseteq SegmentInfo'
  BY <1>1 DEF RefsGrow, SegmentInfo
<1>5. QED
  BY <1>1, <1>2, <1>3, <1>4, SeqSubset

LEMMA ReferencesInit == Init => ReferencesInv
<1> SUFFICES ASSUME Init PROVE ReferencesInv
  OBVIOUS
<1>1. ConstantsInv /\ constsMetaData = <<>> /\ ~finished
  BY ConstantsInitInv DEF Init, ConstantsInit
<1>2. ObjectsOK
  BY EmptySeq, TablesAssumption DEF Init, ObjectsOK
<1>3. Len(constsMetaData) = 0
  BY <1>1, EmptySeq
<1>4. 1 .. Len(constsMetaData) = {}
  BY <1>3
<1>5. ConstantsOK
  BY <1>1, <1>4 DEF Init, ConstantsOK
<1>6. FileOK
  BY <1>1 DEF Init, FileOK
<1>7. QED
  BY <1>2, <1>5, <1>6 DEF ReferencesInv

\* The constants, by an action that leaves them alone.
LEMMA ConstantsStay ==
  ASSUME ConstantsOK, UNCHANGED <<encodingFailed, constsMetaData, constsData, constDataOffset, added, failedRef>>,
         finished' \in BOOLEAN,
         Refs(resourceRecords) \subseteq Refs(resourceRecords')
  PROVE  ConstantsOK' /\ ConstantRefs' = ConstantRefs
<1>1. ConstantsInv'
  BY TilingUnchanged DEF ConstantsOK, ConstantsInv, ConstantsTypeOK
<1>2. QED
  BY <1>1 DEF ConstantsOK, ConstantRefs

\* No file, before and after.
LEMMA NoFileYet ==
  ASSUME FileOK, ~finished, UNCHANGED <<finished, file>>
  PROVE  FileOK'
BY DEF FileOK

--------------------------------------------------------------------------------
\* One lemma for each action.

LEMMA AddModuleRefs ==
  ASSUME ReferencesInv, NEW type \in ModuleTypes, NEW code \in ModuleCodes, AddModule(type, code)
  PROVE  ReferencesInv' /\ RefsGrow
<1> DEFINE module == [type |-> type, code |-> code]
<1>1. /\ modules' = Append(modules, module) /\ ~finished
      /\ UNCHANGED <<constantVars, resourceRecords, bindingSlots, descriptorSetInfos,
                     pushConstRanges, segmentInfos, modelSequence, failedRef, file>>
  BY DEF AddModule, CanAdd
<1>2. module \in Module
  BY DEF Module
<1> HIDE DEF module
<1>3. modules' \in Seq(Module) /\ Refs(modules) \subseteq Refs(modules')
  BY <1>1, <1>2, AppendLemma2 DEF ReferencesInv, ObjectsOK
<1>4. ConstantsOK' /\ ConstantRefs' = ConstantRefs
  BY <1>1, ConstantsStay DEF constantVars, ReferencesInv, ConstantsOK, ConstantsInv, ConstantsTypeOK
<1>5. RefsGrow
  BY <1>1, <1>3, <1>4 DEF RefsGrow
<1>6. ObjectsOK'
  BY <1>1, <1>3, <1>5, ObjectsStay DEF ReferencesInv, ObjectsOK, BindingSlot, DescriptorSetInfo, Module, ResourceRecord
<1>7. QED
  BY <1>5, <1>1, <1>4, <1>6, NoFileYet DEF ReferencesInv, constantVars

LEMMA AddResourceRefs ==
  ASSUME ReferencesInv, NEW category \in Categories, NEW group \in AliasGroups \cup {U32Max},
         AddModelResourceTableEntry(category, group)
  PROVE  ReferencesInv' /\ RefsGrow
<1> DEFINE record == [category |-> category, aliasGroup |-> group, sampler |-> {}]
<1>1. /\ resourceRecords' = Append(resourceRecords, record) /\ ~finished
      /\ UNCHANGED <<constantVars, modules, bindingSlots, descriptorSetInfos,
                     pushConstRanges, segmentInfos, modelSequence, failedRef, file>>
  BY DEF AddModelResourceTableEntry, CanAdd
<1>2. record \in ResourceRecord
  BY DEF ResourceRecord
<1> HIDE DEF record
<1>3. resourceRecords' \in Seq(ResourceRecord) /\ Refs(resourceRecords) \subseteq Refs(resourceRecords')
  BY <1>1, <1>2, AppendLemma2 DEF ReferencesInv, ObjectsOK
<1>4. ConstantsOK' /\ ConstantRefs' = ConstantRefs
  BY <1>1, <1>3, ConstantsStay DEF constantVars, ReferencesInv, ConstantsOK, ConstantsInv, ConstantsTypeOK
<1>5. RefsGrow
  BY <1>1, <1>3, <1>4 DEF RefsGrow
<1>6. ObjectsOK'
  BY <1>1, <1>3, <1>5, ObjectsStay DEF ReferencesInv, ObjectsOK
<1>7. QED
  BY <1>5, <1>1, <1>4, <1>6, NoFileYet DEF ReferencesInv, constantVars

\* A record that is changed stays a record in its place.
LEMMA ChangeResourceRefs ==
  ASSUME ReferencesInv, NEW i \in 1 .. Len(resourceRecords), NEW record \in ResourceRecord,
         resourceRecords' = [resourceRecords EXCEPT ![i] = record], ~finished,
         UNCHANGED <<constantVars, modules, bindingSlots, descriptorSetInfos,
                     pushConstRanges, segmentInfos, modelSequence, failedRef, file>>
  PROVE  ReferencesInv' /\ RefsGrow
<1>1. resourceRecords' \in Seq(ResourceRecord) /\ Len(resourceRecords') = Len(resourceRecords)
  BY DEF ReferencesInv, ObjectsOK
<1>2. Refs(resourceRecords) \subseteq Refs(resourceRecords')
  BY <1>1 DEF Refs
<1>3. ConstantsOK' /\ ConstantRefs' = ConstantRefs
  BY <1>2, ConstantsStay DEF constantVars, ReferencesInv, ConstantsOK, ConstantsInv, ConstantsTypeOK
<1>4. RefsGrow
  BY <1>2, <1>3 DEF RefsGrow
<1>5. ObjectsOK'
  BY <1>1, <1>4, ObjectsStay DEF ReferencesInv, ObjectsOK
<1>6. QED
  BY <1>4, <1>3, <1>5, NoFileYet DEF ReferencesInv, constantVars

LEMMA AddSamplerConfigRefs ==
  ASSUME ReferencesInv, NEW resource \in Refs(resourceRecords), NEW config \in SamplerConfigs,
         AddSamplerConfig(resource, config)
  PROVE  ReferencesInv' /\ RefsGrow
<1> DEFINE record == [resourceRecords[resource + 1] EXCEPT !.sampler = {config}]
<1>1. /\ resource + 1 \in 1 .. Len(resourceRecords)
      /\ resourceRecords[resource + 1] \in ResourceRecord
  BY DEF Refs, ReferencesInv, ObjectsOK
<1>2. record \in ResourceRecord
  BY <1>1 DEF ResourceRecord
<1>3. resourceRecords' = [resourceRecords EXCEPT ![resource + 1] = record]
  BY DEF AddSamplerConfig
<1> HIDE DEF record
<1>4. QED
  BY <1>1, <1>2, <1>3, ChangeResourceRefs DEF AddSamplerConfig

LEMMA SetAliasGroupRefs ==
  ASSUME ReferencesInv, NEW resource \in Refs(resourceRecords), NEW group \in AliasGroups,
         SetAliasGroup(resource, group)
  PROVE  ReferencesInv' /\ RefsGrow
<1> DEFINE record == WithAliasGroup(resourceRecords[resource + 1], group)
<1>1. /\ resource + 1 \in 1 .. Len(resourceRecords)
      /\ resourceRecords[resource + 1] \in ResourceRecord
  BY DEF Refs, ReferencesInv, ObjectsOK
<1>2. record \in ResourceRecord
  BY <1>1 DEF ResourceRecord, WithAliasGroup
<1>3. resourceRecords' = [resourceRecords EXCEPT ![resource + 1] = record]
  BY DEF SetAliasGroup
<1> HIDE DEF record
<1>4. QED
  BY <1>1, <1>2, <1>3, ChangeResourceRefs DEF SetAliasGroup

LEMMA AddBindingSlotRefs ==
  ASSUME ReferencesInv, NEW binding \in Nat, NEW resource \in Refs(resourceRecords),
         AddBindingSlot(binding, resource)
  PROVE  ReferencesInv' /\ RefsGrow
<1> DEFINE slot == [binding |-> binding, mrtIndex |-> resource]
<1>1. /\ bindingSlots' = Append(bindingSlots, slot) /\ ~finished
      /\ UNCHANGED <<constantVars, modules, resourceRecords, descriptorSetInfos,
                     pushConstRanges, segmentInfos, modelSequence, failedRef, file>>
  BY DEF AddBindingSlot, CanAdd
<1>2. slot \in BindingSlot
  BY DEF BindingSlot
<1> HIDE DEF slot
<1>3. bindingSlots' \in Seq(BindingSlot) /\ Refs(bindingSlots) \subseteq Refs(bindingSlots')
  BY <1>1, <1>2, AppendLemma2 DEF ReferencesInv, ObjectsOK
<1>4. ConstantsOK' /\ ConstantRefs' = ConstantRefs
  BY <1>1, ConstantsStay DEF constantVars, ReferencesInv, ConstantsOK, ConstantsInv, ConstantsTypeOK
<1>5. RefsGrow
  BY <1>1, <1>3, <1>4 DEF RefsGrow
<1>6. ObjectsOK'
  BY <1>1, <1>3, <1>5, ObjectsStay DEF ReferencesInv, ObjectsOK
<1>7. QED
  BY <1>5, <1>1, <1>4, <1>6, NoFileYet DEF ReferencesInv, constantVars

LEMMA AddDescriptorSetInfoRefs ==
  ASSUME ReferencesInv, NEW bindings \in Seq(Refs(bindingSlots)), NEW setIndex \in SetIndices,
         AddDescriptorSetInfo(bindings, setIndex)
  PROVE  ReferencesInv' /\ RefsGrow
<1> DEFINE info == [bindings |-> bindings, setIndex |-> setIndex]
<1>1. /\ descriptorSetInfos' = Append(descriptorSetInfos, info) /\ ~finished
      /\ UNCHANGED <<constantVars, modules, resourceRecords, bindingSlots,
                     pushConstRanges, segmentInfos, modelSequence, failedRef, file>>
  BY DEF AddDescriptorSetInfo, CanAdd
<1>2. info \in DescriptorSetInfo
  BY DEF DescriptorSetInfo
<1> HIDE DEF info
<1>3. /\ descriptorSetInfos' \in Seq(DescriptorSetInfo)
      /\ Refs(descriptorSetInfos) \subseteq Refs(descriptorSetInfos')
  BY <1>1, <1>2, AppendLemma2 DEF ReferencesInv, ObjectsOK
<1>4. ConstantsOK' /\ ConstantRefs' = ConstantRefs
  BY <1>1, ConstantsStay DEF constantVars, ReferencesInv, ConstantsOK, ConstantsInv, ConstantsTypeOK
<1>5. RefsGrow
  BY <1>1, <1>3, <1>4 DEF RefsGrow
<1>6. ObjectsOK'
  BY <1>1, <1>3, <1>5, ObjectsStay DEF ReferencesInv, ObjectsOK
<1>7. QED
  BY <1>5, <1>1, <1>4, <1>6, NoFileYet DEF ReferencesInv, constantVars

LEMMA AddPushConstRangeRefs ==
  ASSUME ReferencesInv, NEW range \in PushConstRanges, AddPushConstRange(range)
  PROVE  ReferencesInv' /\ RefsGrow
<1>1. /\ pushConstRanges' = Append(pushConstRanges, range) /\ ~finished
      /\ UNCHANGED <<constantVars, modules, resourceRecords, bindingSlots,
                     descriptorSetInfos, segmentInfos, modelSequence, failedRef, file>>
  BY DEF AddPushConstRange, CanAdd
<1>2. /\ pushConstRanges' \in Seq(PushConstRanges)
      /\ Refs(pushConstRanges) \subseteq Refs(pushConstRanges')
  BY <1>1, AppendLemma2 DEF ReferencesInv, ObjectsOK
<1>3. ConstantsOK' /\ ConstantRefs' = ConstantRefs
  BY <1>1, ConstantsStay DEF constantVars, ReferencesInv, ConstantsOK, ConstantsInv, ConstantsTypeOK
<1>4. RefsGrow
  BY <1>1, <1>2, <1>3 DEF RefsGrow
<1>5. ObjectsOK'
  BY <1>1, <1>2, <1>4, ObjectsStay DEF ReferencesInv, ObjectsOK
<1>6. QED
  BY <1>4, <1>1, <1>3, <1>5, NoFileYet DEF ReferencesInv, constantVars

LEMMA AddSegmentInfoRefs ==
  ASSUME ReferencesInv, NEW module \in Refs(modules), NEW sets \in Seq(Refs(descriptorSetInfos)),
         NEW inputs \in Seq(Refs(bindingSlots)), NEW outputs \in Seq(Refs(bindingSlots)),
         NEW constants \in Seq(ConstantRefs), NEW ranges \in Seq(Refs(pushConstRanges)),
         AddSegmentInfo(module, sets, inputs, outputs, constants, ranges)
  PROVE  ReferencesInv' /\ RefsGrow
<1> DEFINE segment == [type |-> modules[module + 1].type, module |-> module, sets |-> sets,
                       inputs |-> inputs, outputs |-> outputs, constants |-> constants,
                       pushConstRanges |-> ranges]
<1>1. /\ segmentInfos' = Append(segmentInfos, segment) /\ ~finished
      /\ Len(segmentInfos) < MaxSegments
      /\ UNCHANGED <<constantVars, modules, resourceRecords, bindingSlots,
                     descriptorSetInfos, pushConstRanges, modelSequence, failedRef, file>>
  BY DEF AddSegmentInfo, CanAdd
<1>2. segment \in SegmentInfo
  <2>1. modules[module + 1].type \in ModuleTypes
    <3>1. module + 1 \in 1 .. Len(modules) /\ modules \in Seq(Module)
      BY DEF Refs, ReferencesInv, ObjectsOK
    <3>2. modules[module + 1] \in Module
      BY <3>1
    <3>3. QED
      BY <3>2 DEF Module
  <2>2. QED
    BY <2>1 DEF SegmentInfo
<1> HIDE DEF segment
<1>3. segmentInfos' \in Seq(SegmentInfo) /\ Len(segmentInfos') <= MaxSegments
  <2>1. segmentInfos' \in Seq(SegmentInfo) /\ Len(segmentInfos') = Len(segmentInfos) + 1
    BY <1>1, <1>2, AppendLemma2 DEF ReferencesInv, ObjectsOK
  <2>2. Len(segmentInfos) \in Nat /\ MaxSegments \in Nat
    BY TablesAssumption DEF ReferencesInv, ObjectsOK
  <2>3. QED
    BY <1>1, <2>1, <2>2
<1>4. ConstantsOK' /\ ConstantRefs' = ConstantRefs
  BY <1>1, ConstantsStay DEF constantVars, ReferencesInv, ConstantsOK, ConstantsInv, ConstantsTypeOK
<1>5. RefsGrow
  BY <1>1, <1>4 DEF RefsGrow
<1>6. ObjectsOK'
  BY <1>1, <1>3, <1>5, ObjectsStay DEF ReferencesInv, ObjectsOK
<1>7. QED
  BY <1>5, <1>1, <1>4, <1>6, NoFileYet DEF ReferencesInv, constantVars

LEMMA AddIORefs ==
  ASSUME ReferencesInv, NEW inputs \in Seq(Refs(bindingSlots)), NEW outputs \in Seq(Refs(bindingSlots)),
         NEW inputNames, NEW outputNames,
         AddModelSequenceInputsOutputs(inputs, inputNames, outputs, outputNames)
  PROVE  ReferencesInv' /\ RefsGrow
<1>1. /\ modelSequence'.inputs = modelSequence.inputs \o inputs
      /\ modelSequence'.outputs = modelSequence.outputs \o outputs
      /\ ~finished
      /\ UNCHANGED <<constantVars, modules, resourceRecords, bindingSlots, descriptorSetInfos,
                     pushConstRanges, segmentInfos, failedRef, file>>
  BY DEF AddModelSequenceInputsOutputs
<1>2. /\ modelSequence'.inputs \in Seq(Refs(bindingSlots))
      /\ modelSequence'.outputs \in Seq(Refs(bindingSlots))
  BY <1>1, ConcatProperties DEF ReferencesInv, ObjectsOK
<1>3. ConstantsOK' /\ ConstantRefs' = ConstantRefs
  BY <1>1, ConstantsStay DEF constantVars, ReferencesInv, ConstantsOK, ConstantsInv, ConstantsTypeOK
<1>4. RefsGrow
  BY <1>1, <1>3 DEF RefsGrow
<1>5. ObjectsOK'
  BY <1>1, <1>2, <1>4, ObjectsStay DEF ReferencesInv, ObjectsOK
<1>6. QED
  BY <1>4, <1>1, <1>3, <1>5, NoFileYet DEF ReferencesInv, constantVars

\* A constant that is placed refers to the resource it was added to; one that
\* is refused leaves the failure flag set, and the client UINT32_MAX.
LEMMA AddConstantRefs ==
  ASSUME ReferencesInv, NEW resource \in Refs(resourceRecords) \cap Resources,
         NEW size \in DataSizes, NEW sparsity \in Sparsities, AddConstantTo(resource, size, sparsity)
  PROVE  ReferencesInv' /\ RefsGrow
<1>1. /\ ~finished /\ UNCHANGED finished
      /\ UNCHANGED <<modules, resourceRecords, bindingSlots, descriptorSetInfos,
                     pushConstRanges, segmentInfos, modelSequence, file>>
  BY DEF AddConstantTo, AddConstant, RejectConstant
<1>2. ConstantsOK' /\ ConstantRefs \subseteq ConstantRefs'
  <2>1. CASE AddConstant(resource, size, sparsity) /\ UNCHANGED failedRef
    <3>1. ConstantsInv'
      BY <2>1, AddConstantInv DEF ReferencesInv, ConstantsOK
    <3>2. /\ Len(constsMetaData') = Len(constsMetaData) + 1
          /\ \A k \in 1 .. Len(constsMetaData) : constsMetaData'[k] = constsMetaData[k]
          /\ constsMetaData'[Len(constsMetaData) + 1] = Record(resource, size, sparsity)
      BY <2>1, AddConstantEffect DEF ReferencesInv, ConstantsOK
    <3>3. Len(constsMetaData) \in Nat
      BY DEF ReferencesInv, ConstantsOK, ConstantsInv, ConstantsTypeOK
    <3>4. ASSUME NEW k \in 1 .. Len(constsMetaData')
          PROVE  constsMetaData'[k].mrtIndex \in Refs(resourceRecords)
      <4>1. CASE k \in 1 .. Len(constsMetaData)
        BY <4>1, <3>2 DEF ReferencesInv, ConstantsOK
      <4>2. CASE k = Len(constsMetaData) + 1
        BY <4>2, <3>2 DEF Record
      <4>3. QED
        BY <4>1, <4>2, <3>2, <3>3
    <3>5. Refs(constsMetaData) \subseteq Refs(constsMetaData')
      BY <3>2, <3>3 DEF Refs
    <3>6. encodingFailed' = encodingFailed
      BY <2>1 DEF AddConstant
    <3>7. QED
      BY <2>1, <1>1, <3>1, <3>4, <3>5, <3>6 DEF ReferencesInv, ConstantsOK, ConstantRefs
  <2>2. CASE RejectConstant(size) /\ failedRef' = TRUE
    <3>1. ConstantsInv'
      BY <2>2, RejectConstantInv DEF ReferencesInv, ConstantsOK
    <3>2. QED
      BY <2>2, <1>1, <3>1 DEF RejectConstant, ReferencesInv, ConstantsOK, ConstantRefs
  <2>3. QED
    BY <2>1, <2>2 DEF AddConstantTo
<1>3. RefsGrow
  BY <1>1, <1>2 DEF RefsGrow
<1>4. ObjectsOK'
  BY <1>1, <1>3, ObjectsStay DEF ReferencesInv, ObjectsOK
<1>5. QED
  BY <1>3, <1>1, <1>2, <1>4, NoFileYet DEF ReferencesInv

\* The tables are made of nothing but the objects.
LEMMA TablesFrozen ==
  ASSUME UNCHANGED <<modules, resourceRecords, bindingSlots, descriptorSetInfos,
                     pushConstRanges, segmentInfos, modelSequence, constsMetaData>>
  PROVE  Tables' = Tables
BY DEF Tables, Segments, SetInfos, Objects

LEMMA FinishRefs ==
  ASSUME ReferencesInv, \/ Finish
                        \/ UNCHANGED vars
  PROVE  ReferencesInv' /\ RefsGrow
<1>1. /\ UNCHANGED <<encodingFailed, constsMetaData, constsData, constDataOffset, added, failedRef>>
      /\ UNCHANGED <<modules, resourceRecords, bindingSlots, descriptorSetInfos,
                     pushConstRanges, segmentInfos, modelSequence>>
      /\ \/ finished' = TRUE /\ file' = {Tables}
         \/ UNCHANGED <<finished, file>>
  BY DEF Finish, vars, constantVars, tableVars
<1>2. Tables' = Tables
  BY <1>1, TablesFrozen
<1>3. ConstantsOK' /\ ConstantRefs' = ConstantRefs
  BY <1>1, ConstantsStay DEF ReferencesInv, ConstantsOK, ConstantsInv, ConstantsTypeOK
<1>4. RefsGrow
  BY <1>1, <1>3 DEF RefsGrow
<1>5. ObjectsOK'
  BY <1>1, <1>4, ObjectsStay DEF ReferencesInv, ObjectsOK
<1>6. FileOK'
  BY <1>1, <1>2 DEF ReferencesInv, FileOK
<1>7. QED
  BY <1>4, <1>3, <1>5, <1>6 DEF ReferencesInv

\* ReferencesInv is inductive.
LEMMA ReferencesStep == ReferencesInv /\ [Next]_vars => ReferencesInv'
<1> SUFFICES ASSUME ReferencesInv, [Next]_vars PROVE ReferencesInv'
  OBVIOUS
<1>1. CASE AddReferringObject
  <2>1. \A S : ListsOf(S) \subseteq Seq(S)
    BY ListLemma
  <2>2. QED
    BY <1>1, <2>1, AddBindingSlotRefs, AddDescriptorSetInfoRefs, AddSegmentInfoRefs, AddIORefs
    DEF AddReferringObject
<1>2. CASE AddConstantToResource
  BY <1>2, AddConstantRefs DEF AddConstantToResource
<1>3. QED
  BY <1>1, <1>2, AddModuleRefs, AddResourceRefs, AddSamplerConfigRefs, SetAliasGroupRefs,
     AddPushConstRangeRefs, FinishRefs DEF Next

THEOREM ReferencesInvariance == Spec => []ReferencesInv
BY ReferencesInit, ReferencesStep, PTL DEF Spec

--------------------------------------------------------------------------------
\* Every variable keeps its type, and there is a file once Finish was called.
THEOREM TablesTypeCorrect == Spec => []TypeOK
<1>1. ASSUME ReferencesInv, NamesInv PROVE TypeOK
  <2>1. bindingSlots \in Seq([binding : Nat, mrtIndex : Nat])
    <3>1. BindingSlot \subseteq [binding : Nat, mrtIndex : Nat]
      BY DEF BindingSlot, Refs
    <3>2. QED
      BY <1>1, <3>1, SeqSubset DEF ReferencesInv, ObjectsOK
  <2>2. descriptorSetInfos \in Seq([bindings : Seq(Nat), setIndex : SetIndices])
    <3>1. Seq(Refs(bindingSlots)) \subseteq Seq(Nat)
      BY SeqSubset DEF Refs
    <3>2. DescriptorSetInfo \subseteq [bindings : Seq(Nat), setIndex : SetIndices]
      BY <3>1 DEF DescriptorSetInfo
    <3>3. QED
      BY <1>1, <3>2, SeqSubset DEF ReferencesInv, ObjectsOK
  <2>3. /\ Len(modelSequence.inputNames) <= Len(modelSequence.inputs)
        /\ Len(modelSequence.outputNames) <= Len(modelSequence.outputs)
    BY <1>1 DEF NamesInv, NamesMatch
  <2>4. Cardinality(file) = (IF finished THEN 1 ELSE 0)
    BY <1>1, FS_EmptySet, FS_Singleton DEF ReferencesInv, FileOK
  <2>5. QED
    BY <1>1, <2>1, <2>2, <2>3, <2>4 DEF TypeOK, ReferencesInv, ObjectsOK, ConstantsOK, ConstantsInv, Module
<1>2. ReferencesInv /\ NamesInv => TypeOK
  BY <1>1
<1>3. QED
  BY <1>2, ReferencesInvariance, NamesInitInv, NamesStepInv, PTL DEF Spec

\* What references stand for.
LEMMA ObjectsLemma ==
  ASSUME NEW S, NEW objects \in Seq(S), NEW refs \in Seq(Refs(objects))
  PROVE  Elements(Objects(objects, refs)) \subseteq S
<1> SUFFICES ASSUME NEW e \in Elements(Objects(objects, refs)) PROVE e \in S
  OBVIOUS
<1>1. Len(refs) \in Nat /\ Len(Objects(objects, refs)) = Len(refs)
  BY DEF Objects
<1>2. PICK i \in 1 .. Len(refs) : e = objects[refs[i] + 1]
  BY <1>1 DEF Elements, Objects
<1>3. refs[i] \in 0 .. Len(objects) - 1
  BY <1>2 DEF Refs
<1>4. refs[i] + 1 \in 1 .. Len(objects)
  BY <1>3
<1>5. QED
  BY <1>2, <1>4

LEMMA ReferencesInvValid ==
  ASSUME ReferencesInv
  PROVE  ReferencesValid
<1>0. SUFFICES ASSUME ~encodingFailed, finished PROVE validateParsedReferences(Tables)
  BY DEF ReferencesInv, FileOK, ReferencesValid
<1> DEFINE InBounds(slots) == \A slot \in Elements(slots) : slot.mrtIndex < Len(resourceRecords)
<1>1. ASSUME NEW refs \in Seq(Refs(bindingSlots))
      PROVE  InBounds(Objects(bindingSlots, refs))
  <2>1. Elements(Objects(bindingSlots, refs)) \subseteq BindingSlot
    BY ObjectsLemma DEF ReferencesInv, ObjectsOK
  <2>2. Len(resourceRecords) \in Nat
    BY DEF ReferencesInv, ObjectsOK
  <2>3. QED
    BY <2>1, <2>2 DEF BindingSlot, Refs
<1> HIDE DEF InBounds
<1>2. ConstantRefs = Refs(constsMetaData)
  BY <1>0 DEF ReferencesInv, ConstantsOK, ConstantRefs
<1>3. /\ InBounds(Tables.inputs) /\ InBounds(Tables.outputs)
  BY <1>1 DEF ReferencesInv, ObjectsOK, Tables
<1>4. \A constant \in Elements(Tables.constants) : constant.mrtIndex < Len(Tables.resources)
  <2>1. Len(resourceRecords) \in Nat
    BY DEF ReferencesInv, ObjectsOK
  <2>2. \A k \in 1 .. Len(constsMetaData) : constsMetaData[k].mrtIndex < Len(resourceRecords)
    BY <2>1 DEF ReferencesInv, ConstantsOK, Refs
  <2>3. QED
    BY <2>2 DEF Tables, Elements
<1>5. ASSUME NEW segment \in Elements(Tables.segments)
      PROVE  /\ segment.module < Len(Tables.modules)
             /\ InBounds(segment.inputs) /\ InBounds(segment.outputs)
             /\ \A set \in Elements(segment.sets) : InBounds(set.bindings)
             /\ \A constant \in Elements(segment.constants) : constant < Len(Tables.constants)
  <2>1. PICK i \in 1 .. Len(segmentInfos) :
          segment = [segmentInfos[i] EXCEPT !.sets = SetInfos(@),
                           !.inputs = Objects(bindingSlots, @),
                           !.outputs = Objects(bindingSlots, @),
                           !.pushConstRanges = Objects(pushConstRanges, @)]
    <3>1. Tables.segments = Segments
      BY DEF Tables
    <3>2. Len(segmentInfos) \in Nat
      BY DEF ReferencesInv, ObjectsOK
    <3>3. /\ DOMAIN Segments = 1 .. Len(segmentInfos)
          /\ Len(Segments) = Len(segmentInfos)
      BY <3>2 DEF Segments
    <3>4. PICK i \in 1 .. Len(segmentInfos) : segment = Segments[i]
      BY <3>1, <3>3 DEF Elements
    <3>5. QED
      BY <3>4 DEF Segments
  <2> DEFINE info == segmentInfos[i]
  <2>2. info \in SegmentInfo
    BY DEF ReferencesInv, ObjectsOK
  <2>3. /\ segment.module = info.module /\ segment.constants = info.constants
        /\ segment.inputs = Objects(bindingSlots, info.inputs)
        /\ segment.outputs = Objects(bindingSlots, info.outputs)
        /\ segment.sets = SetInfos(info.sets)
    BY <2>1, <2>2 DEF SegmentInfo
  <2> HIDE DEF info
  <2>4. /\ info.module \in Refs(modules) /\ info.constants \in Seq(Refs(constsMetaData))
        /\ info.inputs \in Seq(Refs(bindingSlots)) /\ info.outputs \in Seq(Refs(bindingSlots))
        /\ info.sets \in Seq(Refs(descriptorSetInfos))
    BY <1>2, <2>2 DEF SegmentInfo
  <2>5. segment.module < Len(Tables.modules)
    <3>1. Len(modules) \in Nat
      BY DEF ReferencesInv, ObjectsOK
    <3>2. QED
      BY <3>1, <2>3, <2>4 DEF Tables, Refs
  <2>6. InBounds(segment.inputs) /\ InBounds(segment.outputs)
    BY <1>1, <2>3, <2>4
  <2>7. ASSUME NEW constant \in Elements(segment.constants)
        PROVE  constant < Len(Tables.constants)
    <3>1. Len(constsMetaData) \in Nat
      BY DEF ReferencesInv, ConstantsOK, ConstantsInv, ConstantsTypeOK
    <3>2. constant \in Refs(constsMetaData)
      BY <2>3, <2>4 DEF Elements
    <3>3. QED
      BY <3>1, <3>2 DEF Tables, Refs
  <2>8. ASSUME NEW set \in Elements(segment.sets)
        PROVE  InBounds(set.bindings)
    <3> DEFINE infos == Objects(descriptorSetInfos, info.sets)
    <3>0. descriptorSetInfos \in Seq(DescriptorSetInfo)
      BY DEF ReferencesInv, ObjectsOK
    <3>1. /\ Elements(infos) \subseteq DescriptorSetInfo
          /\ Len(infos) \in Nat
      <4>1. Elements(infos) \subseteq DescriptorSetInfo
        BY <3>0, <2>4, ObjectsLemma
      <4>2. infos = [k \in 1 .. Len(info.sets) |-> descriptorSetInfos[info.sets[k] + 1]]
        BY DEF Objects
      <4>3. Len(info.sets) \in Nat
        BY <2>4
      <4> HIDE DEF infos
      <4>4. QED
        BY <4>1, <4>2, <4>3
    <3>2. PICK j \in 1 .. Len(infos) :
            set = [infos[j] EXCEPT !.bindings = Objects(bindingSlots, @)]
      <4>1. segment.sets = [j \in 1 .. Len(infos) |->
                              [infos[j] EXCEPT !.bindings = Objects(bindingSlots, @)]]
        BY <2>3 DEF SetInfos
      <4> HIDE DEF infos
      <4>2. QED
        BY <4>1, <3>1 DEF Elements
    <3>3. infos[j] \in DescriptorSetInfo
      BY <3>1, <3>2 DEF Elements
    <3> HIDE DEF infos
    <3>4. set.bindings = Objects(bindingSlots, infos[j].bindings)
      BY <3>2, <3>3 DEF DescriptorSetInfo
    <3>5. infos[j].bindings \in Seq(Refs(bindingSlots))
      BY <3>3 DEF DescriptorSetInfo
    <3>6. QED
      BY <3>4, <3>5, <1>1
  <2>9. QED
    BY <2>5, <2>6, <2>7, <2>8
<1>6. Tables.resources = resourceRecords
  BY DEF Tables
<1>7. QED
  BY <1>3, <1>4, <1>5, <1>6 DEF validateParsedReferences, InBounds

\* Whatever the encoder writes passes vgf_dump's check of the references.
THEOREM ReferencesAreValid == Spec => []ReferencesValid
<1>1. ReferencesInv => ReferencesValid
  BY ReferencesInvValid
<1>2. QED
  BY <1>1, ReferencesInvariance, PTL
================================================================================
