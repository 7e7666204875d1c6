---------------------------- MODULE MCEncoderTables ----------------------------
(***************************************************************************)
(* EncoderTables in three regions that do not meet: references between the *)
(* sections, with constants that are refused; names given over several     *)
(* calls; alias groups and samplers.                                       *)
(***************************************************************************)
EXTENDS EncoderTables

NotSparse == {-1}
MinusEight == -8
SomeCodes == {[shader |-> "SPIRV", text |-> "code"]}

PlainResource(category) == [category |-> category, aliasGroup |-> U32Max, sampler |-> {}]

\* No names, and at most one reference of a kind in a list.
ReferencesOnly ==
  /\ Len(resourceRecords) <= 2
  /\ Elements(resourceRecords) \subseteq {PlainResource("INPUT"), PlainResource("CONSTANT")}
  /\ modelSequence.inputNames = <<>> /\ modelSequence.outputNames = <<>>
  /\ Len(modelSequence.inputs) <= 1 /\ Len(modelSequence.outputs) <= 1
  /\ \A set \in Elements(descriptorSetInfos) : Len(set.bindings) <= 1
  /\ \A segment \in Elements(segmentInfos) :
       \A list \in {segment.sets, segment.inputs, segment.outputs, segment.constants,
                    segment.pushConstRanges} : Len(list) <= 1

\* Names on bindings of one plain resource, or several resources without
\* bindings.
NamesOrGroups ==
  /\ modules = <<>> /\ descriptorSetInfos = <<>> /\ pushConstRanges = <<>>
  /\ constsMetaData = <<>> /\ ~encodingFailed
  /\ bindingSlots # <<>> => resourceRecords = <<PlainResource("INPUT")>>

Regions == ReferencesOnly \/ NamesOrGroups
================================================================================
