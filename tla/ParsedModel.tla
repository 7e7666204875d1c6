------------------------------ MODULE ParsedModel ------------------------------
(***************************************************************************)
(* What utils/src/parse_vgf.cpp and vgf_dump make of the decoded tables of *)
(* a VGF file.  A file's tables are a record                               *)
(*   [modules, resources, segments, inputs, inputNames, outputs,           *)
(*    outputNames, constants]                                              *)
(* of sequences; a binding slot is [binding, mrtIndex], references count   *)
(* from 0, and U32Max is the "not set" value of every uint32_t field.      *)
(***************************************************************************)
EXTENDS Naturals, Sequences

CONSTANT U32Max   \* std::numeric_limits<uint32_t>::max()

Elements(seq) == {seq[i] : i \in 1 .. Len(seq)}

\* The name of a binding that has none.
NoName == "unnamed"

\* Too few names are given to the first bindings.
mergeBug(bindings, names) ==
  [i \in 1 .. Len(bindings) |->
     [slot |-> bindings[i],
      name |-> IF i \in 1 .. Len(names) THEN names[i] ELSE NoName]]

\* Names count only if there is one for each binding.
merge(bindings, names) ==
  [i \in 1 .. Len(bindings) |->
     [slot |-> bindings[i],
      name |-> IF Len(names) = Len(bindings) THEN names[i] ELSE NoName]]

\* A set without an explicit index takes its position in the segment.
getSegmentDescriptorSetIndex(setIndex, position) ==
  IF setIndex # U32Max THEN setIndex ELSE position

parseSegment(segment) ==
  [segment EXCEPT !.sets =
     [j \in 1 .. Len(segment.sets) |->
        [segment.sets[j] EXCEPT !.setIndex = getSegmentDescriptorSetIndex(@, j - 1)]]]

parseModelSequenceTable(file) ==
  [segments |-> [i \in 1 .. Len(file.segments) |-> parseSegment(file.segments[i])],
   inputs |-> merge(file.inputs, file.inputNames),
   outputs |-> merge(file.outputs, file.outputNames)]

\* The cross-section references of a file are all in bounds: vgf_dump
\* throws on the first that is not.
validateParsedReferences(file) ==
  LET slotsInBounds(slots) ==
        \A slot \in Elements(slots) : slot.mrtIndex < Len(file.resources)
  IN  /\ \A constant \in Elements(file.constants) : constant.mrtIndex < Len(file.resources)
      /\ slotsInBounds(file.inputs) /\ slotsInBounds(file.outputs)
      /\ \A segment \in Elements(file.segments) :
           /\ segment.module < Len(file.modules)
           /\ slotsInBounds(segment.inputs) /\ slotsInBounds(segment.outputs)
           /\ \A set \in Elements(segment.sets) : slotsInBounds(set.bindings)
           /\ \A constant \in Elements(segment.constants) : constant < Len(file.constants)
===============================================================================
