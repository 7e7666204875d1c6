------------------------------- MODULE MCReaders -------------------------------
(***************************************************************************)
(* TableRelay on one element of each table with every field absent, empty  *)
(* or there, and every enumeration known and not.                          *)
(***************************************************************************)
EXTENDS TableRelay

SomeShapes == {<<>>, <<2, 3>>}
Slot == [binding |-> 1, mrtIndex |-> 0]
SomeSlotLists == {<<>>, <<Slot>>}
SomeIndexLists == {<<>>, <<0, 1>>}
SomeDispatchShapes == {<<>>, <<4, 5>>, <<4, 5, 6>>}
SomeRanges == {<<>>, <<"range">>}

\* Inputs, outputs, constants and push constants vary one at a time.
SomeSegments ==
  {segment \in SegmentInfo :
     \/ segment.outputs = segment.inputs /\ segment.constants = {} /\ segment.pushConstRanges = {}
     \/ segment.sets = {} /\ segment.dispatchShape = {}}
================================================================================
