------------------------------ MODULE TableFormat ------------------------------
(***************************************************************************)
(* The tables of schema/vgf.fbs as the code FlatBuffers generates for them *)
(* (vgf_generated.h) verifies and reads them.  No field is required: one   *)
(* that is absent is {}, one that is there {its value}.  The verifier      *)
(* looks at offsets and lengths only, so an enumeration may hold a number  *)
(* no enumerator has, and a union may have a type and no value.            *)
(***************************************************************************)
EXTENDS ParsedModel, Integers

CONSTANTS
  Texts,             \* names and sources, "" among them
  DescriptorTypes, Formats, Shapes, SamplerConfigs, AliasGroups,
  SlotLists, SetIndices, IndexLists, DispatchShapes, PushConstRangeLists,
  MaxSets,           \* bound: descriptor sets of a segment
  RawSizes           \* sizes of the data of a legacy constant

ASSUME FormatAssumption ==
  /\ "" \in Texts
  /\ <<>> \in Shapes \cap SlotLists \cap IndexLists \cap PushConstRangeLists
  /\ MaxSets \in Nat /\ RawSizes \subseteq Nat
  /\ U32Max \notin AliasGroups

Unknown == "unknown"   \* a number no enumerator has

\* No descriptor type: NullOptDescriptorType().
NoDescriptorType == "none"

Optional(set) == {{}} \cup {{x} : x \in set}

Kinds == {"SPIRV", "GLSL", "HLSL"}

\* The value of a code union is a table of one optional field.
SPIRV == Optional(Texts)
GLSL == Optional(Texts)
HLSL == Optional(Texts)

Module ==
  [type : {"COMPUTE", "GRAPH", Unknown},
   name : Optional(Texts), entryPoint : Optional(Texts),
   codeType : Kinds \cup {"NONE", Unknown}, code : Optional(SPIRV \cup GLSL \cup HLSL)]

KnownCategories == {"INPUT", "OUTPUT", "INTERMEDIATE", "CONSTANT"}

Description == [shape : Optional(Shapes), strides : Optional(Shapes)]

ModelResourceTableEntry ==
  [descriptorType : DescriptorTypes \cup {NoDescriptorType}, format : Formats,
   category : KnownCategories \cup {Unknown}, description : Optional(Description),
   extraConfigType : {"NONE", "SamplerConfig", Unknown}, extraConfig : Optional(SamplerConfigs),
   aliasGroupId : AliasGroups \cup {U32Max}]

DescriptorSetInfo == [bindings : Optional(SlotLists), setIndex : SetIndices \cup {U32Max}]

SegmentInfo ==
  [type : {"COMPUTE", "GRAPH", Unknown}, name : Optional(Texts), moduleIndex : {0},
   sets : Optional(UNION {[1 .. n -> DescriptorSetInfo] : n \in 0 .. MaxSets}),
   inputs : Optional(SlotLists), outputs : Optional(SlotLists),
   constants : Optional(IndexLists), dispatchShape : Optional(DispatchShapes),
   pushConstRanges : Optional(PushConstRangeLists)]

\* The lists beside the segments.
ModelSequence ==
  [inputs : Optional(SlotLists), outputs : Optional(SlotLists),
   inputNames : Optional({<<>>, <<"a">>}), outputNames : Optional({<<>>, <<"a">>})]

ConstantData ==
  [mrtIndex : {0, U32Max}, sparsityDimension : {-2, -1, 0}, raw : Optional(RawSizes)]

--------------------------------------------------------------------------------
\* A section as a client gives it to Create: intact is the verdict of the
\* FlatBuffers verifier on its offsets and lengths.
VerifyImpl(buffer, sizeMax) ==
  /\ buffer.size <= IF sizeMax < U32Max THEN sizeMax ELSE U32Max
  /\ buffer.size >= 4
  /\ buffer.aligned
  /\ buffer.intact

VerifySemantic(segment) == \A shape \in segment.dispatchShape : Len(shape) = 3
================================================================================
