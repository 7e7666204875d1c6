----------------------------- MODULE TableDecoders -----------------------------
(***************************************************************************)
(* What the decoders of the FlatBuffers tables answer, to a C++ client     *)
(* (src/decoder.cpp), a C client (src/decoder_c_api.cpp) and a Python      *)
(* client (src/decoder_py.cpp).  The answers on one element are a record;  *)
(* a view or a handle is {} if its pointer is null, else {what is there}.  *)
(* Indices are below the sizes reported, and of a null handle a client     *)
(* asks only the size, which is 0.                                         *)
(***************************************************************************)
EXTENDS TableFormat

\* What is there, or default if nothing is.
Or(optional, default) == IF optional = {} THEN default ELSE CHOOSE x \in optional : TRUE

--------------------------------------------------------------------------------
\* The C++ decoders.  A number without an enumerator stops a debug build at
\* an assertion; a release build takes the first enumerator, and the bug
\* hands the number out.
fromVGFModuleTypeBug(type) == type

fromVGFModuleType(type) == IF type = Unknown THEN "COMPUTE" ELSE type

fromVGFResourceCategory(category) == IF category = Unknown THEN "INPUT" ELSE category

Asserts(value) == value = Unknown

\* The field of a code table, if the union has that type and the table is there.
CodeField(module, kind) == IF module.codeType = kind THEN UNION module.code ELSE {}

\* A union of the type counts as code.
HasCodeBug(module, kind) == module.codeType = kind

HasCode(module, kind) == \E text \in CodeField(module, kind) : text # ""

getModule(module) ==
  [type |-> fromVGFModuleType(module.type), name |-> module.name, entryPoint |-> module.entryPoint,
   is |-> {kind \in Kinds : module.codeType = kind},
   has |-> {kind \in Kinds : HasCode(module, kind)},
   code |-> [kind \in Kinds |-> CodeField(module, kind)]]

getResource(entry) ==
  [category |-> fromVGFResourceCategory(entry.category),
   descriptorType |-> {entry.descriptorType} \ {NoDescriptorType},
   format |-> entry.format,
   aliasGroup |-> {entry.aliasGroupId} \ {U32Max},
   shape |-> UNION {description.shape : description \in entry.description},
   strides |-> UNION {description.strides : description \in entry.description},
   sampler |-> IF entry.extraConfigType = "SamplerConfig" THEN entry.extraConfig ELSE {}]

getSets(segment) ==
  LET sets == Or(segment.sets, <<>>)
  IN  [j \in 1 .. Len(sets) |->
         [bindings |-> sets[j].bindings, setIndex |-> getSegmentDescriptorSetIndex(sets[j].setIndex, j - 1)]]

getSegment(segment) ==
  [type |-> fromVGFModuleType(segment.type), name |-> segment.name,
   moduleIndex |-> segment.moduleIndex, sets |-> getSets(segment),
   inputs |-> segment.inputs, outputs |-> segment.outputs, constants |-> segment.constants,
   dispatchShape |-> segment.dispatchShape, pushConstRanges |-> segment.pushConstRanges]

\* The legacy ConstantDecoderImpl; its creation refused dimensions below -1.
getConstant(constant) ==
  [data |-> constant.raw, mrtIndex |-> constant.mrtIndex,
   sparsityDimension |-> constant.sparsityDimension,
   isSparse |-> constant.sparsityDimension > -1]

--------------------------------------------------------------------------------
\* The C API hands out the pointers of the C++ views, of which an empty
\* source becomes a null pointer and a dispatch shape three numbers.
NotEmpty(view, empty) == view \ {empty}

cModule(module) ==
  [getModule(module) EXCEPT
     !.code["GLSL"] = NotEmpty(@, ""), !.code["HLSL"] = NotEmpty(@, "")]

\* The category is converted again, and the optionals become a flag and an
\* out-parameter that is written if there is a value.
cOptionalBug(optional) == {}

cOptional(optional) == optional

cResource(entry) == [getResource(entry) EXCEPT !.aliasGroup = cOptional(@),
                                               !.descriptorType = cOptional(@)]

cDispatchShape(view) ==
  IF Len(Or(view, <<>>)) # 3 THEN {<<0, 0, 0>>} ELSE view

cSegment(segment) == [getSegment(segment) EXCEPT !.dispatchShape = cDispatchShape(@)]

cConstant(constant) == getConstant(constant)

--------------------------------------------------------------------------------
\* In Python a view is a memoryview, or None if it is null or empty, and a
\* string without a pointer is an empty str.
pyDataView(view, empty) == NotEmpty(view, empty)

pyStr(view) == {Or(view, "")}

pyModule(module) ==
  [getModule(module) EXCEPT
     !.name = pyStr(@), !.entryPoint = pyStr(@), !.code["SPIRV"] = pyDataView(@, ""),
     !.code["GLSL"] = pyStr(@), !.code["HLSL"] = pyStr(@)]

pyResource(entry) ==
  [getResource(entry) EXCEPT !.shape = pyDataView(@, <<>>), !.strides = pyDataView(@, <<>>)]

pySegment(segment) ==
  [getSegment(segment) EXCEPT
     !.name = pyStr(@), !.constants = pyDataView(@, <<>>), !.dispatchShape = pyDataView(@, <<>>)]

pyConstant(constant) == [getConstant(constant) EXCEPT !.data = pyDataView(@, 0)]

--------------------------------------------------------------------------------
\* The answers as utils/src/parse_vgf.cpp and vgf_updater copy them into
\* strings and vectors.
ParsedModule(answers) ==
  [answers EXCEPT !.name = Or(@, ""), !.entryPoint = Or(@, ""),
                  !.code = [kind \in Kinds |-> Or(@[kind], "")]]

ParsedResource(answers) ==
  [answers EXCEPT !.shape = Or(@, <<>>), !.strides = Or(@, <<>>)]

ParsedSets(sets) ==
  [j \in 1 .. Len(sets) |-> [bindings |-> Or(sets[j].bindings, <<>>), setIndex |-> sets[j].setIndex]]

ParsedSegment(answers) ==
  [answers EXCEPT
     !.name = Or(@, ""), !.inputs = Or(@, <<>>), !.outputs = Or(@, <<>>),
     !.constants = Or(@, <<>>), !.dispatchShape = Or(@, <<>>), !.pushConstRanges = Or(@, <<>>),
     !.sets = ParsedSets(@)]

ParsedSequence(answers) ==
  [inputs |-> merge(Or(answers.inputs, <<>>), Or(answers.inputNames, <<>>)),
   outputs |-> merge(Or(answers.outputs, <<>>), Or(answers.outputNames, <<>>))]

\* parseConstantSection throws on a constant it cannot use.
ConstantRejected(answers) == Or(answers.data, 0) = 0 \/ answers.mrtIndex = U32Max

ParsedConstant(answers) == [answers EXCEPT !.data = Or(@, 0)]
================================================================================
