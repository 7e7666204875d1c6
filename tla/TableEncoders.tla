----------------------------- MODULE TableEncoders -----------------------------
(***************************************************************************)
(* The table elements the encoder stores for a call from C++               *)
(* (src/encoder.cpp), from C (src/encoder_c_api.cpp) and from Python       *)
(* (src/encoder_py.cpp), as TableFormat reads them.  EncoderTables has the *)
(* same operations as steps on the encoder's lists; here is what becomes   *)
(* of the values a call passes.                                            *)
(***************************************************************************)
EXTENDS TableDecoders

--------------------------------------------------------------------------------
\* The C++ encoder stores every field but the value of an empty code.
EncodedModuleBug(type, name, entryPoint, kind, text) ==
  [type |-> type, name |-> {name}, entryPoint |-> {entryPoint}, codeType |-> "SPIRV",
   code |-> {{t} : t \in {text} \ {""}}]

EncodedModule(type, name, entryPoint, kind, text) ==
  [type |-> type, name |-> {name}, entryPoint |-> {entryPoint}, codeType |-> kind,
   code |-> {{t} : t \in {text} \ {""}}]

\* The alias group and the sampler of a resource that has them.
EncodedResource(category, descriptorType, format, shape, strides, aliasGroup, sampler) ==
  [descriptorType |-> Or(descriptorType, NoDescriptorType), format |-> format,
   category |-> category, description |-> {[shape |-> {shape}, strides |-> {strides}]},
   extraConfigType |-> IF sampler = {} THEN "NONE" ELSE "SamplerConfig", extraConfig |-> sampler,
   aliasGroupId |-> Or(aliasGroup, U32Max)]

EncodedSets(sets) ==
  [j \in 1 .. Len(sets) |-> [bindings |-> {sets[j].bindings}, setIndex |-> sets[j].setIndex]]

\* The type of a segment is that of its module, which the encoder has noted
\* (moduleRefToType_) as the module was added; no caller passes one.
EncodedSegment(types, name, moduleIndex, sets, inputs, outputs, constants, dispatchShape, ranges) ==
  [type |-> types[moduleIndex + 1], name |-> {name}, moduleIndex |-> moduleIndex,
   sets |-> {EncodedSets(sets)}, inputs |-> {inputs}, outputs |-> {outputs},
   constants |-> {constants}, dispatchShape |-> {dispatchShape}, pushConstRanges |-> {ranges}]

EncodedSequence(inputs, inputNames, outputs, outputNames) ==
  [inputs |-> {inputs}, outputs |-> {outputs},
   inputNames |-> {inputNames}, outputNames |-> {outputNames}]

--------------------------------------------------------------------------------
\* The C API takes pointers: a null one, or one to nothing, is an empty
\* vector or string.  Names must not be null.
to_vector(view) == Or(view, <<>>)

toString(view) == Or(view, "")

cAddModule(type, name, entryPoint, kind, code) ==
  EncodedModule(type, name, entryPoint, kind, toString(code))

\* One function for each category, and one each with an alias group.
cAddResource(category, descriptorType, format, shape, strides, aliasGroup) ==
  EncodedResource(category, IF category = "CONSTANT" THEN {} ELSE descriptorType, format,
    to_vector(shape), to_vector(strides), IF category = "CONSTANT" THEN {} ELSE aliasGroup, {})

\* AddSamplerConfig and its C function, on a resource just added.
WithSampler(entry, config) ==
  [entry EXCEPT !.extraConfigType = "SamplerConfig", !.extraConfig = {config}]

cAddSegment(types, name, moduleIndex, sets, inputs, outputs, constants, dispatchShape, ranges) ==
  EncodedSegment(types, name, moduleIndex,
    [j \in 1 .. Len(sets) |-> [sets[j] EXCEPT !.bindings = to_vector(@)]],
    to_vector(inputs), to_vector(outputs), to_vector(constants),
    Or(dispatchShape, <<0, 0, 0>>), to_vector(ranges))

cAddSequence(inputs, inputNames, outputs, outputNames) ==
  EncodedSequence(to_vector(inputs), to_vector(inputNames),
                  to_vector(outputs), to_vector(outputNames))

--------------------------------------------------------------------------------
\* In Python an argument left out is a list without elements, no alias
\* group, a dispatch shape of zeros or a set index that is not set.
pyDefault(argument) == Or(argument, <<>>)

pyAddModule(type, name, entryPoint, kind, code) ==
  EncodedModule(type, name, entryPoint, kind, Or(code, ""))

pyAddSegment(types, name, moduleIndex, sets, inputs, outputs, constants, dispatchShape, ranges) ==
  EncodedSegment(types, name, moduleIndex,
    [j \in 1 .. Len(sets) |-> [sets[j] EXCEPT !.bindings = pyDefault(@)]],
    pyDefault(inputs), pyDefault(outputs), pyDefault(constants),
    Or(dispatchShape, <<0, 0, 0>>), pyDefault(ranges))
================================================================================
