------------------------------- MODULE MCOutputs -------------------------------
(***************************************************************************)
(* VgfDumpTool on files made for each command, on a word of 8 bits whose   *)
(* uint32_t has 4.  The failures of the output are explored on every run.  *)
(***************************************************************************)
EXTENDS VgfDumpTool

Lowest == -9

Valid == [decodable |-> Sections, modules |-> <<>>, resources |-> <<>>, segments |-> <<>>,
          inputs |-> <<>>, inputNames |-> <<>>, outputs |-> <<>>, outputNames |-> <<>>,
          constants |-> <<>>]

SomeModules ==
  [type : {"COMPUTE", "GRAPH"}, shader : {"SPIR-V", "GLSL"}, text : {"", "code"},
   name : {"a", "b"}, utf8 : {TRUE}]
    \cup {[type |-> "COMPUTE", shader |-> shader, text |-> "", name |-> "a", utf8 |-> FALSE] :
            shader \in {"", "HLSL"}}

ModuleLists == {<<>>} \cup {<<m>> : m \in SomeModules} \cup {<<m, n>> : m, n \in SomeModules}

SegmentOf(module) ==
  [module |-> module, inputs |-> <<>>, outputs |-> <<>>, constants |-> <<>>, sets |-> <<>>]

\* Files of modules, one segment for the last of them, and one for a module
\* that is not there.
ModuleFiles ==
  {[Valid EXCEPT !.modules = list, !.segments = <<SegmentOf(module)>>, !.decodable = sections] :
     list \in ModuleLists, module \in {0, 1}, sections \in {Sections, Sections \ {"modules"}}}

Tensor == "VK_DESCRIPTOR_TYPE_TENSOR_ARM"

SomeResources ==
  {[category |-> category, descriptorType |-> type, format |-> "R8_SINT", shape |-> shape] :
     category \in {"INPUT", "OUTPUT"},
     type \in {Tensor, "VK_DESCRIPTOR_TYPE_STORAGE_BUFFER", "VK_DESCRIPTOR_TYPE_SAMPLER"},
     shape \in {<<2>>, <<3, 5>>, <<5, 4>>, <<16, 16>>, <<2, -9>>}}

Slots(limit) == {<<>>} \cup {<<[binding |-> 1, mrtIndex |-> i]>> : i \in 0 .. limit}

\* Files of inputs and outputs, one slot out of bounds.
ModelFiles ==
  {[Valid EXCEPT !.resources = <<first, second>>, !.inputs = inputs, !.outputs = outputs] :
     first, second \in SomeResources, inputs \in Slots(2), outputs \in Slots(1)}

NumpyFormats == {"R8_SINT", "R16_SFLOAT", "R64_UINT", "SBS80_ARM", "R8_SRGB", "R8G8B8_UNORM"}

ConstantFiles ==
  {[Valid EXCEPT
      !.resources = <<[category |-> "CONSTANT", descriptorType |-> "none",
                       format |-> format, shape |-> shape]>>,
      !.constants = <<[mrtIndex |-> mrtIndex, size |-> size]>>] :
     format \in NumpyFormats, shape \in {<<>>, <<3>>, <<2, 3>>, <<16, 16>>},
     mrtIndex \in {0, 1, 15}, size \in {0, 3, 6, 10, 12, 48, 60}}

Command(option) == [option |-> option, boundaries |-> TRUE, shader |-> "SPIR-V", index |-> 0]

Commands(options) ==
  {[Command(option) EXCEPT !.index = index] : option \in options, index \in {0, -1}}

RunOf(programs, owns, commands, files) ==
  [programs |-> programs, owns |-> owns, commands |-> commands, files |-> files]

SomeRuns ==
  {RunOf({"path"}, {FALSE}, {Command("file"), Command("scenario")}, ModuleFiles),
   RunOf({"path"}, {FALSE}, {[Command("scenario") EXCEPT !.boundaries = b] : b \in BOOLEAN}, ModelFiles),
   RunOf({"path"}, BOOLEAN, Commands({"file", "constant"}), ConstantFiles),
   RunOf({"numpy"}, BOOLEAN, Commands({"numpy"}), ConstantFiles),
   RunOf({"stdout"}, {FALSE},
         {[Command("code") EXCEPT !.shader = shader, !.index = index] :
            shader \in {"SPIR-V", "GLSL"}, index \in {0, 1}}, ModuleFiles)}

Piece(size, checked, block) == [size |-> size, checked |-> checked, block |-> block]

\* Header and tables, the head of the constants, and the constants.
Tables == <<Piece(3, TRUE, FALSE), Piece(1, FALSE, FALSE)>>
SomePuts ==
  {Tables, Tables \o <<Piece(1, TRUE, TRUE)>>,
   Tables \o <<Piece(6, TRUE, TRUE), Piece(2, TRUE, TRUE)>>}
================================================================================
