----------------------------- MODULE MCVgfUpdater -----------------------------
(***************************************************************************)
(* VgfUpdater on small files: two inputs, an output and a constant         *)
(* resource, one or two segments.  The files of the four sets differ in    *)
(* what their references say, in their inputs and outputs, in those of     *)
(* their segments, and in their modules.  Constants of 40 bytes: of two, a *)
(* 6-bit word has room for one.                                            *)
(***************************************************************************)
EXTENDS VgfUpdater

SomeSparsities == {-1, 9}   \* the second beyond int32_t, here of four bits
MinusEight == -8

Module(shader, text) == [type |-> "GRAPH", code |-> [shader |-> shader, text |-> text]]
Spirv == Module("SPIRV", "one")
Codes == [shader : {"SPIRV"}, text : {"", "one"}] \cup [shader : {"GLSL", "HLSL"}, text : {"", "two"}]

Resource(category, group, sampler) ==
  [category |-> category, aliasGroup |-> group, sampler |-> sampler, described |-> TRUE]

SomeResources ==
  << Resource("INPUT", 0, {"linear"}), Resource("INPUT", 15, {}), Resource("OUTPUT", 0, {}),
     [Resource("CONSTANT", 15, {}) EXCEPT !.described = FALSE] >>

Undescribed == [SomeResources EXCEPT ![2].described = FALSE]

Slot(mrtIndex) == [binding |-> mrtIndex, mrtIndex |-> mrtIndex]
Set(mrtIndices, setIndex) ==
  [bindings |-> [i \in 1 .. Len(mrtIndices) |-> Slot(mrtIndices[i])], setIndex |-> setIndex]

SomeSets ==
  { <<>>, <<Set(<<0, 1, 2>>, 15)>>, <<Set(<<1>>, 1), Set(<<0, 2>>, 1)>>, <<Set(<<0, 4>>, 0)>> }

NewSegmentOf(module, sets, constants, ranges) ==
  [type |-> "GRAPH", module |-> module, sets |-> sets, inputs |-> <<>>, outputs |-> <<>>,
   constants |-> constants, pushConstRanges |-> ranges]

With(segment, inputs, outputs) == [segment EXCEPT !.inputs = inputs, !.outputs = outputs]

Constant(mrtIndex, size) == [mrtIndex |-> mrtIndex, size |-> size, sparsityDimension |-> -1]
Beyond(constant) == [constant EXCEPT !.sparsityDimension = 9]

File(version, modules_, resources, segments, inputs, inputNames, outputs, constants) ==
  [version |-> version, modules |-> modules_, resources |-> resources, segments |-> segments,
   inputs |-> inputs, inputNames |-> inputNames, outputs |-> outputs, outputNames |-> <<>>,
   constants |-> constants]

\* References in and out of bounds, constants shared and refused.
ReferenceFiles ==
  { File(version, <<Spirv>>, resources, segments, <<>>, <<>>, <<>>, constants) :
      version \in {"outdated"},
      resources \in {SomeResources},
      segments \in { <<NewSegmentOf(module, sets, used, ranges)>> \o more :
                       module \in {0, 1}, sets \in SomeSets, used \in {<<>>, <<0>>, <<1, 0>>},
                       ranges \in {<<>>, <<"r", "s">>},
                       more \in {<<>>, <<NewSegmentOf(0, <<Set(<<2, 0>>, 15)>>, <<0>>, <<>>)>>} },
      constants \in { <<>>, <<Constant(3, 8), Beyond(Constant(3, 16))>>, <<Constant(3, 40)>>,
                      <<Constant(3, 8), Constant(0, 8)>>, <<Constant(3, 8), Constant(4, 8)>>,
                      <<Constant(3, 0)>> } }

\* The inputs of the model and of its only segment, bound in this order or
\* the other, in one set or two, named or not, or named as many as are not
\* bound.
InputFiles ==
  { File("outdated", <<Spirv>>, SomeResources,
         <<With(NewSegmentOf(0, sets, <<>>, <<>>), inputs, outputs)>>,
         inputs, names, outputs, <<>>) :
      sets \in SomeSets \cup {<<Set(<<0>>, 15), Set(<<1, 2>>, 15)>>},
      inputs \in {<<Slot(0), Slot(1)>>, <<Slot(1), Slot(0)>>, <<Slot(0)>>},
      names \in {<<>>, <<"a">>, <<"a", "b">>},
      outputs \in {<<>>, <<Slot(2)>>} }

\* Two segments, the first of which gives the second what is neither an
\* input nor an output of the model; or gives it nothing.
ChainResources ==
  <<Resource("INPUT", 15, {}), Resource("INTERMEDIATE", 0, {}), Resource("OUTPUT", 15, {})>>

ChainFiles ==
  { File("outdated", <<Spirv>>, ChainResources,
         << [With(NewSegmentOf(0, <<Set(<<0, through>>, 15)>>, <<>>, <<>>), taken, given_)
               EXCEPT !.type = type],
            With(NewSegmentOf(0, <<Set(<<2>>, 15), Set(<<0, 1>>, 15)>>, <<>>, <<>>),
                 also, <<Slot(2)>>) >>,
         <<Slot(0), Slot(0)>>, <<>>, <<Slot(2)>>, <<>>) :
      through \in {1, 2}, type \in {"GRAPH", "COMPUTE"},
      taken \in {<<Slot(0)>>, <<>>}, given_ \in {<<Slot(1)>>, <<Slot(2)>>, <<>>},
      also \in {<<Slot(0)>>, <<Slot(0), Slot(1)>>, <<Slot(1), Slot(0)>>} }

ModuleFiles ==
  { File(version, modules_, resources, <<NewSegmentOf(module, <<>>, <<>>, <<>>)>>,
         <<>>, <<>>, <<>>, <<>>) :
      version \in {"invalid", "latest", "outdated"},
      resources \in {SomeResources, Undescribed},
      modules_ \in { <<Module("SPIRV", ""), Module("GLSL", "two")>>, <<Module("HLSL", "two"), Spirv>>,
                     <<Module("GLSL", ""), Spirv>>, <<Spirv, Module("HLSL", "")>> },
      module \in {0, 1, 2} }

SomeOldFiles == ReferenceFiles \cup InputFiles \cup ChainFiles \cup ModuleFiles
================================================================================
