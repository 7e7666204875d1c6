-------------------------------- MODULE VgfDump --------------------------------
(***************************************************************************)
(* What vgf_dump (vgf_dump/src/vgf_dump.cpp) makes of a file: the JSON of  *)
(* the whole file, a scenario template, a module's code, a constant, or a  *)
(* NumPy file of one.  What may throw is a set, {} if it does.  JSON is    *)
(* the record of what it says; a uid such as "input_3_ref" is              *)
(* <<"input", 3>>.                                                         *)
(*                                                                         *)
(* A file is as in ParsedModel, with decodable, the sections a decoder     *)
(* accepts ("header" among them).  A module has [type, shader, text, name, *)
(* utf8], "" for no code; a resource                                       *)
(* [category, descriptorType, format, shape]; a constant                   *)
(* [mrtIndex, size].                                                       *)
(***************************************************************************)
EXTENDS ParsedModel, Numpy, VulkanFormats

CONSTANT Int64Min   \* numeric_limits<int64_t>::lowest(), LLVM's dynamic dimension

Sections == {"header", "modules", "resources", "sequence", "constants"}

\* The decoders of these sections are made, or an exception is thrown.
Opens(file, sections) == {"header"} \cup sections \subseteq file.decodable

\* requireIndexInBounds returns.
InBounds(index, list) == index < Len(list)

\* An index on the command line is an int that becomes a uint32_t.
ToIndex(number) == number % (U32Max + 1)

--------------------------------------------------------------------------------
\* parseModuleTable: the shader type is the type of the union.
shaderType(module) == IF module.shader = "" THEN "None" ELSE module.shader

ParsedModules(file) ==
  [i \in 1 .. Len(file.modules) |->
     LET module == file.modules[i]
     IN  [index |-> i - 1, type |-> module.type, name |-> module.name,
          shaderType |-> shaderType(module), codeAvailable |-> module.text # ""]]

\* The constants are dumped with their resources, or parseConstantSection
\* throws on one that is empty or has none.  Its third test, of the sparsity
\* dimension, repeats one the decoder of the section has passed (Opens).
ConstantsParse(file) ==
  \A constant \in Elements(file.constants) : constant.size # 0 /\ constant.mrtIndex # U32Max

getFile(file) ==
  IF /\ Opens(file, {"modules", "resources", "sequence", "constants"})
     /\ ConstantsParse(file)
     /\ validateParsedReferences(file)
  THEN {[modules |-> ParsedModules(file), resources |-> file.resources,
         modelSequence |-> parseModelSequenceTable(file), constants |-> file.constants]}
  ELSE {}

--------------------------------------------------------------------------------
\* The scenario template.

\* Too long a product is cut to 32 bits.
bufferSizeBug(shape) ==
  IF \E i \in DOMAIN shape : shape[i] <= 0 THEN {}
  ELSE {sizeOf(shape, 1) % (U32Max + 1)}

\* The product of the dimensions, each above 0, in 32 bits: bytes only if
\* an element is one.
bufferSize(shape) ==
  IF \E i \in DOMAIN shape : shape[i] <= 0 THEN {}
  ELSE LET times(product, dim) == UNION {checkedMul(p, dim) : p \in product}
       IN  {size \in FoldLeft(times, {1}, shape) : size <= U32Max}

\* The resource a model input or output declares: a tensor or a buffer.
DeclaredResource(uid, isSrc, resource) ==
  CASE resource.descriptorType = "VK_DESCRIPTOR_TYPE_TENSOR_ARM" ->
         {[kind |-> "tensor", uid |-> uid, isSrc |-> isSrc, format |-> resource.format,
           dims |-> [i \in DOMAIN resource.shape |->
                       IF resource.shape[i] = Int64Min THEN -1 ELSE resource.shape[i]]]}
    [] resource.descriptorType \in
         {"VK_DESCRIPTOR_TYPE_STORAGE_BUFFER", "VK_DESCRIPTOR_TYPE_UNIFORM_BUFFER"} ->
         {[kind |-> "buffer", uid |-> uid, isSrc |-> isSrc, size |-> size] :
            size \in bufferSize(resource.shape)}
    [] OTHER -> {}

\* A slot of the other direction is taken too.
DeclaredBug(file, kind, category, i, slot) ==
  IF ~InBounds(slot.mrtIndex, file.resources) THEN {}
  ELSE DeclaredResource(<<kind, i>>, file.resources[slot.mrtIndex + 1].category = "INPUT",
                        file.resources[slot.mrtIndex + 1])

\* Slot i of the inputs or outputs, whose resource must be of the category.
Declared(file, kind, category, i, slot) ==
  IF \/ ~InBounds(slot.mrtIndex, file.resources)
     \/ file.resources[slot.mrtIndex + 1].category # category
  THEN {}
  ELSE DeclaredResource(<<kind, i>>, kind = "input", file.resources[slot.mrtIndex + 1])

DeclaredSlots(file, kind, category, slots) ==
  [i \in 1 .. Len(slots) |-> Declared(file, kind, category, i - 1, slots[i])]

\* ScenarioBinding: the set is 0.
Bindings(kind, slots) ==
  [i \in 1 .. Len(slots) |-> [uid |-> <<kind, i - 1>>, id |-> slots[i].binding, set |-> 0]]

ShaderModules(file) ==
  FoldLeft(LAMBDA shaders, module :
             IF module.type = "COMPUTE" THEN Append(shaders, module) ELSE shaders,
           <<>>, ParsedModules(file))

\* The shaders are counted, the substitutions numbered by module.
ShaderUidBug(shaders, i) == <<"shader", i - 1>>

ShaderUid(shaders, i) == <<"shader", shaders[i].index>>

ShaderResources(file) ==
  LET shaders == ShaderModules(file)
  IN  [i \in 1 .. Len(shaders) |->
         [kind |-> "shader", uid |-> ShaderUid(shaders, i), module |-> shaders[i].index,
          type |-> shaders[i].shaderType]]

\* The shaders are taken for the first modules.
ShaderSubstitutionsBug(file) ==
  LET shaders == ShaderModules(file)
  IN  [i \in 1 .. Len(shaders) |->
         [shaderRef |-> <<"shader", shaders[i].index>>, target |-> file.modules[i].name]]

\* A graph's shader is replaced by the name of its module.
ShaderSubstitutions(file) ==
  LET shaders == ShaderModules(file)
  IN  [i \in 1 .. Len(shaders) |->
         [shaderRef |-> <<"shader", shaders[i].index>>, target |-> shaders[i].name]]

Boundaries(inputs, outputs, add) ==
  IF add THEN <<{}, {<<"output", i - 1>> : i \in 1 .. Len(outputs)}>> ELSE <<>>

Member(set) == CHOOSE x \in set : TRUE

getScenario(file, addBoundaries) ==
  LET declared == DeclaredSlots(file, "input", "INPUT", file.inputs)
                    \o DeclaredSlots(file, "output", "OUTPUT", file.outputs)
  IN  IF Opens(file, {"modules", "resources", "sequence"}) /\ {} \notin Elements(declared)
      THEN {[resources |-> <<[kind |-> "graph", uid |-> <<"vgf_graph">>]>>
                             \o [i \in 1 .. Len(declared) |-> Member(declared[i])]
                             \o ShaderResources(file),
             bindings |-> Bindings("input", file.inputs) \o Bindings("output", file.outputs),
             substitutions |-> ShaderSubstitutions(file),
             graphRef |-> <<"vgf_graph">>,
             boundaries |-> Boundaries(file.inputs, file.outputs, addBoundaries)]}
      ELSE {}

--------------------------------------------------------------------------------
\* Code and constants by index.

\* Only that there is code is looked at.
getCodeBug(file, shader, index) ==
  IF Opens(file, {"modules"}) /\ InBounds(index, file.modules)
  THEN {module.text : module \in {m \in {file.modules[index + 1]} : m.text # ""}}
  ELSE {}

\* getSpirv, getGlsl and getHlsl: the bytes of the module if it has code of
\* that kind.
getCode(file, shader, index) ==
  IF Opens(file, {"modules"}) /\ InBounds(index, file.modules)
  THEN {module.text : module \in {m \in {file.modules[index + 1]} : m.shader = shader /\ m.text # ""}}
  ELSE {}

getConstant(file, index) ==
  IF Opens(file, {"constants"}) /\ InBounds(index, file.constants)
  THEN {[constant |-> index, bytes |-> file.constants[index + 1].size]}
  ELSE {}

\* dumpNumpy: as many bytes as shape and format say, from the start of the
\* constant, and whatever follows it.
dumpNumpy(file, index) ==
  IF \/ ~Opens(file, {"constants", "resources"})
     \/ ~InBounds(index, file.constants)
     \/ ~InBounds(file.constants[index + 1].mrtIndex, file.resources)
  THEN {}
  ELSE LET resource == file.resources[file.constants[index + 1].mrtIndex + 1]
           itemsize == elementSizeFromBlockSize(blockSize(resource.format))
       IN  {[constant |-> index, kind |-> kind, itemsize |-> itemsize,
             bytes |-> sizeOf(resource.shape, itemsize)] :
              kind \in numpyTypeEncoding(componentNumericFormat(resource.format))}

--------------------------------------------------------------------------------
\* nlohmann's dump throws on a string that is not UTF-8.
Printed(json, names) == IF \A module \in names : module.utf8 THEN json ELSE {}

\* main: what the command writes, by its option.
Outcome(command, file) ==
  CASE command.option = "file" -> Printed(getFile(file), Elements(file.modules))
    [] command.option = "scenario" ->
         Printed(getScenario(file, command.boundaries),
                 {module \in Elements(file.modules) : module.type = "COMPUTE"})
    [] command.option = "code" -> getCode(file, command.shader, ToIndex(command.index))
    [] command.option = "constant" -> getConstant(file, ToIndex(command.index))
    [] command.option = "numpy" -> dumpNumpy(file, ToIndex(command.index))
================================================================================
