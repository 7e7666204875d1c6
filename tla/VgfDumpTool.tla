------------------------------ MODULE VgfDumpTool ------------------------------
(***************************************************************************)
(* A run of vgf_dump: the command of VgfDump on an input file, and its     *)
(* output by one of the programs of OutputFiles, beside the other programs *)
(* there.  A command is [option, boundaries, shader, index]; the JSON and  *)
(* the code of a module have a size of their own.                          *)
(***************************************************************************)
EXTENDS VgfDump, OutputFiles

CONSTANTS
  Runs,         \* of vgf_dump: sets of [programs, owns, commands, files]
  JSONSize, CodeSize, HeaderSize

\* What is decoded of a file: dimensions are int64_t; a constant is in the
\* memory the file is mapped to, and no object takes more than half of that.
IsFile(f) ==
  /\ f.modules \in Seq([type : STRING, shader : STRING, text : STRING, name : STRING, utf8 : BOOLEAN])
  /\ f.resources \in
       Seq([category : STRING, descriptorType : STRING, format : STRING, shape : Seq(Int)])
  /\ f.constants \in Seq([mrtIndex : Nat, size : 0 .. U64Max \div 2])
  /\ f.inputs \in Seq([binding : Nat, mrtIndex : Nat])
  /\ f.outputs \in Seq([binding : Nat, mrtIndex : Nat])
  /\ \A i \in DOMAIN f.segments : f.segments[i].module \in Nat

\* The standard output has no path that could be the input's; main makes
\* one of five things, and an index on the command line is a number.
ASSUME RunsAssumption ==
  /\ \A run \in Runs :
       /\ run.programs \subseteq Tools
       /\ run.owns \subseteq BOOLEAN
       /\ "stdout" \in run.programs => run.owns \subseteq {FALSE}
       /\ \A c \in run.commands :
            c.option \in {"file", "scenario", "code", "constant", "numpy"} /\ c.index \in Int
       /\ \A f \in run.files : IsFile(f)
  /\ U32Max \in Nat
  /\ JSONSize \in Nat /\ CodeSize \in Nat /\ HeaderSize \in Nat

VARIABLES
  command, file,   \* "none" for the other programs
  made             \* what vgf_dump has made of the file: {} or {the output}

toolVars == <<outputVars, command, file, made>>

\* The callback of an indexed dump runs while the input is mapped; the JSON
\* is complete, and the input unmapped, before the output is opened.
MappedWhileWriting(option) == option \in {"code", "constant", "numpy"}

ToolInit ==
  /\ made = {}
  /\ \/ \E run \in Runs :
          /\ \E p \in run.programs : OutputInit(p)
          /\ own \in run.owns
          /\ command \in run.commands /\ file \in run.files
          /\ mapped = MappedWhileWriting(command.option)
     \/ \E p \in Encoders :
          /\ OutputInit(p)
          /\ own \in BOOLEAN /\ (own => p = "updater") /\ mapped = FALSE
          /\ command = "none" /\ file = "none"

MadeSize(option, output) ==
  CASE option \in {"file", "scenario"} -> JSONSize
    [] option = "code" -> CodeSize
    [] OTHER -> output.bytes

Compute ==
  LET outcome == Outcome(command, file)
  IN  /\ program \in Tools
      /\ ComputeOutput({MadeSize(command.option, output) : output \in outcome}, HeaderSize)
      /\ made' = outcome
      /\ UNCHANGED <<command, file>>

Act(A) == A /\ UNCHANGED <<command, file, made>>

ToolNext ==
  \/ Compute
  \/ Act(WriteStep)
  \/ Act(CallAgain)

\* Every call of the system returns.
ToolSpec ==
  ToolInit /\ [][ToolNext]_toolVars /\ WF_toolVars(Compute \/ Act(WriteStep))

--------------------------------------------------------------------------------
\* An input vgf_dump cannot use costs nothing: the output, opened only when
\* all is made, keeps what it had.
FaultyInputKeepsOutput ==
  program \in {"path", "numpy"} /\ Outcome(command, file) = {} =>
    disk = Old /\ answer \in {"none", "threw"}

Made(option) == IF program \in Tools /\ command.option = option THEN made ELSE {}

Uids(list) == {list[i].uid : i \in DOMAIN list}

Distinct(list) == Cardinality(Uids(list)) = Len(list)

\* The template is closed: every uid a binding, a boundary, a substitution
\* or the graph reference names is declared, once, and every tensor and
\* buffer declared is bound, once.
ScenarioClosed ==
  \A scenario \in Made("scenario") :
    /\ Distinct(scenario.resources) /\ Distinct(scenario.bindings)
    /\ Uids(scenario.bindings) =
         {resource.uid : resource \in {r \in Elements(scenario.resources) : r.kind \in {"tensor", "buffer"}}}
    /\ UNION Elements(scenario.boundaries) \subseteq Uids(scenario.resources)
    /\ {s.shaderRef : s \in Elements(scenario.substitutions)} \cup {scenario.graphRef}
         \subseteq Uids(scenario.resources)

\* What is read and what is written: a bound resource is a source exactly
\* when its slot is a model input and its table entry says INPUT, and the
\* second boundary waits for exactly the resources that are not.
ScenarioDirections ==
  \A scenario \in Made("scenario") :
    /\ \A i \in DOMAIN scenario.bindings :
         LET slots == file.inputs \o file.outputs
             bound == CHOOSE r \in Elements(scenario.resources) : r.uid = scenario.bindings[i].uid
         IN  /\ bound.isSrc <=> i <= Len(file.inputs)
             /\ file.resources[slots[i].mrtIndex + 1].category =
                  IF bound.isSrc THEN "INPUT" ELSE "OUTPUT"
    /\ scenario.boundaries # <<>> =>
         scenario.boundaries[2] =
           {r.uid : r \in {q \in Elements(scenario.resources) :
                             q.kind \in {"tensor", "buffer"} /\ ~q.isSrc}}

\* A buffer of the template has the integer product of its dimensions as
\* its size, never a product that wrapped or was cut.
BufferSizeExact ==
  \A scenario \in Made("scenario") :
    \A i \in DOMAIN scenario.bindings :
      LET slots == file.inputs \o file.outputs
          bound == CHOOSE r \in Elements(scenario.resources) : r.uid = scenario.bindings[i].uid
          shape == file.resources[slots[i].mrtIndex + 1].shape
      IN  bound.kind = "buffer" => bound.size = Exact(shape, 1)

\* A template can be run as it stands: its parts, which the code lists apart,
\* refer to one another and to the file as they should.
ScenarioConsistent == ScenarioClosed /\ ScenarioDirections /\ BufferSizeExact

\* A runner that replaces the shaders of a graph by the names of modules
\* gives each segment the shader declared for its own module, if no two
\* modules of shaders share a name.
SegmentsGetTheirShader ==
  \A scenario \in Made("scenario") :
    LET computes(i) == i \in DOMAIN file.modules /\ file.modules[i].type = "COMPUTE"
        shadersNamed(name) ==
          {r \in Elements(scenario.resources) :
             \E s \in Elements(scenario.substitutions) : s.target = name /\ s.shaderRef = r.uid}
    IN  (\A i, j \in DOMAIN file.modules :
           computes(i) /\ computes(j) /\ file.modules[i].name = file.modules[j].name => i = j)
        => \A segment \in Elements(file.segments) : computes(segment.module + 1) =>
             {r.module : r \in shadersNamed(file.modules[segment.module + 1].name)} = {segment.module}

\* The listing of a file says of each module what the code commands do: the
\* one of its shader type dumps its code if it says the code is there, and
\* the others throw.
CodeAsListed ==
  \A json \in Made("file") :
    \A i \in DOMAIN json.modules, shader \in {"SPIR-V", "GLSL", "HLSL"} :
      getCode(file, shader, i - 1) # {}
        <=> json.modules[i].shaderType = shader /\ json.modules[i].codeAvailable

\* The data of a NumPy file of a constant that has as many bytes as its
\* shape and its format need are the constant, unless the block of the
\* format is no power of two: then they run past it.
NumpyExact ==
  \A npy \in Made("numpy") :
    LET constant == file.constants[npy.constant + 1]
        resource == file.resources[constant.mrtIndex + 1]
        block == blockSize(resource.format)
        needed == Exact(resource.shape, block)
    IN  constant.size = needed /\ needed > 0 =>
          /\ npy.bytes >= constant.size
          /\ npy.bytes = constant.size <=> block \in Powers
================================================================================
