------------------------------- MODULE TableRelay -------------------------------
(***************************************************************************)
(* A client that reads an element of a table through one of the three APIs *)
(* and passes what it was told to the encoder of the same API: the chain   *)
(* from stored fields to answers to arguments to stored fields, with its   *)
(* nulls, defaults and enumerations.  The client keeps all it can, where   *)
(* vgf_updater skips modules (VgfUpdater); it passes "" for a name that is *)
(* null and throws on what no call of the encoder takes, as                *)
(* vgf_updater.cpp:41 and parse_vgf.cpp:157 do.  Before a segment it has   *)
(* passed on the module the segment refers to.  Assertions do nothing, as  *)
(* in a release build.                                                     *)
(***************************************************************************)
EXTENDS TableEncoders

CONSTANTS
  RelaySizeMax,          \* SIZE_MAX of the client's build
  BufferSizes,           \* sizes of a section
  Modules, Entries, Segments, Sequences, Constants   \* elements of each table

ASSUME RelayAssumption ==
  /\ Modules \subseteq Module /\ Entries \subseteq ModelResourceTableEntry
  /\ Segments \subseteq SegmentInfo /\ Sequences \subseteq ModelSequence
  /\ Constants \subseteq ConstantData
  /\ BufferSizes \subseteq Nat /\ RelaySizeMax \in Nat

APIs == {"C++", "C", "Python"}

VARIABLES
  table,      \* which table the element is of
  element,    \* as it is stored
  moduleType, \* the stored type of the module a segment refers to
  api,        \* the API the client uses
  reader,     \* "none", "refused", or "open"
  answers,    \* {} until the client has read the element, then {what it was told}
  threw,      \* the client gave up
  copy        \* {} until it has encoded it, then {what is stored}

relayVars == <<table, element, moduleType, api, reader, answers, threw, copy>>

StoredIn(t) ==
  CASE t = "module" -> Modules
    [] t = "resource" -> Entries
    [] t = "segment" -> Segments
    [] t = "sequence" -> Sequences
    [] t = "constant" -> Constants

RelayInit ==
  /\ table \in {"module", "resource", "segment", "sequence", "constant"}
  /\ element \in StoredIn(table)
  /\ moduleType \in IF table = "segment" THEN {"COMPUTE", "GRAPH", Unknown} ELSE {"none"}
  /\ api \in APIs
  /\ reader = "none"
  /\ answers = {}
  /\ threw = FALSE
  /\ copy = {}

--------------------------------------------------------------------------------
\* The verdict on a section with the element in it.  Constants must have
\* room for the version of a CONST00 section even if they are legacy ones.
Accepted(buffer) ==
  /\ VerifyImpl(buffer, RelaySizeMax)
  /\ table = "segment" => VerifySemantic(element)
  /\ table = "constant" => buffer.size >= 8 /\ element.sparsityDimension >= -1

\* Create, in memory of its own or of the client.
CreateDecoder(buffer) ==
  /\ reader = "none"
  /\ reader' = IF Accepted(buffer) THEN "open" ELSE "refused"
  /\ UNCHANGED <<table, element, moduleType, api, answers, threw, copy>>

Answers(a, t, e) ==
  CASE t = "module" -> (CASE a = "C++" -> getModule(e) [] a = "C" -> cModule(e)
                          [] a = "Python" -> pyModule(e))
    [] t = "resource" -> (CASE a = "C++" -> getResource(e) [] a = "C" -> cResource(e)
                            [] a = "Python" -> pyResource(e))
    [] t = "segment" -> (CASE a = "C++" -> getSegment(e) [] a = "C" -> cSegment(e)
                           [] a = "Python" -> pySegment(e))
    [] t = "sequence" -> e
    [] t = "constant" -> (CASE a = "C++" -> getConstant(e) [] a = "C" -> cConstant(e)
                            [] a = "Python" -> pyConstant(e))

ReadElement ==
  /\ reader = "open" /\ answers = {}
  /\ answers' = {Answers(api, table, element)}
  /\ UNCHANGED <<table, element, moduleType, api, reader, threw, copy>>

\* What no call of the encoder takes: a module whose kind is none of the
\* three, a resource without a descriptor type that is not a constant, and
\* a constant without data or resource.
NotEncodable(t, a) ==
  \/ t = "module" /\ a.is = {}
  \/ t = "resource" /\ a.category # "CONSTANT" /\ a.descriptorType = {}
  \/ t = "constant" /\ ConstantRejected(a)

GiveUp ==
  /\ \E a \in answers : NotEncodable(table, a)
  /\ ~threw
  /\ threw' = TRUE
  /\ UNCHANGED <<table, element, moduleType, api, reader, answers, copy>>

--------------------------------------------------------------------------------
KindOf(a) == CHOOSE kind \in a.is : TRUE

CopiedModule(with, a) ==
  LET p == ParsedModule(a)
  IN  CASE with = "C++" -> EncodedModule(p.type, p.name, p.entryPoint, KindOf(p), p.code[KindOf(p)])
        [] with = "C" -> cAddModule(a.type, toString(a.name), toString(a.entryPoint),
                                    KindOf(a), a.code[KindOf(a)])
        [] with = "Python" -> pyAddModule(a.type, Or(a.name, ""), Or(a.entryPoint, ""),
                                          KindOf(a), a.code[KindOf(a)])

\* A constant has no descriptor type, no alias group and no sampler.
CopiedResource(with, a) ==
  LET p == ParsedResource(a)
      hasGroup == a.category # "CONSTANT"
      sampled(entry) == IF hasGroup /\ a.sampler # {} THEN WithSampler(entry, Or(a.sampler, {})) ELSE entry
  IN  IF with = "C"
      THEN sampled(cAddResource(a.category, a.descriptorType, a.format, a.shape, a.strides, a.aliasGroup))
      ELSE sampled(EncodedResource(p.category, IF hasGroup THEN p.descriptorType ELSE {}, p.format,
                                   p.shape, p.strides, IF hasGroup THEN p.aliasGroup ELSE {}, {}))

\* The encoder's types of modules: the one module was added with the type
\* the client was told.
moduleRefToType == <<fromVGFModuleType(moduleType)>>

CopiedSegment(with, a, types) ==
  LET p == ParsedSegment(a)
  IN  CASE with = "C++" ->
             EncodedSegment(types, p.name, p.moduleIndex, p.sets, p.inputs, p.outputs, p.constants,
                            IF p.dispatchShape = <<>> THEN <<0, 0, 0>> ELSE p.dispatchShape,
                            p.pushConstRanges)
        [] with = "C" ->
             cAddSegment(types, toString(a.name), a.moduleIndex, a.sets, a.inputs, a.outputs,
                         a.constants, a.dispatchShape, a.pushConstRanges)
        [] with = "Python" ->
             pyAddSegment(types, Or(a.name, ""), a.moduleIndex, a.sets, a.inputs, a.outputs,
                          a.constants, a.dispatchShape, a.pushConstRanges)

CopiedSequence(with, a) ==
  IF with = "C" THEN cAddSequence(a.inputs, a.inputNames, a.outputs, a.outputNames)
  ELSE EncodedSequence(pyDefault(a.inputs), pyDefault(a.inputNames),
                       pyDefault(a.outputs), pyDefault(a.outputNames))

\* AddConstant, in the terms of the legacy table; the clamp of the sparsity
\* dimension is in EncoderConstants.
CopiedConstant(a) ==
  [mrtIndex |-> a.mrtIndex, sparsityDimension |-> a.sparsityDimension, raw |-> a.data]

Copied(with, t, a, types) ==
  CASE t = "module" -> CopiedModule(with, a)
    [] t = "resource" -> CopiedResource(with, a)
    [] t = "segment" -> CopiedSegment(with, a, types)
    [] t = "sequence" -> CopiedSequence(with, a)
    [] t = "constant" -> CopiedConstant(a)

CopyElement ==
  /\ copy = {}
  /\ \E a \in answers :
       /\ ~NotEncodable(table, a)
       /\ copy' = {Copied(api, table, a, moduleRefToType)}
  /\ UNCHANGED <<table, element, moduleType, api, reader, answers, threw>>

RelayNext ==
  \/ \E size \in BufferSizes, aligned, intact \in BOOLEAN :
       CreateDecoder([size |-> size, aligned |-> aligned, intact |-> intact])
  \/ ReadElement
  \/ GiveUp
  \/ CopyElement

RelaySpec == RelayInit /\ [][RelayNext]_relayVars

--------------------------------------------------------------------------------
\* What each table's reader makes of an element, a constant resource having
\* neither descriptor type, nor alias group, nor sampler, and a segment
\* without dispatch shape one of zeros.
Meaning(t, e) ==
  LET a == Answers("C++", t, e)
  IN  CASE t = "module" -> ParsedModule(a)
        [] t = "resource" ->
             (IF a.category = "CONSTANT"
              THEN [ParsedResource(a) EXCEPT !.descriptorType = {}, !.aliasGroup = {}, !.sampler = {}]
              ELSE ParsedResource(a))
        [] t = "segment" ->
             [ParsedSegment(a) EXCEPT !.dispatchShape = IF @ = <<>> THEN <<0, 0, 0>> ELSE @]
        [] t = "sequence" -> ParsedSequence(a)
        [] t = "constant" -> ParsedConstant(a)

\* Through whichever API an element is read and encoded again, every reader
\* makes of the copy what it makes of the element: no null pointer, None,
\* absent field or legacy index of one stage is taken for another value by
\* the next.  Only a segment's own type is lost, for that of its module
\* (encoder.cpp:168).
ReadersMeaningKept ==
  \A c \in copy :
    Meaning(table, c) =
      IF table = "segment"
      THEN [Meaning(table, element) EXCEPT !.type = fromVGFModuleType(moduleType)]
      ELSE Meaning(table, element)

\* What is stored as the type or the category comes through exactly if it
\* is one the decoder knows, and for a segment also its module's: a number a
\* newer writer put there is stored by the copy as COMPUTE or INPUT, which
\* no later reader can tell from one that was meant.
EnumeratorsKept ==
  \A c \in copy :
    /\ table = "module" => (c.type = element.type <=> ~Asserts(element.type))
    /\ table = "resource" => (c.category = element.category <=> ~Asserts(element.category))
    /\ table = "segment" => (c.type = element.type <=> element.type = fromVGFModuleType(moduleType))

\* A relay loses no more of an element than a segment's own type and
\* enumerators that are not known.
MeaningKept == ReadersMeaningKept /\ EnumeratorsKept

\* The three APIs store the same copy of an element, field by field.
CopiesAgree ==
  \A c \in copy, other \in APIs :
    c = Copied(other, table, Answers(other, table, element), moduleRefToType)

\* A module is said to have code exactly when asking for it, through any
\* API, gives something that is not empty, for each of the three kinds.
HasMeansCode ==
  \A a \in answers : table = "module" =>
    \A kind \in Kinds : kind \in a.has <=> NotEmpty(a.code[kind], "") # {}

\* The APIs agree with one another in what they store, and each with itself
\* in what it says of a module's code.
ApisAgree == CopiesAgree /\ HasMeansCode

\* What was encoded can be read again without an assertion, a refusal or
\* giving up.
CopyReadsClean ==
  \A c \in copy :
    /\ table \in {"module", "segment"} => ~Asserts(c.type)
    /\ table = "segment" => VerifySemantic(c)
    /\ table = "resource" => ~Asserts(c.category)
    /\ ~NotEncodable(table, Answers(api, table, c))
================================================================================
