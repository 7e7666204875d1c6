------------------------------ MODULE VulkanEnums ------------------------------
(***************************************************************************)
(* include/vgf/vulkan_helpers.generated.hpp: numbers of Vulkan enumerators *)
(* to names, back, and whether the number is one of vulkan_core.h's.  An   *)
(* enumeration is a function from its numbers to the names each one has.   *)
(* A string is the sequence of the names it joins: <<name>> is the name,   *)
(* <<name, alias>> is "name / alias".                                      *)
(***************************************************************************)
EXTENDS Integers, Sequences

CONSTANTS DescriptorTypeNames, FormatNames, FilterNames, AddressModeNames, BorderColorNames

Names == [DescriptorType         |-> DescriptorTypeNames,
          FormatType             |-> FormatNames,
          FilterType             |-> FilterNames,
          SamplerAddressModeType |-> AddressModeNames,
          BorderColorType        |-> BorderColorNames]

Enumerations == DOMAIN Names

\* Every number has a name, as Vulkan spells them, and no name is given to
\* two.
ASSUME EnumerationAssumption ==
  \A type \in Enumerations :
    LET names == Names[type]
    IN  /\ DOMAIN names \subseteq Nat
        /\ \A e \in DOMAIN names :
             /\ names[e] \in Seq(STRING) /\ Len(names[e]) > 0
             /\ \A i \in DOMAIN names[e] : names[e][i] # "Unknown"
        /\ \A e, other \in DOMAIN names : \A i \in DOMAIN names[e], j \in DOMAIN names[other] :
             names[e][i] = names[other][j] => e = other /\ i = j

\* "Unknown(n)", whatever the n.
UnknownName == <<"Unknown">>

NoNumber == -1

ToName(type, e) == IF e \in DOMAIN Names[type] THEN Names[type][e] ELSE UnknownName

\* The types whose NameTo has no test for the further names of a number,
\* though ToName prints them.
FirstNameOnly == {"DescriptorType", "FormatType"}

\* No type is given a test for a further name.
NamesTestedBug(type, e) == {Names[type][e][1]}

\* The names for which NameTo of the type returns the number e.
NamesTested(type, e) ==
  {Names[type][e][i] : i \in IF type \in FirstNameOnly THEN {1} ELSE DOMAIN Names[type][e]}

NameTo(type, string) ==
  LET named == {e \in DOMAIN Names[type] : \E name \in NamesTested(type, e) : string = <<name>>}
  IN  IF named = {} THEN NoNumber ELSE CHOOSE e \in named : TRUE

ValidateDecoded(type, e) == e \in DOMAIN Names[type]

DescriptorTypeToName(e) == ToName("DescriptorType", e)
NameToDescriptorType(string) == NameTo("DescriptorType", string)
ValidateDecodedDescriptorType(e) == ValidateDecoded("DescriptorType", e)

FormatTypeToName(e) == ToName("FormatType", e)
NameToFormatType(string) == NameTo("FormatType", string)
ValidateDecodedFormatType(e) == ValidateDecoded("FormatType", e)

FilterTypeToName(e) == ToName("FilterType", e)
NameToFilterType(string) == NameTo("FilterType", string)
ValidateDecodedFilterType(e) == ValidateDecoded("FilterType", e)

SamplerAddressModeTypeToName(e) == ToName("SamplerAddressModeType", e)
NameToSamplerAddressModeType(string) == NameTo("SamplerAddressModeType", string)
ValidateDecodedSamplerAddressModeType(e) == ValidateDecoded("SamplerAddressModeType", e)

BorderColorTypeToName(e) == ToName("BorderColorType", e)
NameToBorderColorType(string) == NameTo("BorderColorType", string)
ValidateDecodedBorderColorType(e) == ValidateDecoded("BorderColorType", e)
================================================================================
