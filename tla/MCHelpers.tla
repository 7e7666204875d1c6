------------------------------- MODULE MCHelpers -------------------------------
(***************************************************************************)
(* Helpers on a word of 7 bits: arguments at both ends of the word, around *)
(* a quarter of it and around SIZE_MAX, and enumerations in which one, two *)
(* or none have a second name.                                             *)
(***************************************************************************)
EXTENDS Helpers

Ends == 0 .. 9 \cup 31 .. 33 \cup 93 .. 97 \cup 123 .. 127
SomeShapes == {<<>>, <<0>>, <<3>>, <<2, 3>>, <<4, 4>>, <<-1>>}
Aliased == (0 :> <<"NEAREST">> @@ 1 :> <<"LINEAR">> @@ 5 :> <<"CUBIC_EXT", "CUBIC_IMG">>)
TwoAliased == (0 :> <<"UNDEFINED">> @@ 8 :> <<"A8_UNORM", "A8_UNORM_KHR">>
               @@ 9 :> <<"R16G16_SFIXED5_NV", "R16G16_S10_5_NV">>)
Plain == (0 :> <<"SAMPLER">> @@ 3 :> <<"IMAGE">> @@ 7 :> <<"MAX_ENUM">>)
================================================================================
