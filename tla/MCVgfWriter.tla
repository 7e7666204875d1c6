----------------------------- MODULE MCVgfWriter -----------------------------
(***************************************************************************)
(* VgfWriter on a 10-bit word.  Constants of 1 and 17 bytes need padding,  *)
(* one of 1000 bytes does not fit after one of 17 (AddConstant refuses it, *)
(* though a file of the first would fit) and leaves no room for the head   *)
(* of the section (WriteTo refuses it).  int32 has 4 bits here: a sparsity *)
(* dimension of 17 is above its end, and its low 4 bits are not.           *)
(***************************************************************************)
EXTENDS VgfWriter

MinusEight == -8
SomeSparsities == {-1, 17}
InvalidSparsities == {-2, 0}
===============================================================================
