---------------------------- MODULE ConstantStore ----------------------------
(***************************************************************************)
(* What the encoder promises about constants (include/vgf/encoder.hpp):    *)
(* the constants added, in the order they were added, are what a decoder   *)
(* finds in a file whose WriteTo succeeded; once a constant was refused    *)
(* there is no such file; and nothing is added once a file can be written. *)
(***************************************************************************)
EXTENDS Integers, Sequences

CONSTANTS Resources, DataSizes, Sparsities, Int32Min, Int32Max

VARIABLES
  constants,   \* the constants added
  refused,     \* one did not fit
  frozen,      \* Finish was called
  stored       \* what the file written last holds: {}, or {the constants}

vars == <<constants, refused, frozen, stored>>

Distance(m, n) == IF m < n THEN n - m ELSE m - n

\* The file has 32 bits for a sparsity dimension: it holds the nearest one.
StoredSparsity(n) ==
  CHOOSE m \in Int32Min .. Int32Max :
    \A other \in Int32Min .. Int32Max : Distance(m, n) <= Distance(other, n)

\* The data block a decoder hands out for constant k is that of constant k.
StoredConstants ==
  [k \in 1 .. Len(constants) |->
     [resource |-> constants[k].resource,
      size |-> constants[k].size,
      sparsity |-> StoredSparsity(constants[k].sparsity),
      blocks |-> {k}]]

Init ==
  /\ constants = <<>>
  /\ refused = FALSE
  /\ frozen = FALSE
  /\ stored = {}

Add(resource, size, sparsity) ==
  /\ ~frozen
  /\ constants' = Append(constants, [resource |-> resource, size |-> size, sparsity |-> sparsity])
  /\ UNCHANGED <<refused, frozen, stored>>

Refuse == ~frozen /\ refused' = TRUE /\ UNCHANGED <<constants, frozen, stored>>

Freeze == ~frozen /\ frozen' = TRUE /\ UNCHANGED <<constants, refused, stored>>

Store ==
  /\ frozen /\ ~refused
  /\ stored = {}
  /\ stored' = {StoredConstants}
  /\ UNCHANGED <<constants, refused, frozen>>

\* The next WriteTo starts another file.
Replace == stored' = {} /\ UNCHANGED <<constants, refused, frozen>>

Next ==
  \/ \E resource \in Resources, size \in DataSizes, sparsity \in Sparsities :
       Add(resource, size, sparsity)
  \/ Refuse
  \/ Freeze
  \/ Store
  \/ Replace

Spec == Init /\ [][Next]_vars
===============================================================================
