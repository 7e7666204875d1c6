----------------------------- MODULE MCVgfDecoder -----------------------------
(***************************************************************************)
(* VgfDecoder on an 8-bit word with a narrower size_t: ranges that end at, *)
(* before and past the end of the file, and that wrap the word.            *)
(***************************************************************************)
EXTENDS VgfDecoder

R(offset, size) == [offset |-> offset, size |-> size]

SomeVersions == {<<0, 4, 3>>, <<0, 3, 9>>, <<0, 5, 0>>, <<1, 0, 0>>}

SomeTableRanges == {R(128, 71), R(199, 0), R(199, 1), R(250, 20)}

SomeConstantRanges ==
  {R(128, n) : n \in {7, 15, 16, 40, 41, 64, 71, 72}} \cup {R(150, 49), R(150, 60), R(190, 72), R(255, 40), R(199, 0)}

Record(range, sparsity) ==
  [mrtIndex |-> 0, sparsityDimension |-> sparsity, offset |-> range.offset, size |-> range.size]

SomeRecords ==
  {Record(R(0, n), -1) : n \in {0, 1, 7, 8}}
    \cup {Record(R(1, 0), 0), Record(R(7, 1), 0), Record(R(8, 1), -1), Record(R(0, 1), -2),
          Record(R(250, 10), -1), Record(R(1, 255), -1)}

SomeLegacyConstants ==
  {[mrtIndex |-> 0, sparsityDimension |-> sparsity, raw |-> raw] :
     sparsity \in {-2, -1, 0}, raw \in {{}, {1}}}
===============================================================================
