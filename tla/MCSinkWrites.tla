---------------------------- MODULE MCSinkWrites ----------------------------
(* Keys and values of SinkWrites for TLC: interchangeable model values.      *)
EXTENDS SinkWrites

CONSTANTS k1, k2, v1, v2

TwoKeys == {k1, k2}
TwoValues == {v1, v2}
Interchangeable == Permutations(TwoKeys) \union Permutations(TwoValues)
=============================================================================
