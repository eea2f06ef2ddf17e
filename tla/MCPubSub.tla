------------------------------ MODULE MCPubSub ------------------------------
(* Messages of PubSub for TLC: model values, one of them undecodable.        *)
EXTENDS PubSub, TLC

CONSTANTS m1, m2, bad

Good == {m1, m2}
WithBad == {m1, m2, bad}
OneBad == {bad}
Interchangeable == Permutations({m1, m2})
=============================================================================
