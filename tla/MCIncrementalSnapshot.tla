------------------------ MODULE MCIncrementalSnapshot ------------------------
(* Four rows; k is the key, in g two rows share a value and one has none.    *)
EXTENDS IncrementalSnapshot, TLC

CONSTANTS k, g

FourRows == 1..4
TwoColumns == {k, g}
Values == k :> <<1, 2, 3, 4>> @@ g :> <<1, None, 0, 1>>
ThreeKinds == {"mysql", "postgres", "mongodb"}
=============================================================================
