----------------------------- MODULE MCRowImages -----------------------------
(* Two keys, two values, every source; the table is empty, or one row or two, *)
(* when the stream begins.                                                    *)
EXTENDS RowImages

CONSTANTS k1, k2, x, y

TwoKeys == {k1, k2}
TwoValues == {x, y}

First == [c \in Cols |-> CASE c = "k" -> k1 [] c = "v" -> x [] OTHER -> y]
Second == [c \in Cols |-> CASE c = "k" -> k2 [] c = "v" -> x [] OTHER -> Null]
FirstCopies == {{}, {First}, {First, Second}}
=============================================================================
