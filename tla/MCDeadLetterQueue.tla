------------------------- MODULE MCDeadLetterQueue -------------------------
(* The threads of DeadLetterQueue for TLC: the worker of the engine and that *)
(* of the engine before, which may still be in its round.                    *)
EXTENDS DeadLetterQueue

CONSTANTS w1, w2

TwoWorkers == {w1, w2}
=============================================================================
