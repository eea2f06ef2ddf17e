----------------------------- MODULE SortedSets -----------------------------
(* Finite sets of numbers as increasing sequences. *)
EXTENDS Integers, FiniteSets

Increasing(s) == \A i, j \in DOMAIN s : i < j => s[i] < s[j]

\* The n-th number is the one with n numbers up to and including it.
Sorted(numbers) ==
    LET Rank(i) == Cardinality({j \in numbers : j <= i})
    IN  [n \in 1..Cardinality(numbers) |-> CHOOSE i \in numbers : Rank(i) = n]
=============================================================================
