-------------------------------- MODULE Order --------------------------------
(***************************************************************************)
(* Python's sorted() and list.sort(), for a set of numbers and, stable,    *)
(* for a list.                                                             *)
(***************************************************************************)
EXTENDS Integers, FiniteSets, Sequences

Sorted(set) ==
    [i \in 1 .. Cardinality(set) |-> CHOOSE x \in set : Cardinality({y \in set : y < x}) = i - 1]

(* What a stable sort puts before the element at k.                        *)
Ahead(xs, k) ==
    {j \in DOMAIN xs : xs[j] < xs[k] \/ (xs[j] = xs[k] /\ j < k)}

(* sorted(range(n), key=lambda i: xs[i])                                   *)
Argsort(xs) ==
    [i \in 1 .. Len(xs) |-> CHOOSE k \in DOMAIN xs : Cardinality(Ahead(xs, k)) = i - 1]

InOrderOf(xs, order) == [i \in 1 .. Len(xs) |-> xs[order[i]]]

SortedList(xs) == InOrderOf(xs, Argsort(xs))
=============================================================================
