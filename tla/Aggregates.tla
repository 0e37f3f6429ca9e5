------------------------------- MODULE Aggregates ------------------------------
(***************************************************************************)
(* What the services compute over rows in memory with reduce and sort: the *)
(* sum of what a finite function takes its domain to, and its values in    *)
(* order.  A value is a function of its row, so that a sum or an order can *)
(* be reasoned about for any number of rows.                               *)
(***************************************************************************)
EXTENDS Integers, FiniteSets, FiniteSetsExt

SumOver(f) == MapThenSumSet(LAMBDA x : f[x], DOMAIN f)

(* The values of f from the least to the greatest, each as often as f takes*)
(* it: the i-th has fewer than i values below it, and at least i up to it. *)
Below(f, v) == {k \in DOMAIN f : f[k] < v}
UpTo(f, v) == {k \in DOMAIN f : f[k] <= v}
Ascending(f) ==
    [i \in 1..Cardinality(DOMAIN f) |->
        CHOOSE v \in {f[k] : k \in DOMAIN f} :
            Cardinality(Below(f, v)) < i /\ i <= Cardinality(UpTo(f, v))]
===============================================================================
