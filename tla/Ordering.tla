------------------------------- MODULE Ordering --------------------------------
(***************************************************************************)
(* ORDER BY, LIMIT and sorted(): a finite set of rows in the order of R, a *)
(* strict total order on it given as a set of pairs.  The i-th row is the  *)
(* one with i - 1 rows ahead of it.                                        *)
(***************************************************************************)
EXTENDS Integers, FiniteSets

Ahead(S, R, x) == {y \in S : <<y, x>> \in R}

InOrder(S, R) ==
    [i \in 1..Cardinality(S) |-> CHOOSE x \in S : Cardinality(Ahead(S, R, x)) = i - 1]

(* Numbers in increasing order. *)
Ascending(S) == {p \in S \X S : p[1] < p[2]}

(* The first n of a set of numbers. *)
Lowest(S, n) == {x \in S : Cardinality(Ahead(S, Ascending(S), x)) < n}

(* The first n of a sequence. *)
First(s, n) == [i \in {j \in DOMAIN s : j <= n} |-> s[i]]
=============================================================================
