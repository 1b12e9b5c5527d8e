-------------------------------- MODULE Ordering --------------------------------
(***************************************************************************)
(* The sorts of the code (slice::sort_by and sort_by_key), which put every *)
(* element after those that come before it, and its filters and sums.  An  *)
(* order is a set of pairs.                                                *)
(***************************************************************************)
EXTENDS Integers, FiniteSets, Functions

(* Of two elements of S exactly one comes before the other.                *)
IsOrder(R, S) ==
    /\ \A x \in S : <<x, x>> \notin R
    /\ \A x, y \in S : x # y => <<x, y>> \in R \/ <<y, x>> \in R
    /\ \A x, y, z \in S : <<x, y>> \in R /\ <<y, z>> \in R => <<x, z>> \in R

(* The elements of S, the k-th of them that which k - 1 come before.       *)
InOrder(S, R) ==
    [k \in 1 .. Cardinality(S) |->
        CHOOSE x \in S : Cardinality({y \in S : <<y, x>> \in R}) = k - 1]

(* The entries of s at the positions K, in their order.                    *)
Picked(s, K) ==
    LET at == InOrder(K, {p \in K \X K : p[1] < p[2]})
    IN  [k \in DOMAIN at |-> s[at[k]]]

(* What the members of DOMAIN weight weigh together.                       *)
Total(weight) == FoldFunction(+, 0, weight)
=================================================================================
