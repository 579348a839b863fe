----------------------------- MODULE Filtering -----------------------------
(* The part of a sequence that lies in a set, packed to the front in its    *)
(* order: SelectSeq, by the place each element goes to, which a proof can   *)
(* follow.                                                                  *)
EXTENDS Naturals, Sequences, FiniteSets

\* How many of the first n elements lie in K.
Passed(s, K, n) == Cardinality({i \in 1 .. n : s[i] \in K})

\* Of the elements in K, the one with j - 1 of them before it.
Source(s, K, j) == CHOOSE i \in DOMAIN s : s[i] \in K /\ Passed(s, K, i) = j

Filter(s, K) == [j \in 1 .. Passed(s, K, Len(s)) |-> s[Source(s, K, j)]]

=============================================================================
