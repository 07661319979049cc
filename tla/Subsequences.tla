---------------------------- MODULE Subsequences ----------------------------
(* A loop that keeps some elements of a list, as an operator without          *)
(* recursion.                                                                 *)
EXTENDS Naturals, Sequences, FiniteSets

\* s is a sequence, of whatever elements.
IsSeq(s) == s \in Seq({s[i] : i \in DOMAIN s})

\* The elements of seq at the positions I, in their order.
Subsequence(seq, I) ==
    LET rank(i) == Cardinality({j \in I : j <= i})
    IN  [k \in 1 .. Cardinality(I) |-> seq[CHOOSE i \in I : rank(i) = k]]

\* Each element once, where it occurs first.
Distinct(seq) == Subsequence(seq, {i \in DOMAIN seq : \A j \in 1 .. (i - 1) : seq[j] # seq[i]})
=============================================================================
