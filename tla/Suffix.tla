------------------------------- MODULE Suffix -------------------------------
EXTENDS Integers, Sequences

(* What is left of a sequence from its k-th element on.                      *)
From(s, k) == SubSeq(s, k, Len(s))
=============================================================================
