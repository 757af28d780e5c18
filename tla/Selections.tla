----------------------------- MODULE Selections -----------------------------
(***************************************************************************)
(* The elements of a sequence that are in a set: what SelectSeq does for a *)
(* predicate, as an operator of first order, so that the other modules can *)
(* be reasoned about.                                                      *)
(***************************************************************************)
EXTENDS Naturals, Sequences, SequencesExt

\* The elements of s that are in T, in their order.
Those(s, T) == FlattenSeq([i \in DOMAIN s |-> IF s[i] \in T THEN <<s[i]>> ELSE <<>>])
=============================================================================
