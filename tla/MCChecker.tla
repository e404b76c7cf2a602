----------------------------- MODULE MCChecker -----------------------------
(***************************************************************************)
(* Checker on a small instance.                                            *)
(***************************************************************************)
EXTENDS Checker, TLC

CONSTANTS d, e
MCTimeout == [x \in Devices |-> IF x = d THEN 8 ELSE 7]
Interchangeable == Permutations(Workers)
=============================================================================
