------------------------------- MODULE MCBtl -------------------------------
(***************************************************************************)
(* Btl on a small instance.                                                *)
(***************************************************************************)
EXTENDS Btl, TLC

\* Devices are interchangeable: sound, since only safety is checked.
Interchangeable == Permutations(Devices)
=============================================================================
