------------------------------ MODULE MCCache ------------------------------
(***************************************************************************)
(* Cache on a small instance: a white-listed datum, one that shares its    *)
(* bucket, and two that share the other bucket.                            *)
(***************************************************************************)
EXTENDS Cache

CONSTANTS a, b, c, w, h1, h2
MCHashOf == [d \in Data |-> IF d \in {a, b} THEN h1 ELSE h2]
=============================================================================
