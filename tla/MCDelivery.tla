----------------------------- MODULE MCDelivery -----------------------------
(***************************************************************************)
(* Delivery on small instances.                                            *)
(***************************************************************************)
EXTENDS Delivery, TLC

\* The sender workers run the same function, and nothing tells the sightings
\* of one kind apart: sound for invariants, not used with liveness.
Interchangeable == Permutations(Senders) \cup Permutations(StationSightings)
=============================================================================
