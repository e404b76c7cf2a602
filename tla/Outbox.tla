------------------------------- MODULE Outbox -------------------------------
(***************************************************************************)
(* What both programs promise of the data they collect: a datum is stored  *)
(* in the local database before the server sees it, is marked as uploaded  *)
(* only after the server has it, and is forgotten only after it is marked. *)
(* A crash costs nothing that is stored: here it is not even visible.      *)
(*                                                                         *)
(* The promise has an exception, kept in sight: a datum becomes doubtful   *)
(* when the database or the server left the program with a wrong idea of   *)
(* it.  Module Delivery (yah) implements Outbox with no doubtful datum     *)
(* when nothing of the kind can happen; module Btl names the two causes.   *)
(***************************************************************************)
CONSTANT Items

VARIABLES stored,   \* in the local database
          accepted, \* the server has it
          marked,   \* is_uploaded = 1
          doubtful  \* the program may be wrong about it

vars == <<stored, accepted, marked, doubtful>>

Init == stored = {} /\ accepted = {} /\ marked = {} /\ doubtful = {}

\* A datum is stored once.
Store(x) ==
    /\ x \notin stored \cup (accepted \ doubtful)
    /\ stored' = stored \cup {x}
    /\ UNCHANGED <<accepted, marked, doubtful>>

\* One post carries several data.  A datum may be accepted again.
Accept(S) ==
    /\ S \subseteq stored \cup doubtful
    /\ accepted' = accepted \cup S
    /\ UNCHANGED <<stored, marked, doubtful>>

Mark(x) ==
    /\ x \in stored
    /\ x \in accepted \cup doubtful
    /\ marked' = marked \cup {x}
    /\ UNCHANGED <<stored, accepted, doubtful>>

\* The clean-up of a start.
Forget ==
    /\ stored' = stored \ marked
    /\ marked' = {}
    /\ UNCHANGED <<accepted, doubtful>>

\* Something went wrong with the data of S; the server may have got them.
Mistake(S) ==
    /\ doubtful' = doubtful \cup S
    /\ accepted' \in {accepted, accepted \cup S}
    /\ UNCHANGED <<stored, marked>>

Next == \/ \E x \in Items : Store(x) \/ Mark(x)
        \/ \E S \in SUBSET Items : Accept(S) \/ Mistake(S)
        \/ Forget

Spec == Init /\ [][Next]_vars
=============================================================================
