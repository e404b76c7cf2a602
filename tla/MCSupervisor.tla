---------------------------- MODULE MCSupervisor ----------------------------
(***************************************************************************)
(* Supervisor on a small instance.                                         *)
(***************************************************************************)
EXTENDS Supervisor
=============================================================================
