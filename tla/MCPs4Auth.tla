------------------------------ MODULE MCPs4Auth ------------------------------
(***************************************************************************)
(* The instances of Ps4Auth that TLC checks.                               *)
(***************************************************************************)
EXTENDS Ps4AuthProps
=============================================================================
