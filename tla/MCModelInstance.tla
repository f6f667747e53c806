--------------------------- MODULE MCModelInstance ---------------------------
(***************************************************************************)
(* ModelInstance for TLC.  The constants get their values in the           *)
(* configuration; symmetry is not used, as liveness is checked.            *)
(***************************************************************************)
EXTENDS ModelInstance
=============================================================================
