------------------------- MODULE MCStatefulSequences -------------------------
(***************************************************************************)
(* StatefulSequences for TLC.  The constants get their values in the       *)
(* configurations; symmetry is not used, as liveness is checked.           *)
(***************************************************************************)
EXTENDS StatefulSequences
=============================================================================
