------------------------------- MODULE MCCalc --------------------------------
(***************************************************************************)
(* All calibrations of a few points on a small grid and all readings of it *)
(* and a little beyond; all logics of up to three conditions on two tags.  *)
(***************************************************************************)
EXTENDS Calculations

Grid == 0..2
Beyond == -1..3
Numbers == {0, 1}

=============================================================================
