------------------------- MODULE MCFamilyDeprecation -------------------------
(***************************************************************************)
(* FamilyDeprecation for TLC: an old image and two builds, so that each    *)
(* build has up to two operations.                                         *)
(***************************************************************************)
EXTENDS FamilyDeprecation
=============================================================================
