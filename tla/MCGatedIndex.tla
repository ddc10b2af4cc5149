---------------------------- MODULE MCGatedIndex ----------------------------
(***************************************************************************)
(* GatedIndex on small instances.                                          *)
(***************************************************************************)
EXTENDS GatedIndex

CONSTANT f1
=============================================================================
