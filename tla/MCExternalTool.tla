--------------------------- MODULE MCExternalTool ---------------------------
(***************************************************************************)
(* ExternalTool on small instances.                                        *)
(***************************************************************************)
EXTENDS ExternalTool

CONSTANT f1
=============================================================================
