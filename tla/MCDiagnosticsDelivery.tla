----------------------- MODULE MCDiagnosticsDelivery -----------------------
(***************************************************************************)
(* DiagnosticsDelivery on small instances.                                 *)
(***************************************************************************)
EXTENDS DiagnosticsDelivery, TLC

\* Either kind of client, a pull client, a push client.
EitherMode == {TRUE, FALSE}
PullOnly == {TRUE}
PushOnly == {FALSE}

\* No file is told from another.
FileSymmetry == Permutations(File)
=============================================================================
