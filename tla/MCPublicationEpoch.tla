------------------------- MODULE MCPublicationEpoch -------------------------
(***************************************************************************)
(* PublicationEpoch on small instances.                                    *)
(***************************************************************************)
EXTENDS PublicationEpoch

CONSTANTS d1, g1

\* Background batches publish a document or another file on its own, or
\* both together.
AnyBatch == {{d1}, {g1}, {d1, g1}}
=============================================================================
