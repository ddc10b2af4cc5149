------------------------- MODULE MCReferenceCounts -------------------------
(***************************************************************************)
(* ReferenceCounts on small instances.                                     *)
(***************************************************************************)
EXTENDS ReferenceCounts

CONSTANTS d1, f1, f2

\* A file accesses a member at most once, at one place.
Marks == [Decl -> 0..1]

\* Every client, from a workspace that accesses d1 in f2 only.
OneAccess == Init /\ text = [f \in File |-> [d \in Decl |-> IF f = f2 THEN 1 ELSE 0]]
FromOneAccess == OneAccess /\ [][Next]_vars /\ Fairness

\* A client that takes refreshes; only such a client is shown placeholders.
WithRefreshes == Init /\ supports = TRUE
Refreshing == WithRefreshes /\ [][Next]_vars /\ Fairness
=============================================================================
