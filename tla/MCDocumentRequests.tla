------------------------- MODULE MCDocumentRequests -------------------------
(***************************************************************************)
(* DocumentRequests on small instances: three texts, the third of which    *)
(* the parser panics on.                                                   *)
(***************************************************************************)
EXTENDS DocumentRequests, FiniteSets, TLC

CONSTANTS r1, r2, MaxEvents

Lengths == [t \in Text |-> t]
Requests == {r1, r2}
Alike    == Permutations(Requests)

\* Requests, edits and writes share one bound; the trade-off keeps the
\* instance small and leaves each of them its own bound.
Started == Cardinality({r \in Request : request[r].pc # "new"})
Trading == (Started + edits + writes)' <= MaxEvents
Traded  == Init /\ [][Next /\ Trading]_vars
=============================================================================
