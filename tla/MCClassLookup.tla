--------------------------- MODULE MCClassLookup ---------------------------
(***************************************************************************)
(* ClassLookup on small instances: file 1 always declares c1, where PSR-4  *)
(* expects it, and may declare c2.                                         *)
(***************************************************************************)
EXTENDS ClassLookup

CONSTANTS c1, c2

InFirst == [c \in Class |-> 1]
WithC1  == {{c1}, {c1, c2}}
=============================================================================
