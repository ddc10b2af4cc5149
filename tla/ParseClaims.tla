---------------------------- MODULE ParseClaims ----------------------------
(***************************************************************************)
(* What src/src/resolution/inflight.rs promises its callers: a file is     *)
(* parsed by one thread at a time, a thread that asks for it meanwhile     *)
(* stays until that parse is over, by its end or by its panic, and every   *)
(* caller gets away.  How a parse is made is left out.                     *)
(***************************************************************************)

CONSTANTS File, Thread, NoThread

VARIABLES
    owner,          \* the thread that parses each file
    caller          \* what each thread does with which file

Away == [role |-> "away"]
As(role, f) == [role |-> role, file |-> f]

Init ==
    /\ owner = [f \in File |-> NoThread]
    /\ caller = [t \in Thread |-> Away]

Claim(t, f) ==
    /\ caller[t] = Away /\ owner[f] = NoThread
    /\ owner' = [owner EXCEPT ![f] = t]
    /\ caller' = [caller EXCEPT ![t] = As("owner", f)]

Join(t, f) ==
    /\ caller[t] = Away /\ owner[f] # NoThread
    /\ caller' = [caller EXCEPT ![t] = As("joiner", f)]
    /\ UNCHANGED owner

\* The end of a parse, and the panic of one.
Land(t, f) ==
    /\ caller[t] = As("owner", f)
    /\ owner' = [owner EXCEPT ![f] = NoThread]
    /\ caller' = [caller EXCEPT ![t] = Away]

Leave(t, f) ==
    /\ caller[t] = As("joiner", f) /\ owner[f] = NoThread
    /\ caller' = [caller EXCEPT ![t] = Away]
    /\ UNCHANGED owner

\* The escape hatch: a joiner that waited for ten seconds.
Abandon(t, f) ==
    /\ caller[t] = As("joiner", f) /\ owner[f] # NoThread
    /\ caller' = [caller EXCEPT ![t] = Away]
    /\ UNCHANGED owner

Finish(t) == \E f \in File : Land(t, f) \/ Leave(t, f)

Next == \E t \in Thread :
    \/ Finish(t)
    \/ \E f \in File : Claim(t, f) \/ Join(t, f) \/ Abandon(t, f)

vars == <<owner, caller>>

\* Nobody counts on the hatch: a parse ends, and a joiner sees it end.
Spec == Init /\ [][Next]_vars /\ \A t \in Thread : WF_vars(Finish(t))
=============================================================================
