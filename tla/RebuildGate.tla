---------------------------- MODULE RebuildGate ----------------------------
(***************************************************************************)
(* What src/src/backend/gated_index.rs promises the callers of             *)
(* rebuild_if_dirty: one thread at a time rebuilds; a caller goes on to    *)
(* read the index only when every mark there was on its arrival has been   *)
(* dealt with; a rebuild that panics lets the next one in; and every       *)
(* caller gets away.  The two flags, the order in which they are read and  *)
(* written, and the calls a rebuild itself makes are left out.             *)
(***************************************************************************)
EXTENDS Integers

CONSTANTS Thread, NoThread

VARIABLES
    marks,          \* how often the index has been marked
    covered,        \* of these, the marks whose rebuild is over
    builder,        \* the thread that may rebuild
    caller          \* what each thread is doing at the gate

vars == <<marks, covered, builder, caller>>

Away == [role |-> "away"]
Waiter(n) == [role |-> "waiter", arrived |-> n]
Reader == [role |-> "reader"]
Fallen == [role |-> "fallen"]       \* its rebuild panicked

Init ==
    /\ marks = 1 /\ covered = 0
    /\ builder = NoThread
    /\ caller = [t \in Thread |-> Away]

Becomes(t, role) == caller' = [caller EXCEPT ![t] = role]
Free(t) == builder' = IF builder = t THEN NoThread ELSE builder

Mark == marks' = marks + 1 /\ UNCHANGED <<covered, builder, caller>>

Arrive(t) ==
    /\ caller[t] = Away
    /\ Becomes(t, Waiter(marks))
    /\ UNCHANGED <<marks, covered, builder>>

Enter(t) ==
    /\ caller[t].role = "waiter" /\ builder = NoThread
    /\ builder' = t
    /\ UNCHANGED <<marks, covered, caller>>

\* A rebuild is over, by its end or by its panic, and deals with the marks
\* there were when it began: no fewer than were dealt with before.
Cover(t) ==
    /\ builder = t
    /\ covered' \in (covered + 1) .. marks
    /\ UNCHANGED <<marks, builder, caller>>

Served(t) == caller[t].role = "waiter" /\ caller[t].arrived <= covered

Pass(t) ==
    /\ Served(t)
    /\ Becomes(t, Reader) /\ Free(t)
    /\ UNCHANGED <<marks, covered>>

GiveUp(t) ==
    /\ caller[t].role = "waiter" /\ builder = t
    /\ Becomes(t, Fallen)
    /\ UNCHANGED <<marks, covered, builder>>

Fall(t) ==
    /\ caller[t] = Fallen /\ builder = t
    /\ Becomes(t, Away) /\ Free(t)
    /\ UNCHANGED <<marks, covered>>

Return(t) ==
    /\ caller[t] = Reader
    /\ Becomes(t, Away)
    /\ UNCHANGED <<marks, covered, builder>>

Next ==
    \/ Mark
    \/ \E t \in Thread :
          \/ Arrive(t) \/ Enter(t) \/ Cover(t) \/ Pass(t)
          \/ GiveUp(t) \/ Fall(t) \/ Return(t)

\* The next thing a caller does to get away.  A rebuild for the marks of
\* somebody else is none.
Proceed(t) ==
    \/ Enter(t) \/ Pass(t) \/ Fall(t) \/ Return(t)
    \/ caller[t].role = "waiter" /\ ~Served(t) /\ Cover(t)

\* Strong: a caller waits for a gate that is free again and again.
Spec == Init /\ [][Next]_vars /\ \A t \in Thread : SF_vars(Proceed(t))
=============================================================================
