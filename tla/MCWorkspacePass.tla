-------------------------- MODULE MCWorkspacePass --------------------------
(***************************************************************************)
(* WorkspacePass on small instances.                                       *)
(***************************************************************************)
EXTENDS WorkspacePass

CONSTANTS Edited, MaxEvents

\* Edits, closes and switches share a budget.  The editor touches only the
\* files of Edited, does not edit a file again after a close, and reopens it
\* while it is being recomputed.  The setting is switched between two polls,
\* with nothing edited or closed before and only the files of Edited closed,
\* and no thread is refused where it is.
Trading ==
    /\ edits' + closes' + switches' <= MaxEvents
    /\ edits' # edits => closes = 0
    /\ \A f \in File : buffer'[f] # buffer[f] =>
          f \in Edited /\ (buffer[f] = NoText => closes = 0 \/ jobs # {})
    /\ switches' > 0 =>
          edits' + closes' = 0 /\ \A f \in File : buffer'[f] = NoText <=> f \in Edited
    /\ switches' > 0 => \A p \in Pass, i \in Slot : ~worker'[p][i].refused
    /\ switches' # switches => \A p \in Pass : pass[p].pc \in {"none", "config", "poll", "ended"}
Traded == Init /\ [][Next /\ Trading]_vars /\ Fairness
=============================================================================
