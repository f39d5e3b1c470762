----------------------------- MODULE MatchLife -----------------------------
(***************************************************************************)
(* matches.status as those who read it know it: which transaction moves a  *)
(* match from which phase to which.  The readers (the API, the walkers,    *)
(* the archive) hold no lock and see one commit after the other; a tick    *)
(* and a poll of the waiter move many matches at once, the others one.     *)
(* Compare the diagram in docs/specs/job-graph.md, which has the usual     *)
(* moves only.                                                             *)
(***************************************************************************)
CONSTANT Match

VARIABLE phase

Download == {"awaiting_replay", "replay_stored", "replay_unavailable", "parsed"}
Kept == Download \cup {"details_ready"}
Early == {"discovered", "not_started", "awaiting_history", "awaiting_details"}
Phase == Kept \cup Early \cup {"absent", "live", "failed"}

Init == phase = [m \in Match |-> "absent"]

Moves(m, from, to) == phase[m] \in from /\ phase'[m] \in to

Stays(m) == phase'[m] = phase[m]

\* A sighting brings a match back unless it is past that; the feeds' silence
\* finishes it.
LiveTick ==
    \A m \in Match :
        \/ Stays(m)
        \/ Moves(m, Phase \ Kept, {"live"})
        \/ Moves(m, {"live"}, {"awaiting_history", "not_started"})

\* The waiter's timeout was decided on an earlier read: no phase is safe from it.
WaiterPoll ==
    \A m \in Match :
        \/ Stays(m)
        \/ Moves(m, {"discovered", "not_started", "awaiting_history", "failed"},
                    {"awaiting_details"})
        \/ Moves(m, Phase \ {"absent"}, {"failed"})

HistoryPage ==
    \A m \in Match :
        Stays(m) \/ Moves(m, Early \cup {"absent"}, {"awaiting_details"})

Only(m) == \A n \in Match \ {m} : Stays(n)

\* A match record, from wherever it comes; its phase never gets behind
\* details_ready again.
Record(m) ==
    /\ Only(m)
    /\ \/ Moves(m, Phase \ Download, {"details_ready"})
       \/ Moves(m, Phase \ Kept, {"awaiting_details"})

Verdict(m) ==
    /\ Only(m)
    /\ Moves(m, Phase \ {"absent", "parsed"}, {"replay_stored", "replay_unavailable"})

Publish(m) ==
    /\ Only(m)
    /\ Moves(m, {"details_ready", "awaiting_replay", "replay_stored"}, {"parsed"})

Next ==
    /\ phase' = [m \in Match |-> phase'[m]]
    /\ \/ LiveTick \/ WaiterPoll \/ HistoryPage
       \/ \E m \in Match : Record(m) \/ Verdict(m) \/ Publish(m)

Moving == [][Next]_phase

Spec == Init /\ Moving
=============================================================================
