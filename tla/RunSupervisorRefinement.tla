---------------------- MODULE RunSupervisorRefinement ----------------------
(* RunSupervisor implements BackgroundRuns. *)
EXTENDS RunSupervisor

\* What a caller sees of a run: an id below `next` without a record was lost
\* with an earlier process or never reached the pool.
StatusOf(r) ==
    CASE r >= next -> "unused"
      [] r < next /\ run[r].state = "none" -> "gone"
      [] r < next /\ run[r].state \in Active -> "active"
      [] OTHER -> "ended"

TaskOf(r) == IF Unfinished(r) THEN "pending" ELSE future[r]

Promise == INSTANCE BackgroundRuns WITH
    status <- [r \in Runs |-> StatusOf(r)],
    task <- [r \in Runs |-> TaskOf(r)],
    result <- [r \in Runs |-> run[r].result],
    refused <- {c \in Clients : client[c].op = "rejected"}

\* The supervisor keeps its callers' view through every interleaving of
\* submissions, time-outs, collections, failing cancellations and crashes: a
\* run is accepted only below the cap and refused only at it, although runs
\* that ended unnoticed are still in the table as active; it is collected once,
\* with the outcome its task really had, and never becomes active again.
KeepsPromise == Promise!Spec
=============================================================================
