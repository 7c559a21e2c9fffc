--------------------------- MODULE BackgroundRuns ---------------------------
(***************************************************************************)
(* What the callers of run_submit, run_inspect and run_cancel may rely on, *)
(* without the table, the journal, the pool's queue, the calls in progress *)
(* or the cancellation labels: a run is accepted while fewer than          *)
(* MaxActive are active, its task ends once, and when the run is collected *)
(* its result is the task's outcome, for good.  A server that dies takes   *)
(* its runs with it.                                                       *)
(***************************************************************************)
EXTENDS Integers, FiniteSets

CONSTANTS
    Runs,        \* the run ids
    Clients,     \* the callers
    MaxActive    \* how many runs may be active at a time

VARIABLES
    status,      \* "unused", "active", "ended" or "gone"
    task,        \* "none", "pending", "returned" or "raised"
    result,      \* "none", "value" or "failed"
    refused      \* the callers that are told there is no room

vars == <<status, task, result, refused>>

Init ==
    /\ status = [r \in Runs |-> "unused"]
    /\ task = [r \in Runs |-> "none"]
    /\ result = [r \in Runs |-> "none"]
    /\ refused = {}

Over(r) == task[r] \in {"returned", "raised"}
OutcomeOf(r) == IF task[r] = "returned" THEN "value" ELSE "failed"

\* The runs of S are collected: each ends with the outcome of its task.
StatusAfter(S) == [r \in Runs |-> IF r \in S THEN "ended" ELSE status[r]]
ResultAfter(S) == [r \in Runs |-> IF r \in S THEN OutcomeOf(r) ELSE result[r]]

\* The runs that ended unnoticed: a submission collects them before it counts.
Unnoticed == {r \in Runs : status[r] = "active" /\ Over(r)}
HasRoom == Cardinality({r \in Runs : status[r] = "active"} \ Unnoticed) < MaxActive

\* A submission is accepted, ...
Accept(r) ==
    /\ status[r] = "unused"
    /\ HasRoom
    /\ status' = [StatusAfter(Unnoticed) EXCEPT ![r] = "active"]
    /\ task' = [task EXCEPT ![r] = "pending"]
    /\ result' = ResultAfter(Unnoticed)
    /\ UNCHANGED refused

\* ... refused because there really is no room, ...
Refuse(c) ==
    /\ ~HasRoom
    /\ refused' = refused \cup {c}
    /\ status' = StatusAfter(Unnoticed)
    /\ result' = ResultAfter(Unnoticed)
    /\ UNCHANGED task

\* ... or fails with its id used up.
Fail(r) ==
    /\ status[r] = "unused"
    /\ HasRoom
    /\ status' = [StatusAfter(Unnoticed) EXCEPT ![r] = "gone"]
    /\ result' = ResultAfter(Unnoticed)
    /\ UNCHANGED <<task, refused>>

Reply(c) ==
    /\ refused' = refused \ {c}
    /\ UNCHANGED <<status, task, result>>

TaskEnds(r) ==
    /\ task[r] = "pending"
    /\ \E outcome \in {"returned", "raised"} : task' = [task EXCEPT ![r] = outcome]
    /\ UNCHANGED <<status, result, refused>>

\* The result of a run is fetched, for the first and only time.
Collect(r) ==
    /\ status[r] \in {"active", "ended"}
    /\ Over(r)
    /\ result[r] = "none"
    /\ status' = StatusAfter({r})
    /\ result' = ResultAfter({r})
    /\ UNCHANGED <<task, refused>>

\* The caller stops waiting; the task goes on.
Abandon(r) ==
    /\ status[r] = "active"
    /\ status' = [status EXCEPT ![r] = "ended"]
    /\ UNCHANGED <<task, result, refused>>

ServerDies ==
    /\ status' = [r \in Runs |-> IF status[r] = "unused" THEN "unused" ELSE "gone"]
    /\ task' = [r \in Runs |-> "none"]
    /\ result' = [r \in Runs |-> "none"]
    /\ refused' = {}

Next ==
    \/ \E r \in Runs : Accept(r) \/ Fail(r) \/ TaskEnds(r) \/ Collect(r) \/ Abandon(r)
    \/ \E c \in Clients : Refuse(c) \/ Reply(c)
    \/ ServerDies

Spec == Init /\ [][Next]_vars
=============================================================================
