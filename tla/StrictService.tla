---------------------------- MODULE StrictService ----------------------------
(***************************************************************************)
(* The strict execution service (codecalc/strict_service.py) over the      *)
(* gVisor runtime (codecalc/strict_runtime.py): one process, a thread per  *)
(* HTTP request, a table of run records under one lock, and containers     *)
(* named after run ids in a Docker daemon that outlives the process.       *)
(*                                                                         *)
(* execute() admits under the lock and runs the container outside it, so   *)
(* cancellations, deletions and a repeated execute of the same run id      *)
(* interleave with it.  A record is an object of its own: an execute keeps *)
(* writing to the record it made, whether or not the table still holds it. *)
(***************************************************************************)
EXTENDS Integers, FiniteSets

CONSTANTS
    RunIds,         \* run ids clients use
    Threads,        \* request threads
    Requests,       \* what is asked, a subset of AllRequests
    MaxConcurrent,  \* MAX_CONCURRENT_RUNS
    MaxTracked,     \* MAX_TRACKED_RUNS
    MaxRecords,     \* bound: how many executions are ever admitted
    MaxCrashes      \* bound: how often the process dies

\* "repeat": a run id may be executed again while its first execute runs.
AllRequests == {"execute", "repeat", "cancel", "delete"}

ASSUME StrictServiceAssumption ==
    /\ Requests \subseteq AllRequests
    /\ MaxConcurrent \in Nat \ {0}
    /\ MaxTracked \in Nat /\ MaxTracked >= MaxConcurrent    \* 512 and 8
    /\ MaxRecords \in Nat /\ MaxCrashes \in Nat

Records == 1 .. MaxRecords

VARIABLES
    up,         \* is the service serving
    record,     \* self._runs: the record of a run id, 0 for none
    since,      \* self._runs keeps insertion order: the record that brought
                \* a run id into the table, 0 for none
    status,     \* the status field of each record
    container,  \* the container named after a run id: who made it, is it live
    thread,     \* the request each thread serves
    made,       \* number of records made
    crashes,    \* how often the process died
    dockerFails \* docker commands of this host may fail or time out

table == <<record, since, status>>
vars == <<up, table, container, thread, made, crashes, dockerFails>>

Statuses == {"none", "running", "completed", "failed", "cancelled"}
ContainerState == [by : 0 .. MaxRecords, live : BOOLEAN]
NoContainer == [by |-> 0, live |-> FALSE]

\* launch .. settle: execute; label: cancel; pop: delete.
Pcs == {"idle", "launch", "inside", "teardown", "settle", "label", "pop"}
ThreadState == [pc : Pcs, run : RunIds \cup {"none"}, rec : 0 .. MaxRecords, ok : BOOLEAN]
Idle == [pc |-> "idle", run |-> "none", rec |-> 0, ok |-> FALSE]

TypeOK ==
    /\ up \in BOOLEAN
    /\ record \in [RunIds -> 0 .. MaxRecords]
    /\ since \in [RunIds -> 0 .. MaxRecords]
    /\ status \in [Records -> Statuses]
    /\ container \in [RunIds -> ContainerState]
    /\ thread \in [Threads -> ThreadState]
    /\ made \in 0 .. MaxRecords
    /\ crashes \in 0 .. MaxCrashes
    /\ dockerFails \in BOOLEAN

Init ==
    /\ up = TRUE
    /\ record = [r \in RunIds |-> 0]
    /\ since = [r \in RunIds |-> 0]
    /\ status = [n \in Records |-> "none"]
    /\ container = [r \in RunIds |-> NoContainer]
    /\ thread = [t \in Threads |-> Idle]
    /\ made = 0
    /\ crashes = 0
    /\ dockerFails \in BOOLEAN

----------------------------------------------------------------------------
(* The table.                                                              *)

Running(r) == record[r] # 0 /\ status[record[r]] = "running"

Tracked(tab) == {q \in RunIds : tab[q] # 0}

\* Mutant: whatever is oldest goes.
EvictableMutant(tab, st) == Tracked(tab)

\* The run ids whose records _evict_oldest_locked may drop.
Evictable(tab, st) == {q \in Tracked(tab) : st[tab[q]] # "running"}

\* How many records are too many.
Excess(tab) == Cardinality(Tracked(tab)) - MaxTracked

\* The run ids dropped: the oldest evictable ones, as many as are too many.
Evicted(tab, age, st) ==
    {q \in Evictable(tab, st) :
        Cardinality({p \in Evictable(tab, st) : age[p] < age[q]}) < Excess(tab)}

----------------------------------------------------------------------------
(* POST execute.                                                           *)

\* The concurrency count.
InFlight == Cardinality({r \in RunIds : Running(r)})

\* A record is made and enters the table, in the place of an older one of the
\* same run id if there is one, and the table is trimmed; at the cap the
\* request is answered 429 and nothing changes.
Execute(t, r) ==
    LET n == made + 1
        tab == [record EXCEPT ![r] = n]
        age == IF record[r] # 0 THEN since ELSE [since EXCEPT ![r] = n]
        st == [status EXCEPT ![n] = "running"]
        gone == Evicted(tab, age, st)
    IN  /\ up
        /\ "execute" \in Requests
        /\ thread[t] = Idle
        /\ made < MaxRecords
        /\ (\E u \in Threads : thread[u].rec # 0 /\ thread[u].run = r) => "repeat" \in Requests
        /\ InFlight < MaxConcurrent
        /\ made' = n
        /\ record' = [q \in RunIds |-> IF q \in gone THEN 0 ELSE tab[q]]
        /\ since' = [q \in RunIds |-> IF q \in gone THEN 0 ELSE age[q]]
        /\ status' = st
        /\ thread' = [thread EXCEPT ![t] = [pc |-> "launch", run |-> r, rec |-> n, ok |-> FALSE]]
        /\ UNCHANGED <<up, container, crashes, dockerFails>>

\* probe and `docker run --name`: the container starts, the name is taken, or
\* Docker refuses; a failing probe or stdin file comes before the teardown.
Launch(t) ==
    LET r == thread[t].run IN
    /\ thread[t].pc = "launch"
    /\ \/ /\ container[r] = NoContainer
          /\ container' = [container EXCEPT ![r] = [by |-> thread[t].rec, live |-> TRUE]]
          /\ thread' = [thread EXCEPT ![t].pc = "inside"]
       \/ /\ \E pc \in {"teardown", "settle"} : thread' = [thread EXCEPT ![t].pc = pc]
          /\ UNCHANGED container
    /\ UNCHANGED <<up, table, made, crashes, dockerFails>>

\* The docker client returns: the program ended and printed a result, or it
\* was killed or removed, printed no result, or took longer than timeout + 5.
Finish(t) ==
    LET r == thread[t].run
        mine == container[r].by = thread[t].rec /\ container[r].live
    IN  /\ thread[t].pc = "inside"
        /\ \/ /\ mine
              /\ container' = [container EXCEPT ![r].live = FALSE]
              /\ thread' = [thread EXCEPT ![t].pc = "teardown", ![t].ok = TRUE]
           \/ /\ thread' = [thread EXCEPT ![t].pc = "teardown"]
              /\ UNCHANGED container
        /\ UNCHANGED <<up, table, made, crashes, dockerFails>>

\* runtime.cleanup: `docker rm --force` of the container of that name; its
\* labels say that codecalc made it for this run id.
RemoveContainer(r) ==
    \/ container' = [container EXCEPT ![r] = NoContainer]
    \/ dockerFails /\ UNCHANGED container

\* Mutant: a failed run does not tear its container down.
TeardownMutant(t) ==
    /\ thread[t].pc = "teardown"
    /\ IF thread[t].ok THEN RemoveContainer(thread[t].run) ELSE UNCHANGED container
    /\ thread' = [thread EXCEPT ![t].pc = "settle"]
    /\ UNCHANGED <<up, table, made, crashes, dockerFails>>

\* The teardown on both exits; one that raises turns a result into a failure.
Teardown(t) ==
    /\ thread[t].pc = "teardown"
    /\ RemoveContainer(thread[t].run)
    /\ \/ thread' = [thread EXCEPT ![t].pc = "settle"]
       \/ dockerFails /\ thread' = [thread EXCEPT ![t].pc = "settle", ![t].ok = FALSE]
    /\ UNCHANGED <<up, table, made, crashes, dockerFails>>

\* Mutant: an exception other than StrictRuntimeUnavailable escapes.
SettleMutant(t) ==
    /\ thread[t].pc = "settle"
    /\ status' \in {status, [status EXCEPT ![thread[t].rec] = "completed"]}
    /\ thread' = [thread EXCEPT ![t] = Idle]
    /\ UNCHANGED <<up, record, since, container, made, crashes, dockerFails>>

\* The record becomes terminal, under the lock, and the reply is sent.
Settle(t) ==
    /\ thread[t].pc = "settle"
    /\ status' = [status EXCEPT ![thread[t].rec] = IF thread[t].ok THEN "completed" ELSE "failed"]
    /\ thread' = [thread EXCEPT ![t] = Idle]
    /\ UNCHANGED <<up, record, since, container, made, crashes, dockerFails>>

----------------------------------------------------------------------------
(* POST cancel and DELETE.                                                 *)

\* runtime.cancel: `docker kill` of a live container of ours; anything else
\* is answered 409, a docker command that times out 500, and nothing more.
CancelKills(t, r) ==
    /\ up
    /\ "cancel" \in Requests
    /\ thread[t] = Idle
    /\ container[r].live
    /\ container' = [container EXCEPT ![r].live = FALSE]
    /\ \/ thread' = [thread EXCEPT ![t] = [pc |-> "label", run |-> r, rec |-> 0, ok |-> FALSE]]
       \/ dockerFails /\ UNCHANGED thread
    /\ UNCHANGED <<up, table, made, crashes, dockerFails>>

CancelLabels(t) ==
    LET r == thread[t].run IN
    /\ thread[t].pc = "label"
    /\ status' = IF record[r] # 0 THEN [status EXCEPT ![record[r]] = "cancelled"] ELSE status
    /\ thread' = [thread EXCEPT ![t] = Idle]
    /\ UNCHANGED <<up, record, since, container, made, crashes, dockerFails>>

DeleteRemoves(t, r) ==
    /\ up
    /\ "delete" \in Requests
    /\ thread[t] = Idle
    /\ RemoveContainer(r)
    /\ \/ thread' = [thread EXCEPT ![t] = [pc |-> "pop", run |-> r, rec |-> 0, ok |-> FALSE]]
       \/ dockerFails /\ UNCHANGED thread
    /\ UNCHANGED <<up, table, made, crashes, dockerFails>>

DeletePops(t) ==
    LET r == thread[t].run IN
    /\ thread[t].pc = "pop"
    /\ record' = [record EXCEPT ![r] = 0]
    /\ since' = [since EXCEPT ![r] = 0]
    /\ thread' = [thread EXCEPT ![t] = Idle]
    /\ UNCHANGED <<up, status, container, made, crashes, dockerFails>>

----------------------------------------------------------------------------
(* The process dies; the containers stay.  main() removes them before it   *)
(* serves again.                                                           *)

Crash ==
    /\ up
    /\ crashes < MaxCrashes
    /\ crashes' = crashes + 1
    /\ up' = FALSE
    /\ record' = [r \in RunIds |-> 0]
    /\ since' = [r \in RunIds |-> 0]
    /\ status' = [n \in Records |-> "none"]
    /\ thread' = [t \in Threads |-> Idle]
    /\ UNCHANGED <<container, made, dockerFails>>

\* Containers with our owner label.
Recoverable == RunIds

\* recover_orphans, then listen; a removal that fails is not retried.
Boot ==
    /\ ~up
    /\ up' = TRUE
    /\ \E gone \in IF dockerFails THEN SUBSET Recoverable ELSE {Recoverable} :
           container' = [r \in RunIds |-> IF r \in gone THEN NoContainer ELSE container[r]]
    /\ UNCHANGED <<table, thread, made, crashes, dockerFails>>

----------------------------------------------------------------------------
RequestStep(t) ==
    \/ Launch(t) \/ Finish(t) \/ Teardown(t) \/ Settle(t)
    \/ CancelLabels(t) \/ DeletePops(t)

Next ==
    \/ \E t \in Threads, r \in RunIds : Execute(t, r) \/ CancelKills(t, r) \/ DeleteRemoves(t, r)
    \/ \E t \in Threads : RequestStep(t)
    \/ Crash
    \/ Boot

Spec == Init /\ [][Next]_vars

----------------------------------------------------------------------------
(* Properties.                                                             *)

\* A slot is held only by a request in flight: the table counts no record as
\* running unless a thread is still executing it, whatever was cancelled,
\* deleted, repeated or evicted meanwhile (a record left at "running" would
\* keep the service at its limit for ever).  The table itself stays within
\* MAX_TRACKED_RUNS although clients never delete: at the limit there is
\* always a record that ended and may go.
SlotsAreHeld ==
    /\ \A r \in RunIds : Running(r) => \E t \in Threads : thread[t].rec = record[r]
    /\ Cardinality(Tracked(record)) <= MaxTracked

\* The converse: an execution in flight whose record is counted as running in
\* the table keeps its slot until it settles.  Whatever others are admitted,
\* settle or are evicted at the limits, only a request for the same run id takes
\* it: a DELETE or a cancel that ends (the execution may still be going on), or
\* an execute repeated under that id.
Holds(t) ==
    /\ thread[t].rec # 0
    /\ record[thread[t].run] = thread[t].rec
    /\ status[thread[t].rec] = "running"
Takes(u, r) ==
    \/ thread[u].pc \in {"pop", "label"} /\ thread[u].run = r
    \/ thread[u] = Idle /\ thread'[u].pc = "launch" /\ thread'[u].run = r
SlotsAreKept ==
    [][\A t \in Threads : Holds(t) /\ up' /\ thread'[t].rec # 0 =>
           Holds(t)' \/ \E u \in Threads \ {t} : Takes(u, thread[t].run)]_vars

\* While the service is up every container belongs to a request that will
\* tear it down: none survives its run, a crash, or a race with DELETE, unless
\* a docker command failed.
ContainersOwned ==
    up /\ ~dockerFails => \A r \in RunIds : container[r].by # 0 =>
        \E t \in Threads : thread[t].rec = container[r].by

=============================================================================
