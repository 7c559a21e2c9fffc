--------------------------- MODULE RunSupervisor ---------------------------
(***************************************************************************)
(* Background runs: codecalc/run_supervisor.py and the tool calls that     *)
(* drive it (run_submit, run_inspect, run_cancel of server.py and the      *)
(* managed branch of ExecutionService.execute).                            *)
(*                                                                         *)
(* One server process owns a table of runs, a pool of worker threads and a *)
(* directory of journal files.  Tool calls run on threads of their own, so *)
(* everything a call does outside the supervisor's lock (waiting for a     *)
(* future, talking to the provider about a cancellation) interleaves with  *)
(* the other calls.  What happens under the lock is one step, except that  *)
(* the process may die in the middle of it.  A crash loses the table and   *)
(* the pool and keeps the journal and the directories; the next start of   *)
(* the server runs recover_orphans over the journal before it serves.      *)
(*                                                                         *)
(* Run ids are numbered in the order of their insertion in the table, the  *)
(* order in which _reap_completed_locked visits them.                      *)
(***************************************************************************)
EXTENDS Integers, FiniteSets

CONSTANTS
    MaxRuns,        \* bound: how many runs are ever submitted
    Clients,        \* the threads that tool calls run on
    Workers,        \* threads of the pool (8 in the code)
    MaxActive,      \* max_active_runs, the admission cap
    MaxCompleted,   \* max_completed, terminal journals kept by _prune
    MaxCrashes,     \* bound: how often the process dies
    Kinds           \* what runs are submitted to, see AllKinds

\* What a run is submitted to: the local provider (no lifecycle capability),
\* the local provider with per-run dependencies (owns a workdir), or a managed
\* provider (capabilities managed_runs, cancel and cleanup).
AllKinds == {"local", "dependencies", "managed"}

ASSUME RunSupervisorAssumption ==
    /\ MaxRuns \in Nat
    /\ Workers \in Nat \ {0}
    /\ MaxActive \in Nat \ {0}       \* RunSupervisor.__init__ refuses less
    /\ MaxCompleted \in Nat          \* RunSupervisor.__init__ refuses less
    /\ MaxCrashes \in Nat
    /\ Kinds \subseteq AllKinds

Runs == 1 .. MaxRuns

Active == {"running", "cancelling"}
Terminal == {"finished", "cleaned", "recovered"}

VARIABLES
    mode,        \* "up", "recovering" (server import), "down"
    registered,  \* is the managed provider in this boot's registry
    next,        \* the id of the next run
    kind,        \* kind[r]: provider and workdir of the run, fixed at start
    run,         \* the table self._runs: state, result, cleaned, workdir_cleaned
    future,      \* future[r]: the pool's future of the run
    workdir,     \* the dependency directory on disk
    journal,     \* the journal file of the run
    newer,       \* newer[r]: runs whose journal file has a later mtime
    todo,        \* journal files recover_orphans has still to visit
    client,      \* the tool call each thread is in
    acked,       \* runs whose provider accepted a cancellation
    crashes      \* number of crashes so far

memory == <<run, future, client, acked>>
disk == <<workdir, journal, newer>>
boot == <<mode, registered, todo, crashes>>
ids == <<next, kind>>
vars == <<memory, disk, boot, ids>>

----------------------------------------------------------------------------
(* Types.                                                                  *)

RunRecord == [state : {"none", "running", "cancelling", "finished", "cleaned"},
              result : {"none", "value", "failed"},
              cleaned : BOOLEAN,
              workdir_cleaned : BOOLEAN]

NoRun == [state |-> "none", result |-> "none",
          cleaned |-> FALSE, workdir_cleaned |-> FALSE]
NewRun == [NoRun EXCEPT !.state = "running"]

\* "torn" is a file that does not parse.
JournalEntry == [state : {"absent", "torn"} \cup Active \cup Terminal,
                 cleaned : BOOLEAN,
                 workdir : BOOLEAN,
                 workdir_cleaned : BOOLEAN]

NoEntry == [state |-> "absent", cleaned |-> FALSE,
            workdir |-> FALSE, workdir_cleaned |-> FALSE]
Torn == [NoEntry EXCEPT !.state = "torn"]

Futures == {"none", "queued", "executing", "returned", "raised"}
Workdirs == {"none", "present", "removed", "leaked"}

\* rejected: TooManyActiveRuns was raised; wait/cleanup: the managed branch of
\* execute; cancel: in provider.cancel; collect/release: run_inspect of a
\* terminal run; not_collectible: its "should be unreachable" reply.
Ops == {"idle", "rejected", "wait", "cleanup", "cancel",
        "collect", "release", "not_collectible"}
Idle == [op |-> "idle", run |-> 0]

TypeOK ==
    /\ mode \in {"up", "recovering", "down"}
    /\ registered \in BOOLEAN
    /\ next \in 1 .. MaxRuns + 1
    /\ kind \in [Runs -> AllKinds \cup {"none"}]
    /\ run \in [Runs -> RunRecord]
    /\ future \in [Runs -> Futures]
    /\ workdir \in [Runs -> Workdirs]
    /\ journal \in [Runs -> JournalEntry]
    /\ newer \in [Runs -> SUBSET Runs]
    /\ todo \in SUBSET Runs
    /\ client \in [Clients -> [op : Ops, run : Runs \cup {0}]]
    /\ acked \in SUBSET Runs
    /\ crashes \in 0 .. MaxCrashes

Init ==
    /\ mode = "up"
    /\ registered \in BOOLEAN
    /\ next = 1
    /\ kind = [r \in Runs |-> "none"]
    /\ run = [r \in Runs |-> NoRun]
    /\ future = [r \in Runs |-> "none"]
    /\ workdir = [r \in Runs |-> "none"]
    /\ journal = [r \in Runs |-> NoEntry]
    /\ newer = [r \in Runs |-> {}]
    /\ todo = {}
    /\ client = [c \in Clients |-> Idle]
    /\ acked = {}
    /\ crashes = 0

----------------------------------------------------------------------------
(* The journal directory.                                                  *)

\* _write: what the file of a run with record rec and kind k says.
Entry(rec, k) == [state |-> rec.state,
                  cleaned |-> rec.cleaned,
                  workdir |-> k = "dependencies",
                  workdir_cleaned |-> k = "dependencies" /\ rec.workdir_cleaned]

\* The modification times after the files of S are written, in id order.
Touched(S) == [r \in Runs |-> IF r \in S THEN {p \in S : p > r}
                              ELSE IF journal[r].state = "absent" THEN {}
                              ELSE newer[r] \cup S]

\* Mutant: _prune does not read what state a file records.
IsTerminalMutant(j, r) == j[r].state # "absent"

IsTerminal(j, r) == j[r].state \in Terminal

\* _prune: of the files j that record a terminal state, with times t, keep the
\* MaxCompleted newest.
Prune(j, t) ==
    [r \in Runs |->
        IF /\ IsTerminal(j, r)
           /\ Cardinality({p \in t[r] : IsTerminal(j, p)}) >= MaxCompleted
        THEN NoEntry ELSE j[r]]

\* Times of the files that exist.
Compact(j, t) ==
    [r \in Runs |-> IF j[r].state = "absent" THEN {}
                    ELSE {p \in t[r] : j[p].state # "absent"}]

\* Write the files of the runs S from the table tab, with kinds k; prune or not.
Save(S, tab, k) ==
    /\ journal' = [r \in Runs |-> IF r \in S THEN Entry(tab[r], k[r]) ELSE journal[r]]
    /\ newer' = Touched(S)

SaveAndPrune(S, tab, k) ==
    LET written == [r \in Runs |-> IF r \in S THEN Entry(tab[r], k[r]) ELSE journal[r]]
        pruned == Prune(written, Touched(S))
    IN  /\ journal' = pruned
        /\ newer' = Compact(pruned, Touched(S))

\* executor._rmtree_checked on the workdirs of S: the directory is gone, or it
\* could not be (fully) deleted.  Its callers here drop the verdict it returns.
RemoveWorkdirs(S) ==
    \E gone \in SUBSET S :
        workdir' = [r \in Runs |-> IF r \in gone THEN "removed"
                                   ELSE IF r \in S THEN "leaked"
                                   ELSE workdir[r]]

----------------------------------------------------------------------------
(* Collection.                                                             *)

Done(r) == future[r] \in {"returned", "raised"}

\* _collect on a run whose result is not set yet.
Collected(r) ==
    [state |-> "finished",
     result |-> IF future[r] = "returned" THEN "value" ELSE "failed",
     cleaned |-> run[r].cleaned,
     workdir_cleaned |-> kind[r] = "dependencies"]

\* The table after _collect on every run of S.
CollectAll(S) == [r \in Runs |-> IF r \in S THEN Collected(r) ELSE run[r]]

\* Mutant: the directory is released only when the run succeeded.
OwnedMutant(S) == {r \in S : /\ kind[r] = "dependencies"
                             /\ ~run[r].workdir_cleaned
                             /\ future[r] = "returned"}

\* The directories _collect removes for the runs of S.
Owned(S) == {r \in S : kind[r] = "dependencies" /\ ~run[r].workdir_cleaned}

\* _collect(r), complete: it does nothing when a result is already there.
Collect(r) ==
    LET S == {r} \cap {q \in Runs : run[q].result = "none"}
    IN  IF S = {}
        THEN UNCHANGED <<run, disk>>
        ELSE /\ run' = CollectAll(S)
             /\ RemoveWorkdirs(Owned(S))
             /\ SaveAndPrune(S, CollectAll(S), kind)

\* What _reap_completed_locked and inspect collect.
Reapable == {r \in Runs : run[r].state \in Active /\ Done(r)}

ActiveIn(tab) == {r \in Runs : tab[r].state \in Active}

\* The admission test of start(), on the reaped table.
HasSlot(tab) == Cardinality(ActiveIn(tab)) < MaxActive

----------------------------------------------------------------------------
(* start().                                                                *)

\* Reap, count, and insert and journal run `next` before it is submitted; the
\* thread goes on with operation op.
Admit(c, k, op) ==
    LET reaped == CollectAll(Reapable)
        tab == [reaped EXCEPT ![next] = NewRun]
        kinds == [kind EXCEPT ![next] = k]
    IN  /\ HasSlot(reaped)
        /\ run' = tab
        /\ kind' = kinds
        /\ future' = [future EXCEPT ![next] = "queued"]
        /\ \E gone \in SUBSET Owned(Reapable) :
               workdir' = [r \in Runs |->
                              IF r \in gone THEN "removed"
                              ELSE IF r \in Owned(Reapable) THEN "leaked"
                              ELSE IF r = next /\ k = "dependencies" THEN "present"
                              ELSE workdir[r]]
        /\ IF Reapable = {} THEN Save({next}, tab, kinds)
                            ELSE SaveAndPrune(Reapable \cup {next}, tab, kinds)
        /\ next' = next + 1
        /\ client' = [client EXCEPT ![c] = [op |-> op, run |-> IF op = "wait" THEN next ELSE 0]]
        /\ UNCHANGED <<acked, boot>>

\* TooManyActiveRuns: the reaping before the count stays done.
Reject(c) ==
    LET reaped == CollectAll(Reapable)
    IN  /\ ~HasSlot(reaped)
        /\ run' = reaped
        /\ RemoveWorkdirs(Owned(Reapable))
        /\ IF Reapable = {} THEN UNCHANGED <<journal, newer>>
                            ELSE SaveAndPrune(Reapable, reaped, kind)
        /\ client' = [client EXCEPT ![c].op = "rejected"]
        /\ UNCHANGED <<future, acked, boot, ids>>

\* self._pool.submit() raises: the record is taken back, the workdir removed
\* and the file rewritten as finished; nothing is pruned for it.
SubmitFails(c, k) ==
    LET reaped == CollectAll(Reapable)
        failed == [NewRun EXCEPT !.state = "finished", !.workdir_cleaned = TRUE]
        tab == [reaped EXCEPT ![next] = failed]
        kinds == [kind EXCEPT ![next] = k]
        dirs == Owned(Reapable) \cup (IF k = "dependencies" THEN {next} ELSE {})
    IN  /\ HasSlot(reaped)
        /\ run' = reaped
        /\ kind' = kinds
        /\ RemoveWorkdirs(dirs)
        /\ LET unpruned == [r \in Runs |-> IF r \in Reapable THEN Entry(reaped[r], kind[r])
                                           ELSE journal[r]]
               pruned == IF Reapable = {} THEN journal ELSE Prune(unpruned, Touched(Reapable))
               written == [pruned EXCEPT ![next] = Entry(failed, k)]
           IN  /\ journal' = written
               /\ newer' = Compact(written, Touched(Reapable \cup {next}))
        /\ next' = next + 1
        /\ UNCHANGED <<future, client, acked, boot>>

CanStart(c, k) ==
    /\ mode = "up"
    /\ client[c] = Idle
    /\ next \in Runs
    /\ k \in Kinds
    /\ k = "managed" => registered

\* run_submit
RunSubmit(c) ==
    \E k \in Kinds :
        /\ CanStart(c, k)
        /\ \/ Admit(c, k, "idle")
           \/ Reject(c)
           \/ SubmitFails(c, k)

\* ExecutionService.execute on a managed provider, up to the call of wait().
ExecuteManaged(c) ==
    /\ CanStart(c, "managed")
    /\ \/ Admit(c, "managed", "wait")
       \/ Reject(c)
       \/ SubmitFails(c, "managed")

\* The reply goes out to the caller.
Reply(c) ==
    /\ client[c].op \in {"rejected", "not_collectible"}
    /\ client' = [client EXCEPT ![c] = Idle]
    /\ UNCHANGED <<run, future, acked, disk, boot, ids>>

----------------------------------------------------------------------------
(* The pool: tasks are taken in the order of their submission.             *)

\* Mutant: a task that raises takes its thread down with it.
DispatchMutant(r) ==
    /\ future[r] = "queued"
    /\ \A q \in Runs : future[q] = "queued" => r <= q
    /\ Cardinality({q \in Runs : future[q] \in {"executing", "raised"}}) < Workers
    /\ future' = [future EXCEPT ![r] = "executing"]
    /\ UNCHANGED <<run, client, acked, disk, boot, ids>>

Dispatch(r) ==
    /\ future[r] = "queued"
    /\ \A q \in Runs : future[q] = "queued" => r <= q
    /\ Cardinality({q \in Runs : future[q] = "executing"}) < Workers
    /\ future' = [future EXCEPT ![r] = "executing"]
    /\ UNCHANGED <<run, client, acked, disk, boot, ids>>

Settle(r) ==
    /\ future[r] = "executing"
    /\ \E outcome \in {"returned", "raised"} : future' = [future EXCEPT ![r] = outcome]
    /\ UNCHANGED <<run, client, acked, disk, boot, ids>>

----------------------------------------------------------------------------
(* wait() and cleanup() of the managed branch of execute.                  *)

ToCleanup(c) == client' = [client EXCEPT ![c].op = "cleanup"]

\* Mutant: a future that raised does not wake the waiter.
WaitCollectsMutant(c) ==
    LET r == client[c].run IN
    /\ client[c].op = "wait"
    /\ future[r] = "returned"
    /\ Collect(r)
    /\ ToCleanup(c)
    /\ UNCHANGED <<future, acked, boot, ids>>

WaitCollects(c) ==
    LET r == client[c].run IN
    /\ client[c].op = "wait"
    /\ Done(r)
    /\ Collect(r)
    /\ ToCleanup(c)
    /\ UNCHANGED <<future, acked, boot, ids>>

\* wait(timeout = spec.timeout + 10) gives up; the finally clause cleans up.  (A
\* TimeoutError of the body is taken for that: as if it gave up just before.)
WaitTimesOut(c) ==
    /\ client[c].op = "wait"
    /\ ~Done(client[c].run)
    /\ ToCleanup(c)
    /\ UNCHANGED <<run, future, acked, disk, boot, ids>>

\* cleanup(r) where provider.cleanup, if it is called at all, succeeds.
Cleanup(r) ==
    LET tab == [run EXCEPT ![r] = [@ EXCEPT !.cleaned = TRUE, !.state = "cleaned"]]
    IN  IF run[r].cleaned
        THEN UNCHANGED <<run, journal, newer>>
        ELSE /\ run' = tab
             /\ SaveAndPrune({r}, tab, kind)

\* cleanup(r), or ProviderOperationFailure from it: the record is untouched.
ExecuteReturns(c) ==
    LET r == client[c].run IN
    /\ client[c].op = "cleanup"
    /\ \/ Cleanup(r)
       \/ kind[r] = "managed" /\ UNCHANGED <<run, journal, newer>>
    /\ client' = [client EXCEPT ![c] = Idle]
    /\ UNCHANGED <<future, acked, workdir, boot, ids>>

----------------------------------------------------------------------------
(* run_inspect: inspect, wait(timeout = 0) and cleanup, each under the lock *)
(* on its own.                                                              *)

RunInspect(c, r) ==
    /\ mode = "up"
    /\ client[c] = Idle
    /\ run[r].state # "none"
    /\ IF r \in Reapable THEN Collect(r) ELSE UNCHANGED <<run, disk>>
    /\ client' = [client EXCEPT
           ![c] = IF run'[r].state \in Terminal THEN [op |-> "collect", run |-> r] ELSE Idle]
    /\ UNCHANGED <<future, acked, boot, ids>>

InspectCollects(c) ==
    LET r == client[c].run IN
    /\ client[c].op = "collect"
    /\ \/ /\ Done(r)
          /\ Collect(r)
          /\ client' = [client EXCEPT ![c].op = "release"]
       \/ /\ ~Done(r)
          /\ client' = [client EXCEPT ![c].op = "not_collectible"]
          /\ UNCHANGED <<run, disk>>
    /\ UNCHANGED <<future, acked, boot, ids>>

\* The inspect() that follows finds a terminal state and changes nothing.
InspectReturns(c) ==
    LET r == client[c].run IN
    /\ client[c].op = "release"
    /\ \/ Cleanup(r)
       \/ kind[r] = "managed" /\ UNCHANGED <<run, journal, newer>>
    /\ client' = [client EXCEPT ![c] = Idle]
    /\ UNCHANGED <<future, acked, workdir, boot, ids>>

----------------------------------------------------------------------------
(* run_cancel: the label under the lock, the provider's cancel outside it. *)

CancelBegins(c, r) ==
    LET tab == [run EXCEPT ![r].state = "cancelling"]
    IN  /\ mode = "up"
        /\ client[c] = Idle
        /\ run[r].state \in Active
        /\ kind[r] = "managed"
        /\ run' = tab
        /\ Save({r}, tab, kind)
        /\ client' = [client EXCEPT ![c] = [op |-> "cancel", run |-> r]]
        /\ UNCHANGED <<future, acked, workdir, boot, ids>>

CancelAccepted(c) ==
    /\ client[c].op = "cancel"
    /\ acked' = acked \cup {client[c].run}
    /\ client' = [client EXCEPT ![c] = Idle]
    /\ UNCHANGED <<run, future, disk, boot, ids>>

\* Mutant: the state is not read again under the lock.
CancelFailsBlindly(c) ==
    LET r == client[c].run
        tab == [run EXCEPT ![r].state = "running"]
    IN  /\ client[c].op = "cancel"
        /\ run' = tab
        /\ Save({r}, tab, kind)
        /\ client' = [client EXCEPT ![c] = Idle]
        /\ UNCHANGED <<future, acked, workdir, boot, ids>>

\* Mutant: the label stays when the provider refuses.
CancelFailsLabelled(c) ==
    /\ client[c].op = "cancel"
    /\ client' = [client EXCEPT ![c] = Idle]
    /\ UNCHANGED <<run, future, acked, disk, boot, ids>>

\* Mutant: the label goes back in the table only.
CancelFailsUnsaved(c) ==
    /\ client[c].op = "cancel"
    /\ run' = [run EXCEPT ![client[c].run].state = IF @ = "cancelling" THEN "running" ELSE @]
    /\ client' = [client EXCEPT ![c] = Idle]
    /\ UNCHANGED <<future, acked, disk, boot, ids>>

\* provider.cancel raises: the label goes back unless the run has moved on.
CancelFails(c) ==
    LET r == client[c].run
        tab == [run EXCEPT ![r].state = "running"]
    IN  /\ client[c].op = "cancel"
        /\ IF run[r].state = "cancelling"
           THEN run' = tab /\ Save({r}, tab, kind)
           ELSE UNCHANGED <<run, journal, newer>>
        /\ client' = [client EXCEPT ![c] = Idle]
        /\ UNCHANGED <<future, acked, workdir, boot, ids>>

----------------------------------------------------------------------------
(* Crash, restart and recover_orphans.                                     *)

LoseMemory ==
    /\ crashes < MaxCrashes
    /\ crashes' = crashes + 1
    /\ mode' = "down"
    /\ todo' = {}
    /\ run' = [r \in Runs |-> NoRun]
    /\ future' = [r \in Runs |-> "none"]
    /\ client' = [c \in Clients |-> Idle]
    /\ acked' = {}
    /\ UNCHANGED <<registered, ids>>

Crash ==
    /\ mode # "down"
    /\ LoseMemory
    /\ UNCHANGED disk

\* The process dies inside _collect, the workdir removed and the journal still
\* as it was.
CrashInCollect(r) ==
    /\ r \in Owned(Reapable)
    /\ LoseMemory
    /\ RemoveWorkdirs({r})
    /\ UNCHANGED <<journal, newer>>

Boot ==
    /\ mode = "down"
    /\ mode' = "recovering"
    /\ registered' \in BOOLEAN
    /\ todo' = {r \in Runs : journal[r].state # "absent"}
    /\ UNCHANGED <<crashes, memory, disk, ids>>

\* The provider side of the record of r is recovered (where it is active and
\* its provider is registered and answers), then its workdir is swept.
Recoverable(r) == journal[r].state \in Active /\ (kind[r] = "managed" => registered)
Sweepable(r) == journal[r].workdir /\ ~journal[r].workdir_cleaned

RecoveredEntry(r) ==
    [journal[r] EXCEPT
        !.state = IF Recoverable(r) THEN "recovered" ELSE @,
        !.cleaned = @ \/ Recoverable(r),
        !.workdir_cleaned = @ \/ Sweepable(r)]

RecoverEntry(r) ==
    /\ mode = "recovering"
    /\ r \in todo
    /\ todo' = todo \ {r}
    /\ IF Recoverable(r) \/ Sweepable(r)
       THEN /\ RemoveWorkdirs({r} \cap {q \in Runs : Sweepable(q)})
            /\ journal' = [journal EXCEPT ![r] = RecoveredEntry(r)]
            /\ newer' = Touched({r})
       ELSE UNCHANGED disk
    /\ UNCHANGED <<mode, registered, crashes, memory, ids>>

\* The process dies while recover_orphans rewrites the file in place.
CrashInRecoverWrite(r) ==
    /\ mode = "recovering"
    /\ r \in todo
    /\ Recoverable(r) \/ Sweepable(r)
    /\ RemoveWorkdirs({r} \cap {q \in Runs : Sweepable(q)})
    /\ journal' = [journal EXCEPT ![r] = Torn]
    /\ newer' = Touched({r})
    /\ LoseMemory

\* ProviderOperationFailure from the provider's cancel or cleanup is not among
\* the exceptions the loop handles: the import of the server fails.
RecoverAborts(r) ==
    /\ mode = "recovering"
    /\ r \in todo
    /\ Recoverable(r)
    /\ kind[r] = "managed"
    /\ mode' = "down"
    /\ todo' = {}
    /\ UNCHANGED <<registered, crashes, memory, disk, ids>>

RecoverDone ==
    /\ mode = "recovering"
    /\ todo = {}
    /\ mode' = "up"
    /\ journal' = Prune(journal, newer)
    /\ newer' = Compact(journal', newer)
    /\ UNCHANGED <<registered, todo, crashes, memory, workdir, ids>>

----------------------------------------------------------------------------
ClientStep(c) ==
    \/ Reply(c)
    \/ WaitCollects(c)
    \/ WaitTimesOut(c)
    \/ ExecuteReturns(c)
    \/ InspectCollects(c)
    \/ InspectReturns(c)
    \/ CancelAccepted(c)
    \/ CancelFails(c)

NewCall(c) ==
    \/ RunSubmit(c)
    \/ ExecuteManaged(c)
    \/ \E r \in Runs : RunInspect(c, r)
    \/ \E r \in Runs : CancelBegins(c, r)

Recovery ==
    \/ Boot
    \/ \E r \in Runs : RecoverEntry(r)
    \/ \E r \in Runs : RecoverAborts(r)
    \/ RecoverDone

Failure ==
    \/ Crash
    \/ \E r \in Runs : CrashInCollect(r)
    \/ \E r \in Runs : CrashInRecoverWrite(r)

Next ==
    \/ \E c \in Clients : NewCall(c) \/ ClientStep(c)
    \/ \E r \in Runs : Dispatch(r) \/ Settle(r)
    \/ Recovery
    \/ Failure

Spec == Init /\ [][Next]_vars

\* A pool thread takes work when there is some; execution is bounded by the
\* executor's or the transport's timeout; a call that has begun goes on.
Fairness ==
    /\ \A r \in Runs : WF_vars(Dispatch(r)) /\ WF_vars(Settle(r))
    /\ \A c \in Clients : WF_vars(ClientStep(c))

FairSpec == Spec /\ Fairness

----------------------------------------------------------------------------
(* Properties.                                                             *)

InMemory(r) == run[r].state # "none"
Unfinished(r) == future[r] \in {"queued", "executing"}

\* Crash recovery has what it needs at every instant: a run that has not
\* reached a terminal state has its journal file on disk, in an active state,
\* whatever was pruned meanwhile; and a dependency workdir that nobody has
\* tried to remove is named, as not cleaned, by a readable journal file
\* (start() writes it before submit, _prune skips what is not terminal).
CrashRecoverable ==
    /\ \A r \in Runs : run[r].state \in Active => journal[r].state \in Active
    /\ \A r \in Runs : workdir[r] = "present" =>
           journal[r].workdir /\ ~journal[r].workdir_cleaned

\* The journal never lags behind the table: the file of a run in memory, if it
\* has not been pruned, says what the record says, whichever of the concurrent
\* collections, cancellations and cleanups wrote last.
JournalAgrees ==
    \A r \in Runs : InMemory(r) /\ journal[r].state # "absent" =>
        journal[r] = Entry(run[r], kind[r])

\* A dependency workdir exists as long as its runner may use it, and once the
\* server is up every untouched workdir belongs to a run of this process that
\* is still to be collected (_collect releases it, recover_orphans the rest).
WorkdirOwned ==
    \A r \in Runs :
        /\ Unfinished(r) /\ kind[r] = "dependencies" => workdir[r] = "present"
        /\ mode = "up" /\ workdir[r] = "present" =>
               InMemory(r) /\ run[r].result = "none"

\* The admission cap bounds the runs counted as active, and every task the
\* pool still holds belongs to such a run or to one that was cleaned up before
\* it finished.
AdmissionBound ==
    /\ Cardinality(ActiveIn(run)) <= MaxActive
    /\ \A r \in Runs : Unfinished(r) => run[r].state \in Active \/ run[r].cleaned

\* A submission is refused only when MaxActive runs really are unfinished: a
\* run that ended unnoticed does not hold a slot (reaping precedes counting).
RejectionIsReal ==
    [][\A c \in Clients : client[c].op = "idle" /\ client'[c].op = "rejected" =>
           Cardinality({r \in Runs : Unfinished(r) /\ run[r].state \in Active}) >= MaxActive]_vars

\* Within one process a result never changes once it is set, and a terminal
\* run never becomes active again, e.g. because a failing cancellation puts
\* back the label of a run that was collected meanwhile.
OutcomeFinal ==
    [][\A r \in Runs : InMemory(r) /\ mode' = "up" =>
           /\ run[r].result # "none" => run'[r].result = run[r].result
           /\ run[r].state \in Terminal => run'[r].state \in Terminal]_vars

\* A run is labelled "cancelling" only while a cancellation is being asked of
\* its provider or after the provider accepted one; concurrent cancellations
\* of the same run included.
CancelLabelEarned ==
    \A r \in Runs : run[r].state = "cancelling" =>
        \/ r \in acked
        \/ \E c \in Clients : client[c] = [op |-> "cancel", run |-> r]

\* Every tool call returns and every submitted run settles (or dies with the
\* process), although a task may raise, a wait may time out and as many runs
\* are queued as the cap admits (wait, cleanup, the pool).
EverythingEnds ==
    /\ \A c \in Clients : client[c].op # "idle" ~> client[c].op = "idle"
    /\ \A r \in Runs : future[r] = "queued" ~> ~Unfinished(r)

=============================================================================
