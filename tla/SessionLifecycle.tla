-------------------------- MODULE SessionLifecycle --------------------------
(***************************************************************************)
(* The life of sessions: codecalc/sessions.py (start, execute, the file    *)
(* operations, idle expiry, stop, snapshot save and restore) and the       *)
(* `codecalc cleanup` command of codecalc/ops.py, a separate process that  *)
(* shares only the directory tree with the server.                         *)
(*                                                                         *)
(* Tool calls run on threads of their own.  What a call does under _lock   *)
(* is one step; spawning or closing a worker, writing the expiry marker    *)
(* and the lock file, deleting and renaming directories happen outside it  *)
(* and are steps of their own.  A directory is a number, its identity      *)
(* (device, inode); the marker and the lock file live in a directory and   *)
(* move with it.  The idle TTL is configured and fixed.                    *)
(*                                                                         *)
(* Time: a session may pass the idle TTL, and a directory every age        *)
(* threshold of cleanup, whenever no call is inside one of its short       *)
(* unlocked windows (at most a few seconds: closing a worker waits 3 s,    *)
(* the recent-mtime floor of cleanup is 300 s); code that runs in a session *)
(* may take any time.                                                      *)
(***************************************************************************)
EXTENDS Integers, Sequences, FiniteSets

CONSTANTS
    MaxSessions,  \* bound: how many session ids are ever made
    Stateful,     \* sessions of a language with a REPL worker
    Clients,      \* the threads tool calls run on
    Calls,        \* the calls they make, see AllCalls
    ExpiredCap,   \* _EXPIRED_CAP
    MaxDirs,      \* bound: how many directories are ever made
    MaxWorkers,   \* bound: how many workers are ever spawned
    MaxRestarts,  \* bound: how often the server dies and is started again
    Faults        \* what may fail: "marker", "lock", "rename"

Sessions == 1 .. MaxSessions
Dirs == 1 .. MaxDirs
WorkerIds == 1 .. MaxWorkers

\* list: list_sessions, which tells callers of a directory before start()
\* returns its id; touch: write_file, delete_file, list_files, resource_read, artifacts.
AllCalls == {"start", "list", "stop", "execute", "touch", "sweep", "save",
             "restore", "restore_new", "cleanup"}

ASSUME SessionLifecycleAssumption ==
    /\ MaxSessions \in Nat /\ MaxDirs \in Nat /\ MaxWorkers \in Nat
    /\ MaxRestarts \in Nat
    /\ ExpiredCap \in Nat \ {0}
    /\ Stateful \subseteq Sessions
    /\ Calls \subseteq AllCalls
    /\ Faults \subseteq {"marker", "lock", "rename"}

VARIABLES
    worker,    \* _workers: the worker of a session, 0 for none
    identity,  \* _SESSION_DIR_IDENTITY, 0 for none
    stale,     \* sessions whose _LAST_ACTIVITY is older than the TTL
    expired,   \* _EXPIRED_ORDER (its members are _EXPIRED)
    client,    \* the call each thread is in
    proc,      \* worker processes: unborn, live, dead
    dir,       \* the directory at the path of a session, 0 for none
    marked,    \* directories with an expiry marker
    locked,    \* directories whose lock file names the running server
    aged,      \* directories whose mtime is past the thresholds of cleanup
    snaps,     \* sessions with a stored snapshot
    eligible,  \* what the cleanup command found: path and identity
    used,      \* number of session ids made
    dirs,      \* number of directories made
    spawned,   \* number of workers spawned
    restarts,
    reaped,    \* sessions whose worker idle expiry took away, until the
               \* session is stopped or restored (history)
    removed,   \* sessions whose workspace stop or cleanup deleted (history)
    home,      \* the session a worker was spawned for (history)
    contended, \* sessions a restore took over while another call was starting,
               \* reaping, stopping or restoring them (history)
    unguarded, \* sessions whose last lock file could not be written (history)
    forgotten, \* reaped sessions whose entry in the expired cache was evicted, or
               \* lost to a restart, before the marker was on disk (history)
    mislaid    \* sessions whose workspace stays under the name a restore gave it:
               \* both renames failed, or the server died between them (history)

table == <<worker, identity, stale, expired>>
disk == <<dir, marked, locked, aged, snaps>>
counts == <<used, dirs, spawned, restarts>>
mishaps == <<contended, unguarded, forgotten, mislaid>>
history == <<reaped, removed, home, mishaps>>
vars == <<table, client, proc, disk, eligible, counts, history>>

Pcs == {"idle", "spawn", "lock", "publish", "close", "unlock", "rmtree",
        "lookup", "marker", "run", "fresh", "note", "save",
        "reap_close", "reap_mark", "reap_unlock",
        "verify", "pop", "aside", "swap_in", "identify"}

\* w: the worker the call holds; g: the directory it made or identified;
\* old: the directory a restore set aside.
InCall(call, pc, s, w, g) == [call |-> call, pc |-> pc, s |-> s, w |-> w, g |-> g, old |-> 0]
Idle == InCall("none", "idle", 0, 0, 0)

TypeOK ==
    /\ worker \in [Sessions -> 0 .. MaxWorkers]
    /\ identity \in [Sessions -> 0 .. MaxDirs]
    /\ stale \subseteq Sessions
    /\ expired \in Seq(Sessions)
    /\ Len(expired) <= ExpiredCap
    /\ client \in [Clients -> [call : AllCalls \cup {"none"}, pc : Pcs, s : 0 .. MaxSessions,
                               w : 0 .. MaxWorkers, g : 0 .. MaxDirs, old : 0 .. MaxDirs]]
    /\ proc \in [WorkerIds -> {"unborn", "live", "dead"}]
    /\ dir \in [Sessions -> 0 .. MaxDirs]
    /\ marked \subseteq Dirs /\ locked \subseteq Dirs /\ aged \subseteq Dirs
    /\ snaps \subseteq Sessions
    /\ eligible \in [Sessions -> 0 .. MaxDirs]
    /\ used \in 0 .. MaxSessions /\ dirs \in 0 .. MaxDirs
    /\ spawned \in 0 .. MaxWorkers /\ restarts \in 0 .. MaxRestarts
    /\ reaped \subseteq Sessions /\ removed \subseteq Sessions
    /\ home \in [WorkerIds -> 0 .. MaxSessions]
    /\ contended \subseteq Sessions /\ unguarded \subseteq Sessions
    /\ forgotten \subseteq Sessions /\ mislaid \subseteq Sessions

Init ==
    /\ worker = [s \in Sessions |-> 0]
    /\ identity = [s \in Sessions |-> 0]
    /\ stale = {}
    /\ expired = <<>>
    /\ client = [c \in Clients |-> Idle]
    /\ proc = [w \in WorkerIds |-> "unborn"]
    /\ dir = [s \in Sessions |-> 0]
    /\ marked = {} /\ locked = {} /\ aged = {} /\ snaps = {}
    /\ eligible = [s \in Sessions |-> 0]
    /\ used = 0 /\ dirs = 0 /\ spawned = 0 /\ restarts = 0
    /\ reaped = {} /\ removed = {}
    /\ home = [w \in WorkerIds |-> 0]
    /\ contended = {} /\ unguarded = {} /\ forgotten = {} /\ mislaid = {}

----------------------------------------------------------------------------
(* Helpers.                                                                *)

Goto(c, pc) == client' = [client EXCEPT ![c].pc = pc]
Return(c) == client' = [client EXCEPT ![c] = Idle]
At(c, pc) == client[c].pc = pc

\* The call that makes session s has not returned yet.
Starting(s) == \E c \in Clients : client[c].s = s /\ client[c].call \in {"start", "restore_new"}

\* Thread c can take a new call on a session its caller knows.
CanCall(c, call, s) ==
    /\ call \in Calls
    /\ client[c] = Idle
    /\ s \in 1 .. used
    /\ Starting(s) => "list" \in Calls

\* A call is inside one of its short windows on session s.
Busy(s) == \E c \in Clients : client[c].s = s /\ client[c].pc \notin {"run", "fresh"}

IsExpired(s) == \E i \in DOMAIN expired : expired[i] = s

\* _mark_expired_locked: first in, first out beyond the cap.
MarkExpired(s) ==
    LET q == IF IsExpired(s) THEN expired ELSE Append(expired, s)
    IN  IF Len(q) > ExpiredCap THEN Tail(q) ELSE q

\* The entry that makes room for s.
Evicted(s) ==
    IF ~IsExpired(s) /\ Len(expired) + 1 > ExpiredCap THEN {Head(Append(expired, s))} ELSE {}

\* _discard_expired_locked: deque.remove closes the gap.
DiscardExpired(s) ==
    LET i == CHOOSE i \in DOMAIN expired : expired[i] = s
    IN  IF IsExpired(s)
        THEN [j \in 1 .. Len(expired) - 1 |-> expired[IF j < i THEN j ELSE j + 1]]
        ELSE expired

\* The idle test of _maybe_reap_locked.
Reapable(s) == worker[s] # 0 /\ s \in stale

\* The directory at the path of s gets a new entry or loses one.
Modified(s) == aged' = aged \ {dir[s]}

\* The tables after the worker of s, if any, is taken out of them.
Forget(s) ==
    /\ worker' = [worker EXCEPT ![s] = 0]
    /\ stale' = stale \ {s}

\* Where a call is making a worker for its session or taking one away.
ActivePcs == {"spawn", "lock", "publish", "close", "unlock",
              "reap_close", "reap_mark", "reap_unlock", "aside", "swap_in", "identify"}

----------------------------------------------------------------------------
(* start() and the tail that snapshot restore shares with it.              *)

\* A new id, its directory and its identity; workspace-only sessions are done.
MakeSession(c, call) ==
    /\ call \in Calls
    /\ client[c] = Idle
    /\ used < MaxSessions /\ dirs < MaxDirs
    /\ LET s == used + 1
           g == dirs + 1
       IN  /\ used' = s
           /\ dirs' = g
           /\ dir' = [dir EXCEPT ![s] = g]
           /\ identity' = [identity EXCEPT ![s] = g]
           /\ client' = [client EXCEPT ![c] =
                  IF s \in Stateful
                  THEN InCall(call, "spawn", s, 0, 0)
                  ELSE Idle]
    /\ UNCHANGED <<worker, stale, expired, proc, marked, locked, aged, snaps,
                   eligible, spawned, restarts, history>>

Start(c) == MakeSession(c, "start")

\* snapshot_restore(replace = False): a temp directory is renamed into place
\* under a new id.
RestoreNew(c) == snaps # {} /\ MakeSession(c, "restore_new")

\* _spawn_worker: the worker answers the warm-up call, or there is none.
Spawn(c) ==
    /\ At(c, "spawn")
    /\ \/ /\ dir[client[c].s] # 0
          /\ spawned < MaxWorkers
          /\ spawned' = spawned + 1
          /\ proc' = [proc EXCEPT ![spawned + 1] = "live"]
          /\ home' = [home EXCEPT ![spawned + 1] = client[c].s]
          /\ client' = [client EXCEPT ![c].pc = "lock", ![c].w = spawned + 1]
       \/ /\ Return(c)
          /\ UNCHANGED <<spawned, proc, home>>
    /\ UNCHANGED <<table, disk, eligible, used, dirs, restarts, reaped, removed, mishaps>>

\* _write_lock_file, best effort.
WriteLock(c) ==
    LET s == client[c].s IN
    /\ At(c, "lock")
    /\ \/ /\ dir[s] # 0
          /\ locked' = locked \cup {dir[s]} /\ Modified(s)
          /\ unguarded' = unguarded \ {s}
       \/ /\ dir[s] = 0 \/ "lock" \in Faults
          /\ unguarded' = unguarded \cup {s}
          /\ UNCHANGED <<locked, aged>>
    /\ Goto(c, "publish")
    /\ UNCHANGED <<table, proc, dir, marked, snaps, eligible, counts,
                   reaped, removed, home, contended, forgotten, mislaid>>

\* The worker enters the table; only start() also clears the expired entry.
Publish(c) ==
    LET s == client[c].s IN
    /\ At(c, "publish")
    /\ worker' = [worker EXCEPT ![s] = client[c].w]
    /\ stale' = stale \ {s}
    /\ expired' = IF client[c].call = "start" THEN DiscardExpired(s) ELSE expired
    /\ Return(c)
    /\ UNCHANGED <<identity, proc, disk, eligible, counts, history>>

----------------------------------------------------------------------------
(* Idle expiry.                                                            *)

\* Mutant: the worker leaves the table and nobody closes it.
ReapMutant(c, call, s) ==
    /\ Reapable(s)
    /\ Forget(s)
    /\ expired' = MarkExpired(s)
    /\ reaped' = reaped \cup {s}
    /\ client' = [client EXCEPT ![c] = InCall(call, "reap_mark", s, 0, 0)]
    /\ UNCHANGED <<identity, proc, disk, eligible, counts, removed, home, mishaps>>

\* _maybe_reap_locked finds an idle worker: the tables change under the lock,
\* the rest of the reaping follows outside it.
Reap(c, call, s) ==
    /\ Reapable(s)
    /\ Forget(s)
    /\ expired' = MarkExpired(s)
    /\ reaped' = reaped \cup {s}
    /\ forgotten' = forgotten \cup {t \in Evicted(s) : dir[t] \notin marked}
    /\ client' = [client EXCEPT ![c] = InCall(call, "reap_close", s, worker[s], 0)]
    /\ UNCHANGED <<identity, proc, disk, eligible, counts,
                   removed, home, contended, unguarded, mislaid>>

\* Worker.close(), in a reaping, a stop or a restore.
Close(c) ==
    /\ At(c, "reap_close") \/ At(c, "close")
    /\ proc' = [proc EXCEPT ![client[c].w] = "dead"]
    /\ client' = [client EXCEPT ![c].pc = IF @ = "close" THEN "unlock" ELSE "reap_mark",
                                ![c].w = 0]
    /\ UNCHANGED <<table, disk, eligible, counts, history>>

\* _write_expired_marker, best effort, into whatever directory is there now.
WriteMarker(c) ==
    LET s == client[c].s IN
    /\ At(c, "reap_mark")
    /\ \/ dir[s] # 0 /\ marked' = marked \cup {dir[s]} /\ Modified(s)
       \/ (dir[s] = 0 \/ "marker" \in Faults) /\ UNCHANGED <<marked, aged>>
    /\ Goto(c, "reap_unlock")
    /\ UNCHANGED <<table, proc, dir, locked, snaps, eligible, counts, history>>

\* _remove_lock_file, and on to what the call does next.
AfterReap(call) == IF call \in {"touch", "save", "restore"} THEN "note" ELSE "idle"

RemoveLock(c) ==
    LET s == client[c].s IN
    /\ At(c, "reap_unlock") \/ At(c, "unlock")
    /\ locked' = locked \ {dir[s]}
    /\ IF dir[s] \in locked THEN Modified(s) ELSE UNCHANGED aged
    /\ \/ /\ At(c, "reap_unlock")
          /\ IF AfterReap(client[c].call) = "idle" THEN Return(c) ELSE Goto(c, "note")
       \/ /\ At(c, "unlock")
          /\ Goto(c, IF client[c].call = "stop" THEN "rmtree" ELSE "aside")
    /\ UNCHANGED <<table, proc, dir, marked, snaps, eligible, counts, history>>

\* _reap_if_idle at the head of _reap_then_note; the directory exists.
TouchBegins(c, call, s) ==
    /\ call \in {"touch", "save", "restore"}
    /\ CanCall(c, call, s)
    /\ dir[s] # 0
    /\ \/ Reap(c, call, s)
       \/ /\ ~Reapable(s)
          /\ client' = [client EXCEPT ![c] = InCall(call, "note", s, 0, 0)]
          /\ UNCHANGED <<table, proc, disk, eligible, counts, history>>

\* _note_activity: only a session that still has a worker has a clock.
Note(c) ==
    LET s == client[c].s IN
    /\ At(c, "note")
    /\ stale' = IF worker[s] # 0 THEN stale \ {s} ELSE stale
    /\ CASE client[c].call = "save" -> Goto(c, "save")
         [] client[c].call = "restore" -> Goto(c, "verify")
         [] OTHER -> Return(c)
    /\ UNCHANGED <<worker, identity, expired, proc, disk, eligible, counts, history>>

\* One round of sweep_idle_sessions; the loop is a series of such calls.
Sweep(c, s) ==
    /\ CanCall(c, "sweep", s)
    /\ Reap(c, "sweep", s)

----------------------------------------------------------------------------
(* execute().                                                              *)

ExecuteBegins(c, s) ==
    /\ CanCall(c, "execute", s)
    /\ dir[s] # 0
    /\ client' = [client EXCEPT ![c] = InCall("execute", "lookup", s, 0, 0)]
    /\ UNCHANGED <<table, proc, disk, eligible, counts, history>>

FindWorker(c, s) ==
    /\ ~Reapable(s)
    /\ client' = [client EXCEPT ![c].pc = IF worker[s] # 0 THEN "run" ELSE "marker",
                                ![c].w = worker[s]]
    /\ UNCHANGED <<table, proc, disk, eligible, counts, history>>

\* Mutant: the expired cache is not looked at under the lock.
LookupMutant(c) ==
    /\ At(c, "lookup")
    /\ \/ Reap(c, "execute", client[c].s)
       \/ FindWorker(c, client[c].s)

\* The critical section of _get_worker_or_expired.
Lookup(c) ==
    LET s == client[c].s IN
    /\ At(c, "lookup")
    /\ \/ /\ IsExpired(s)
          /\ Return(c)
          /\ UNCHANGED <<table, proc, disk, eligible, counts, history>>
       \/ ~IsExpired(s) /\ Reap(c, "execute", s)
       \/ ~IsExpired(s) /\ FindWorker(c, s)

\* No worker: the marker on disk tells an expired session from a workspace.
CheckMarker(c) ==
    /\ At(c, "marker")
    /\ IF dir[client[c].s] \in marked THEN Return(c) ELSE Goto(c, "fresh")
    /\ UNCHANGED <<table, proc, disk, eligible, counts, history>>

\* executor.execute in the workspace: a fresh process for this call.
RunFresh(c) ==
    /\ At(c, "fresh")
    /\ Return(c)
    /\ UNCHANGED <<table, proc, disk, eligible, counts, history>>

\* Worker.run: an answer, the end of a dead worker's pipe, or a time-out or
\* protocol error after which the worker is closed.
Run(c) ==
    /\ At(c, "run")
    /\ proc' \in {proc, [proc EXCEPT ![client[c].w] = "dead"]}
    /\ client' = [client EXCEPT ![c].pc = "note", ![c].w = 0]
    /\ UNCHANGED <<table, disk, eligible, counts, history>>

----------------------------------------------------------------------------
(* stop().                                                                 *)

StopPops(c, s) ==
    /\ CanCall(c, "stop", s)
    /\ Forget(s)
    /\ identity' = [identity EXCEPT ![s] = 0]
    /\ expired' = DiscardExpired(s)
    /\ reaped' = reaped \ {s} /\ forgotten' = forgotten \ {s}
    /\ client' = [client EXCEPT ![c] =
           InCall("stop", IF worker[s] # 0 THEN "close" ELSE "rmtree", s, worker[s], identity[s])]
    /\ UNCHANGED <<proc, disk, eligible, counts, removed, home, contended, unguarded, mislaid>>

\* _rmtree_checked removes the directory it identified, as far as it can, and
\* the snapshots go too unless they are kept.
RemoveDir(s, g) ==
    \/ g # 0 /\ dir[s] = g /\ dir' = [dir EXCEPT ![s] = 0] /\ removed' = removed \cup {s}
    \/ UNCHANGED <<dir, removed>>

StopRemoves(c) ==
    LET s == client[c].s IN
    /\ At(c, "rmtree")
    /\ RemoveDir(s, client[c].g)
    /\ snaps' \in {snaps, snaps \ {s}}
    /\ Return(c)
    /\ UNCHANGED <<table, proc, marked, locked, aged, eligible, counts, reaped, home, mishaps>>

----------------------------------------------------------------------------
(* session_snapshot: save and restore in place.                            *)

Verified(s) == identity[s] # 0 /\ dir[s] = identity[s]

\* snapshot_save, after _reap_then_note: refused, or archived.
Save(c) ==
    LET s == client[c].s IN
    /\ At(c, "save")
    /\ snaps' \in {snaps} \cup (IF Verified(s) THEN {snaps \cup {s}} ELSE {})
    /\ Return(c)
    /\ UNCHANGED <<table, proc, dir, marked, locked, aged, eligible, counts, history>>

\* The identity is verified, the archive extracted to a temp directory, the
\* identity verified again; a failure of any of these ends the call.
RestoreExtracts(c) ==
    LET s == client[c].s IN
    /\ At(c, "verify")
    /\ \/ /\ Verified(s) /\ s \in snaps /\ dirs < MaxDirs
          /\ dirs' = dirs + 1
          /\ client' = [client EXCEPT ![c].pc = "pop", ![c].g = dirs + 1]
       \/ Return(c) /\ UNCHANGED dirs
    /\ UNCHANGED <<table, proc, disk, eligible, used, spawned, restarts, history>>

RestorePops(c) ==
    LET s == client[c].s IN
    /\ At(c, "pop")
    /\ Forget(s)
    /\ expired' = DiscardExpired(s)
    /\ reaped' = reaped \ {s} /\ forgotten' = forgotten \ {s}
    /\ contended' = IF \E d \in Clients \ {c} : client[d].s = s /\ client[d].pc \in ActivePcs
                    THEN contended \cup {s} ELSE contended
    /\ client' = [client EXCEPT ![c].w = worker[s],
                                ![c].pc = IF worker[s] # 0 THEN "close" ELSE "aside"]
    /\ UNCHANGED <<identity, proc, disk, eligible, counts, removed, home, unguarded, mislaid>>

\* d.rename(old_aside), whose failure ends the call.
RestoreAside(c) ==
    LET s == client[c].s IN
    /\ At(c, "aside")
    /\ \/ /\ dir[s] # 0
          /\ dir' = [dir EXCEPT ![s] = 0]
          /\ client' = [client EXCEPT ![c].pc = "swap_in", ![c].old = dir[s]]
       \/ (dir[s] = 0 \/ "rename" \in Faults) /\ Return(c) /\ UNCHANGED dir
    /\ UNCHANGED <<table, proc, marked, locked, aged, snaps, eligible, counts, history>>

\* Mutant: the failure of the second rename is returned at once.
SwapFailsMutant(s, old) == UNCHANGED <<dir, mislaid>>

\* The second rename fails: the old workspace is renamed back, and the failure
\* of that is suppressed.
SwapFails(s, old) ==
    \/ dir' = [dir EXCEPT ![s] = IF @ = 0 THEN old ELSE @] /\ UNCHANGED mislaid
    \/ "rename" \in Faults /\ UNCHANGED dir /\ mislaid' = mislaid \cup {s}

\* temp_dir.rename(d), which fails on a path that is taken.
RestoreSwaps(c) ==
    LET s == client[c].s IN
    /\ At(c, "swap_in")
    /\ \/ /\ dir[s] = 0
          /\ dir' = [dir EXCEPT ![s] = client[c].g]
          /\ client' = [client EXCEPT ![c].pc = "identify", ![c].old = 0]
          /\ UNCHANGED mislaid
       \/ /\ dir[s] # 0 \/ "rename" \in Faults
          /\ SwapFails(s, client[c].old)
          /\ Return(c)
    /\ UNCHANGED <<table, proc, marked, locked, aged, snaps, eligible, counts,
                   reaped, removed, home, contended, unguarded, forgotten>>

RestoreIdentifies(c) ==
    LET s == client[c].s IN
    /\ At(c, "identify")
    /\ identity' = [identity EXCEPT ![s] = dir[s]]
    /\ IF s \in Stateful
       THEN client' = [client EXCEPT ![c].pc = "spawn", ![c].g = 0]
       ELSE Return(c)
    /\ UNCHANGED <<worker, stale, expired, proc, disk, eligible, counts, history>>

----------------------------------------------------------------------------
(* The cleanup command, in a process of its own.                           *)

\* Mutant: the lock file is not consulted.
CandidateMutant(s) == dir[s] # 0 /\ dir[s] \in aged

\* _cleanup_candidates, with --include-unmarked: old, and no live server
\* holds its lock.
Candidate(s) == dir[s] # 0 /\ dir[s] \in aged /\ dir[s] \notin locked

CleanupScans(s) ==
    /\ "cleanup" \in Calls
    /\ Candidate(s)
    /\ eligible' = [eligible EXCEPT ![s] = dir[s]]
    /\ UNCHANGED <<table, client, proc, disk, counts, history>>

\* The identity found by the scan is checked again by _rmtree_checked.
CleanupRemoves(s) ==
    /\ eligible[s] # 0
    /\ RemoveDir(s, eligible[s])
    /\ eligible' = [eligible EXCEPT ![s] = 0]
    /\ UNCHANGED <<table, client, proc, marked, locked, aged, snaps, counts, reaped, home, mishaps>>

----------------------------------------------------------------------------
(* Time, and the end of the server process.                                *)

PassTtl(s) ==
    /\ worker[s] # 0 /\ s \notin stale /\ ~Busy(s)
    /\ stale' = stale \cup {s}
    /\ UNCHANGED <<worker, identity, expired, client, proc, disk, eligible, counts, history>>

PassAge(s) ==
    /\ "cleanup" \in Calls
    /\ dir[s] # 0 /\ dir[s] \notin aged /\ ~Busy(s)
    /\ aged' = aged \cup {dir[s]}
    /\ UNCHANGED <<table, client, proc, dir, marked, locked, snaps, eligible, counts, history>>

\* The server dies, its workers with it (they read the end of their stdin), and
\* is started again: the lock files name a dead process.  An expiry is remembered
\* where the marker was written.
Restart ==
    /\ restarts < MaxRestarts
    /\ restarts' = restarts + 1
    /\ worker' = [s \in Sessions |-> 0]
    /\ identity' = [s \in Sessions |-> 0]
    /\ stale' = {}
    /\ expired' = <<>>
    /\ client' = [c \in Clients |-> Idle]
    /\ proc' = [w \in WorkerIds |-> IF proc[w] = "live" THEN "dead" ELSE proc[w]]
    /\ locked' = {}
    /\ forgotten' = forgotten \cup {s \in reaped : dir[s] \notin marked}
    /\ mislaid' = mislaid \cup {client[c].s : c \in {d \in Clients : At(d, "swap_in")}}
    /\ contended' = {} /\ unguarded' = {}
    /\ UNCHANGED <<dir, marked, aged, snaps, eligible, used, dirs, spawned, reaped, removed, home>>

----------------------------------------------------------------------------
NewCall(c) ==
    \/ Start(c)
    \/ RestoreNew(c)
    \/ \E s \in Sessions :
        \/ StopPops(c, s)
        \/ ExecuteBegins(c, s)
        \/ Sweep(c, s)
        \/ \E call \in Calls : TouchBegins(c, call, s)

CallStep(c) ==
    \/ Spawn(c) \/ WriteLock(c) \/ Publish(c)
    \/ Close(c) \/ WriteMarker(c) \/ RemoveLock(c) \/ Note(c)
    \/ Lookup(c) \/ CheckMarker(c) \/ RunFresh(c) \/ Run(c)
    \/ StopRemoves(c)
    \/ Save(c)
    \/ RestoreExtracts(c) \/ RestorePops(c) \/ RestoreAside(c)
    \/ RestoreSwaps(c) \/ RestoreIdentifies(c)

Environment ==
    \/ \E s \in Sessions : PassTtl(s) \/ PassAge(s)
    \/ \E s \in Sessions : CleanupScans(s) \/ CleanupRemoves(s)
    \/ Restart

Next ==
    \/ \E c \in Clients : NewCall(c) \/ CallStep(c)
    \/ Environment

Spec == Init /\ [][Next]_vars

----------------------------------------------------------------------------
(* Properties.                                                             *)

\* A call to a session whose worker idle expiry took away is never answered by a
\* fresh process in its workspace (the "silent respawn" that
\* _get_worker_or_expired excludes), until the session is stopped or restored.
\* Two cases are excepted: the entry of the expired cache was evicted, or lost to
\* a restart, before the marker was on disk; and a restore took the session over
\* in the middle of another call that was making or taking its worker.
NoSilentRespawn ==
    [][\A c \in Clients : ~At(c, "fresh") /\ client'[c].pc = "fresh" =>
           \/ client[c].s \notin reaped
           \/ dir[client[c].s] = 0
           \/ client[c].s \in forgotten \cup contended]_vars

\* ops.cleanup never deletes the workspace of a session whose worker is in the
\* server's table, whatever happens between its scan and its removal, restores
\* included.  Two cases are excepted: the session's lock file could not be written
\* (_write_lock_file is best effort); and a restore took the session over in the
\* middle of a reaping, stop or restore, which then removes the new lock file.
CleanupSparesWorkers ==
    [][\A s \in Sessions : eligible[s] # 0 /\ eligible'[s] = 0 /\ worker[s] # 0
                            /\ s \notin unguarded \cup contended =>
           dir'[s] = dir[s]]_vars

\* No worker process is lost: a live one is in the table or held by a call that
\* will publish or close it.  Excepted are the workers of a session that a restore
\* took over in the middle of another call that was making its worker: both
\* publish one, and the second overwrites the first (_finish_restored_session).
NoWorkerLeaks ==
    \A w \in WorkerIds : proc[w] = "live" /\ home[w] \notin contended =>
        \/ \E s \in Sessions : worker[s] = w
        \/ \E c \in Clients : client[c].w = w

\* A restore never leaves a session with neither the old nor the new workspace: a
\* session whose directory nobody deleted has one, except between the two renames
\* and where the renames failed, there and back, or the server died between them.
NeverWithoutWorkspace ==
    \A s \in 1 .. used : dir[s] = 0 =>
        \/ s \in removed \cup mislaid
        \/ \E c \in Clients : client[c].s = s /\ client[c].pc = "swap_in"

=============================================================================
