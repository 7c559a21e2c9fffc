----------------------------- MODULE SessionDisk -----------------------------
(***************************************************************************)
(* The workspace of one session on disk: file operations, disk quotas,     *)
(* spilled output, snapshots and their extraction (codecalc/sessions.py    *)
(* and SessionService of codecalc/execution_service.py).                   *)
(*                                                                         *)
(* Server calls run in threads.  write_file and the spill of a run measure *)
(* and write under _disk_lock; delete_file unlinks under it; snapshots and *)
(* restores take no lock.  The session's own program shares the workspace: *)
(* between any two steps of the server it may write, remove and replace    *)
(* files, directories and symbolic links.                                  *)
(*                                                                         *)
(* A directory has an identity; "out" is a directory outside the workspace.*)
(* Sizes stand for bytes, names for classes of path components.  Left out: *)
(* idle expiry and the worker (SessionLifecycle, WorkerProtocol), length   *)
(* limits of paths, and Windows, which has no directory descriptors.       *)
(***************************************************************************)
EXTENDS Naturals, Sequences, SequencesExt, FiniteSets, FiniteSetsExt

CONSTANTS
    Calls,          \* server calls
    Requests,       \* the requests each call may be
    Archives,       \* archives that somebody may put in place of a snapshot
    SessionQuota, TotalQuota, MaxArtifactBytes, MaxArtifactCount,
    MaxSnapshotBytes, MaxSnapshots,
    SpillKeep,      \* _SPILL_RETENTION
    InlineCap,      \* output returned in the result
    SpillCapture,   \* SPILL_CAPTURE_KB, the most output that is captured
    Sizes,          \* sizes of the files the program writes
    MaxProgram,     \* bound: steps of the program
    MaxTamper,      \* bound: replaced archives
    Free            \* nobody holds _disk_lock

Root == "root"
Outside == "out"
SubDirs == {"s1", "s2"}
Dirs == {Root, Outside} \cup SubDirs
Names == {"f", "d", "lock"}

NoEntry == [kind |-> "none", size |-> 0, to |-> "none"]
File(n) == [kind |-> "file", size |-> n, to |-> "none"]
Dir(id) == [kind |-> "dir", size |-> 0, to |-> id]
Link(to) == [kind |-> "link", size |-> 0, to |-> to]
\* A link leads to a directory or to the file "f" of the directory outside.
LinkTargets == {Outside, "outfile"}
Entries == [kind : {"none", "file", "dir", "link"}, size : Nat, to : Dirs \cup {"outfile", "none"}]

RequestType ==
    [op : {"write"}, path : Seq(Names \cup {"..", "bad"}), size : Nat]
    \cup [op : {"delete", "read"}, path : Seq(Names \cup {"..", "bad"})]
    \cup [op : {"run"}, out : Nat]
    \cup [op : {"runfile"}, path : Seq(Names \cup {"..", "bad"}), out : Nat]
    \cup [op : {"save"}]
    \cup [op : {"restore"}, id : Calls]
    \cup [op : {"remove"}, ids : SUBSET Calls]

MemberType ==
    [path : Seq(Names \cup {"..", "bad"}), kind : {"reg", "link"}, size : Nat]
    \cup [path : Seq(Names \cup {"..", "bad"}), kind : {"dir"}, size : {0}]

ASSUME SessionDiskAssumption ==
    /\ \A c \in Calls : \A r \in Requests[c] :
        /\ r \in RequestType
        /\ "path" \in DOMAIN r => \A i \in DOMAIN r.path : r.path[i] = ".." => i = 1
    /\ {SessionQuota, TotalQuota, MaxArtifactBytes, MaxArtifactCount, MaxSnapshotBytes,
        MaxSnapshots, SpillKeep, InlineCap, SpillCapture, MaxProgram, MaxTamper} \subseteq Nat
    /\ Sizes \subseteq Nat /\ Free \notin Calls
    /\ \A a \in Archives : a \in Seq(MemberType)

VARIABLES
    fs,        \* the directories: fs[dir][name]
    spills,    \* sizes of the files in the spill directory, newest first
    spillDir,  \* what is at the path of the spill directory
    strays,    \* the same of the directory outside that it may be made to lead to
    snapshots, \* the snapshots, named after the call that saved them
    restored,  \* the workspaces of the restored sessions, after the call that restored them
    lock,      \* _disk_lock
    call,      \* the server calls
    program,   \* steps the program has taken
    tampered   \* archives that were replaced

spilled == <<spills, spillDir, strays>>
vars == <<fs, spilled, snapshots, restored, lock, call, program, tampered>>

NoSnapshot == [saved |-> FALSE, archive |-> <<>>]
Idle == [pc |-> "idle", req |-> [op |-> "none"], target |-> <<>>, dir |-> "none", plan |-> <<>>,
         found |-> {}, answer |-> "none"]

Init ==
    /\ fs = [d \in Dirs |-> [n \in Names |->
            CASE d = Root /\ n = "lock" -> File(0)
              [] d = Root /\ n = "d" -> Dir("s1")
              [] d = Outside /\ n = "f" -> File(1)
              [] OTHER -> NoEntry]]
    /\ spills = <<>> /\ spillDir = "none" /\ strays = <<1>>
    /\ snapshots = [c \in Calls |-> NoSnapshot]
    /\ restored = [c \in Calls |-> <<>>]
    /\ lock = Free /\ call = [c \in Calls |-> Idle] /\ program = 0 /\ tampered = 0

-----------------------------------------------------------------------------
(* Paths.                                                                  *)

\* The entry a name leads to, its directory when it leads to one.
Enter(dir, name) ==
    IF dir = "none" THEN "none"
    ELSE LET e == fs[dir][name]
         IN IF e.kind \in {"dir", "link"} /\ e.to \in Dirs THEN e.to ELSE "none"
Walk(start, names) ==
    LET at[i \in 0 .. Len(names)] == IF i = 0 THEN start ELSE Enter(at[i - 1], names[i])
    IN at[Len(names)]

\* A hop of openat with O_DIRECTORY|O_NOFOLLOW.
Hop(dir, name) ==
    IF dir # "none" /\ fs[dir][name].kind = "dir" THEN fs[dir][name].to ELSE "none"

\* _refuse_unrepresentable_component, and the components no jail accepts.  The
\* paths of requests have ".." in front only, where it leads out.
Refused(path) == path = <<>> \/ \E i \in DOMAIN path : path[i] \in {"..", "bad"}

\* resolve(): links are followed and what does not exist is kept as written.
\* The result is a path again, from the root or from outside.
Resolved(path) ==
    LET last == Last(path)
        parent == Front(path)
        dir == Walk(Root, parent)
        base == IF dir = Outside THEN <<Outside>> ELSE <<Root>> \o parent
        e == IF dir = "none" THEN NoEntry ELSE fs[dir][last]
    IN IF e.kind # "link" THEN base \o <<last>>
       ELSE IF e.to = Outside THEN <<Outside>> ELSE <<Outside, "f">>

\* _jail: relative to the session directory after resolving.
Jailed(path) == ~Refused(path) /\ Head(Resolved(path)) = Root

\* _normalized_component_matches, _reserved_root_name, _is_runner_internal.
RunnerInternal(path) == Len(path) = 1 /\ path[1] = "lock"

-----------------------------------------------------------------------------
(* Measures: every file of the workspace, no link followed.                *)

InWorkspace == {Root} \cup {fs[Root][n].to : n \in {m \in Names : fs[Root][m].kind = "dir"}}
FilesIn == {p \in InWorkspace \X Names : fs[p[1]][p[2]].kind = "file"}
FileBytes(dir, name) == IF <<dir, name>> \in FilesIn THEN fs[dir][name].size ELSE 0
DirBytes(dir) == FileBytes(dir, "f") + FileBytes(dir, "d") + FileBytes(dir, "lock")
SpilledBytes ==
    LET total[i \in 0 .. Len(spills)] == IF i = 0 THEN 0 ELSE total[i - 1] + spills[i]
    IN total[Len(spills)]
Usage == DirBytes(Root) + DirBytes("s1") + DirBytes("s2") + SpilledBytes
\* _workspace_scan: what the runner keeps for itself is no artifact.
Scanned == {p \in FilesIn : p # <<Root, "lock">>}
ArchiveBytes(members) == FoldLeft(LAMBDA a, m : a + m.size, 0, members)
GlobalUsage ==
    Usage + MapThenSumSet(LAMBDA c : ArchiveBytes(snapshots[c].archive), Calls)
          + MapThenSumSet(LAMBDA c : ArchiveBytes(restored[c]), Calls)

ArtifactCapRefusal(incoming, isNew) ==
    incoming > MaxArtifactBytes \/ (isNew /\ Cardinality(Scanned) >= MaxArtifactCount)
DiskQuotaRefusal(incoming) ==
    Usage + incoming > SessionQuota \/ GlobalUsage + incoming > TotalQuota
ArtifactCountRefusal == Cardinality(Scanned) > MaxArtifactCount

\* _write_guard: what does not grow the workspace is not held to the quota.
WriteGuard(incoming, old, isNew) ==
    /\ ~ArtifactCapRefusal(incoming, isNew)
    /\ incoming <= old \/ ~DiskQuotaRefusal(incoming - old)
QuotaPrecheck == ~DiskQuotaRefusal(0) /\ ~ArtifactCountRefusal
QuotaPostcheck == IF Usage > SessionQuota \/ GlobalUsage > TotalQuota \/ ArtifactCountRefusal
                  THEN "over" ELSE "ok"

-----------------------------------------------------------------------------
(* Calls.                                                                  *)

With(old, new) == [f \in DOMAIN old |-> IF f \in DOMAIN new THEN new[f] ELSE old[f]]
Update(c, new) == call' = [call EXCEPT ![c] = With(@, new)]
Done(c, answer) == Update(c, [pc |-> "done", answer |-> answer])
At(c, op, pc) == call[c].pc = pc /\ call[c].req.op = op

Arrive(c) ==
    /\ call[c].pc = "idle"
    /\ \E req \in Requests[c] : Update(c, [pc |-> "begin", req |-> req])
    /\ UNCHANGED <<fs, spilled, snapshots, restored, lock, program, tampered>>

\* _disk_lock: taken by the steps that measure, released by those that end.
Take(c) == lock = Free /\ lock' = c
Release(c) == lock = c /\ lock' = Free

\* write_file: the path is resolved before the lock is taken.
WriteResolves(c) ==
    LET path == call[c].req.path
    IN /\ At(c, "write", "begin")
       /\ IF Jailed(path)
          THEN Update(c, [pc |-> "check", target |-> Tail(Resolved(path)),
                          dir |-> Walk(Root, Front(Tail(Resolved(path))))])
          ELSE Done(c, "permission")
       /\ UNCHANGED <<fs, spilled, snapshots, restored, lock, program, tampered>>

\* The sizes are measured without following the last component; exists() does
\* follow it, and the links here lead to what exists.
WriteCheckedMutant(c) ==
    LET dir == Walk(Root, Front(call[c].target))
        e == IF dir = "none" THEN NoEntry ELSE fs[dir][Last(call[c].target)]
    IN /\ At(c, "write", "check") /\ lock = Free /\ UNCHANGED lock
       /\ IF WriteGuard(call[c].req.size, e.size, e.kind = "none")
          THEN Update(c, [pc |-> "open"]) ELSE Done(c, "exhausted")
       /\ UNCHANGED <<fs, spilled, snapshots, restored, program, tampered>>
WriteChecked(c) ==
    LET dir == Walk(Root, Front(call[c].target))
        e == IF dir = "none" THEN NoEntry ELSE fs[dir][Last(call[c].target)]
    IN /\ At(c, "write", "check") /\ lock = Free
       /\ IF WriteGuard(call[c].req.size, e.size, e.kind = "none")
          THEN Take(c) /\ Update(c, [pc |-> "open"])
          ELSE UNCHANGED lock /\ Done(c, "exhausted")
       /\ UNCHANGED <<fs, spilled, snapshots, restored, program, tampered>>

\* mkdir(parents=True) for a directory that is not there, then an open that
\* does not follow a link in the last component; one that fails raises.
Unused == {s \in SubDirs : (\A n \in Names : fs[Root][n].to # s) /\ \A c \in Calls : call[c].dir # s}
OpenedMutant(dir, name, size) ==
    IF fs[dir][name].kind = "link" /\ fs[dir][name].to = "outfile"
    THEN {[fs EXCEPT ![Outside]["f"] = File(size)]}
    ELSE IF fs[dir][name].kind \in {"none", "file"} THEN {[fs EXCEPT ![dir][name] = File(size)]} ELSE {}
Opened(dir, name, size) ==
    IF fs[dir][name].kind \in {"none", "file"} THEN {[fs EXCEPT ![dir][name] = File(size)]} ELSE {}
MadeAndOpened(name, last, size) ==
    {[fs EXCEPT ![Root][name] = Dir(s),
                ![s] = [n \in Names |-> IF n = last THEN File(size) ELSE NoEntry]] : s \in Unused}

WriteOpens(c) ==
    LET target == call[c].target
        dir == Walk(Root, Front(target))
        after == IF dir # "none" THEN Opened(dir, Last(target), call[c].req.size)
                 ELSE IF fs[Root][Head(target)].kind # "none" THEN {}
                 ELSE MadeAndOpened(Head(target), Last(target), call[c].req.size)
    IN /\ At(c, "write", "open")
       /\ lock' = IF lock = c THEN Free ELSE lock
       /\ \/ fs' \in after /\ Done(c, "ok")
          \/ after = {} /\ UNCHANGED fs /\ Done(c, "raised")
       /\ UNCHANGED <<spilled, snapshots, restored, program, tampered>>

\* delete_file: names are validated, nothing is resolved.  Under the lock the
\* directories are opened one by one and the last one stays open.
DeleteWalks(c) ==
    LET path == call[c].req.path
        last == Len(path) - 1
    IN /\ At(c, "delete", "begin") /\ lock = Free
       /\ IF Refused(path) \/ RunnerInternal(path) THEN Done(c, "permission") /\ UNCHANGED lock
          ELSE \E hops \in [0 .. last -> Dirs \cup {"none"}] :
            /\ hops[0] = Root
            /\ \A i \in 1 .. last : hops[i] = Hop(hops[i - 1], path[i])
            /\ IF hops[last] = "none" THEN Done(c, "no_file") /\ UNCHANGED lock
               ELSE Update(c, [pc |-> "unlink", dir |-> hops[last]]) /\ Take(c)
       /\ UNCHANGED <<fs, spilled, snapshots, restored, program, tampered>>

\* lstat and unlink in the directory that is open.
PinnedMutant(c) == Walk(Root, Front(call[c].req.path))
Pinned(c) == call[c].dir
DeleteUnlinks(c) ==
    LET dir == Pinned(c)
        name == Last(call[c].req.path)
        there == dir # "none" /\ fs[dir][name].kind \in {"file", "link"}
    IN /\ At(c, "delete", "unlink") /\ Release(c)
       /\ fs' = IF there THEN [fs EXCEPT ![dir][name] = NoEntry] ELSE fs
       /\ Done(c, IF there THEN "ok" ELSE "no_file")
       /\ UNCHANGED <<spilled, snapshots, restored, program, tampered>>

\* resource_read: resolve, then open the last component without following it;
\* only a regular file within the limit is returned.
ReadResolves(c) ==
    LET path == call[c].req.path
    IN /\ At(c, "read", "begin")
       /\ IF Jailed(path) THEN Update(c, [pc |-> "open", target |-> Tail(Resolved(path))])
                          ELSE Done(c, "permission")
       /\ UNCHANGED <<fs, spilled, snapshots, restored, lock, program, tampered>>
Readable(target) ==
    LET dir == Walk(Root, Front(target))
    IN dir # "none" /\ fs[dir][Last(target)].kind = "file" /\ fs[dir][Last(target)].size <= SpillCapture
ReadOpens(c) ==
    /\ At(c, "read", "open")
    /\ Done(c, IF Readable(call[c].target) THEN "ok" ELSE "no_file")
    /\ UNCHANGED <<fs, spilled, snapshots, restored, lock, program, tampered>>

\* A run, in the worker or as a process in the workspace: refused while the
\* session is over a limit, otherwise the program does what it does.
RunBegins(c) ==
    /\ At(c, "run", "begin")
    /\ IF QuotaPrecheck THEN Update(c, [pc |-> "running"]) ELSE Done(c, "exhausted")
    /\ UNCHANGED <<fs, spilled, snapshots, restored, lock, program, tampered>>

\* run_file: the limits, then the entry file, which is run as a new process.
RunFileBegins(c) ==
    LET path == call[c].req.path
    IN /\ At(c, "runfile", "begin")
       /\ IF ~QuotaPrecheck THEN Done(c, "exhausted")
          ELSE IF ~Jailed(path) THEN Done(c, "permission")
          ELSE IF Readable(Tail(Resolved(path))) THEN Update(c, [pc |-> "running"])
          ELSE Done(c, "no_file")
       /\ UNCHANGED <<fs, spilled, snapshots, restored, lock, program, tampered>>

\* spill_if_truncated: output over the inline limit is kept in a file of the
\* workspace, or only cut when the limits refuse the file.  Under the lock the
\* limits are checked and the path of the spill directory is resolved.
Captured(out) == IF out > SpillCapture THEN SpillCapture ELSE out
SpillIfTruncated(c) ==
    LET bytes == Captured(call[c].req.out)
    IN /\ call[c].pc = "running"
       /\ \/ bytes <= InlineCap /\ Update(c, [pc |-> "post"]) /\ UNCHANGED lock
          \/ /\ bytes > InlineCap /\ lock = Free
             /\ IF ~WriteGuard(bytes, 0, TRUE) THEN Update(c, [pc |-> "post"]) /\ UNCHANGED lock
                ELSE IF spillDir = Outside THEN Done(c, "raised") /\ UNCHANGED lock
                ELSE Update(c, [pc |-> "spill", dir |-> spillDir]) /\ Take(c)
       /\ UNCHANGED <<fs, spilled, snapshots, restored, program, tampered>>

\* _write_spill: mkdir(exist_ok=True) and an open in whatever directory the path
\* leads to by then.
WriteSpill(c) ==
    LET bytes == Captured(call[c].req.out)
    IN /\ call[c].pc = "spill"
       /\ \/ /\ spillDir \in {"none", "dir"}
             /\ spillDir' = "dir" /\ spills' = <<bytes>> \o spills
             /\ Update(c, [pc |-> "prune"]) /\ UNCHANGED <<strays, lock>>
          \/ /\ spillDir = Outside
             /\ strays' = <<bytes>> \o strays
             /\ Update(c, [pc |-> "prune"]) /\ UNCHANGED <<spills, spillDir, lock>>
          \/ spillDir = "file" /\ Done(c, "raised") /\ Release(c) /\ UNCHANGED spilled
       /\ UNCHANGED <<fs, snapshots, restored, program, tampered>>

\* _prune_spill resolves the path again, and removes all but the newest files of
\* the directory it then leads to.
PruneResolves(c) ==
    /\ call[c].pc = "prune"
    /\ IF spillDir = Outside THEN Done(c, "raised") /\ Release(c)
       ELSE Update(c, [pc |-> "sweep", dir |-> spillDir]) /\ UNCHANGED lock
    /\ UNCHANGED <<fs, spilled, snapshots, restored, program, tampered>>
Pruned(s) == SubSeq(s, 1, IF Len(s) > SpillKeep THEN SpillKeep ELSE Len(s))
PruneSpill(c) ==
    /\ call[c].pc = "sweep"
    /\ \/ spillDir = Outside /\ strays' = Pruned(strays) /\ UNCHANGED spills
       \/ spillDir # Outside /\ spills' = Pruned(spills) /\ UNCHANGED strays
    /\ Update(c, [pc |-> "post"]) /\ Release(c)
    /\ UNCHANGED <<fs, spillDir, snapshots, restored, program, tampered>>
RunEnds(c) ==
    /\ call[c].pc = "post" /\ Done(c, QuotaPostcheck)
    /\ UNCHANGED <<fs, spilled, snapshots, restored, lock, program, tampered>>

-----------------------------------------------------------------------------
(* Snapshots.  An archive is a sequence of members.                        *)

PathOf(p) == IF p[1] = Root THEN <<p[2]>>
             ELSE <<CHOOSE n \in Names : fs[Root][n].to = p[1], p[2]>>
Member(path, kind, size) == [path |-> path, kind |-> kind, size |-> size]

\* snapshot_save: scan, check the limits, archive what is there by then.
SaveScans(c) ==
    LET raw == MapThenSumSet(LAMBDA p : fs[p[1]][p[2]].size, Scanned)
        saved == {s \in Calls : snapshots[s].saved}
    IN /\ At(c, "save", "begin")
       /\ IF raw > MaxSnapshotBytes \/ DiskQuotaRefusal(raw) \/ Cardinality(saved) >= MaxSnapshots
          THEN Done(c, "exhausted")
          ELSE Update(c, [pc |-> "archive", found |-> {PathOf(p) : p \in Scanned}])
       /\ UNCHANGED <<fs, spilled, snapshots, restored, lock, program, tampered>>

Added(path) ==
    LET dir == Walk(Root, Front(path))
        e == IF dir = "none" THEN NoEntry ELSE fs[dir][Last(path)]
    IN CASE e.kind = "none" -> {}
         [] e.kind = "file" -> {Member(path, "reg", e.size)}
         [] OTHER -> {Member(path, e.kind, 0)}
SaveArchives(c) ==
    LET members == SetToSeq(UNION {Added(path) : path \in call[c].found})
    IN /\ At(c, "save", "archive")
       /\ IF Len(members) < Cardinality(call[c].found)
          THEN UNCHANGED snapshots /\ Done(c, "internal")
          ELSE /\ snapshots' = [snapshots EXCEPT ![c] = [saved |-> TRUE, archive |-> members]]
               /\ Done(c, "ok")
       /\ UNCHANGED <<fs, spilled, restored, lock, program, tampered>>

\* snapshot_delete removes one snapshot, the end of the session all of them:
\* archive and metadata.
SnapshotRemoved(c) ==
    /\ At(c, "remove", "begin")
    /\ snapshots' = [s \in Calls |-> IF s \in call[c].req.ids THEN NoSnapshot ELSE snapshots[s]]
    /\ Done(c, "ok")
    /\ UNCHANGED <<fs, spilled, restored, lock, program, tampered>>

\* _tar_path_collision: a file is no directory and appears once.
Ancestors(path) == {SubSeq(path, 1, i) : i \in 1 .. Len(path) - 1}
Collides(known, m) ==
    \/ \E a \in Ancestors(m.path) : <<a, "file">> \in known
    \/ <<m.path, "file">> \in known
    \/ <<m.path, "dir">> \in known /\ m.kind # "dir"
Known(m) == {<<a, "dir">> : a \in Ancestors(m.path)}
            \cup {<<m.path, IF m.kind = "dir" THEN "dir" ELSE "file">>}

\* _plan_tar_extraction: every member is checked before any is written.
ExtractionBudget == MaxSnapshotBytes + MaxArtifactBytes
PlanMember(acc, m) ==
    LET size == IF m.kind = "dir" THEN 0 ELSE m.size
    IN IF \/ ~acc.ok
          \/ Len(acc.members) >= MaxArtifactCount
          \/ Refused(m.path)
          \/ m.kind \notin {"dir", "reg"}
          \/ size > MaxArtifactBytes
          \/ acc.total + size > ExtractionBudget
          \/ Collides(acc.known, m)
       THEN [acc EXCEPT !.ok = FALSE]
       ELSE [ok |-> TRUE, known |-> acc.known \cup Known(m), total |-> acc.total + size,
             members |-> Append(acc.members, m)]
EmptyPlan == [ok |-> TRUE, known |-> {}, total |-> 0, members |-> <<>>]
PlanTarExtraction(archive) ==
    LET plan[i \in 0 .. Len(archive)] ==
            IF i = 0 THEN EmptyPlan ELSE PlanMember(plan[i - 1], archive[i])
    IN plan[Len(archive)]

RestorePlans(c) ==
    LET stored == snapshots[call[c].req.id]
        plan == PlanTarExtraction(stored.archive)
    IN /\ At(c, "restore", "begin")
       /\ IF ~stored.saved THEN Done(c, "unknown")
          ELSE IF ~plan.ok THEN Done(c, "refused")
          ELSE IF DiskQuotaRefusal(plan.total) THEN Done(c, "exhausted")
          ELSE Update(c, [pc |-> "extract", plan |-> plan.members])
       /\ UNCHANGED <<fs, spilled, snapshots, restored, lock, program, tampered>>

\* _extract_planned_tar reads the archive again, into a fresh directory that
\* is removed when a member is not the planned one.  A link or a special file in
\* the place of a planned file is not told from it: extractfile() follows a link
\* to the member it names (a copy of that is written), has nothing for a special
\* file or a directory (nothing is written), and raises when there is none.
SameMember(m, planned) ==
    /\ m.path = planned.path /\ (m.kind = "dir") = (planned.kind = "dir")
    /\ m.kind = "dir" \/ m.size = planned.size
ExtractsMutant(archive, plan) == Len(archive) = Len(plan)
Extracts(archive, plan) ==
    Len(archive) = Len(plan) /\ \A i \in DOMAIN plan : SameMember(archive[i], plan[i])
RegularSizes(archive) == {archive[i].size : i \in {j \in DOMAIN archive : archive[j].kind = "reg"}}
Outcomes(m, archive) ==
    IF m.kind # "link" THEN {m}
    ELSE {Member(m.path, "none", 0)} \cup {Member(m.path, "copy", n) : n \in RegularSizes(archive)}
Extracted(archive) ==
    {w \in [DOMAIN archive -> UNION {Outcomes(archive[i], archive) : i \in DOMAIN archive}] :
        \A i \in DOMAIN archive : w[i] \in Outcomes(archive[i], archive)}
RestoreExtracts(c) ==
    LET stored == snapshots[call[c].req.id]
    IN /\ At(c, "restore", "extract")
       /\ \/ /\ stored.saved /\ Extracts(stored.archive, call[c].plan)
             /\ \E written \in Extracted(stored.archive) :
                    restored' = [restored EXCEPT ![c] = written]
             /\ Done(c, "ok")
          \/ /\ stored.saved /\ \E i \in DOMAIN stored.archive : stored.archive[i].kind = "link"
             /\ UNCHANGED restored /\ Done(c, "raised")
          \/ /\ ~(stored.saved /\ Extracts(stored.archive, call[c].plan))
             /\ UNCHANGED restored /\ Done(c, "refused")
       /\ UNCHANGED <<fs, spilled, snapshots, lock, program, tampered>>

-----------------------------------------------------------------------------
(* The session's program, and whoever else writes to the state directory.  *)

\* The program replaces an entry, or what is at the path of the spill directory.
ReplacesEntry ==
    /\ \E dir \in InWorkspace, name \in Names \ {"lock"} :
        \E e \in {NoEntry} \cup {File(n) : n \in Sizes} \cup {Link(to) : to \in LinkTargets}
                 \cup (IF dir = Root /\ name = "d" THEN {Dir(s) : s \in Unused} ELSE {}) :
            /\ fs[dir][name] # e
            /\ fs' = [fs EXCEPT ![dir][name] = e]
    /\ UNCHANGED spilled
ReplacesSpills ==
    /\ \E at \in {"none", "dir", "file", Outside} :
        \E left \in {<<>>} \cup (IF at = "dir" THEN {<<n>> : n \in Sizes} ELSE {}) :
            /\ <<at, left>> # <<spillDir, spills>>
            /\ spillDir' = at /\ spills' = left
    /\ UNCHANGED <<fs, strays>>
Program ==
    /\ program < MaxProgram
    /\ ReplacesEntry \/ ReplacesSpills
    /\ program' = program + 1
    /\ UNCHANGED <<snapshots, restored, lock, call, tampered>>

Tamper ==
    /\ tampered < MaxTamper
    /\ \E c \in Calls, a \in Archives :
        snapshots[c].saved /\ snapshots' = [snapshots EXCEPT ![c].archive = a]
    /\ tampered' = tampered + 1
    /\ UNCHANGED <<fs, spilled, restored, lock, call, program>>

Finished == (\A c \in Calls : call[c].pc = "done") /\ UNCHANGED vars

Next ==
    \/ \E c \in Calls :
        \/ Arrive(c)
        \/ WriteResolves(c) \/ WriteChecked(c) \/ WriteOpens(c)
        \/ DeleteWalks(c) \/ DeleteUnlinks(c)
        \/ ReadResolves(c) \/ ReadOpens(c)
        \/ RunBegins(c) \/ RunFileBegins(c) \/ RunEnds(c)
        \/ SpillIfTruncated(c) \/ WriteSpill(c) \/ PruneResolves(c) \/ PruneSpill(c)
        \/ SaveScans(c) \/ SaveArchives(c) \/ SnapshotRemoved(c)
        \/ RestorePlans(c) \/ RestoreExtracts(c)
    \/ Program \/ Tamper \/ Finished

Spec == Init /\ [][Next]_vars

-----------------------------------------------------------------------------
(* Properties.                                                             *)

TypeOK ==
    /\ \A d \in Dirs : \A n \in Names : fs[d][n] \in Entries
    /\ spills \in Seq(Nat) /\ strays \in Seq(Nat)
    /\ spillDir \in {"none", "dir", "file", Outside}
    /\ lock \in Calls \cup {Free}

\* The server's own writes and spills never take the workspace over the
\* session's quota, however many calls write at once: what is above it was
\* written by the session's program.
QuotaKept == program = 0 => Usage <= SessionQuota

\* Nothing outside the workspace is changed by a write, a deletion, a spill or
\* the removal of old spills, except in the one window the code leaves open: a
\* write one of whose parent directories, or a spill or removal whose spill
\* directory, was replaced after _jail had resolved it.  A link in the last
\* component is never followed, a deletion stays in the directory it opened, and
\* a link that was there when _jail looked is refused.
OutsideKept ==
    [][<<fs'[Outside], strays'>> # <<fs[Outside], strays>> =>
        \E c \in Calls :
            \/ /\ At(c, "write", "open") /\ call'[c].pc = "done"
               /\ Walk(Root, Front(call[c].target)) # call[c].dir
            \/ /\ call[c].pc \in {"spill", "sweep"} /\ call'[c].pc # call[c].pc
               /\ spillDir # call[c].dir]_vars

\* A restore writes what the first pass over the archive planned, member for
\* member, although the archive may be replaced before the second pass.  One
\* difference is not noticed: where the second pass finds a link or a special
\* file of the recorded size in the place of a planned file, that file is missing,
\* or a copy of another file of the plan.  No link, no unplanned name and no file
\* above the per-file limit is ever written.
RestoredAsPlanned ==
    \A c \in Calls : restored[c] # <<>> =>
        LET plan == call[c].plan
            files == {i \in DOMAIN plan : plan[i].kind = "reg"}
        IN  /\ PlanTarExtraction(plan).ok
            /\ DOMAIN restored[c] = DOMAIN plan
            /\ \A i \in DOMAIN plan :
                \/ restored[c][i] = plan[i]
                \/ i \in files /\ restored[c][i] = Member(plan[i].path, "none", 0)
                \/ i \in files /\ \E j \in files : restored[c][i] = Member(plan[i].path, "copy", plan[j].size)
=============================================================================
