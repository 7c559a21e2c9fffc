--------------------------- MODULE NativeExecutor ---------------------------
(***************************************************************************)
(* One run of codecalc-exec on Linux (executor/src/main.rs, bounds.rs and  *)
(* platform/unix.rs): it prepares a work directory, compiles and runs a    *)
(* program in a process group of its own, collects what the two streams    *)
(* hold, removes the directory it made and prints a result.  The server    *)
(* may end it with SIGTERM or SIGKILL at any moment; the program forks,    *)
(* writes, opens sockets and moves its own directory.                      *)
(*                                                                         *)
(* The clock moves only while the executor sleeps between two polls: its   *)
(* own steps take no time.  Left out: the language table beyond what has a *)
(* compile step, rlimits other than the file size, CPU time, and Windows.  *)
(* A process that leaves its group is out of the executor's sight: what it *)
(* can still do here is to move directories between two of its steps.      *)
(***************************************************************************)
EXTENDS Integers, Sequences, FiniteSets, OutputBudget

CONSTANTS
    Timeout,   \* --timeout, in seconds
    Ticks,     \* ticks of the clock in a second
    Cap,       \* --max-output-kb
    Sizes      \* bound: the lengths a stream can have

ASSUME NativeExecutorAssumption ==
    /\ Timeout \in Nat \ {0} /\ Ticks \in Nat \ {0} /\ Cap \in Nat \ {0}
    /\ Sizes \subseteq Nat /\ IsFiniteSet(Sizes) /\ 0 \in Sizes

VARIABLES
    req,        \* what is asked: [lang, session, noNet]
    host,       \* what the host has against network access
    pc,         \* where execute is
    phase,      \* "compile" or "run"
    path,       \* what the path of the work directory names: "nothing", "own", "foreign" or "session"
    scratch,    \* what .codecalc-run in it is: "absent", "plain", "tainted", "other" than a
                \* directory, or "swapped": a directory put there after the scan
    ident,      \* scratch_identity: "none", "first" or "second"
    stray,      \* the program has left a process outside its group
    raced,      \* history: where the executor was when a directory was exchanged
    leader,     \* the child of the step
    kids,       \* there are descendants in its group
    published,  \* CHILD_PGID holds the group
    masked,     \* the termination signals are blocked
    handler,    \* the termination handler is installed
    signal,     \* SIGTERM: "none" or "pending"
    clock,      \* ticks since the first step began
    begun,      \* the clock when this step began
    limit,      \* the seconds this step may take
    polled,     \* wait4 was asked at this tick
    timedOut,   \* the deadline of this step has passed
    status,     \* how the leader ended
    out, err,   \* what the two capture files hold
    netOpen,    \* the program reached the network in this step
    started,    \* the phases whose program has run
    result      \* what is printed

process == <<leader, kids, status, out, err, netOpen, started>>
signals == <<published, masked, handler, signal>>
time == <<clock, begun, limit, polled, timedOut>>
files == <<path, scratch, ident, stray, raced>>
vars == <<req, host, pc, phase, process, signals, time, files, result>>

NoResult == [ok |-> FALSE, verdict |-> "none", phase |-> "none", exit |-> "none",
             timedOut |-> FALSE, truncated |-> FALSE, unread |-> FALSE, unenforced |-> {}]
Refusal == [NoResult EXCEPT !.verdict = "error"]

Ended == pc \in {"done", "terminated", "killed"}
Alive == leader \in {"forked", "armed", "running"}

\* A seccomp that works or is refused, or without it the LD_PRELOAD shim or
\* nothing; it is asked only when the network is to be closed.
Hosts == {"nothing", "shim", "refused", "seccomp"}

Init ==
    /\ req \in [lang : {"unknown", "script", "compiled"}, session : BOOLEAN, noNet : BOOLEAN]
    /\ host \in IF req.noNet THEN Hosts ELSE {"nothing"}
    /\ pc = "start" /\ phase = "none"
    /\ path = IF req.session THEN "session" ELSE "nothing"
    /\ scratch \in IF req.session THEN {"absent", "plain", "tainted", "other"} ELSE {"absent"}
    /\ ident = "none" /\ stray = FALSE /\ raced = {}
    /\ leader = "none" /\ kids = FALSE
    /\ published = FALSE /\ masked = FALSE /\ handler = FALSE /\ signal = "none"
    /\ clock = 0 /\ begun = 0 /\ limit = Timeout /\ polled = FALSE /\ timedOut = FALSE
    /\ status = "none" /\ out = 0 /\ err = 0 /\ netOpen = FALSE /\ started = {}
    /\ result = NoResult

-----------------------------------------------------------------------------
(* The seccomp filter, as the program the kernel interprets.               *)

Ins(op, k, jt, jf) == [op |-> op, k |-> k, jt |-> jt, jf |-> jf]
Load(field) == Ins("ld", field, 0, 0)
Equal(k, jt, jf) == Ins("jeq", k, jt, jf)
Return(k) == Ins("ret", k, 0, 0)

FilterWith(inet6) == <<
    Load("arch"), Equal("native", 0, 13),
    Load("nr"), Equal("x32", 11, 0),
    Equal("io_uring_setup", 7, 0), Equal("io_uring_enter", 6, 0), Equal("io_uring_register", 5, 0),
    Equal("socket", 0, 6),
    Load("domain"), Equal("inet", 3, 0), inet6,
    Return("allow"), Return("enosys"), Return("eacces"), Return("allow"), Return("kill")>>

\* Mutant: the jump of AF_INET6 is one too short.
FilterMutant == FilterWith(Equal("inet6", 0, 0))
Filter == FilterWith(Equal("inet6", 2, 0))

SystemCalls == [arch : {"native", "foreign"}, domain : {"inet", "inet6", "unix"},
                nr : {"x32", "io_uring_setup", "io_uring_enter", "io_uring_register", "socket", "read"}]

\* The answer for a call: at[i][a] is the answer from instruction i on, with a
\* in the accumulator.
Answer(call) ==
    LET at[i \in 1 .. Len(Filter)] ==
            [a \in {"none", call.arch, call.nr, call.domain} |->
                IF Filter[i].op = "ret" THEN Filter[i].k
                ELSE IF Filter[i].op = "ld" THEN at[i + 1][call[Filter[i].k]]
                ELSE at[i + 1 + (IF a = Filter[i].k THEN Filter[i].jt ELSE Filter[i].jf)][a]]
    IN at[1]["none"]

\* Calls through which a program can reach the network.
Reaches(call) == \/ call.nr \in {"io_uring_setup", "x32"} \/ call.arch = "foreign"
                 \/ call.nr = "socket" /\ call.domain \in {"inet", "inet6"}

Enforced == req.noNet /\ host = "seccomp"

\* run_step: what is said of a request for no network.
NetDisclosure ==
    IF ~req.noNet \/ host \in {"refused", "seccomp"} THEN {}
    ELSE IF host = "shim" THEN {"no_net_best_effort_shim"}
    ELSE {"no_net_requested_but_no_shim_available"}

-----------------------------------------------------------------------------
(* execute: the directory, the scratch directory and the source.           *)

\* execute returns r: a directory it made is removed first.
Finish(r) ==
    /\ result' = r
    /\ pc' = IF req.session THEN "done" ELSE "check"
Leave(r) ==
    /\ Finish(r)
    /\ UNCHANGED <<req, host, phase, process, signals, time, files>>

\* Mutant: whatever is there goes.
CheckOwnMutant == /\ pc = "check" /\ pc' = "delete"
                  /\ UNCHANGED <<req, host, phase, process, signals, time, files, result>>
\* remove_own_workdir: dir_identity says whether it is still what was created
\* here, and what the path then names is removed.
CheckOwn ==
    /\ pc = "check"
    /\ pc' = IF path = "own" THEN "delete" ELSE "done"
    /\ UNCHANGED <<req, host, phase, process, signals, time, files, result>>

DeleteOwn ==
    /\ pc = "delete"
    /\ pc' = "done"
    /\ path' \in {path, "nothing"}
    /\ UNCHANGED <<req, host, phase, process, signals, time, scratch, ident, stray, raced, result>>

\* An unknown language, or a directory that cannot be made, is an error; the
\* directory of a session is given.
ChooseWork ==
    /\ pc = "start"
    /\ \/ /\ result' = Refusal /\ pc' = "done"
          /\ req.lang = "unknown" \/ ~req.session
          /\ UNCHANGED path
       \/ /\ req.lang # "unknown"
          /\ path' = IF req.session THEN "session" ELSE "own"
          /\ pc' = "scratch"
          /\ UNCHANGED result
    /\ UNCHANGED <<req, host, phase, process, signals, time, scratch, ident, stray, raced>>

\* find_tainted_entry and the checks around it: nothing, or plain entries in a
\* plain directory.
Untainted == scratch \in {"absent", "plain"}

\* What an earlier call left in .codecalc-run is looked through or refused.
ScanScratch ==
    /\ pc = "scratch"
    /\ \/ Leave(Refusal)
       \/ /\ Untainted
          /\ pc' = IF scratch = "absent" THEN "create" ELSE "identify"
          /\ UNCHANGED <<req, host, phase, process, signals, time, files, result>>

\* dir_identity: none of what is not a directory.
Identity == IF scratch \in {"plain", "tainted"} THEN "first"
            ELSE IF scratch = "swapped" THEN "second" ELSE "none"

IdentifyScratch ==
    /\ pc = "identify"
    /\ ident' = Identity /\ pc' = "compare"
    /\ UNCHANGED <<req, host, phase, process, signals, time, path, scratch, stray, raced, result>>

\* remove_dir_checked: without an identity nothing is compared.
CompareScratch ==
    /\ pc = "compare"
    /\ \/ /\ ident # "none" /\ Identity # ident
          /\ Leave(Refusal)
       \/ /\ ident = "none" \/ Identity = ident
          /\ pc' = "erase"
          /\ UNCHANGED <<req, host, phase, process, signals, time, files, result>>

EraseScratch ==
    /\ pc = "erase"
    /\ \/ Leave(Refusal)
       \/ /\ scratch # "absent"
          /\ scratch' = "absent" /\ pc' = "create"
          /\ UNCHANGED <<req, host, phase, process, signals, time, path, ident, stray, raced, result>>

\* create_dir takes no directory that is there already.
CreateScratch ==
    /\ pc = "create"
    /\ \/ Leave(Refusal)
       \/ /\ scratch = "absent"
          /\ scratch' = "plain" /\ ident' = "none" /\ raced' = {} /\ pc' = "source"
          /\ UNCHANGED <<req, host, phase, process, signals, time, path, stray, result>>

\* A process that an earlier call of the session has left exchanges the
\* directory while the executor looks at it and removes it.
Exchange(with) ==
    /\ req.session /\ pc \in {"identify", "compare", "erase", "create"}
    /\ with # scratch
    /\ scratch' = with /\ raced' = raced \cup {pc}
    /\ UNCHANGED <<req, host, pc, phase, process, signals, time, path, ident, stray, result>>

WriteSource ==
    /\ pc = "source"
    /\ \/ Leave(Refusal)
       \/ /\ pc' = "step"
          /\ phase' = IF req.lang = "compiled" THEN "compile" ELSE "run"
          /\ UNCHANGED <<req, host, process, signals, time, files, result>>

-----------------------------------------------------------------------------
(* run_step and spawn_and_wait.                                            *)

\* verdict and the fields of the result of a step.
Verdict(ended, timed, truncated) ==
    IF timed THEN "TLE" ELSE IF truncated THEN "OLE"
    ELSE IF ended = "oom" THEN "MLE" ELSE IF ended # "zero" THEN "RTE" ELSE "OK"

\* read_capture reads one byte more than the cap of a stream of n bytes; what
\* an error leaves of it may be anything shorter.
Captured(n, unread) == IF unread THEN 0 .. Retained(Cap, n) ELSE {Retained(Cap, n)}

\* o and e are what was read of the streams, unread whether one could not be.
StepOutcome(o, e, unread) ==
    [ok |-> status = "zero" /\ ~timedOut /\ ~unread, phase |-> phase, exit |-> status,
     verdict |-> Verdict(status, timedOut, Truncated(Cap, o, e)), timedOut |-> timedOut,
     truncated |-> Truncated(Cap, o, e), unread |-> unread, unenforced |-> NetDisclosure]

\* A step that started no process: its files or the process cannot be made.
Failed(exit) == [NoResult EXCEPT !.verdict = "RTE", !.phase = phase, !.exit = exit]

\* The mask is set before the fork and cleared when the group is published.
BlockSignals == masked' = TRUE
Spawn ==
    /\ pc = "step"
    /\ \/ Leave(Failed("no_files"))
       \/ /\ handler' = TRUE /\ BlockSignals
          /\ leader' = "forked" /\ kids' = FALSE /\ status' = "none" /\ netOpen' = FALSE
          /\ out' = 0 /\ err' = 0
          /\ pc' = "spawn"
          /\ UNCHANGED <<req, host, phase, published, signal, time, files, started, result>>

\* The child before exec: it asks for SIGKILL when its parent dies, and exits
\* when that has happened already and process 1 is its parent.  Where a
\* subreaper is instead, it goes on, out of everybody's sight.
Arm ==
    /\ leader = "forked"
    /\ leader' \in IF pc = "spawn" THEN {"armed"} ELSE {"gone", "orphan"}
    /\ UNCHANGED <<req, host, pc, phase, kids, status, out, err, netOpen, started, signals, time, files, result>>

\* The filter is installed and the program replaces the child, or exec fails.
Exec ==
    /\ leader = "armed"
    /\ \/ leader' = "failed" /\ UNCHANGED started
       \/ /\ ~(req.noNet /\ host = "refused")
          /\ leader' = "running" /\ started' = started \cup {phase}
    /\ UNCHANGED <<req, host, pc, phase, kids, status, out, err, netOpen, signals, time, files, result>>

SpawnReturns ==
    /\ pc = "spawn"
    /\ \/ /\ leader = "failed"
          /\ leader' = "gone" /\ masked' = FALSE
          /\ Finish(Failed("null"))
          /\ UNCHANGED <<published, begun, polled, timedOut>>
       \/ /\ leader \in {"running", "ended"}
          /\ published' = TRUE /\ masked' = FALSE
          /\ begun' = clock /\ polled' = FALSE /\ timedOut' = FALSE
          /\ pc' = "wait"
          /\ UNCHANGED <<leader, result>>
    /\ UNCHANGED <<req, host, phase, kids, status, out, err, netOpen, started, handler, signal,
                   clock, limit, files>>

\* The program: it ends, forks, writes or truncates, makes a system call (of
\* interest when the network was to be closed), moves its work directory away
\* and puts another there, and leaves a process that still can.  A stream
\* beyond the file size limit ends it.
Fsize == 4 * Cap
End(how) ==
    /\ leader = "running"
    /\ leader' = "ended" /\ status' = how
    /\ UNCHANGED <<req, host, pc, phase, kids, out, err, netOpen, started, signals, time, files, result>>

ForkKid ==
    /\ leader = "running" /\ ~kids
    /\ kids' = TRUE
    /\ UNCHANGED <<req, host, pc, phase, leader, status, out, err, netOpen, started, signals, time, files, result>>

Write(o, e) ==
    /\ leader = "running" \/ kids
    /\ <<o, e>> # <<out, err>>
    /\ out' = Least(o, Fsize) /\ err' = Least(e, Fsize)
    /\ LET over == leader = "running" /\ (o > Fsize \/ e > Fsize)
       IN /\ leader' = IF over THEN "ended" ELSE leader
          /\ status' = IF over THEN "signal" ELSE status
    /\ UNCHANGED <<req, host, pc, phase, kids, netOpen, started, signals, time, files, result>>

Call(call) ==
    /\ leader = "running" /\ req.noNet
    /\ IF Enforced
       THEN /\ netOpen' = (netOpen \/ (Reaches(call) /\ Answer(call) = "allow"))
            /\ leader' = IF Answer(call) = "kill" THEN "ended" ELSE leader
            /\ status' = IF Answer(call) = "kill" THEN "signal" ELSE status
       ELSE /\ Reaches(call) /\ netOpen' = TRUE
            /\ UNCHANGED <<leader, status>>
    /\ UNCHANGED <<req, host, pc, phase, kids, out, err, started, signals, time, files, result>>

MoveWork ==
    /\ leader = "running" \/ kids \/ stray
    /\ ~Ended /\ path = "own"
    /\ path' = "foreign"
    /\ raced' = IF pc = "delete" THEN raced \cup {pc} ELSE raced
    /\ UNCHANGED <<req, host, pc, phase, process, signals, time, scratch, ident, stray, result>>

\* In a session it would find nothing that is still to be removed.
LeaveGroup ==
    /\ leader = "running" /\ ~req.session /\ ~stray
    /\ stray' = TRUE
    /\ UNCHANGED <<req, host, pc, phase, process, signals, time, path, scratch, ident, raced, result>>

\* The loop of wait4, which is asked once at every tick.
Poll ==
    /\ pc = "wait" /\ ~polled
    /\ IF leader = "ended" THEN pc' = "reaped" /\ leader' = "gone" /\ UNCHANGED polled
       ELSE IF clock - begun >= limit * Ticks THEN pc' = "kill" /\ UNCHANGED <<leader, polled>>
       ELSE polled' = TRUE /\ UNCHANGED <<pc, leader>>
    /\ UNCHANGED <<req, host, phase, kids, status, out, err, netOpen, started, signals,
                   clock, begun, limit, timedOut, files, result>>

Tick ==
    /\ pc = "wait" /\ polled
    /\ clock' = clock + 1 /\ polled' = FALSE
    /\ UNCHANGED <<req, host, pc, phase, process, signals, begun, limit, timedOut, files, result>>

\* The deadline: the group is killed and its leader, which may just have ended
\* by itself, is reaped.
TimeOut ==
    /\ pc = "kill"
    /\ status' = IF leader = "ended" THEN status ELSE "signal"
    /\ leader' = "gone" /\ kids' = FALSE
    /\ timedOut' = TRUE /\ pc' = "reaped"
    /\ UNCHANGED <<req, host, phase, out, err, netOpen, started, signals,
                   clock, begun, limit, polled, files, result>>

\* wait4 fails for another reason than a signal.
WaitFails ==
    /\ pc = "wait" /\ ~polled /\ leader = "ended"
    /\ leader' = "gone" /\ kids' = FALSE /\ published' = FALSE
    /\ Finish(Failed("null"))
    /\ UNCHANGED <<req, host, phase, status, out, err, netOpen, started, masked, handler, signal, time, files>>

\* Mutant: only a timeout kills the rest of the group (#207).
KillGroupMutant == /\ pc = "reaped" /\ pc' = "collect"
                   /\ kids' = IF timedOut THEN FALSE ELSE kids
                   /\ UNCHANGED <<req, host, phase, leader, status, out, err, netOpen, started, signals, time, files, result>>
\* After every end of the leader the rest of its group is killed.
KillGroup ==
    /\ pc = "reaped"
    /\ kids' = FALSE
    /\ pc' = "collect"
    /\ UNCHANGED <<req, host, phase, leader, status, out, err, netOpen, started, signals, time, files, result>>

\* Mutant: the run always has one second more.
RemainingMutant(elapsed) == (Timeout * Ticks - elapsed) \div Ticks + 1
\* remaining_run_timeout_secs, rounded up.
Remaining(elapsed) == (Timeout * Ticks - elapsed + Ticks - 1) \div Ticks

\* The result of a step: a compilation that succeeded leaves the run its time.
Collect ==
    /\ pc = "collect"
    /\ published' = FALSE
    /\ LET compiled == phase = "compile" /\ status = "zero" /\ ~timedOut
       IN \/ /\ ~compiled
             /\ \E unread \in BOOLEAN : \E o \in Captured(out, unread), e \in Captured(err, unread) :
                    Finish([StepOutcome(o, e, unread) EXCEPT !.ok = @ /\ phase = "run"])
             /\ UNCHANGED <<phase, limit>>
          \/ /\ compiled /\ clock >= Timeout * Ticks
             /\ Finish([NoResult EXCEPT !.verdict = "TLE", !.timedOut = TRUE,
                                        !.phase = "run", !.exit = "null"])
             /\ UNCHANGED <<phase, limit>>
          \/ /\ compiled /\ clock < Timeout * Ticks
             /\ limit' = Remaining(clock) /\ phase' = "run" /\ pc' = "step"
             /\ UNCHANGED result
    /\ UNCHANGED <<req, host, process, masked, handler, signal, clock, begun, polled, timedOut, files>>

-----------------------------------------------------------------------------
(* The server ends the executor.                                           *)

Terminate ==
    /\ ~Ended /\ signal = "none"
    /\ signal' = "pending"
    /\ UNCHANGED <<req, host, pc, phase, process, published, masked, handler, time, files, result>>

\* terminate_child_group, or the default action before it is installed.
Handle ==
    /\ ~Ended /\ signal = "pending" /\ ~masked
    /\ pc' = "terminated"
    /\ IF handler /\ published
       THEN leader' = "gone" /\ kids' = FALSE
       ELSE UNCHANGED <<leader, kids>>
    /\ UNCHANGED <<req, host, phase, status, out, err, netOpen, started, signals, time, files, result>>

\* SIGKILL: the kernel ends a leader that has asked for it, not its descendants.
KillExecutor ==
    /\ ~Ended
    /\ pc' = "killed"
    /\ leader' = IF leader = "forked" THEN leader ELSE "gone"
    /\ UNCHANGED <<req, host, phase, kids, status, out, err, netOpen, started, signals, time, files, result>>

Reset == ScanScratch \/ IdentifyScratch \/ CompareScratch \/ EraseScratch \/ CreateScratch
Executor == ChooseWork \/ Reset \/ WriteSource \/ Spawn \/ SpawnReturns \/ Poll \/ Tick
            \/ TimeOut \/ KillGroup \/ Collect \/ CheckOwn \/ DeleteOwn
Program == \/ \E how \in {"zero", "nonzero", "signal", "oom"} : End(how)
           \/ ForkKid \/ LeaveGroup \/ MoveWork
           \/ \E o, e \in Sizes : Write(o, e)
           \/ \E call \in SystemCalls : Call(call)
           \/ \E with \in {"absent", "other", "swapped"} : Exchange(with)
Next == Executor \/ Program \/ Arm \/ Exec \/ WaitFails \/ Terminate \/ Handle \/ KillExecutor

Spec == Init /\ [][Next]_vars

-----------------------------------------------------------------------------
TypeOK ==
    /\ req \in [lang : {"unknown", "script", "compiled"}, session : BOOLEAN, noNet : BOOLEAN]
    /\ host \in Hosts
    /\ pc \in {"start", "scratch", "identify", "compare", "erase", "create", "source", "step",
               "spawn", "wait", "kill", "reaped", "collect", "check", "delete", "done",
               "terminated", "killed"}
    /\ phase \in {"none", "compile", "run"}
    /\ path \in {"nothing", "own", "foreign", "session"}
    /\ scratch \in {"absent", "plain", "tainted", "other", "swapped"}
    /\ ident \in {"none", "first", "second"} /\ stray \in BOOLEAN
    /\ raced \subseteq {"identify", "compare", "erase", "create", "delete"}
    /\ leader \in {"none", "forked", "armed", "failed", "running", "ended", "gone", "orphan"}
    /\ status \in {"none", "zero", "nonzero", "signal", "oom"}
    /\ kids \in BOOLEAN /\ netOpen \in BOOLEAN /\ started \subseteq {"compile", "run"}
    /\ published \in BOOLEAN /\ masked \in BOOLEAN /\ handler \in BOOLEAN /\ signal \in {"none", "pending"}
    /\ clock \in Nat /\ begun \in 0 .. clock /\ limit \in 0 .. Timeout
    /\ polled \in BOOLEAN /\ timedOut \in BOOLEAN
    /\ out \in 0 .. Fsize /\ err \in 0 .. Fsize

\* Nothing of the process group is left when the executor has answered or was
\* terminated, and none of a compilation when the run begins; when the executor
\* itself is killed, the leader goes with it (spawn_and_wait, #207), unless it
\* had not yet asked for that and a subreaper hides from it that it should go.
GroupGone ==
    /\ pc \in {"check", "delete", "done", "terminated", "step"} => ~Alive /\ ~kids
    /\ pc = "killed" => leader \in {"forked", "none", "gone", "orphan"}

\* The directory at the path of the work directory goes only when it is the one
\* the run created, whoever of the group moved it and whenever: what is there
\* instead goes only if a process that left the group puts it there between
\* remove_own_workdir's look and its removal.  The scratch directory that goes
\* is the one that was scanned, unless it was exchanged before its identity was
\* taken, which is after the scan, or after that was compared: an exchange
\* between the two is found out (remove_dir_checked).
OnlyOwnRemoved ==
    [][/\ pc = "delete" /\ path' = "nothing" => path = "own" \/ ("delete" \in raced /\ stray)
       /\ pc = "erase" /\ pc' = "create" => scratch = "plain" \/ raced \cap {"identify", "erase"} # {}]_vars

\* What a result says of the run.
SaysTrue ==
    /\ result.ok => /\ result.phase = "run" /\ "run" \in started
                    /\ status = "zero" /\ ~timedOut /\ ~result.unread
                    /\ result.truncated <=> out + err > Cap
    /\ result.verdict = "OK" => status = "zero" /\ (out + err <= Cap \/ result.unread)
    /\ result.verdict = "OLE" => out + err > Cap
    /\ result.timedOut => clock >= Timeout * Ticks
    /\ req.noNet /\ netOpen /\ result.exit \in {"zero", "nonzero", "signal", "oom"} => result.unenforced # {}

\* A result is true: ok is a run that ended by itself with 0 in time, whose
\* streams could be read and are cut exactly when they are too long; "OK" has
\* whole output, unless the result says that a stream could not be read; and
\* network access of the run is disclosed although the filter, the shim or
\* nothing at all stood in its way.
ResultIsTrue == pc = "done" => SaysTrue

\* The compilation and the run together take less than one second more than
\* the timeout.
BudgetKept == clock < (Timeout + 1) * Ticks

=============================================================================
