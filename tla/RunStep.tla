------------------------------- MODULE RunStep -------------------------------
(***************************************************************************)
(* The Python executor: _execute_python and _run_step of                   *)
(* codecalc/executor.py, which run a compile step and a run step, each in  *)
(* a process group of its own, with a deadline, two draining threads and a *)
(* cap on the output.                                                      *)
(*                                                                         *)
(* The steps of the program, of a process it left behind, of the two       *)
(* drains, of the caller's thread and of the clock interleave.  A byte is  *)
(* counted, its value is left out.  The feeding of stdin affects nothing   *)
(* that is reported and is left out too.  The spawn lock makes other calls *)
(* wait; here it only lets time pass before the program starts.            *)
(***************************************************************************)
EXTENDS OutputBudget, FiniteSets

CONSTANTS
    Cap,        \* the output cap, in bytes
    CutBack,    \* bytes a cut may move back (3 in the code)
    Chunk,      \* bytes per read() of a drain
    PipeSize,   \* bytes a pipe holds
    MaxOutput,  \* bound: bytes a step writes to each stream
    Escapes     \* may a process leave the group

ASSUME RunStepAssumption ==
    /\ Cap \in Nat /\ CutBack \in Nat /\ Chunk \in Nat \ {0} /\ PipeSize \in Nat \ {0}
    /\ MaxOutput \in Nat
    /\ Escapes \in BOOLEAN

Streams == {"out", "err"}

VARIABLES
    phase,     \* "compile" or "run"
    pc,        \* where the caller's thread is
    main,      \* the program of the step
    code,      \* its exit code: 0 or not
    left,      \* a process it started and left behind ("gone": one that had
               \* left the group and ended)
    late,      \* has the deadline of the step passed
    spent,     \* is the wall-clock budget of the call used up
    timed_out, \* did the caller's thread see it
    written,   \* bytes written to each stream in this step
    pipe,      \* bytes in each pipe
    held,      \* bytes a drain's reader has taken from the pipe for its read()
    buf,       \* bytes a drain retains
    seen,      \* bytes a drain has counted
    drain,     \* state of each drain thread
    result,    \* what the call returns
    place,     \* what is at the path of the workdir, when it is looked at
    removed    \* what the removal of the workdir deleted

processes == <<main, code, left>>
clock == <<late, spent>>
drains == <<held, buf, seen, drain>>
workdir == <<place, removed>>
caller == <<phase, pc, timed_out, result, workdir>>
vars == <<caller, processes, clock, written, pipe, drains>>

\* kind: how far the call came; -1 is None.
NoResult == [kind |-> "none", ok |-> FALSE, timed_out |-> FALSE, truncated |-> FALSE,
             kept |-> [s \in Streams |-> 0], bytes |-> [s \in Streams |-> -1]]

TypeOK ==
    /\ phase \in {"compile", "run"}
    /\ pc \in {"spawn", "poll", "kill", "reap", "join_out", "join_err", "collect",
              "cleanup", "remove", "done"}
    /\ main \in {"none", "running", "exited"}
    /\ code \in {0, 1}
    /\ left \in {"none", "group", "escaped", "dead", "gone"}
    /\ late \in BOOLEAN /\ spent \in BOOLEAN /\ timed_out \in BOOLEAN
    /\ written \in [Streams -> 0 .. MaxOutput]
    /\ pipe \in [Streams -> 0 .. PipeSize]
    /\ held \in [Streams -> 0 .. Chunk]
    /\ buf \in [Streams -> 0 .. Cap + 1]
    /\ seen \in [Streams -> 0 .. MaxOutput]
    /\ drain \in [Streams -> {"none", "reading", "ended", "failed"}]
    /\ result \in [kind : {"none", "unavailable", "compile", "exhausted", "run"},
                   ok : BOOLEAN, timed_out : BOOLEAN, truncated : BOOLEAN,
                   kept : [Streams -> 0 .. MaxOutput],
                   bytes : [Streams -> -1 .. MaxOutput]]
    /\ place \in {"own", "caller", "other", "none"}
    /\ removed \in {"own", "caller", "other", "none"}

Zero == [s \in Streams |-> 0]

\* Interpreted languages have no compile step.
Init ==
    /\ phase \in {"compile", "run"}
    /\ pc = "spawn"
    /\ main = "none" /\ code = 0 /\ left = "none"
    /\ late = FALSE /\ spent = FALSE /\ timed_out = FALSE
    /\ written = Zero /\ pipe = Zero /\ held = Zero /\ buf = Zero /\ seen = Zero
    /\ drain = [s \in Streams |-> "none"]
    /\ result = NoResult
    /\ place = "own" /\ removed = "none"

----------------------------------------------------------------------------
(* The program and what it leaves behind.                                  *)

Live == main = "running" \/ left \in {"group", "escaped"}

Write(s) ==
    /\ Live
    /\ pipe[s] < PipeSize /\ written[s] < MaxOutput
    /\ pipe' = [pipe EXCEPT ![s] = @ + 1]
    /\ written' = [written EXCEPT ![s] = @ + 1]
    /\ UNCHANGED <<caller, processes, clock, drains>>

\* It starts a process that inherits its pipes, in its group or out of it.
Fork ==
    /\ main = "running" /\ left = "none"
    /\ left' \in IF Escapes THEN {"group", "escaped"} ELSE {"group"}
    /\ UNCHANGED <<caller, main, code, clock, written, pipe, drains>>

Exit ==
    /\ main = "running"
    /\ main' = "exited"
    /\ code' \in {0, 1}
    /\ UNCHANGED <<caller, left, clock, written, pipe, drains>>

LeftExits ==
    /\ left \in {"group", "escaped"}
    /\ left' = IF left = "group" THEN "dead" ELSE "gone"
    /\ UNCHANGED <<caller, main, code, clock, written, pipe, drains>>

----------------------------------------------------------------------------
(* _BoundedDrain.drain, one thread per stream.                             *)

\* No process has the write end any more.
Eof(s) == ~Live /\ pipe[s] = 0

\* The buffered reader takes bytes as they come; read(65536) returns when it
\* has them all or at the end of the stream.
Pull(s) ==
    /\ drain[s] = "reading"
    /\ pipe[s] > 0 /\ held[s] < Chunk
    /\ pipe' = [pipe EXCEPT ![s] = @ - 1]
    /\ held' = [held EXCEPT ![s] = @ + 1]
    /\ UNCHANGED <<caller, processes, clock, written, buf, seen, drain>>

\* Mutant: the byte past the cap is not retained.
RetainMutant(n) == Least(n, Cap)

\* self._retain
Retain(n) == Retained(Cap, n)

Deliver(s) ==
    /\ drain[s] = "reading"
    /\ held[s] = Chunk \/ (held[s] > 0 /\ Eof(s))
    /\ seen' = [seen EXCEPT ![s] = @ + held[s]]
    /\ buf' = [buf EXCEPT ![s] = Retain(@ + held[s])]
    /\ held' = [held EXCEPT ![s] = 0]
    /\ UNCHANGED <<caller, processes, clock, written, pipe, drain>>

DrainEnds(s) ==
    /\ drain[s] = "reading"
    /\ held[s] = 0 /\ Eof(s)
    /\ drain' = [drain EXCEPT ![s] = "ended"]
    /\ UNCHANGED <<caller, processes, clock, written, pipe, held, buf, seen>>

\* A read fails: recorded in self.error.
DrainFails(s) ==
    /\ drain[s] = "reading"
    /\ drain' = [drain EXCEPT ![s] = "failed"]
    /\ UNCHANGED <<caller, processes, clock, written, pipe, held, buf, seen>>

----------------------------------------------------------------------------
(* The clock.                                                              *)

\* The whole budget may go before the deadline of a compile step, which counts
\* from the moment it got the spawn lock.
BudgetRunsOut ==
    /\ pc # "done" /\ ~spent
    /\ phase = "compile"
    /\ spent' = TRUE
    /\ UNCHANGED <<caller, processes, late, written, pipe, drains>>

DeadlinePasses ==
    /\ main = "running" /\ ~late
    /\ late' = TRUE /\ spent' = TRUE
    /\ UNCHANGED <<caller, processes, written, pipe, drains>>

----------------------------------------------------------------------------
(* The caller's thread in _run_step.                                       *)

\* Popen and the threads; or the runtime is not there, or the scratch directory
\* cannot be prepared.
Spawn ==
    /\ pc = "spawn"
    /\ \/ /\ main' = "running"
          /\ drain' = [s \in Streams |-> "reading"]
          /\ pc' = "poll"
          /\ UNCHANGED result
       \/ /\ result' = [NoResult EXCEPT !.kind = "unavailable"]
          /\ pc' = "cleanup"
          /\ UNCHANGED <<main, drain>>
    /\ UNCHANGED <<phase, code, left, clock, timed_out, workdir, written, pipe, held, buf, seen>>

\* The polling loop: an exit is seen first, then the deadline.
Poll ==
    /\ pc = "poll"
    /\ \/ main = "exited" /\ pc' = "reap" /\ UNCHANGED timed_out
       \/ main = "running" /\ late /\ pc' = "kill" /\ timed_out' = TRUE
    /\ UNCHANGED <<phase, result, workdir, processes, clock, written, pipe, drains>>

\* _kill_group: SIGTERM to the group, SIGKILL if the program is still there
\* after 3 s; the process left behind may ignore SIGTERM.
Kill ==
    /\ pc = "kill"
    /\ main' = "exited"
    /\ code' = 1
    /\ left' \in IF left = "group" THEN {"group", "dead"} ELSE {left}
    /\ pc' = "reap"
    /\ UNCHANGED <<phase, timed_out, result, workdir, clock, written, pipe, drains>>

\* Mutant: nothing is reaped after a normal exit.
ReapMutant ==
    /\ pc = "reap"
    /\ left' = IF left = "group" /\ timed_out THEN "dead" ELSE left
    /\ pc' = "join_out"
    /\ UNCHANGED <<phase, timed_out, result, workdir, main, code, clock, written, pipe, drains>>

\* _reap_group: SIGKILL to whatever is left in the group.
Reap ==
    /\ pc = "reap"
    /\ left' = IF left = "group" THEN "dead" ELSE left
    /\ pc' = "join_out"
    /\ UNCHANGED <<phase, timed_out, result, workdir, main, code, clock, written, pipe, drains>>

\* Mutant: join() without a time-out.
JoinMutant(s, next) ==
    /\ drain[s] # "reading"
    /\ pc' = next
    /\ UNCHANGED <<phase, timed_out, result, workdir, processes, clock, written, pipe, drains>>

\* join(timeout=5): a drain that is not kept waiting is done by then.
Join(s, next) ==
    /\ drain[s] # "reading" \/ Live
    /\ pc' = next
    /\ UNCHANGED <<phase, timed_out, result, workdir, processes, clock, written, pipe, drains>>

JoinOut == pc = "join_out" /\ Join("out", "join_err")
JoinErr == pc = "join_err" /\ Join("err", "collect")

----------------------------------------------------------------------------
(* What _execute_python makes of a step.                                   *)

\* Mutant: the count of a drain that still reads is taken for the total.
BytesMutant(s) == IF drain[s] = "failed" THEN -1 ELSE seen[s]

\* _seen_of
Bytes(s) == IF drain[s] = "ended" THEN seen[s] ELSE -1

\* Results over the captured buffers; those of a step that timed out are
\* dropped.
Report(kind, good) ==
    LET data == [s \in Streams |-> IF timed_out THEN 0 ELSE buf[s]]
        keep == [out |-> OutKeep(Cap, data["out"], data["err"]),
                 err |-> ErrKeep(Cap, data["out"], data["err"])]
    IN  \E out \in CutUtf8(data["out"], keep.out, CutBack),
           err \in CutUtf8(data["err"], keep.err, CutBack) :
            result' = [kind |-> kind, ok |-> good, timed_out |-> timed_out,
                       truncated |-> Truncated(Cap, data["out"], data["err"]),
                       kept |-> [s \in Streams |-> IF s = "out" THEN out ELSE err],
                       bytes |-> [s \in Streams |-> Bytes(s)]]

\* A failed compile step ends the call.
CompileFails ==
    /\ pc = "collect" /\ phase = "compile"
    /\ timed_out \/ code # 0
    /\ Report("compile", FALSE)
    /\ pc' = "cleanup"
    /\ UNCHANGED <<phase, timed_out, workdir, processes, clock, written, pipe, drains>>

\* _fallback_budget_exhausted: the run step is not started.
BudgetExhausted ==
    /\ pc = "collect" /\ phase = "compile"
    /\ ~timed_out /\ code = 0 /\ spent
    /\ result' = [NoResult EXCEPT !.kind = "exhausted", !.timed_out = TRUE]
    /\ pc' = "cleanup"
    /\ UNCHANGED <<phase, timed_out, workdir, processes, clock, written, pipe, drains>>

\* The run step starts with what is left of the budget.
CompileSucceeds ==
    /\ pc = "collect" /\ phase = "compile"
    /\ ~timed_out /\ code = 0 /\ ~spent
    /\ phase' = "run"
    /\ pc' = "spawn"
    /\ main' = "none" /\ code' = 0 /\ left' = "none" /\ late' = FALSE
    /\ written' = Zero /\ pipe' = Zero /\ held' = Zero /\ buf' = Zero /\ seen' = Zero
    /\ drain' = [s \in Streams |-> "none"]
    /\ UNCHANGED <<timed_out, spent, result, workdir>>

RunReturns ==
    /\ pc = "collect" /\ phase = "run"
    /\ Report("run", ~timed_out /\ code = 0 /\ \A s \in Streams : drain[s] # "failed")
    /\ pc' = "cleanup"
    /\ UNCHANGED <<phase, timed_out, workdir, processes, clock, written, pipe, drains>>

----------------------------------------------------------------------------
(* The finally clause: _rmtree_checked.                                    *)

\* Mutant: the identity of the directory is not compared.
CleanupMutant ==
    /\ pc = "cleanup"
    /\ place' \in {"own", "caller", "other", "none"}
    /\ pc' = IF place' \in {"own", "other"} THEN "remove" ELSE "done"
    /\ UNCHANGED <<phase, timed_out, result, removed, processes, clock, written, pipe, drains>>

\* A directory of the caller's is kept.  At the path of its own the call finds
\* the directory it made, another one or nothing: the program may have moved
\* things about.
Cleanup ==
    /\ pc = "cleanup"
    /\ place' \in {"own", "caller", "other", "none"}
    /\ pc' = IF place' = "own" THEN "remove" ELSE "done"
    /\ UNCHANGED <<phase, timed_out, result, removed, processes, clock, written, pipe, drains>>

\* rmtree(ignore_errors=True), of what is there by now.
Remove ==
    /\ pc = "remove"
    /\ place' \in IF Live THEN {"own", "other", "none"} ELSE {place}
    /\ removed' \in {"none", place'}
    /\ pc' = "done"
    /\ UNCHANGED <<phase, timed_out, result, processes, clock, written, pipe, drains>>

----------------------------------------------------------------------------
Program == Fork \/ Exit \/ LeftExits \/ \E s \in Streams : Write(s)
DrainStep(s) == Pull(s) \/ Deliver(s) \/ DrainEnds(s)
CallerStep ==
    \/ Spawn \/ Poll \/ Kill \/ Reap \/ JoinOut \/ JoinErr
    \/ CompileFails \/ BudgetExhausted \/ CompileSucceeds \/ RunReturns
    \/ Cleanup \/ Remove

Next ==
    \/ Program
    \/ \E s \in Streams : DrainStep(s) \/ DrainFails(s)
    \/ BudgetRunsOut \/ DeadlinePasses
    \/ CallerStep

Spec == Init /\ [][Next]_vars

\* Threads that can go on do, and time passes; the program may hang and a
\* process left behind may live for ever.
FairSpec ==
    /\ Spec
    /\ WF_vars(CallerStep)
    /\ WF_vars(DeadlinePasses)
    /\ \A s \in Streams : WF_vars(DrainStep(s))

----------------------------------------------------------------------------
(* Properties.                                                             *)

\* No process left the group of the step.
Grouped == left \notin {"escaped", "gone"}

Total == written["out"] + written["err"]

\* A byte count is the number of bytes the step wrote, or None: never that of
\* a read that was still going on or had failed.
CountsAreExact ==
    result.kind \in {"compile", "run"} =>
        \A s \in Streams : result.bytes[s] \in {-1, written[s]}

\* A successful run whose processes stayed in their group is reported whole,
\* or as truncated when and because it wrote more than the cap, whatever it
\* left running in the background when it exited.
OutputIsWhole ==
    result.kind = "run" /\ result.ok /\ Grouped =>
        /\ result.truncated <=> Total > Cap
        /\ ~result.truncated => \A s \in Streams : result.kept[s] = written[s]

\* A flood on one stream does not push the other out, and the two stay within
\* the cap; a character cut in two costs at most CutBack bytes.
BudgetIsShared ==
    result.kind = "run" /\ result.ok /\ Grouped =>
        /\ result.kept["out"] + result.kept["err"] <= Cap
        /\ \A s \in Streams : result.kept[s] >= Least(written[s], Cap \div 2) - CutBack

\* Nothing of the group survives a step, after a time-out or a normal exit.
GroupIsGone ==
    pc \in {"join_out", "join_err", "collect", "cleanup", "remove", "done"} =>
        left # "group"

\* The call deletes no directory but the one it made, wherever the program put
\* that and whatever it put in its place, once nothing of the program is left.
OnlyOwnRemoved == Grouped => removed \in {"own", "none"}

\* The call returns, although the program hangs, floods its pipes or leaves a
\* process behind that keeps them open.
CallReturns == <>(pc = "done")

=============================================================================
