--------------------------- MODULE WorkerProtocol ---------------------------
(***************************************************************************)
(* The REPL worker of a session: class Worker and _spawn_worker of         *)
(* codecalc/sessions.py, _kill_group of codecalc/executor.py and the       *)
(* request loop of codecalc/_worker_bootstrap.py (the node bootstrap has   *)
(* the same loop).                                                         *)
(*                                                                         *)
(* The calls of a session run on threads of their own and share one        *)
(* worker: run() writes a numbered request and waits for one line, under   *)
(* _wlock.  The line is read by a thread that run() starts and that stays  *)
(* behind, parked in readline(), when the call times out.  Code that runs  *)
(* in the session may never end, may end the worker, may write lines of    *)
(* its own to the protocol channel and may fork a process, which then      *)
(* holds every pipe of the worker.  close() is called by the call that     *)
(* loses its answer and, at any time, by stop(), the idle reap or a        *)
(* restore.                                                                *)
(*                                                                         *)
(* Abstracted: code and output (an answer is the number it echoes) and the *)
(* length of time-outs (a wait may time out at any moment).  Of the size   *)
(* of a request is kept whether the pipe has room for it.  A line that     *)
(* session code writes does not carry the number of a later request.       *)
(***************************************************************************)
EXTENDS Integers, Sequences, FiniteSets

CONSTANTS
    Starter,    \* the thread in _spawn_worker, which makes the warm-up call
    Callers,    \* threads that call run() once the session is published
    Closers,    \* threads that call close(): stop(), a reap, a restore
    NoThread,   \* nobody holds _wlock
    MaxCalls,   \* bound: calls of run(), the warm-up included
    Junk,       \* lines session code may write: blank, text, value
    MaxJunk,    \* bound: how many of them
    Kids,       \* processes session code may fork: plain, stubborn
    MaxFaults   \* bound: how often no reader thread can be started

ASSUME WorkerProtocolAssumption ==
    /\ MaxCalls \in Nat \ {0} /\ MaxJunk \in Nat /\ MaxFaults \in Nat
    /\ Junk \subseteq {"blank", "text", "value"}
    /\ Kids \subseteq {"plain", "stubborn"}
    /\ Starter \notin Callers \cup Closers /\ Callers \cap Closers = {}
    /\ NoThread \notin {Starter} \cup Callers \cup Closers

Ids == 1 .. MaxCalls
Runners == {Starter} \cup Callers
Threads == Runners \cup Closers
Lost == -1  \* the call returned an error and not its answer

VARIABLES
    route,     \* where answers arrive: a pipe, or a file behind a _TailReader
    phase,     \* starting; then published, or refused with no worker
    proc,      \* the worker process: up, zombie (not yet waited for), reaped
    kid,       \* the process session code forked: none, plain, stubborn
    requests,  \* numbers of the requests in the worker's stdin
    serving,   \* the request it executes, 0 for none
    lines,     \* lines in the protocol channel
    seq,       \* _seq
    wlock,     \* the holder of _wlock
    closed,    \* _closed
    streams,   \* the parent's ends of the pipes: open, closed
    readers,   \* requests whose reader thread is in readline()
    thread,    \* what each thread does: its program counter, its request
    outcome,   \* history: the answer each request got, 0 for none yet, or Lost
    counts     \* calls, junk lines and faults so far

worker == <<proc, kid, requests, serving>>
parent == <<seq, wlock, closed, streams, readers>>
vars == <<route, phase, worker, lines, parent, thread, outcome, counts>>

Pcs == {"idle", "lock", "write", "push", "read", "claim", "kill", "streams", "over"}
Lines == [kind : {"answer", "blank", "text", "value"}, id : 0 .. MaxCalls]

TypeOK ==
    /\ route \in {"pipe", "file"}
    /\ phase \in {"starting", "published", "refused"}
    /\ proc \in {"up", "zombie", "reaped"}
    /\ kid \in {"none", "plain", "stubborn"}
    /\ requests \in Seq(Ids) /\ serving \in 0 .. MaxCalls
    /\ lines \in Seq(Lines)
    /\ seq \in 0 .. MaxCalls
    /\ wlock \in Runners \cup {NoThread}
    /\ closed \in BOOLEAN /\ streams \in {"open", "closed"}
    /\ readers \subseteq Ids
    /\ thread \in [Threads -> [pc : Pcs, id : 0 .. MaxCalls]]
    /\ outcome \in [Ids -> {Lost, 0} \cup Ids]
    /\ counts \in [calls : 0 .. MaxCalls, junk : 0 .. MaxJunk, faults : 0 .. MaxFaults]

Init ==
    /\ route \in {"pipe", "file"}
    /\ phase = "starting"
    /\ proc = "up" /\ kid = "none" /\ requests = <<>> /\ serving = 0
    /\ lines = <<>>
    /\ seq = 0 /\ wlock = NoThread /\ closed = FALSE /\ streams = "open"
    /\ readers = {}
    /\ thread = [t \in Threads |-> [pc |-> "idle", id |-> 0]]
    /\ outcome = [i \in Ids |-> 0]
    /\ counts = [calls |-> 0, junk |-> 0, faults |-> 0]

-----------------------------------------------------------------------------
(* Helpers.                                                                *)

At(t, pc) == thread[t].pc = pc
Goto(t, pc) == thread' = [thread EXCEPT ![t].pc = pc]
Line(kind, id) == [kind |-> kind, id |-> id]

\* Somebody has the worker's ends of its pipes open.
Held == proc = "up" \/ kid # "none"

\* The worker waits for a request.
Reads == proc = "up" /\ serving = 0 /\ requests = <<>>

\* The thread is about to write its request, which the pipe has room for
\* ("write") or not ("push").
Sending(t) == thread[t].pc \in {"write", "push"}

\* run() returns with the outcome of the request of t, and _wlock is free.
\* _spawn_worker publishes a worker that answered the warm-up call and
\* closes any other; the callers of run() pass errors on.
Return(t, result) ==
    /\ outcome' = IF thread[t].id = 0 THEN outcome ELSE [outcome EXCEPT ![thread[t].id] = result]
    /\ wlock' = IF wlock = t THEN NoThread ELSE wlock
    /\ thread' = [thread EXCEPT ![t] =
                     [pc |-> IF t # Starter THEN "idle" ELSE IF result = Lost THEN "claim" ELSE "over",
                      id |-> 0]]
    /\ phase' = IF t = Starter /\ result # Lost THEN "published" ELSE phase

-----------------------------------------------------------------------------
(* run().                                                                  *)

\* alive() is asked before the lock is taken; poll() reaps a dead worker.
Begin(t) ==
    /\ At(t, "idle")
    /\ t = Starter \/ phase = "published"
    /\ counts.calls < MaxCalls
    /\ counts' = [counts EXCEPT !.calls = @ + 1]
    /\ \/ /\ proc = "up"
          /\ Goto(t, "lock")
          /\ UNCHANGED <<phase, proc, wlock, outcome>>
       \/ /\ proc # "up"
          /\ proc' = "reaped"
          /\ Return(t, Lost)
    /\ UNCHANGED <<route, kid, requests, serving, lines, seq, closed, streams, readers>>

Lock(t) ==
    /\ At(t, "lock") /\ wlock = NoThread
    /\ wlock' = t
    /\ seq' = seq + 1
    /\ \E pc \in IF t = Starter THEN {"write"} ELSE {"write", "push"} :
          thread' = [thread EXCEPT ![t] = [pc |-> pc, id |-> seq + 1]]
    /\ UNCHANGED <<route, phase, worker, lines, closed, streams, readers, outcome, counts>>

\* The write comes to its end: at once where the pipe has room, and only as
\* the worker reads where it has not.  It has no time-out.
Written(t) ==
    /\ Sending(t) /\ streams = "open" /\ Held
    /\ At(t, "push") => Reads

\* The request is in the pipe and a reader thread waits for one line.
Write(t) ==
    /\ Written(t)
    /\ requests' = Append(requests, thread[t].id)
    /\ readers' = readers \cup {thread[t].id}
    /\ Goto(t, "read")
    /\ UNCHANGED <<route, phase, proc, kid, serving, lines, seq, wlock, closed, streams,
                   outcome, counts>>

\* No thread can be started: the RuntimeError leaves run(), the request stays.
NoReader(t) ==
    /\ Written(t)
    /\ counts.faults < MaxFaults
    /\ counts' = [counts EXCEPT !.faults = @ + 1]
    /\ requests' = Append(requests, thread[t].id)
    /\ Return(t, Lost)
    /\ UNCHANGED <<route, proc, kid, serving, lines, seq, closed, streams, readers>>

\* Nobody reads the pipe, or close() has closed it.
WriteFails(t) ==
    /\ Sending(t) /\ ~(streams = "open" /\ Held)
    /\ Goto(t, "claim")
    /\ UNCHANGED <<route, phase, worker, lines, parent, outcome, counts>>

\* What the call of t does with the line it waited for: a blank one reads as
\* the end of the file, a JSON value that is no object raises from run(), and
\* neither closes the worker; text and the wrong number do.
TakesMutant(t, line) ==
    IF line.kind = "answer" THEN Return(t, line.id) ELSE Return(t, Lost)
Takes(t, line) ==
    \/ /\ line.kind = "answer" /\ line.id = thread[t].id
       /\ Return(t, line.id)
    \/ /\ line.kind \in {"blank", "value"}
       /\ Return(t, Lost)
    \/ /\ \/ line.kind = "text"
          \/ line.kind = "answer" /\ line.id # thread[t].id
       /\ Goto(t, "claim")
       /\ UNCHANGED <<phase, wlock, outcome>>

\* The threads that wait for the reader of request i: one, or none when the
\* call has timed out, and then the line goes to a queue nobody reads.
Waiting(i) == {t \in Runners : At(t, "read") /\ thread[t].id = i}

ReadLine(i) ==
    /\ i \in readers /\ lines # <<>> /\ streams = "open"
    /\ lines' = Tail(lines)
    /\ readers' = readers \ {i}
    /\ \/ \E t \in Waiting(i) : Takes(t, Head(lines))
       \/ Waiting(i) = {} /\ UNCHANGED <<phase, thread, wlock, outcome>>
    /\ UNCHANGED <<route, worker, seq, closed, streams, counts>>

\* A pipe ends when it is empty and nobody can write to it.  A _TailReader
\* gives up when it saw nothing new and then finds the worker gone, which may
\* have answered in between; its poll() reaps.
EndOfFile(i) ==
    /\ i \in readers
    /\ \/ route = "pipe" /\ lines = <<>> /\ ~Held /\ UNCHANGED proc
       \/ route = "file" /\ proc # "up" /\ proc' = "reaped"
    /\ readers' = readers \ {i}
    /\ \/ \E t \in Waiting(i) : Return(t, Lost)
       \/ Waiting(i) = {} /\ UNCHANGED <<phase, thread, wlock, outcome>>
    /\ UNCHANGED <<route, kid, requests, serving, lines, seq, closed, streams, counts>>

\* Queue.get() gives up; the reader stays in readline().
TimeOutMutant(t) ==
    /\ At(t, "read")
    /\ Return(t, Lost)
    /\ UNCHANGED <<route, worker, lines, seq, closed, streams, readers, counts>>
TimeOut(t) ==
    /\ At(t, "read")
    /\ Goto(t, "claim")
    /\ UNCHANGED <<route, phase, worker, lines, parent, outcome, counts>>

-----------------------------------------------------------------------------
(* close().                                                                *)

\* stop(), the idle reap or a restore takes the worker of the session.
CloseBegins(t) ==
    /\ At(t, "idle") /\ phase = "published"
    /\ Goto(t, "claim")
    /\ UNCHANGED <<route, phase, worker, lines, parent, outcome, counts>>

\* close() returns to its caller: run() with an error, _spawn_worker without
\* a worker, or the thread that took the worker.
Finish(t) ==
    CASE t \in Closers -> Goto(t, "over") /\ UNCHANGED <<phase, wlock, outcome>>
      [] t = Starter /\ wlock # t -> /\ Goto(t, "over") /\ phase' = "refused"
                                     /\ UNCHANGED <<wlock, outcome>>
      [] OTHER -> Return(t, Lost)

Claim(t) ==
    /\ At(t, "claim")
    /\ IF closed THEN Finish(t) /\ UNCHANGED closed
                 ELSE closed' = TRUE /\ Goto(t, "kill") /\ UNCHANGED <<phase, wlock, outcome>>
    /\ UNCHANGED <<route, worker, lines, seq, streams, readers, counts>>

\* What is left of the forked process.  SIGTERM goes to the whole group and
\* the function returns as soon as the worker itself is gone; SIGKILL follows
\* only when the worker outlives SIGTERM by 3 s, or had been reaped before.
SurvivorsMutant == {kid}
Survivors ==
    {"none"} \cup IF kid = "stubborn" /\ proc # "reaped" THEN {"stubborn"} ELSE {}

Kill(t) ==
    /\ At(t, "kill")
    /\ kid' \in Survivors
    /\ kid = "stubborn" /\ proc = "zombie" => kid' = kid
    /\ proc' = "reaped"
    /\ serving' = 0
    /\ Goto(t, "streams")
    /\ UNCHANGED <<route, phase, requests, lines, parent, outcome, counts>>

\* Closing a buffered stream waits for the thread that is reading it: the
\* thread that drains stderr, and a parked reader of the protocol pipe.
\* They return when nobody holds the other end any more.
CloseStreams(t) ==
    /\ At(t, "streams")
    /\ ~Held
    /\ route = "pipe" => readers = {}
    /\ streams' = "closed"
    /\ Finish(t)
    /\ UNCHANGED <<route, worker, lines, seq, closed, readers, counts>>

-----------------------------------------------------------------------------
(* The worker and what runs in it.                                         *)

Accept ==
    /\ proc = "up" /\ serving = 0 /\ requests # <<>>
    /\ serving' = Head(requests)
    /\ requests' = Tail(requests)
    /\ UNCHANGED <<route, phase, proc, kid, lines, parent, thread, outcome, counts>>

\* _respond() echoes the number of the request.
Answer ==
    /\ serving # 0
    /\ lines' = Append(lines, Line("answer", serving))
    /\ serving' = 0
    /\ UNCHANGED <<route, phase, proc, kid, requests, parent, thread, outcome, counts>>

WriteJunk(kind) ==
    /\ proc = "up" /\ phase = "published" /\ counts.junk < MaxJunk
    /\ lines' = Append(lines, Line(kind, 0))
    /\ counts' = [counts EXCEPT !.junk = @ + 1]
    /\ UNCHANGED <<route, phase, worker, parent, thread, outcome>>

\* The warm-up call runs no code, every later one may fork.
Fork(kind) ==
    /\ serving > 1 /\ kid = "none"
    /\ kid' = kind
    /\ UNCHANGED <<route, phase, proc, requests, serving, lines, parent, thread, outcome, counts>>

KidExits ==
    /\ kid # "none"
    /\ kid' = "none"
    /\ UNCHANGED <<route, phase, proc, requests, serving, lines, parent, thread, outcome, counts>>

WorkerExits ==
    /\ proc = "up"
    /\ proc' = "zombie" /\ serving' = 0
    /\ UNCHANGED <<route, phase, kid, requests, lines, parent, thread, outcome, counts>>

-----------------------------------------------------------------------------
CloseStep(t) == Claim(t) \/ Kill(t) \/ CloseStreams(t)
RunStep(t) == Lock(t) \/ Write(t) \/ NoReader(t) \/ WriteFails(t) \/ TimeOut(t)
ReaderStep(i) == ReadLine(i) \/ EndOfFile(i)
SessionCode ==
    \/ Answer \/ KidExits \/ WorkerExits
    \/ \E kind \in Junk : WriteJunk(kind)
    \/ \E kind \in Kids : Fork(kind)

Next ==
    \/ \E t \in Runners : Begin(t) \/ RunStep(t)
    \/ \E t \in Closers : CloseBegins(t)
    \/ \E t \in Threads : CloseStep(t)
    \/ \E i \in Ids : ReaderStep(i)
    \/ Accept \/ SessionCode

\* The threads of the server keep running and every wait of run() has a
\* time-out; nothing is assumed of the code that runs in the session.
Fairness ==
    /\ WF_vars(Begin(Starter))
    /\ \A t \in Runners : WF_vars(RunStep(t))
    /\ \A t \in Threads : WF_vars(CloseStep(t))
    /\ \A i \in Ids : WF_vars(ReaderStep(i))

Spec == Init /\ [][Next]_vars /\ Fairness

-----------------------------------------------------------------------------
(* Properties.                                                             *)

\* A call that returns an answer returns the answer to its own request,
\* whatever earlier calls, late answers and parked readers left behind
\* (Worker.run, the check of the echoed number).
AnswersOwn == \A i \in Ids : outcome[i] \in {Lost, 0, i}

\* Once a call has lost its answer no later call gets one: the worker is dead
\* or every answer is off by one and refused.  Only while another thread is in
\* close() may a later call still be answered (Worker.run, every error path).
LostMeansOver ==
    \A i, j \in Ids : i < j /\ outcome[i] = Lost /\ outcome[j] > 0 =>
        \E t \in Closers : ~At(t, "idle")

\* When close() goes on to close the pipes, the worker has been waited for, and
\* of what it started in its process group only a process that ignores SIGTERM
\* can be left, which close() then does not kill (Worker.close, _kill_group).  A
\* worker that _spawn_worker refuses leaves no process and no open pipe to a
\* session that does not exist.
GroupGone ==
    /\ \A t \in Threads : At(t, "streams") => proc = "reaped" /\ kid \in {"none", "stubborn"}
    /\ phase = "refused" => ~Held /\ streams = "closed"

\* The two waits that have no time-out: close() waits for the pipes that a
\* process ignoring SIGTERM still holds, and run() writes a request larger than
\* the pipe to a worker that does not read, or to a process it left behind.
WaitsForCode ==
    \/ \E t \in Threads : At(t, "streams") /\ kid = "stubborn"
    \/ \E t \in Runners : At(t, "push") /\ Held /\ ~Reads

\* Unless one of these two waits lasts for ever, every call of run() and of
\* close() returns, whatever else the session's code does (the time-out of
\* _readline_timeout, the order of steps in close).
CallsReturn ==
    []<>~WaitsForCode =>
        \A t \in Threads : ~At(t, "idle") ~> thread[t].pc \in {"idle", "over"}

=============================================================================
