---------------------------- MODULE GuardedCalls ----------------------------
(***************************************************************************)
(* Evaluations in forked children (codecalc/guarded.py).  Each caller is a *)
(* thread of the server: it makes a pipe, forks under _FORK_LOCK, closes   *)
(* its own copy of the write end and reads until end of file or until the  *)
(* wall clock runs out.  A child is a copy of the whole process, so it has *)
(* every write end that any thread holds at the moment of the fork.        *)
(*                                                                         *)
(* Left out: what is evaluated and how a failure is worded, and the        *)
(* in-process path of a host that cannot fork.                             *)
(***************************************************************************)
EXTENDS Naturals

CONSTANTS
    Callers,   \* threads that evaluate an expression
    Nobody     \* nobody holds _FORK_LOCK

VARIABLES
    pc,        \* where each caller is in run_guarded
    forkLock,  \* _FORK_LOCK
    held,      \* the write ends the server has open, by caller
    child,     \* each caller's child: "none", "busy", "done", "silent" or "reaped"
    inherits,  \* the write ends each child has
    sent,      \* the payload the child wrote to its pipe: "nothing" or "payload"
    got,       \* what the caller has read so far
    result     \* what run_guarded returned

vars == <<pc, forkLock, held, child, inherits, sent, got, result>>

TypeOK ==
    /\ pc \in [Callers -> {"start", "fork", "close", "read", "kill", "reap", "done"}]
    /\ forkLock \in Callers \cup {Nobody}
    /\ held \subseteq Callers
    /\ child \in [Callers -> {"none", "busy", "done", "silent", "reaped"}]
    /\ inherits \in [Callers -> SUBSET Callers]
    /\ sent \in [Callers -> {"nothing", "payload"}] /\ got \in [Callers -> {"nothing", "payload"}]
    /\ result \in [Callers -> {"none", "timeout", "resource_exhausted", "value"}]

Init ==
    /\ pc = [c \in Callers |-> "start"]
    /\ forkLock = Nobody
    /\ held = {}
    /\ child = [c \in Callers |-> "none"]
    /\ inherits = [c \in Callers |-> {}]
    /\ sent = [c \in Callers |-> "nothing"]
    /\ got = [c \in Callers |-> "nothing"]
    /\ result = [c \in Callers |-> "none"]

Go(c, place) == pc' = [pc EXCEPT ![c] = place]

\* os.pipe(), outside the lock.
MakePipe(c) ==
    /\ pc[c] = "start"
    /\ held' = held \cup {c}
    /\ Go(c, "fork")
    /\ UNCHANGED <<forkLock, child, inherits, sent, got, result>>

AcquireFork(c) ==
    /\ pc[c] = "fork" /\ forkLock = Nobody
    /\ forkLock' = c
    /\ UNCHANGED <<pc, held, child, inherits, sent, got, result>>

\* The child gets all the write ends that are open; the lock is released.
Fork(c) ==
    /\ pc[c] = "fork" /\ forkLock = c
    /\ child' = [child EXCEPT ![c] = "busy"]
    /\ inherits' = [inherits EXCEPT ![c] = held]
    /\ forkLock' = Nobody
    /\ Go(c, "close")
    /\ UNCHANGED <<held, sent, got, result>>

CloseWriteEnd(c) ==
    /\ pc[c] = "close"
    /\ held' = held \ {c}
    /\ Go(c, "read")
    /\ UNCHANGED <<forkLock, child, inherits, sent, got, result>>

\* _child writes its payload and exits, or a resource limit ends it silently.
ChildWrites(c) ==
    /\ child[c] = "busy"
    /\ sent' = [sent EXCEPT ![c] = "payload"]
    /\ child' = [child EXCEPT ![c] = "done"]
    /\ inherits' = [inherits EXCEPT ![c] = {}]
    /\ UNCHANGED <<pc, forkLock, held, got, result>>

ChildKilled(c) ==
    /\ child[c] = "busy"
    /\ child' = [child EXCEPT ![c] = "silent"]
    /\ inherits' = [inherits EXCEPT ![c] = {}]
    /\ UNCHANGED <<pc, forkLock, held, sent, got, result>>

EndOfFile(c) == c \notin held /\ \A d \in Callers : c \notin inherits[d]

\* The read loop: the payload, then the end of file; or the deadline passes.
ReadChunk(c) ==
    /\ pc[c] = "read" /\ sent[c] # got[c]
    /\ got' = [got EXCEPT ![c] = sent[c]]
    /\ UNCHANGED <<pc, forkLock, held, child, inherits, sent, result>>

ReadEnd(c) ==
    /\ pc[c] = "read" /\ sent[c] = got[c] /\ EndOfFile(c)
    /\ result' = [result EXCEPT ![c] = IF got[c] = "payload" THEN "value" ELSE "resource_exhausted"]
    /\ Go(c, "reap")
    /\ UNCHANGED <<forkLock, held, child, inherits, sent, got>>

WallClock(c) ==
    /\ pc[c] = "read" /\ sent[c] = got[c] /\ ~EndOfFile(c)
    /\ result' = [result EXCEPT ![c] = "timeout"]
    /\ Go(c, "kill")
    /\ UNCHANGED <<forkLock, held, child, inherits, sent, got>>

Kill(c) ==
    /\ pc[c] = "kill"
    /\ child' = [child EXCEPT ![c] = IF @ = "busy" THEN "silent" ELSE @]
    /\ inherits' = [inherits EXCEPT ![c] = {}]
    /\ Go(c, "reap")
    /\ UNCHANGED <<forkLock, held, sent, got, result>>

Reap(c) ==
    /\ pc[c] = "reap" /\ child[c] \in {"done", "silent"}
    /\ child' = [child EXCEPT ![c] = "reaped"]
    /\ Go(c, "done")
    /\ UNCHANGED <<forkLock, held, inherits, sent, got, result>>

Next ==
    \E c \in Callers :
        \/ MakePipe(c) \/ AcquireFork(c) \/ Fork(c) \/ CloseWriteEnd(c)
        \/ ChildWrites(c) \/ ChildKilled(c)
        \/ ReadChunk(c) \/ ReadEnd(c) \/ WallClock(c) \/ Kill(c) \/ Reap(c)

Spec == Init /\ [][Next]_vars

-----------------------------------------------------------------------------
\* "The fork is serialised under `_FORK_LOCK` so this module never races
\* itself": an evaluation is not reported as timed out after its child has
\* answered and the answer has been read.
NeverRacesItself == \A c \in Callers : result[c] = "timeout" => got[c] = "nothing"
=============================================================================
